----------------------------- MODULE ConcreteAgent -----------------------------
(***************************************************************************)
(* The registry of plugins (concrete-agent.cpp): the built-in plugin       *)
(* registers first, then the libraries of the plugins' directory are       *)
(* loaded, and each time streaming starts GetBestFrameCapture asks the     *)
(* registered plugins, best rank first, for a capture.                     *)
(*                                                                         *)
(* What a library or a plugin answers is external, and may change from one *)
(* call to the next.  The directory's order and the order of registration  *)
(* do not matter: the plugins are sorted by rank, and by address where the *)
(* rank is the same, so that plugins is a set here and ties are open.      *)
(***************************************************************************)
EXTENDS Naturals

CONSTANTS
  Libraries,  (* the files of the plugins' directory                       *)
  Agent,      (* where the code of the built-in plugin is                  *)
  Codecs,
  Mjpeg,      (* the codec of the built-in plugin                          *)
  Ranks,      (* the ranks plugins have                                    *)
  Versions,   (* the interface versions libraries have, 0xMMmm             *)
  None        (* no plugin                                                 *)

PluginVersion == 257   (* 0x101 *)
DontUse       == 0
FallBackMin   == 1

ASSUME PluginAssumption ==
  /\ Agent \notin Libraries
  /\ Mjpeg \in Codecs
  /\ {DontUse, FallBackMin} \subseteq Ranks /\ Ranks \subseteq Nat
  /\ Versions \subseteq Nat

(* A library may register one plugin for each codec. *)
Plugins == [lib : Libraries \cup {Agent}, codec : Codecs]
Builtin == [lib |-> Agent, codec |-> Mjpeg]

ASSUME NoneAssumption == None \notin Plugins

VARIABLES
  pc,       (* "load", "idle", "sort", "try", "got", or how the agent ended *)
  files,    (* what LoadPlugins has not come to                            *)
  version,  (* the interface version of each library that was initialised  *)
  mapped,   (* the libraries whose code is in memory                       *)
  plugins,  (* the registered plugins                                      *)
  wanted,   (* the client's codecs, of this call of GetBestFrameCapture    *)
  ranks,    (* the rank each plugin gave in this call                      *)
  queue,    (* the sorted plugins the loop has not come to                 *)
  best,     (* the plugin whose capture is in use, or None                 *)
  failed,   (* history: plugins without a capture in this call             *)
  faulty    (* history: libraries that registered a plugin, then failed    *)

registry == <<files, version, mapped, plugins, faulty>>
call     == <<wanted, ranks, queue, best, failed>>
vars     == <<pc, registry, call>>

MajorVersion(v) == v \div 256
MinorVersion(v) == v % 256

(* Mutant: a newer minor version is accepted. *)
PluginVersionIsCompatible_MajorOnly(v) == MajorVersion(PluginVersion) = MajorVersion(v)

PluginVersionIsCompatible(v) ==
  /\ MajorVersion(PluginVersion) = MajorVersion(v)
  /\ MinorVersion(PluginVersion) >= MinorVersion(v)

-----------------------------------------------------------------------------
Init ==
  /\ pc = "load"
  /\ files = Libraries
  /\ version = [l \in Libraries |-> 0]
  /\ mapped = {Agent}
  /\ plugins = {Builtin}
  /\ wanted = {} /\ ranks = [p \in {} |-> 0] /\ queue = {} /\ best = None
  /\ failed = {} /\ faulty = {}

(* dlopen or dlsym fails, or the version is not accepted: dlclose. *)
RejectLibrary(l) ==
  /\ pc = "load" /\ l \in files
  /\ files' = files \ {l}
  /\ UNCHANGED <<pc, version, mapped, plugins, faulty, call>>

(* The entry point of l, of version v, registers the plugins ps. *)
Initialise(l, v, ps) ==
  /\ pc = "load" /\ l \in files
  /\ PluginVersionIsCompatible(v)
  /\ files' = files \ {l}
  /\ version' = [version EXCEPT ![l] = v]
  /\ plugins' = plugins \cup ps

(* Mutant: the handle is closed once it is not needed any more. *)
InitSucceeds_Close(l, v, ps) ==
  /\ Initialise(l, v, ps)
  /\ UNCHANGED <<pc, mapped, faulty, call>>

InitSucceeds(l, v, ps) ==
  /\ Initialise(l, v, ps)
  /\ mapped' = mapped \cup {l}
  /\ UNCHANGED <<pc, faulty, call>>

(* There is no entry point, or it returns false or raises a runtime_error: *)
(* dlclose, which takes the code away unless something else holds it.      *)
InitFails(l, v, ps) ==
  /\ Initialise(l, v, ps)
  /\ mapped' \in {mapped, mapped \cup {l}}
  /\ faulty' = IF ps # {} THEN faulty \cup {l} ELSE faulty
  /\ UNCHANGED <<pc, call>>

(* Any other exception reaches main: EXIT_FAILURE, and no dlclose. *)
InitEscapes(l, v, ps) ==
  /\ Initialise(l, v, ps)
  /\ mapped' = mapped \cup {l}
  /\ pc' = "exception"
  /\ UNCHANGED <<faulty, call>>

(* LoadPlugins returns at the end of the list, or glob failed. *)
Loaded ==
  /\ pc = "load"
  /\ files \in {{}, Libraries}
  /\ pc' = "idle"
  /\ files' = {}
  /\ UNCHANGED <<version, mapped, plugins, faulty, call>>

-----------------------------------------------------------------------------
(* GetBestFrameCapture. *)

GetBestFrameCapture(codecs) ==
  /\ pc \in {"idle", "got"}
  /\ pc' = "sort"
  /\ wanted' = codecs
  /\ ranks' = [p \in {} |-> 0] /\ queue' = {} /\ best' = None /\ failed' = {}
  /\ UNCHANGED registry

CodeIn(p) == p.lib \in mapped

(* Rank() of a plugin whose code is gone. *)
RankOfUnmapped ==
  /\ pc = "sort"
  /\ \E p \in plugins : ~CodeIn(p)
  /\ pc' = "undefined"
  /\ UNCHANGED <<registry, call>>

SortPlugins ==
  /\ pc = "sort"
  /\ \A p \in plugins : CodeIn(p)
  /\ ranks' \in [plugins -> Ranks] /\ ranks'[Builtin] = FallBackMin
  /\ queue' = plugins
  /\ pc' = "try"
  /\ UNCHANGED <<registry, wanted, best, failed>>

(* Mutant: the ranks are sorted in ascending order. *)
First_Ascending(p) ==
  p \in queue /\ \A q \in queue : ranks[p] <= ranks[q]

(* The next plugin of the sorted list. *)
First(p) ==
  p \in queue /\ \A q \in queue : ranks[q] <= ranks[p]

Usable(p) == ranks[p] # DontUse /\ p.codec \in wanted

SkipCodec(p) ==
  /\ pc = "try"
  /\ First(p) /\ ranks[p] # DontUse
  /\ p.codec \notin wanted
  /\ queue' = queue \ {p}
  /\ UNCHANGED <<pc, registry, wanted, ranks, best, failed>>

(* Mutant: the exception is not caught. *)
CreateFails_Throw(p) ==
  /\ pc = "try"
  /\ First(p) /\ Usable(p)
  /\ queue' = queue \ {p}
  /\ failed' = failed \cup {p}
  /\ pc' \in {"try", "none"}
  /\ UNCHANGED <<registry, wanted, ranks, best>>

(* CreateCapture raises an exception or returns null. *)
CreateFails(p) ==
  /\ pc = "try"
  /\ First(p) /\ Usable(p)
  /\ queue' = queue \ {p}
  /\ failed' = failed \cup {p}
  /\ UNCHANGED <<pc, registry, wanted, ranks, best>>

CreateSucceeds(p) ==
  /\ pc = "try"
  /\ First(p) /\ Usable(p)
  /\ best' = p
  /\ pc' = "got"
  /\ UNCHANGED <<registry, wanted, ranks, queue, failed>>

(* null: do_capture raises an exception, and the agent ends. *)
GiveUp ==
  /\ pc = "try"
  /\ queue = {} \/ \E p \in queue : First(p) /\ ranks[p] = DontUse
  /\ pc' = "none"
  /\ UNCHANGED <<registry, call>>

-----------------------------------------------------------------------------
LoadNext ==
  \/ Loaded
  \/ \E l \in Libraries :
       \/ RejectLibrary(l)
       \/ \E v \in Versions, ps \in SUBSET [lib : {l}, codec : Codecs] :
            InitSucceeds(l, v, ps) \/ InitFails(l, v, ps) \/ InitEscapes(l, v, ps)

BestNext ==
  \/ \E codecs \in SUBSET Codecs : GetBestFrameCapture(codecs)
  \/ SortPlugins \/ RankOfUnmapped \/ GiveUp
  \/ \E p \in plugins : SkipCodec(p) \/ CreateFails(p) \/ CreateSucceeds(p)

Next == LoadNext \/ BestNext

Spec == Init /\ [][Next]_vars

-----------------------------------------------------------------------------
(* Every variable has its type, and no plugin in the registry was built    *)
(* for an interface the agent does not have: later, or of another major.   *)
TypeOK ==
  /\ pc \in {"load", "idle", "sort", "try", "got", "none", "undefined", "exception"}
  /\ files \subseteq Libraries
  /\ version \in [Libraries -> Versions \cup {0}]
  /\ mapped \subseteq Libraries \cup {Agent} /\ Agent \in mapped
  /\ plugins \subseteq Plugins /\ Builtin \in plugins
  /\ \A p \in plugins : p.lib # Agent => version[p.lib] \in 256..PluginVersion
  /\ wanted \subseteq Codecs
  /\ pc \in {"try", "got", "none"} => ranks \in [plugins -> Ranks]
  /\ queue \subseteq plugins
  /\ best \in plugins \cup {None}
  /\ failed \subseteq plugins
  /\ faulty \subseteq Libraries

(* The capture in use is the best there is: its plugin may be used, the    *)
(* client knows its codec, and every plugin of a higher rank that also     *)
(* fits was asked in the same call and failed.                             *)
BestAvailable ==
  pc = "got" =>
    /\ best \in plugins /\ Usable(best)
    /\ \A p \in plugins : Usable(p) /\ ranks[p] > ranks[best] => p \in failed

(* "Upon failure in one plugin, try to use another plugin instead of       *)
(* bailing out" (NEWS): the agent gives up only when every plugin that     *)
(* fits was asked and failed.                                              *)
NoBailOut ==
  pc = "none" => \A p \in plugins : Usable(p) => p \in failed

(* The registry never calls a plugin whose library was unloaded, unless    *)
(* the library registered it before its own entry point failed: the        *)
(* registry has no way to take a plugin out again.                         *)
CodeStays == pc = "undefined" => faulty # {}
===============================================================================
