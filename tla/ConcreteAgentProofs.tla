-------------------------- MODULE ConcreteAgentProofs --------------------------
(***************************************************************************)
(* GetBestFrameCapture takes the best plugin there is, for every set of    *)
(* libraries, codecs, ranks and versions.                                  *)
(*                                                                         *)
(* The loop goes through a sorted list: what it has left behind ranks at   *)
(* least as high as what is to come, and was of no use.                    *)
(***************************************************************************)
EXTENDS ConcreteAgent, TLAPS

Finished == plugins \ queue

SortedInv ==
  pc = "try" =>
    /\ \A p \in Finished : Usable(p) => p \in failed
    /\ \A p \in Finished, q \in queue : ranks[p] >= ranks[q]

PluginInv == TypeOK /\ SortedInv /\ BestAvailable /\ NoBailOut

-----------------------------------------------------------------------------
(* The registry starts with the built-in plugin and no call. *)
LEMMA PluginInit == Init => PluginInv
  BY PluginAssumption DEF Init, PluginInv, TypeOK, SortedInv, BestAvailable,
     NoBailOut, Plugins, Builtin

(* An entry point adds plugins of a version that is accepted. *)
LEMMA InitialiseType ==
  ASSUME TypeOK, NEW l \in Libraries, NEW v \in Versions,
         NEW ps \in SUBSET [lib : {l}, codec : Codecs],
         Initialise(l, v, ps)
  PROVE  /\ files' \subseteq Libraries
         /\ version' \in [Libraries -> Versions \cup {0}]
         /\ plugins' \subseteq Plugins /\ Builtin \in plugins'
         /\ plugins \subseteq plugins'
         /\ \A p \in plugins' : p.lib # Agent => version'[p.lib] \in 256..PluginVersion
<1>1. v \in 256..PluginVersion
  <2>1. v \in Nat /\ v \div 256 = 1 /\ v % 256 <= 1
    BY PluginAssumption DEF Initialise, PluginVersionIsCompatible, MajorVersion,
       MinorVersion, PluginVersion
  <2> QED
    BY <2>1 DEF PluginVersion
<1>2. ps \subseteq Plugins /\ \A p \in ps : p.lib = l
  BY DEF Plugins
<1>3. version' \in [Libraries -> Versions \cup {0}]
  BY DEF TypeOK, Initialise
<1>4. \A p \in plugins' : p.lib # Agent => version'[p.lib] \in 256..PluginVersion
  <2> SUFFICES ASSUME NEW p \in plugins', p.lib # Agent
               PROVE  version'[p.lib] \in 256..PluginVersion
    OBVIOUS
  <2>1. p \in Plugins /\ p.lib \in Libraries
    BY <1>2 DEF TypeOK, Initialise, Plugins
  <2>2. CASE p.lib = l
    BY <1>1, <2>1, <2>2 DEF TypeOK, Initialise
  <2>3. CASE p.lib # l
    BY <1>2, <2>1, <2>3 DEF TypeOK, Initialise
  <2> QED
    BY <2>2, <2>3
<1> QED
  BY <1>2, <1>3, <1>4 DEF TypeOK, Initialise

-----------------------------------------------------------------------------
LEMMA LoadKeeps == PluginInv /\ LoadNext => PluginInv'
<1> SUFFICES ASSUME PluginInv, LoadNext PROVE PluginInv'
  OBVIOUS
<1> USE DEF PluginInv, SortedInv, BestAvailable, NoBailOut
<1>1. CASE Loaded
  BY <1>1 DEF Loaded, call, TypeOK
<1>2. CASE \E l \in Libraries : RejectLibrary(l)
  BY <1>2 DEF RejectLibrary, call, TypeOK
<1>3. ASSUME NEW l \in Libraries, NEW v \in Versions,
             NEW ps \in SUBSET [lib : {l}, codec : Codecs],
             InitSucceeds(l, v, ps) \/ InitFails(l, v, ps) \/ InitEscapes(l, v, ps)
      PROVE  PluginInv'
  <2>1. Initialise(l, v, ps) /\ pc = "load" /\ UNCHANGED call
    BY <1>3 DEF InitSucceeds, InitFails, InitEscapes, Initialise
  <2>2. pc' \in {"load", "exception"}
    BY <1>3, <2>1 DEF InitSucceeds, InitFails, InitEscapes
  <2>3. mapped' \subseteq Libraries \cup {Agent} /\ Agent \in mapped'
    BY <1>3 DEF InitSucceeds, InitFails, InitEscapes, TypeOK
  <2>4. faulty' \subseteq Libraries
    BY <1>3 DEF InitSucceeds, InitFails, InitEscapes, TypeOK
  <2>5. TypeOK'
    BY <2>1, <2>2, <2>3, <2>4, InitialiseType DEF TypeOK, call
  <2> QED
    BY <2>2, <2>5
<1> QED
  BY <1>1, <1>2, <1>3 DEF LoadNext

(* A step of the loop past the plugin p. *)
LEMMA PassedOver ==
  ASSUME PluginInv, pc = "try", UNCHANGED <<pc, plugins, wanted, ranks>>,
         NEW p, First(p), queue' = queue \ {p},
         failed \subseteq failed', Usable(p) => p \in failed'
  PROVE  SortedInv'
<1>1. plugins \subseteq plugins' /\ queue \subseteq plugins /\ ranks \in [plugins -> Ranks]
  BY DEF PluginInv, TypeOK
<1>2. \A q \in Finished' : q = p \/ q \in Finished
  BY <1>1 DEF Finished
<1>3. \A q \in plugins : ranks[q] \in Nat
  BY <1>1, PluginAssumption
<1>4. \A q \in Finished' : Usable(q)' => q \in failed'
  BY <1>2 DEF PluginInv, SortedInv, Usable
<1>5. \A q \in Finished', r \in queue' : ranks'[q] >= ranks'[r]
  BY <1>1, <1>2, <1>3 DEF PluginInv, SortedInv, First
<1> QED
  BY <1>4, <1>5 DEF SortedInv

LEMMA BestKeeps == PluginInv /\ BestNext => PluginInv'
<1> SUFFICES ASSUME PluginInv, BestNext PROVE PluginInv'
  OBVIOUS
<1> USE DEF PluginInv
<1>1. ASSUME NEW codecs \in SUBSET Codecs, GetBestFrameCapture(codecs)
      PROVE  PluginInv'
  BY <1>1 DEF GetBestFrameCapture, registry, TypeOK, SortedInv, BestAvailable, NoBailOut
<1>2. CASE SortPlugins
  <2>1. TypeOK'
    BY <1>2 DEF SortPlugins, registry, TypeOK
  <2> QED
    BY <1>2, <2>1 DEF SortPlugins, registry, SortedInv, BestAvailable, NoBailOut, Finished
<1>3. CASE RankOfUnmapped
  BY <1>3 DEF RankOfUnmapped, registry, call, TypeOK, SortedInv, BestAvailable, NoBailOut
<1>4. CASE GiveUp
  <2>1. TypeOK'
    BY <1>4 DEF GiveUp, registry, call, TypeOK
  <2>2. \A p \in plugins : Usable(p) => p \in failed
    <3> SUFFICES ASSUME NEW p \in plugins, Usable(p) PROVE p \in failed
      OBVIOUS
    <3>1. pc = "try" /\ ranks \in [plugins -> Ranks] /\ queue \subseteq plugins
      BY <1>4 DEF GiveUp, TypeOK
    <3>2. ASSUME p \in queue PROVE FALSE
      <4>1. PICK q \in queue : First(q) /\ ranks[q] = 0
        BY <1>4, <3>2 DEF GiveUp, DontUse
      <4>2. ranks[p] <= 0 /\ ranks[p] \in Nat
        BY <3>1, <3>2, <4>1, PluginAssumption DEF First
      <4> QED
        BY <4>2 DEF Usable, DontUse
    <3> QED
      BY <3>1, <3>2 DEF SortedInv, Finished
  <2> QED
    BY <1>4, <2>1, <2>2 DEF GiveUp, registry, call, SortedInv, BestAvailable, NoBailOut, Usable
<1>5. ASSUME NEW p \in plugins, SkipCodec(p)
      PROVE  PluginInv'
  <2>1. TypeOK' /\ BestAvailable' /\ NoBailOut'
    BY <1>5 DEF SkipCodec, registry, TypeOK, BestAvailable, NoBailOut
  <2>2. SortedInv'
    BY <1>5, PassedOver DEF SkipCodec, registry, Usable
  <2> QED
    BY <2>1, <2>2
<1>6. ASSUME NEW p \in plugins, CreateFails(p)
      PROVE  PluginInv'
  <2>1. TypeOK' /\ BestAvailable' /\ NoBailOut'
    BY <1>6 DEF CreateFails, registry, TypeOK, BestAvailable, NoBailOut
  <2>2. SortedInv'
    BY <1>6, PassedOver DEF CreateFails, registry
  <2> QED
    BY <2>1, <2>2
<1>7. ASSUME NEW p \in plugins, CreateSucceeds(p)
      PROVE  PluginInv'
  <2>1. TypeOK'
    BY <1>7 DEF CreateSucceeds, registry, TypeOK
  <2>2. \A q \in plugins : Usable(q) /\ ranks[q] > ranks[p] => q \in failed
    <3> SUFFICES ASSUME NEW q \in plugins, Usable(q), ranks[q] > ranks[p]
                 PROVE  q \in failed
      OBVIOUS
    <3>1. pc = "try" /\ ranks[p] \in Nat /\ ranks[q] \in Nat
      BY <1>7, PluginAssumption DEF CreateSucceeds, TypeOK
    <3>2. q \notin queue
      BY <1>7, <3>1 DEF CreateSucceeds, First
    <3> QED
      BY <3>1, <3>2 DEF SortedInv, Finished
  <2>3. BestAvailable'
    BY <1>7, <2>2 DEF CreateSucceeds, registry, BestAvailable, Usable
  <2> QED
    BY <1>7, <2>1, <2>3 DEF CreateSucceeds, SortedInv, NoBailOut
<1> QED
  BY <1>1, <1>2, <1>3, <1>4, <1>5, <1>6, <1>7 DEF BestNext

LEMMA PluginStep == PluginInv /\ [Next]_vars => PluginInv'
<1>1. PluginInv /\ UNCHANGED vars => PluginInv'
  BY DEF vars, registry, call, PluginInv, TypeOK, SortedInv, BestAvailable, NoBailOut,
     Finished, Usable
<1> QED
  BY <1>1, LoadKeeps, BestKeeps DEF Next

-----------------------------------------------------------------------------
(* The variables keep their types, and no library of an interface version  *)
(* the agent does not have gets a plugin into the registry.                *)
THEOREM PluginTypes == Spec => []TypeOK
<1>1. PluginInv => TypeOK
  BY DEF PluginInv
<1> QED
  BY <1>1, PluginInit, PluginStep, PTL DEF Spec

(* GetBestFrameCapture returns the capture of the best plugin that has one *)
(* for this client, whatever plugins answered before.                      *)
THEOREM TakesTheBest == Spec => []BestAvailable
<1>1. PluginInv => BestAvailable
  BY DEF PluginInv
<1> QED
  BY <1>1, PluginInit, PluginStep, PTL DEF Spec

(* It returns null only when every plugin that fits was asked and failed.  *)
THEOREM TriesAll == Spec => []NoBailOut
<1>1. PluginInv => NoBailOut
  BY DEF PluginInv
<1> QED
  BY <1>1, PluginInit, PluginStep, PTL DEF Spec

-----------------------------------------------------------------------------
(* As long as no entry point failed after it had registered a plugin, the  *)
(* code of all plugins is in memory.                                       *)
Resident ==
  /\ faulty = {} /\ pc # "exception" => \A p \in plugins : CodeIn(p)
  /\ pc = "undefined" => faulty # {}

LEMMA ResidentStep == PluginInv /\ Resident /\ [Next]_vars => Resident'
<1> SUFFICES ASSUME PluginInv, Resident, [Next]_vars PROVE Resident'
  OBVIOUS
<1>1. CASE Loaded \/ \E l \in Libraries : RejectLibrary(l)
  BY <1>1 DEF Loaded, RejectLibrary, call, Resident, CodeIn
<1>2. ASSUME NEW l \in Libraries, NEW v \in Versions,
             NEW ps \in SUBSET [lib : {l}, codec : Codecs],
             InitSucceeds(l, v, ps) \/ InitFails(l, v, ps) \/ InitEscapes(l, v, ps)
      PROVE  Resident'
  <2>1. pc = "load" /\ plugins' = plugins \cup ps /\ \A p \in ps : p.lib = l
    BY <1>2 DEF InitSucceeds, InitFails, InitEscapes, Initialise
  <2>2. CASE InitSucceeds(l, v, ps)
    BY <2>1, <2>2 DEF InitSucceeds, Resident, CodeIn
  <2>3. CASE InitFails(l, v, ps)
    <3>1. CASE ps = {}
      BY <2>1, <2>3, <3>1 DEF InitFails, Resident, CodeIn
    <3>2. CASE ps # {}
      BY <2>1, <2>3, <3>2 DEF InitFails, Resident
    <3> QED
      BY <3>1, <3>2
  <2>4. CASE InitEscapes(l, v, ps)
    BY <2>1, <2>4 DEF InitEscapes, Resident
  <2> QED
    BY <1>2, <2>2, <2>3, <2>4
<1>3. CASE (\E codecs \in SUBSET Codecs : GetBestFrameCapture(codecs)) \/ SortPlugins \/ GiveUp
  BY <1>3 DEF GetBestFrameCapture, SortPlugins, GiveUp, registry, call, Resident, CodeIn
<1>4. CASE RankOfUnmapped
  BY <1>4 DEF RankOfUnmapped, registry, call, Resident, CodeIn
<1>5. ASSUME NEW p \in plugins, SkipCodec(p) \/ CreateFails(p) \/ CreateSucceeds(p)
      PROVE  Resident'
  BY <1>5 DEF SkipCodec, CreateFails, CreateSucceeds, registry, Resident, CodeIn
<1>6. CASE UNCHANGED vars
  BY <1>6 DEF vars, registry, call, Resident, CodeIn
<1> QED
  BY <1>1, <1>2, <1>3, <1>4, <1>5, <1>6 DEF Next, LoadNext, BestNext

(* The registry calls no plugin whose library was unloaded, unless that    *)
(* library registered it and failed.                                       *)
THEOREM CodeIsThere == Spec => []CodeStays
<1>1. Init => Resident
  BY DEF Init, Resident, CodeIn, Builtin
<1>2. Resident => CodeStays
  BY DEF Resident, CodeStays
<1> QED
  BY <1>1, <1>2, PluginInit, PluginStep, ResidentStep, PTL DEF Spec
===============================================================================
