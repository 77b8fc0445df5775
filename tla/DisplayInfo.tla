------------------------------ MODULE DisplayInfo ------------------------------
(***************************************************************************)
(* Which device shows which X output (x11-display-info.cpp,                *)
(* display-info.cpp, and get_device_display_info of the captures).         *)
(*                                                                         *)
(* The outputs of the DRM cards are matched with those of the X server by  *)
(* name.  The QXL driver counts its outputs from Virtual-0 or from         *)
(* Virtual-1, and X counts them from Virtual-0.  When anything fails, the  *)
(* first card that lists no outputs is taken.                              *)
(*                                                                         *)
(* A name is a prefix and its last digit: at most nine outputs of a kind,  *)
(* and only one QXL card, the code supports no more.  The outputs of a     *)
(* virtio-gpu are called Virtual too.                                      *)
(***************************************************************************)
EXTENDS Naturals, Sequences, FiniteSets, SequencesExt

CONSTANTS
  Cards,       (* the cards are 1..Cards                                   *)
  MaxNumber,   (* the largest number in the name of an output              *)
  MaxOutputs,  (* bound: the X server's outputs                            *)
  Namings      (* for each way the QXL outputs are named in /sys: does the *)
               (* first one end in 0?                                      *)

ASSUME DisplayAssumption ==
  /\ Cards \in Nat /\ MaxNumber \in 0..9 /\ MaxOutputs \in Nat
  /\ Namings \subseteq BOOLEAN

NoCard == 0
Name(prefix, n) == [prefix |-> prefix, n |-> n]
Virtual0 == Name("Virtual-", 0)

VARIABLES
  card,     (* external: the cards, with their connectors in DRM's order   *)
  zero,     (* external: /sys has an output called Virtual-0               *)
  x,        (* external: the X server's outputs                            *)
  cwd,      (* external: the agent's working directory is /sys/class/drm   *)
  pc,       (* where get_device_display_info is                            *)
  outputs,  (* the list of outputs, sorted                                 *)
  before,   (* history: the list before any output is renamed              *)
  i,        (* the index of the loop at hand                               *)
  found,    (* found_card_path of the fallback                             *)
  result,   (* the DeviceDisplayInfos: stream_id, card, device_display_id  *)
  why       (* history: why the fallback is used                           *)

world == <<card, zero, x, cwd>>
vars  == <<world, pc, outputs, before, i, found, result, why>>

(* The connectors a card lists, by their numbers and in any order. *)
Connectors == UNION {SetToSeqs(S) : S \in SUBSET (1..MaxNumber)}
Kinds == [qxl : BOOLEAN, prefix : {"HDMI-", "Virtual-"}, connectors : Connectors, pci : BOOLEAN]

(* What X calls the output of connector n of a card. *)
XName(c, n) == IF card[c].qxl THEN Name(card[c].prefix, n - 1) ELSE Name(card[c].prefix, n)
Heads(c) == 1..Len(card[c].connectors)
Numbers(c) == {card[c].connectors[h] : h \in Heads(c)}
XNames == UNION {{XName(c, card[c].connectors[h]) : h \in Heads(c)} : c \in 1..Cards}

(* DRM counts the connectors of a kind from one, over all cards; the QXL   *)
(* card's are taken to be the first of theirs.                             *)
Init ==
  /\ card \in [1..Cards -> {k \in Kinds : k.qxl => k.prefix = "Virtual-"}]
  /\ \A c \in 1..Cards : card[c].qxl => Numbers(c) = Heads(c)
  /\ \A c, d \in 1..Cards :
       c # d /\ card[c].prefix = card[d].prefix => Numbers(c) \cap Numbers(d) = {}
  /\ zero \in Namings
  /\ x \in UNION {SetToSeqs(S) : S \in {T \in SUBSET XNames : Cardinality(T) <= MaxOutputs}}
  /\ cwd \in BOOLEAN
  /\ pc = "outputs"
  /\ outputs = <<>> /\ before = <<>> /\ i = 1 /\ found = NoCard /\ result = <<>> /\ why = "none"

-----------------------------------------------------------------------------
(* The exception is caught, and the no-DRM fallback is called. *)
Fallback(reason) ==
  /\ pc' = "cards" /\ why' = reason
  /\ i' = 1 /\ result' = <<>>

(* get_drm_name of connector n of card c, decremented for a QXL card when  *)
(* there is a Virtual-0 in /sys.                                           *)
DrmName(c, n) == Name(card[c].prefix, IF card[c].qxl /\ zero THEN n - 1 ELSE n)

(* Mutant: the connectors are counted in the order of their numbers. *)
GetOutputs_ByNumber ==
  UNION {{[name |-> DrmName(c, n), card |-> c,
           id |-> Cardinality({m \in Numbers(c) : m < n})] : n \in Numbers(c)} : c \in 1..Cards}

(* get_outputs: the outputs of all cards, with their index in their card. *)
GetOutputs ==
  UNION {{[name |-> DrmName(c, card[c].connectors[h]), card |-> c, id |-> h - 1] :
           h \in Heads(c)} : c \in 1..Cards}

(* The comparison of the names as strings. *)
Greater(a, b) == \/ a.name.prefix = "Virtual-" /\ b.name.prefix = "HDMI-"
                 \/ a.name.prefix = b.name.prefix /\ a.name.n > b.name.n

(* No two outputs have one name, so the order of the list is given. *)
Rank(o) == 1 + Cardinality({p \in GetOutputs : Greater(p, o)})
Sorted == [k \in 1..Cardinality(GetOutputs) |-> CHOOSE o \in GetOutputs : Rank(o) = k]

Sort ==
  /\ pc = "outputs"
  /\ outputs' = Sorted
  /\ before' = outputs'
  /\ pc' = "rename"
  /\ UNCHANGED <<world, i, found, result, why>>

(* A DRM node, its resources or its files in /sys cannot be read; or DRM   *)
(* was not there when the agent was built.                                 *)
DrmFails ==
  /\ pc = "outputs"
  /\ Fallback("drm")
  /\ UNCHANGED <<world, outputs, before, found>>

(* Mutant: no output is renamed. *)
Rename_Not ==
  /\ pc = "rename"
  /\ pc' = "lookup" /\ i' = 1
  /\ UNCHANGED <<world, before, found, result, why, outputs>>

(* One turn of the loop that subtracts one from the names of QXL outputs. *)
Rename ==
  /\ pc = "rename"
  /\ IF i > Len(outputs) \/ (card[outputs[i].card].qxl /\ outputs[i].name = Virtual0)
     THEN pc' = "lookup" /\ i' = 1 /\ UNCHANGED outputs
     ELSE /\ i' = i + 1
          /\ IF card[outputs[i].card].qxl /\ outputs[i].name.prefix = "Virtual-"
             THEN outputs' = [outputs EXCEPT ![i].name.n = @ - 1]
             ELSE UNCHANGED outputs
          /\ UNCHANGED pc
  /\ UNCHANGED <<world, before, found, result, why>>

(* output_map: a later output takes the place of an earlier one of its name. *)
LastNamed(name) == SelectLastInSeq(outputs, LAMBDA o : o.name = name)

(* get_device_address: realpath finds the card, by its bare name only in    *)
(* /sys/class/drm, and it is on a PCI bus.                                 *)
HasAddress(c, bare) == card[c].pci /\ (bare => cwd)

(* One turn of the loop over the X outputs; get_device_address raises an   *)
(* Error for a card that is not on a PCI bus.                              *)
Lookup ==
  /\ pc = "lookup"
  /\ IF i > Len(x) THEN pc' = "done" /\ UNCHANGED <<i, result, why>>
     ELSE LET k == LastNamed(x[i]) IN
          IF k = 0 THEN Fallback("missing")
          ELSE IF ~HasAddress(outputs[k].card, FALSE) THEN Fallback("address")
          ELSE /\ result' = Append(result, [stream |-> i - 1, card |-> outputs[k].card,
                                            id |-> outputs[k].id])
               /\ i' = i + 1
               /\ UNCHANGED <<pc, why>>
  /\ UNCHANGED <<world, outputs, before, found>>

-----------------------------------------------------------------------------
(* The no-DRM fallback. *)

(* Mutant: found_card_path is kept when outputs follow. *)
FallbackCards_Keep ==
  /\ pc = "cards"
  /\ IF found # NoCard \/ i > Cards
     THEN pc' = "address" /\ UNCHANGED <<found, i>>
     ELSE /\ found' = i
          /\ i' = i + 1
          /\ UNCHANGED pc
  /\ UNCHANGED <<world, outputs, before, result, why>>

(* The entry of card i in /sys/class/drm, and those of its outputs. *)
FallbackCards ==
  /\ pc = "cards"
  /\ IF found # NoCard \/ i > Cards
     THEN pc' = "address" /\ UNCHANGED <<found, i>>
     ELSE /\ found' = IF Heads(i) = {} THEN i ELSE NoCard
          /\ i' = i + 1
          /\ UNCHANGED pc
  /\ UNCHANGED <<world, outputs, before, result, why>>

(* Mutant: the streams are counted from one. *)
FallbackAddress_FromOne ==
  /\ pc = "address"
  /\ IF found # NoCard /\ HasAddress(found, TRUE)
     THEN /\ pc' = "done"
          /\ result' = [k \in 1..Len(x) |-> [stream |-> k, card |-> found, id |-> k - 1]]
     ELSE pc' = "error" /\ UNCHANGED result
  /\ UNCHANGED <<world, outputs, before, i, found, why>>

(* The card's name without its directory is what realpath is given. *)
FallbackAddress ==
  /\ pc = "address"
  /\ IF found # NoCard /\ HasAddress(found, TRUE)
     THEN /\ pc' = "done"
          /\ result' = [k \in 1..Len(x) |-> [stream |-> k - 1, card |-> found, id |-> k - 1]]
     ELSE pc' = "error" /\ UNCHANGED result
  /\ UNCHANGED <<world, outputs, before, i, found, why>>

-----------------------------------------------------------------------------
Next == Sort \/ DrmFails \/ Rename \/ Lookup \/ FallbackCards \/ FallbackAddress

Spec == Init /\ [][Next]_vars

-----------------------------------------------------------------------------
Outputs == [name : [prefix : {"HDMI-", "Virtual-"}, n : 0..9], card : 1..Cards, id : Nat]
Infos   == [stream : Nat, card : 1..Cards, id : Nat]

(* Every variable has its type: the last character of a name stays a digit, *)
(* no loop leaves its list, and the answer has one entry for each X output, *)
(* in the X server's order.                                                *)
TypeOK ==
  /\ pc \in {"outputs", "rename", "lookup", "cards", "address", "done", "error"}
  /\ outputs \in Seq(Outputs) /\ before \in Seq(Outputs) /\ Len(outputs) = Len(before)
  /\ pc = "rename" => i \in 1..(Len(outputs) + 1)
  /\ pc = "lookup" => i \in 1..(Len(x) + 1) /\ Len(result) = i - 1
  /\ pc = "cards" => i \in 1..(Cards + 1)
  /\ found \in 0..Cards
  /\ result \in Seq(Infos) /\ \A k \in 1..Len(result) : result[k].stream = k - 1
  /\ pc = "done" => Len(result) = Len(x)
  /\ why \in {"none", "drm", "missing", "address"}

(* The names the loop is right for: QXL outputs that are counted from      *)
(* Virtual-1, or a Virtual-0 that is the only one.                         *)
OneBase == zero => \A c \in 1..Cards : card[c].qxl => Len(card[c].connectors) <= 1

(* Through DRM, each X output is given the card and the index of the very  *)
(* connector X means, whatever the order of the connectors and of the X    *)
(* outputs.                                                                *)
RightDevice ==
  OneBase /\ why = "none" =>
    \A k \in 1..Len(result) :
      LET r == result[k] IN x[k] = XName(r.card, card[r.card].connectors[r.id + 1])

(* No X output is missed: with the cards readable and on PCI buses, the    *)
(* fallback and its guess are not needed.                                  *)
LookupFinds == OneBase => why # "missing"

FirstWithout(c) == Heads(c) = {} /\ \A d \in 1..(c - 1) : Heads(d) # {}

(* "It looks up the first card in /sys/class/drm that doesn't have its     *)
(* outputs listed": what the fallback answers with is that card.           *)
FallbackCard ==
  pc = "done" /\ why # "none" =>
    \A k \in 1..Len(result) : FirstWithout(result[k].card)

(* "If the first name is Virtual-0, we know we are good, quit the loop":   *)
(* QXL outputs that are counted from Virtual-0 keep their names.           *)
NamesKept ==
  (\E k \in 1..Len(before) : card[before[k].card].qxl /\ before[k].name = Virtual0)
    => outputs = before

(* "It looks up the first card in /sys/class/drm that doesn't have its     *)
(* outputs listed ... and simply uses the xrandr output index": an Error   *)
(* is raised only where there is no such card, or it is not on a PCI bus.  *)
FallbackAnswers ==
  pc = "error" => \A c \in 1..Cards : FirstWithout(c) => ~card[c].pci
===============================================================================
