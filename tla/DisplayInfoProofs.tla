--------------------------- MODULE DisplayInfoProofs ---------------------------
(***************************************************************************)
(* The display information, for every number of cards, every order of      *)
(* their connectors and every list of X outputs.                           *)
(***************************************************************************)
EXTENDS DisplayInfo, FiniteSetTheorems, WellFoundedInduction, TLAPS

(* What does not change: the cards, the numbers of their connectors, and   *)
(* the X outputs, which are named after connectors.                        *)
World ==
  /\ \A c \in 1..Cards :
       /\ card[c].qxl \in BOOLEAN /\ card[c].prefix \in {"HDMI-", "Virtual-"}
       /\ card[c].qxl => card[c].prefix = "Virtual-"
       /\ card[c].connectors \in Seq(1..MaxNumber)
       /\ Len(card[c].connectors) <= MaxNumber
       /\ \A g, h \in Heads(c) : card[c].connectors[g] = card[c].connectors[h] => g = h
       /\ card[c].qxl => Numbers(c) = Heads(c)
  /\ \A c, d \in 1..Cards :
       c # d /\ card[c].prefix = card[d].prefix => Numbers(c) \cap Numbers(d) = {}
  /\ x \in Seq(XNames)

(* The list holds every output of the cards once, each as get_outputs found *)
(* it up to the loop that renames them, and by X's name after it.          *)
Number(o) == card[o.card].connectors[o.id + 1]
AsX(o) == [o EXCEPT !.name = XName(o.card, Number(o))]

Listed ==
  pc \in {"rename", "lookup"} =>
    /\ \A k \in 1..Len(before) : before[k] \in GetOutputs
    /\ \A o \in GetOutputs : \E k \in 1..Len(before) : before[k] = o
    /\ \A j, k \in 1..Len(before) : before[j] = before[k] => j = k

Renamed ==
  pc \in {"rename", "lookup"} =>
    \A k \in 1..Len(before) :
      outputs[k] = IF pc = "rename" /\ k >= i THEN before[k] ELSE AsX(before[k])

(* What the loops start with, and when the fallback is used. *)
Phases ==
  /\ pc = "outputs" => i = 1
  /\ pc \in {"outputs", "rename"} => result = <<>>
  /\ pc \in {"outputs", "rename", "lookup"} => found = NoCard /\ why = "none"
  /\ pc \in {"cards", "address", "error"} => why # "none"

(* Each answer through DRM is about a connector of its card. *)
Answered ==
  why = "none" => \A k \in 1..Len(result) : result[k].id + 1 \in Heads(result[k].card)

(* The fallback has passed the cards with outputs, stops after the first   *)
(* one without, and fails only for want of its address.                    *)
Guess ==
  /\ pc = "cards" => found < i
  /\ pc = "cards" /\ found = NoCard => \A d \in 1..(i - 1) : Heads(d) # {}
  /\ found # NoCard => FirstWithout(found)
  /\ pc \in {"address", "error"} /\ found = NoCard => \A d \in 1..Cards : Heads(d) # {}
  /\ pc = "error" /\ found # NoCard => ~HasAddress(found, TRUE)

(* The invariant of every run, and that of one in which the loop that      *)
(* renames the outputs does what it is meant to do.                        *)
DisplayInv == World /\ TypeOK /\ Phases /\ Guess /\ FallbackCard
MatchInv   == OneBase /\ Listed /\ Renamed /\ Answered /\ RightDevice /\ LookupFinds

-----------------------------------------------------------------------------
(* The world. *)
NameSet == [prefix : {"HDMI-", "Virtual-"}, n : 0..9]

(* A finite set's sequences of all its elements. *)
LEMMA SetToSeqsType ==
  ASSUME NEW S, IsFiniteSet(S), NEW s \in SetToSeqs(S)
  PROVE  /\ s \in Seq(S) /\ Len(s) = Cardinality(S)
         /\ \A g, h \in 1..Len(s) : s[g] = s[h] => g = h
<1>1. Cardinality(S) \in Nat
  BY FS_CardinalityType
<1>2. s \in [1..Cardinality(S) -> S]
  BY DEF SetToSeqs
<1>3. s \in Seq(S) /\ Len(s) = Cardinality(S)
  BY <1>1, <1>2
<1>4. \A g, h \in 1..Cardinality(S) : g # h => s[g] # s[h]
  BY DEF SetToSeqs
<1> QED
  BY <1>3, <1>4

LEMMA SeqSubset ==
  ASSUME NEW S, NEW T, S \subseteq T, NEW s \in Seq(S)
  PROVE  s \in Seq(T)
<1>1. Len(s) \in Nat /\ s \in [1..Len(s) -> S]
  OBVIOUS
<1>2. s \in [1..Len(s) -> T]
  BY <1>1
<1> QED
  BY <1>1, <1>2

LEMMA FunctionIsSeq ==
  ASSUME NEW n \in Nat, NEW S, NEW s \in [1..n -> S]
  PROVE  s \in Seq(S) /\ Len(s) = n
  OBVIOUS

LEMMA NameSetFinite == IsFiniteSet(NameSet)
<1> DEFINE D == {"HDMI-", "Virtual-"} \X (0..9)
           f == [d \in D |-> [prefix |-> d[1], n |-> d[2]]]
<1>1. IsFiniteSet({"HDMI-"} \cup {"Virtual-"})
  <2>1. IsFiniteSet({"HDMI-"})
    BY FS_Singleton
  <2> QED
    BY <2>1, FS_AddElement
<1>2. IsFiniteSet(D)
  <2>2. 0 \in Int /\ 9 \in Int
    OBVIOUS
  <2>3. IsFiniteSet(0..9)
    BY <2>2, FS_Interval
  <2>1. {"HDMI-"} \cup {"Virtual-"} = {"HDMI-", "Virtual-"}
    OBVIOUS
  <2> QED
    BY <1>1, <2>1, <2>3, FS_Product
<1>3. f \in Surjection(D, NameSet)
  <2>1. f \in [D -> NameSet]
    BY DEF NameSet
  <2>2. ASSUME NEW t \in NameSet PROVE \E d \in D : f[d] = t
    <3>1. <<t.prefix, t.n>> \in D /\ f[<<t.prefix, t.n>>] = t
      BY DEF NameSet
    <3> QED
      BY <3>1
  <2> QED
    BY <2>1, <2>2 DEF Surjection
<1> QED
  BY <1>2, <1>3, FS_Surjection

LEMMA WorldInit == Init => World
<1> SUFFICES ASSUME Init PROVE World
  OBVIOUS
<1> USE DisplayAssumption
<1>1. card \in [1..Cards -> {k \in Kinds : k.qxl => k.prefix = "Virtual-"}]
  BY DEF Init
<1>2. ASSUME NEW c \in 1..Cards
      PROVE  /\ card[c].qxl \in BOOLEAN /\ card[c].prefix \in {"HDMI-", "Virtual-"}
             /\ card[c].qxl => card[c].prefix = "Virtual-"
             /\ card[c].connectors \in Connectors
  BY <1>1 DEF Kinds
<1>3. ASSUME NEW c \in 1..Cards
      PROVE  /\ card[c].connectors \in Seq(1..MaxNumber)
             /\ Len(card[c].connectors) <= MaxNumber
             /\ \A g, h \in Heads(c) : card[c].connectors[g] = card[c].connectors[h] => g = h
  <2>1. PICK S \in SUBSET (1..MaxNumber) : card[c].connectors \in SetToSeqs(S)
    <3>1. card[c].connectors \in UNION {SetToSeqs(S) : S \in SUBSET (1..MaxNumber)}
      BY <1>2 DEF Connectors
    <3> QED
      BY <3>1
  <2>2. IsFiniteSet(1..MaxNumber) /\ Cardinality(1..MaxNumber) = MaxNumber
    <3>1. 1 \in Int /\ MaxNumber \in Int /\ MaxNumber >= 0
      OBVIOUS
    <3>2. Cardinality(1..MaxNumber) = IF 1 > MaxNumber THEN 0 ELSE MaxNumber - 1 + 1
      BY <3>1, FS_Interval
    <3>3. IsFiniteSet(1..MaxNumber)
      BY <3>1, FS_Interval
    <3> QED
      BY <3>1, <3>2, <3>3
  <2>3. IsFiniteSet(S) /\ Cardinality(S) <= MaxNumber
    BY <2>2, FS_Subset
  <2> DEFINE s == card[c].connectors
  <2>4. /\ s \in Seq(S) /\ Len(s) = Cardinality(S)
        /\ \A g, h \in 1..Len(s) : s[g] = s[h] => g = h
    <3> HIDE DEF s
    <3>1. s \in SetToSeqs(S)
      BY <2>1 DEF s
    <3> QED
      BY <2>3, <3>1, SetToSeqsType
  <2>5. s \in Seq(1..MaxNumber) /\ Len(s) <= MaxNumber
    <3> HIDE DEF s
    <3>1. s \in Seq(1..MaxNumber)
      BY <2>4, SeqSubset
    <3>2. Cardinality(S) \in Nat
      BY <2>3, FS_CardinalityType
    <3> QED
      BY <2>3, <2>4, <3>1, <3>2
  <2> QED
    BY <2>4, <2>5 DEF Heads
<1>4. ASSUME NEW c \in 1..Cards PROVE \A h \in Heads(c) : card[c].connectors[h] \in 1..9
  <2> TAKE h \in Heads(c)
  <2> DEFINE s == card[c].connectors
  <2>1. s \in Seq(1..MaxNumber) /\ h \in 1..Len(s)
    BY <1>3 DEF Heads
  <2> HIDE DEF s
  <2>2. s[h] \in 1..MaxNumber
    BY <2>1
  <2> QED
    BY <2>2 DEF s
<1>5. XNames \subseteq NameSet
  <2> SUFFICES ASSUME NEW c \in 1..Cards, NEW h \in Heads(c)
               PROVE  XName(c, card[c].connectors[h]) \in NameSet
    BY DEF XNames
  <2> DEFINE n == card[c].connectors[h]
  <2>1. n \in 1..9 /\ card[c].prefix \in {"HDMI-", "Virtual-"}
    BY <1>2, <1>4
  <2> HIDE DEF n
  <2>2. XName(c, n) \in NameSet
    BY <2>1 DEF XName, Name, NameSet
  <2> QED
    BY <2>2 DEF n
<1>6. x \in Seq(XNames)
  <2>1. PICK T \in SUBSET XNames : x \in SetToSeqs(T)
    BY DEF Init
  <2>2. IsFiniteSet(T)
    BY <1>5, NameSetFinite, FS_Subset
  <2>3. x \in Seq(T)
    BY <2>1, <2>2, SetToSeqsType
  <2> QED
    BY <2>3
<1>7. \A c, d \in 1..Cards :
        c # d /\ card[c].prefix = card[d].prefix => Numbers(c) \cap Numbers(d) = {}
  BY DEF Init
<1>8. \A c \in 1..Cards : card[c].qxl => Numbers(c) = Heads(c)
  BY DEF Init
<1> QED
  BY <1>2, <1>3, <1>6, <1>7, <1>8 DEF World

LEMMA WorldStep == World /\ UNCHANGED world => World'
<1> SUFFICES ASSUME World, UNCHANGED world PROVE World'
  OBVIOUS
<1>1. card' = card /\ x' = x
  BY DEF world
<1>2. XNames' = XNames
  BY <1>1 DEF XNames, XName, Heads
<1>3. \A c : Heads(c)' = Heads(c) /\ Numbers(c)' = Numbers(c)
  BY <1>1 DEF Heads, Numbers
<1> QED
  BY <1>1, <1>2, <1>3 DEF World

-----------------------------------------------------------------------------
(* The outputs of the cards. *)
Output(c, h) == [name |-> DrmName(c, card[c].connectors[h]), card |-> c, id |-> h - 1]

LEMMA OutputOfHead ==
  ASSUME World, NEW c \in 1..Cards, NEW h \in Heads(c)
  PROVE  /\ Output(c, h) \in GetOutputs /\ Output(c, h) \in Outputs
         /\ h \in 1..MaxNumber /\ card[c].connectors[h] \in 1..9
<1>1. /\ card[c].qxl \in BOOLEAN /\ card[c].prefix \in {"HDMI-", "Virtual-"}
      /\ card[c].connectors \in Seq(1..MaxNumber) /\ Len(card[c].connectors) <= MaxNumber
  BY DEF World
<1> DEFINE n == card[c].connectors[h]
<1>2. n \in 1..MaxNumber /\ h \in 1..MaxNumber
  <2> DEFINE s == card[c].connectors
  <2>1. s \in Seq(1..MaxNumber) /\ h \in 1..Len(s) /\ Len(s) <= MaxNumber
    BY <1>1 DEF Heads
  <2> HIDE DEF s
  <2>2. s[h] \in 1..MaxNumber /\ h \in 1..MaxNumber
    BY <2>1, DisplayAssumption
  <2> QED
    BY <2>2 DEF s
<1>3. n \in 1..9
  BY <1>2, DisplayAssumption
<1> HIDE DEF n
<1>4. DrmName(c, n) \in NameSet
  BY <1>1, <1>3 DEF DrmName, Name, NameSet
<1>5. Output(c, h) \in Outputs
  BY <1>2, <1>4 DEF Output, Outputs, NameSet, n
<1>6. Output(c, h) \in GetOutputs
  BY DEF Output, GetOutputs
<1> QED
  BY <1>2, <1>3, <1>5, <1>6 DEF n

LEMMA HeadOfOutput ==
  ASSUME World, NEW o \in GetOutputs
  PROVE  /\ o.card \in 1..Cards /\ o.id \in Nat /\ o.id + 1 \in Heads(o.card)
         /\ o = Output(o.card, o.id + 1) /\ o.name = DrmName(o.card, Number(o))
         /\ o \in Outputs /\ Number(o) \in 1..9 /\ Number(o) \in Numbers(o.card)
<1>1. PICK c \in 1..Cards : \E h \in Heads(c) : o = Output(c, h)
  BY DEF GetOutputs, Output
<1>2. PICK h \in Heads(c) : o = Output(c, h)
  BY <1>1
<1>3. h \in Nat /\ h > 0 /\ (h - 1) + 1 = h
  BY DEF Heads
<1>4. o.card = c /\ o.id = h - 1 /\ o.name = DrmName(c, card[c].connectors[h])
  BY <1>2 DEF Output
<1>5. o.id \in Nat /\ o.id + 1 = h
  BY <1>3, <1>4
<1>6. Number(o) = card[c].connectors[h]
  BY <1>4, <1>5 DEF Number
<1>7. o \in Outputs /\ Number(o) \in 1..9
  BY <1>2, <1>6, OutputOfHead
<1> QED
  BY <1>2, <1>4, <1>5, <1>6, <1>7 DEF Numbers

(* An output is known by the kind and the number of its connector. *)
LEMMA OneConnector ==
  ASSUME World, NEW o \in GetOutputs, NEW p \in GetOutputs,
         card[o.card].prefix = card[p.card].prefix, Number(o) = Number(p)
  PROVE  o = p
<1>1. /\ o.card \in 1..Cards /\ o.id \in Nat /\ o.id + 1 \in Heads(o.card)
      /\ o = Output(o.card, o.id + 1) /\ Number(o) \in Numbers(o.card)
  BY HeadOfOutput
<1>2. /\ p.card \in 1..Cards /\ p.id \in Nat /\ p.id + 1 \in Heads(p.card)
      /\ p = Output(p.card, p.id + 1) /\ Number(p) \in Numbers(p.card)
  BY HeadOfOutput
<1>3. o.card = p.card
  BY <1>1, <1>2 DEF World
<1>4. o.id + 1 = p.id + 1
  BY <1>1, <1>2, <1>3 DEF World, Number
<1> QED
  BY <1>1, <1>2, <1>3, <1>4

(* Another card's connectors of a kind come after those of a QXL card. *)
LEMMA QxlFirst ==
  ASSUME World, NEW c \in 1..Cards, NEW d \in 1..Cards, c # d,
         card[c].prefix = card[d].prefix, card[c].qxl,
         NEW n \in Numbers(c), NEW m \in Numbers(d), m \in 1..9
  PROVE  n < m
<1>1. Numbers(c) \cap Numbers(d) = {}
  BY DEF World
<1>2. Numbers(c) = 1..Len(card[c].connectors)
  BY DEF World, Heads
<1>3. Len(card[c].connectors) \in Nat
  BY DEF World
<1>4. n \in 1..Len(card[c].connectors) /\ m \notin 1..Len(card[c].connectors)
  BY <1>1, <1>2
<1> QED
  BY <1>3, <1>4

(* Neither the names in the list before the renaming nor X's names tie. *)
LEMMA NamesDiffer ==
  ASSUME World, NEW o \in GetOutputs, NEW p \in GetOutputs
  PROVE  /\ o.name = p.name => o = p
         /\ XName(o.card, Number(o)) = XName(p.card, Number(p)) => o = p
<1> DEFINE c == o.card  d == p.card  n == Number(o)  m == Number(p)
<1>1. /\ c \in 1..Cards /\ n \in 1..9 /\ o.name = DrmName(c, n)
      /\ d \in 1..Cards /\ m \in 1..9 /\ p.name = DrmName(d, m)
  BY HeadOfOutput
<1>2. n \in Numbers(c) /\ m \in Numbers(d)
  BY HeadOfOutput
<1>3. card[c].prefix = card[d].prefix /\ n = m => o = p
  BY OneConnector
<1> HIDE DEF c, d, n, m
<1>4. DrmName(c, n) = DrmName(d, m) => card[c].prefix = card[d].prefix
  BY DEF DrmName, Name
<1>5. XName(c, n) = XName(d, m) => card[c].prefix = card[d].prefix
  BY DEF XName, Name
<1>6. card[c].prefix = card[d].prefix /\ c # d /\ card[c].qxl => n < m
  BY <1>1, <1>2, QxlFirst
<1>7. card[c].prefix = card[d].prefix /\ c # d /\ card[d].qxl => m < n
  BY <1>1, <1>2, QxlFirst
<1>8. c = d => (card[c].qxl <=> card[d].qxl)
  OBVIOUS
<1>9. DrmName(c, n) = DrmName(d, m) => n = m
  BY <1>1, <1>2, <1>4, <1>6, <1>7, <1>8 DEF DrmName, Name
<1>10. XName(c, n) = XName(d, m) => n = m
  BY <1>1, <1>2, <1>5, <1>6, <1>7, <1>8 DEF XName, Name
<1> QED
  BY <1>1, <1>3, <1>4, <1>5, <1>9, <1>10 DEF c, d, n, m

-----------------------------------------------------------------------------
(* The sorted list. *)
LEMMA OutputsFinite == World => IsFiniteSet(GetOutputs)
<1> SUFFICES ASSUME World PROVE IsFiniteSet(GetOutputs)
  OBVIOUS
<1> DEFINE D == (1..Cards) \X (1..MaxNumber)
           P == {d \in D : d[2] \in Heads(d[1])}
           f == [d \in P |-> Output(d[1], d[2])]
<1>1. IsFiniteSet(P)
  <2>1. 1 \in Int /\ Cards \in Int /\ MaxNumber \in Int
    BY DisplayAssumption
  <2>2. IsFiniteSet(1..Cards)
    BY <2>1, FS_Interval
  <2>3. IsFiniteSet(1..MaxNumber)
    BY <2>1, FS_Interval
  <2>4. IsFiniteSet(D)
    BY <2>2, <2>3, FS_Product
  <2> QED
    BY <2>4, FS_Subset
<1>2. f \in Surjection(P, GetOutputs)
  <2>1. ASSUME NEW d \in P PROVE Output(d[1], d[2]) \in GetOutputs
    BY OutputOfHead
  <2>2. ASSUME NEW o \in GetOutputs PROVE \E d \in P : f[d] = o
    <3> DEFINE d == <<o.card, o.id + 1>>
    <3>1. o.card \in 1..Cards /\ o.id + 1 \in Heads(o.card) /\ o = Output(o.card, o.id + 1)
      BY HeadOfOutput
    <3>2. d \in P
      BY <3>1, OutputOfHead
    <3> QED
      BY <3>1, <3>2
  <2>3. f \in [P -> GetOutputs]
    BY <2>1
  <2> QED
    BY <2>2, <2>3 DEF Surjection
<1> QED
  BY <1>1, <1>2, FS_Surjection

LEMMA GreaterOrders ==
  ASSUME World, NEW o \in GetOutputs, NEW p \in GetOutputs, NEW q \in GetOutputs
  PROVE  /\ ~Greater(o, o)
         /\ Greater(o, p) /\ Greater(p, q) => Greater(o, q)
         /\ o # p => Greater(o, p) \/ Greater(p, o)
<1>1. o \in Outputs /\ p \in Outputs /\ q \in Outputs
  BY HeadOfOutput
<1>2. o.name = p.name => o = p
  BY NamesDiffer
<1>3. /\ o.name \in NameSet /\ p.name \in NameSet /\ q.name \in NameSet
  BY <1>1 DEF Outputs, NameSet
<1> QED
  BY <1>2, <1>3 DEF Greater, NameSet

LEMMA RankBounds ==
  ASSUME World, NEW o \in GetOutputs
  PROVE  Rank(o) \in 1..Cardinality(GetOutputs)
<1> DEFINE B == {p \in GetOutputs : Greater(p, o)}
<1>1. IsFiniteSet(GetOutputs) /\ Cardinality(GetOutputs) \in Nat
  BY OutputsFinite, FS_CardinalityType
<1>2. B \subseteq GetOutputs /\ o \notin B
  BY GreaterOrders
<1>3. IsFiniteSet(B) /\ Cardinality(B) \in Nat /\ Cardinality(B) <= Cardinality(GetOutputs)
  BY <1>1, <1>2, FS_Subset, FS_CardinalityType
<1>4. Cardinality(B) # Cardinality(GetOutputs)
  BY <1>1, <1>2, FS_Subset
<1> QED
  BY <1>1, <1>3, <1>4 DEF Rank

LEMMA RankOrders ==
  ASSUME World, NEW o \in GetOutputs, NEW q \in GetOutputs, Greater(o, q)
  PROVE  Rank(o) < Rank(q)
<1> DEFINE B(r) == {p \in GetOutputs : Greater(p, r)}
<1>1. IsFiniteSet(GetOutputs)
  BY OutputsFinite
<1>2. B(o) \subseteq B(q) /\ o \in B(q) /\ o \notin B(o)
  BY GreaterOrders
<1>3. IsFiniteSet(B(q)) /\ IsFiniteSet(B(o))
  BY <1>1, FS_Subset
<1>4. Cardinality(B(o)) \in Nat /\ Cardinality(B(q)) \in Nat
  BY <1>3, FS_CardinalityType
<1>5. Cardinality(B(o)) <= Cardinality(B(q)) /\ Cardinality(B(o)) # Cardinality(B(q))
  BY <1>2, <1>3, FS_Subset
<1> QED
  BY <1>4, <1>5 DEF Rank

(* Each place of the list is some output's, as many places as outputs.     *)
LEMMA RankTakesAll ==
  ASSUME World, NEW k \in 1..Cardinality(GetOutputs)
  PROVE  \E o \in GetOutputs : Rank(o) = k
<1> DEFINE N == Cardinality(GetOutputs)
           r == [o \in GetOutputs |-> Rank(o)]
<1>1. IsFiniteSet(GetOutputs) /\ N \in Nat
  BY OutputsFinite, FS_CardinalityType
<1>2. IsFiniteSet(1..N) /\ Cardinality(1..N) = N
  <2>1. 1 \in Int /\ N \in Int /\ N >= 0
    BY <1>1
  <2> HIDE DEF N
  <2>2. Cardinality(1..N) = IF 1 > N THEN 0 ELSE N - 1 + 1
    BY <2>1, FS_Interval
  <2>3. IsFiniteSet(1..N)
    BY <2>1, FS_Interval
  <2> QED
    BY <2>1, <2>2, <2>3
<1>3. r \in Injection(GetOutputs, 1..N)
  <2>1. r \in [GetOutputs -> 1..N]
    BY RankBounds
  <2>2. ASSUME NEW o \in GetOutputs, NEW q \in GetOutputs, o # q
        PROVE  Rank(o) # Rank(q)
    <3>1. Greater(o, q) \/ Greater(q, o)
      BY <2>2, GreaterOrders
    <3>2. Rank(o) \in 1..N /\ Rank(q) \in 1..N
      BY RankBounds
    <3>3. Rank(o) < Rank(q) \/ Rank(q) < Rank(o)
      BY <3>1, RankOrders
    <3> QED
      BY <1>1, <3>2, <3>3
  <2> QED
    BY <2>1, <2>2 DEF Injection, IsInjective
<1>4. r \in Surjection(GetOutputs, 1..N)
  <2> HIDE DEF r, N
  <2>1. Cardinality(GetOutputs) = N
    BY DEF N
  <2> QED
    BY <1>2, <1>3, <2>1, FS_Injection
<1> QED
  BY <1>4 DEF Surjection

(* The list: every output once, in descending order of their names. *)
LEMMA SortedList ==
  ASSUME World
  PROVE  /\ Sorted \in Seq(Outputs)
         /\ \A k \in 1..Len(Sorted) : Sorted[k] \in GetOutputs
         /\ \A o \in GetOutputs : \E k \in 1..Len(Sorted) : Sorted[k] = o
         /\ \A j, k \in 1..Len(Sorted) : j < k => Greater(Sorted[j], Sorted[k])
         /\ \A j, k \in 1..Len(Sorted) : Sorted[j] = Sorted[k] => j = k
<1> DEFINE N == Cardinality(GetOutputs)  s == Sorted
<1>1. N \in Nat
  BY OutputsFinite, FS_CardinalityType
<1>2. ASSUME NEW k \in 1..N PROVE s[k] \in GetOutputs /\ Rank(s[k]) = k
  BY RankTakesAll DEF Sorted
<1>3. s \in Seq(Outputs) /\ Len(s) = N
  <2>1. \A k \in 1..N : s[k] \in Outputs
    BY <1>2, HeadOfOutput
  <2>2. s \in [1..N -> Outputs]
    BY <2>1 DEF Sorted
  <2> HIDE DEF N, s
  <2> QED
    BY <1>1, <2>2, FunctionIsSeq
<1>4. ASSUME NEW o \in GetOutputs, NEW p \in GetOutputs, Rank(o) = Rank(p)
      PROVE  o = p
  <2> SUFFICES ASSUME o # p PROVE FALSE
    OBVIOUS
  <2>1. Rank(o) \in 1..N
    BY RankBounds
  <2>2. Rank(o) < Rank(p) \/ Rank(p) < Rank(o)
    BY GreaterOrders, RankOrders
  <2> QED
    BY <1>1, <1>4, <2>1, <2>2
<1>5. ASSUME NEW o \in GetOutputs PROVE \E k \in 1..N : s[k] = o
  <2>1. Rank(o) \in 1..N
    BY RankBounds
  <2>2. s[Rank(o)] = o
    BY <1>2, <1>4, <2>1
  <2> QED
    BY <2>1, <2>2
<1>6. ASSUME NEW j \in 1..N, NEW k \in 1..N, j < k PROVE Greater(s[j], s[k])
  <2>1. /\ s[j] \in GetOutputs /\ s[k] \in GetOutputs
        /\ Rank(s[j]) = j /\ Rank(s[k]) = k
    BY <1>2
  <2>2. s[j] # s[k] /\ ~(k < j)
    BY <1>1, <1>6, <2>1
  <2>3. Greater(s[k], s[j]) => k < j
    BY <2>1, RankOrders
  <2> QED
    BY <2>1, <2>2, <2>3, GreaterOrders
<1>7. ASSUME NEW j \in 1..N, NEW k \in 1..N, s[j] = s[k] PROVE j = k
  BY <1>2, <1>7
<1> HIDE DEF N, s
<1>8. /\ \A k \in 1..Len(s) : s[k] \in GetOutputs
      /\ \A o \in GetOutputs : \E k \in 1..Len(s) : s[k] = o
      /\ \A j, k \in 1..Len(s) : j < k => Greater(s[j], s[k])
      /\ \A j, k \in 1..Len(s) : s[j] = s[k] => j = k
  BY <1>2, <1>3, <1>5, <1>6, <1>7
<1> QED
  BY <1>3, <1>8 DEF s

-----------------------------------------------------------------------------
(* The types, and the fallback. *)
OutputTypes == outputs \in Seq(Outputs) /\ before \in Seq(Outputs) /\ Len(outputs) = Len(before)
AnswerTypes == result \in Seq(Infos) /\ \A k \in 1..Len(result) : result[k].stream = k - 1

LEMMA EmptySeq ==
  ASSUME NEW S, NEW r, r = <<>>
  PROVE  r \in Seq(S) /\ Len(r) = 0 /\ \A k \in 1..Len(r) : FALSE
<1>1. r \in Seq(S)
  OBVIOUS
<1>2. Len(r) = 0 /\ \A k \in 1..Len(r) : FALSE
  OBVIOUS
<1> QED
  BY <1>1, <1>2

LEMMA EmptyAnswers ==
  ASSUME NEW r, r = <<>>
  PROVE  r \in Seq(Infos) /\ \A k \in 1..Len(r) : r[k].stream = k - 1
<1>1. r \in Seq(Infos)
  OBVIOUS
<1>2. \A k \in 1..Len(r) : r[k].stream = k - 1
  OBVIOUS
<1> QED
  BY <1>1, <1>2

LEMMA DisplayInit == Init => DisplayInv
<1> SUFFICES ASSUME Init PROVE DisplayInv
  OBVIOUS
<1>1. World
  BY WorldInit
<1>2. /\ pc = "outputs" /\ outputs = <<>> /\ before = <<>> /\ i = 1
      /\ found = NoCard /\ result = <<>> /\ why = "none"
  BY DEF Init
<1>3. TypeOK
  <2>1. outputs \in Seq(Outputs) /\ before \in Seq(Outputs) /\ Len(outputs) = Len(before)
    BY <1>2, EmptySeq
  <2>3. found \in 0..Cards
    <3>1. found = NoCard
      BY <1>2
    <3> QED
      BY <3>1, DisplayAssumption DEF NoCard
  <2>2. result \in Seq(Infos) /\ \A k \in 1..Len(result) : result[k].stream = k - 1
    BY <1>2, EmptyAnswers
  <2> QED
    BY <1>2, <2>1, <2>2, <2>3 DEF TypeOK
<1>4. Phases /\ Guess /\ FallbackCard
  BY <1>2 DEF Phases, Guess, FallbackCard, FirstWithout
<1> QED
  BY <1>1, <1>3, <1>4 DEF DisplayInv

LEMMA SortStep == DisplayInv /\ Sort => DisplayInv'
<1> SUFFICES ASSUME DisplayInv, Sort PROVE DisplayInv'
  OBVIOUS
<1>1. World /\ World' /\ UNCHANGED <<card, x>>
  BY WorldStep DEF DisplayInv, Sort, world
<1>2. /\ pc = "outputs" /\ pc' = "rename" /\ before' = outputs'
      /\ UNCHANGED <<i, found, result, why>>
  BY DEF Sort
<1>3. outputs' \in Seq(Outputs)
  BY <1>1, SortedList DEF Sort
<1>4. TypeOK'
  <2>1. i' = 1 /\ Len(outputs') \in Nat
    <3>1. i = 1
      BY <1>2 DEF DisplayInv, Phases
    <3>2. Len(outputs') \in Nat
      BY <1>3
    <3> QED
      BY <1>2, <3>1, <3>2
  <2>2. i' \in 1..(Len(outputs') + 1)
    BY <2>1
  <2>3. OutputTypes' /\ AnswerTypes' /\ found' \in 0..Cards /\ why' = why
    BY <1>2, <1>3 DEF DisplayInv, TypeOK, OutputTypes, AnswerTypes
  <2> QED
    BY <1>2, <2>2, <2>3 DEF DisplayInv, TypeOK, OutputTypes, AnswerTypes
<1>5. (Phases /\ Guess /\ FallbackCard)'
  BY <1>1, <1>2 DEF DisplayInv, Phases, Guess, FallbackCard, FirstWithout, Heads
<1> QED
  BY <1>1, <1>4, <1>5 DEF DisplayInv

LEMMA DrmFailsStep == DisplayInv /\ DrmFails => DisplayInv'
<1> SUFFICES ASSUME DisplayInv, DrmFails PROVE DisplayInv'
  OBVIOUS
<1>1. World' /\ UNCHANGED <<card, x>>
  BY WorldStep DEF DisplayInv, DrmFails, world
<1>2. /\ pc = "outputs" /\ pc' = "cards" /\ i' = 1 /\ result' = <<>> /\ why' = "drm"
      /\ UNCHANGED <<outputs, before, found>>
  BY DEF DrmFails, Fallback
<1>3. TypeOK'
  <2>1. OutputTypes' /\ found' \in 0..Cards
    BY <1>2 DEF DisplayInv, TypeOK, OutputTypes
  <2>3. AnswerTypes'
    BY <1>2, EmptyAnswers DEF AnswerTypes
  <2>2. i' \in 1..(Cards + 1)
    BY <1>2, DisplayAssumption
  <2> QED
    BY <1>2, <2>1, <2>2, <2>3 DEF TypeOK, OutputTypes, AnswerTypes
<1>4. found = NoCard
  BY <1>2 DEF DisplayInv, Phases
<1>5. (Phases /\ Guess /\ FallbackCard)'
  BY <1>1, <1>2, <1>4, EmptySeq DEF Phases, Guess, FallbackCard, FirstWithout, NoCard
<1> QED
  BY <1>1, <1>3, <1>5 DEF DisplayInv

LEMMA RenameStep == DisplayInv /\ Rename => DisplayInv'
<1> SUFFICES ASSUME DisplayInv, Rename PROVE DisplayInv'
  OBVIOUS
<1>1. World /\ World' /\ UNCHANGED <<card, x>>
  BY WorldStep DEF DisplayInv, Rename, world
<1>2. /\ pc = "rename" /\ result = <<>> /\ found = NoCard /\ why = "none"
      /\ UNCHANGED <<before, found, result, why>>
  BY DEF DisplayInv, Phases, Rename
<1>3. TypeOK /\ i \in 1..(Len(outputs) + 1) /\ outputs \in Seq(Outputs)
  BY <1>2 DEF DisplayInv, TypeOK
<1>4. CASE pc' = "lookup" /\ i' = 1 /\ UNCHANGED outputs
  <2>1. x' \in Seq(XNames')
    BY <1>1 DEF World
  <2>2. 1 \in 1..(Len(x') + 1) /\ Len(result') = 1 - 1
    <3>1. Len(x') \in Nat
      BY <2>1
    <3>2. Len(result') = 0
      BY <1>2, EmptySeq
    <3> QED
      BY <3>1, <3>2
  <2>3. TypeOK'
    BY <1>2, <1>3, <1>4, <2>2 DEF TypeOK
  <2>4. (Phases /\ Guess /\ FallbackCard)'
    BY <1>1, <1>2, <1>4 DEF DisplayInv, Phases, Guess, FallbackCard, FirstWithout, Heads
  <2> QED
    BY <1>1, <2>3, <2>4 DEF DisplayInv
<1>5. CASE i <= Len(outputs) /\ i' = i + 1 /\ pc' = pc
  <2> DEFINE o == outputs[i]
  <2>1. i \in 1..Len(outputs) /\ o \in Outputs
    BY <1>3, <1>5
  <2>2. outputs' \in Seq(Outputs) /\ Len(outputs') = Len(outputs)
    <3>1. CASE UNCHANGED outputs
      BY <1>3, <3>1
    <3>2. CASE outputs' = [outputs EXCEPT ![i].name.n = @ - 1] /\ o.name.n # 0
      <4> DEFINE p == [o EXCEPT !.name.n = @ - 1]
      <4>1. o.name.n \in 0..9 /\ o.name.n - 1 \in 0..9
        BY <2>1, <3>2 DEF Outputs
      <4>2. p \in Outputs
        BY <2>1, <4>1 DEF Outputs
      <4>3. outputs' = [outputs EXCEPT ![i] = p]
        BY <3>2
      <4> HIDE DEF p
      <4> QED
        BY <1>3, <2>1, <4>2, <4>3
    <3>3. o.name.prefix = "Virtual-" /\ o.name # Virtual0 => o.name.n # 0
      BY <2>1 DEF Outputs, Virtual0, Name
    <3> QED
      BY <1>2, <1>5, <3>1, <3>2, <3>3 DEF Rename
  <2>3. TypeOK'
    <3>1. OutputTypes' /\ AnswerTypes' /\ found' \in 0..Cards /\ why' = why
      BY <1>2, <1>3, <2>2 DEF TypeOK, OutputTypes, AnswerTypes
    <3>2. i' \in 1..(Len(outputs') + 1)
      BY <1>3, <1>5, <2>2
    <3> QED
      BY <1>2, <1>3, <1>5, <3>1, <3>2 DEF TypeOK, OutputTypes, AnswerTypes
  <2>4. (Phases /\ Guess /\ FallbackCard)'
    BY <1>1, <1>2, <1>5 DEF DisplayInv, Phases, Guess, FallbackCard, FirstWithout, Heads
  <2> QED
    BY <1>1, <2>3, <2>4 DEF DisplayInv
<1> QED
  BY <1>3, <1>4, <1>5 DEF Rename

(* A set of indices that is not empty has a last one. *)
LEMMA LastIndex ==
  ASSUME NEW n \in Nat, NEW K \in SUBSET (1..n), K # {}
  PROVE  Max(K) \in K
<1> DEFINE S == 1..n
           F == {(k + 1)..n : k \in K}
           R == StrictSubsetOrdering(S)
<1>1. F # {} /\ F \subseteq FiniteSubsetsOf(S)
  <2>1. IsFiniteSet(S)
    BY FS_Interval
  <2>2. ASSUME NEW k \in K PROVE (k + 1)..n \in FiniteSubsetsOf(S)
    <3>1. (k + 1)..n \subseteq S
      OBVIOUS
    <3> QED
      BY <2>1, <3>1, FS_Subset DEF FiniteSubsetsOf
  <2> QED
    BY <2>2
<1>2. \E t \in F : \A u \in F : ~(<<u, t>> \in R)
  <2> HIDE DEF S, F, R
  <2>1. IsWellFoundedOn(R, FiniteSubsetsOf(S))
    BY FS_StrictSubsetOrderingWellFounded DEF R
  <2> QED
    BY <1>1, <2>1, WFMin
<1>3. PICK k \in K : \A u \in F : ~(<<u, (k + 1)..n>> \in R)
  BY <1>2
<1>4. ASSUME NEW j \in K PROVE k >= j
  <2> SUFFICES ASSUME j > k PROVE FALSE
    OBVIOUS
  <2> DEFINE u == (j + 1)..n  t == (k + 1)..n
  <2>1. u \subseteq t /\ j \in t /\ j \notin u /\ u \subseteq S /\ t \subseteq S
    OBVIOUS
  <2>2. u \in F /\ <<u, t>> \notin R
    BY <1>3
  <2> HIDE DEF u, t, F, S
  <2> QED
    BY <2>1, <2>2 DEF StrictSubsetOrdering
<1> QED
  BY <1>4 DEF Max

LEMMA LastNamedFinds ==
  ASSUME outputs \in Seq(Outputs), NEW name
  PROVE  /\ LastNamed(name) \in 0..Len(outputs)
         /\ LastNamed(name) # 0 => outputs[LastNamed(name)].name = name
         /\ LastNamed(name) = 0 => \A k \in 1..Len(outputs) : outputs[k].name # name
<1> DEFINE K == {k \in 1..Len(outputs) : outputs[k].name = name}
<1>1. LastNamed(name) = IF K # {} THEN Max(K) ELSE 0
  BY DEF LastNamed, SelectLastInSeq
<1>2. Len(outputs) \in Nat
  OBVIOUS
<1>3. K # {} => Max(K) \in K
  BY <1>2, LastIndex
<1> QED
  BY <1>1, <1>2, <1>3

(* What each branch of Lookup does. *)
LEMMA LookupCases ==
  ASSUME World, i \in Nat, Lookup
  PROVE  \/ i > Len(x) /\ pc' = "done" /\ UNCHANGED <<i, result, why>>
         \/ i <= Len(x) /\ LastNamed(x[i]) = 0 /\ Fallback("missing")
         \/ i <= Len(x) /\ LastNamed(x[i]) # 0 /\ Fallback("address")
         \/ /\ i <= Len(x) /\ LastNamed(x[i]) # 0
            /\ result' = Append(result, [stream |-> i - 1, card |-> outputs[LastNamed(x[i])].card,
                                         id |-> outputs[LastNamed(x[i])].id])
            /\ i' = i + 1
            /\ UNCHANGED <<pc, why>>
<1> DEFINE k == LastNamed(x[i])
<1>1. Len(x) \in Nat
  BY DEF World
<1>2. CASE i > Len(x)
  BY <1>2 DEF Lookup
<1>3. CASE ~(i > Len(x)) /\ k = 0
  <2>1. Fallback("missing")
    BY <1>3 DEF Lookup
  <2> QED
    BY <1>1, <1>3, <2>1
<1>4. CASE ~(i > Len(x)) /\ k # 0 /\ ~HasAddress(outputs[k].card, FALSE)
  <2>1. Fallback("address")
    BY <1>4 DEF Lookup
  <2> QED
    BY <1>1, <1>4, <2>1
<1>5. CASE ~(i > Len(x)) /\ k # 0 /\ HasAddress(outputs[k].card, FALSE)
  <2>1. /\ result' = Append(result, [stream |-> i - 1, card |-> outputs[k].card,
                                      id |-> outputs[k].id])
        /\ i' = i + 1 /\ UNCHANGED <<pc, why>>
    BY <1>5 DEF Lookup
  <2> QED
    BY <1>1, <1>5, <2>1
<1> QED
  BY <1>2, <1>3, <1>4, <1>5

LEMMA LookupStep == DisplayInv /\ Lookup => DisplayInv'
<1> SUFFICES ASSUME DisplayInv, Lookup PROVE DisplayInv'
  OBVIOUS
<1>1. World /\ World' /\ UNCHANGED <<card, x, outputs, before, found>>
  BY WorldStep DEF DisplayInv, Lookup, world
<1>2. /\ pc = "lookup" /\ found = NoCard /\ why = "none"
      /\ i \in 1..(Len(x) + 1) /\ Len(result) = i - 1
  BY DEF DisplayInv, Phases, Lookup, TypeOK
<1>types. TypeOK /\ OutputTypes /\ AnswerTypes
  BY DEF DisplayInv, TypeOK, OutputTypes, AnswerTypes
<1>3. OutputTypes' /\ found' \in 0..Cards
  BY <1>1, <1>types DEF OutputTypes, TypeOK
<1>4. Len(x) \in Nat
  BY <1>1 DEF World
<1>5. CASE i > Len(x) /\ pc' = "done" /\ UNCHANGED <<i, result, why>>
  <2>1. AnswerTypes' /\ Len(result') = Len(x')
    <3>1. Len(result) = Len(x)
      BY <1>2, <1>4, <1>5
    <3> QED
      BY <1>1, <1>5, <1>types, <3>1 DEF AnswerTypes
  <2>2. TypeOK'
    BY <1>2, <1>3, <1>5, <1>types, <2>1 DEF TypeOK, OutputTypes, AnswerTypes
  <2>3. (Phases /\ Guess /\ FallbackCard)'
    BY <1>1, <1>2, <1>5 DEF Phases, Guess, FallbackCard, FirstWithout
  <2> QED
    BY <1>1, <2>2, <2>3 DEF DisplayInv
<1>6. CASE Fallback("missing") \/ Fallback("address")
  <2>1. pc' = "cards" /\ i' = 1 /\ why' \in {"missing", "address"}
    BY <1>6 DEF Fallback
  <2>2. result' = <<>>
    BY <1>6 DEF Fallback
  <2>3. AnswerTypes'
    BY <2>2, EmptyAnswers DEF AnswerTypes
  <2>4. i' \in 1..(Cards + 1)
    BY <2>1, DisplayAssumption
  <2>5. TypeOK'
    BY <1>3, <2>1, <2>3, <2>4 DEF TypeOK, OutputTypes, AnswerTypes
  <2>6. (Phases /\ Guess /\ FallbackCard)'
    <3>1. i' - 1 = 0 /\ found' = 0 /\ found' < i'
      BY <1>1, <1>2, <2>1 DEF NoCard
    <3>2. \A d \in 1..(i' - 1) : FALSE
      BY <3>1
    <3> QED
      BY <1>2, <2>1, <3>1, <3>2 DEF Phases, Guess, FallbackCard, FirstWithout, NoCard
  <2> QED
    BY <1>1, <2>5, <2>6 DEF DisplayInv
<1>7. CASE /\ i <= Len(x) /\ LastNamed(x[i]) # 0
           /\ result' = Append(result, [stream |-> i - 1, card |-> outputs[LastNamed(x[i])].card,
                                        id |-> outputs[LastNamed(x[i])].id])
           /\ i' = i + 1
           /\ UNCHANGED <<pc, why>>
  <2> DEFINE k == LastNamed(x[i])
             r == [stream |-> i - 1, card |-> outputs[k].card, id |-> outputs[k].id]
  <2>1. k \in 1..Len(outputs) /\ outputs[k] \in Outputs
    <3>1. outputs \in Seq(Outputs) /\ k \in 0..Len(outputs) /\ k # 0
      BY <1>7, <1>types, LastNamedFinds DEF OutputTypes
    <3> HIDE DEF k
    <3> QED
      BY <3>1
  <2>2. r \in Infos /\ r.stream = i - 1
    <3> HIDE DEF k
    <3> QED
      BY <1>2, <1>4, <2>1 DEF Infos, Outputs
  <2>res. result \in Seq(Infos) /\ \A j \in 1..Len(result) : result[j].stream = j - 1
    BY <1>types DEF AnswerTypes
  <2>3. result' = Append(result, r)
    BY <1>7
  <2> HIDE DEF r, k
  <2>4. result' \in Seq(Infos) /\ Len(result') = i
    BY <1>2, <2>2, <2>3, <2>res
  <2>5. \A j \in 1..Len(result') : result'[j].stream = j - 1
    BY <1>2, <2>2, <2>3, <2>4, <2>res
  <2>6. i' \in 1..(Len(x') + 1) /\ Len(result') = i' - 1
    BY <1>1, <1>2, <1>4, <1>7, <2>4
  <2>7. TypeOK'
    BY <1>2, <1>3, <1>7, <1>types, <2>4, <2>5, <2>6 DEF TypeOK, OutputTypes
  <2>8. (Phases /\ Guess /\ FallbackCard)'
    BY <1>1, <1>2, <1>7 DEF Phases, Guess, FallbackCard, FirstWithout
  <2> QED
    BY <1>1, <2>7, <2>8 DEF DisplayInv
<1> QED
  <2>1. i \in Nat
    BY <1>2
  <2> QED
    BY <1>1, <1>5, <1>6, <1>7, <2>1, LookupCases

LEMMA FallbackCardsStep == DisplayInv /\ FallbackCards => DisplayInv'
<1> SUFFICES ASSUME DisplayInv, FallbackCards PROVE DisplayInv'
  OBVIOUS
<1>1. World' /\ UNCHANGED <<card, x, outputs, before, result, why>>
  BY WorldStep DEF DisplayInv, FallbackCards, world
<1>2. pc = "cards" /\ why # "none" /\ i \in 1..(Cards + 1) /\ found \in 0..Cards
  BY DEF DisplayInv, Phases, FallbackCards, TypeOK
<1>types. TypeOK /\ OutputTypes /\ AnswerTypes /\ Guess
  BY DEF DisplayInv, TypeOK, OutputTypes, AnswerTypes
<1>3. OutputTypes' /\ AnswerTypes'
  BY <1>1, <1>types DEF OutputTypes, AnswerTypes
<1>4. \A c : Heads(c)' = Heads(c)
  BY <1>1 DEF Heads
<1>5. CASE /\ pc' = "address" /\ UNCHANGED <<found, i>>
           /\ found # NoCard \/ i > Cards
  <2>1. TypeOK'
    BY <1>1, <1>2, <1>3, <1>5, <1>types DEF TypeOK, OutputTypes, AnswerTypes
  <2>3. found = NoCard => \A d \in 1..Cards : Heads(d) # {}
    <3> SUFFICES ASSUME found = NoCard PROVE \A d \in 1..Cards : Heads(d) # {}
      OBVIOUS
    <3>1. i - 1 = Cards
      BY <1>2, <1>5, DisplayAssumption
    <3>2. \A d \in 1..(i - 1) : Heads(d) # {}
      BY <1>2, <1>types DEF Guess
    <3> QED
      BY <3>1, <3>2
  <2>2. (Phases /\ Guess /\ FallbackCard)'
    BY <1>1, <1>2, <1>4, <1>5, <1>types, <2>3 DEF Phases, Guess, FallbackCard, FirstWithout
  <2> QED
    BY <1>1, <2>1, <2>2 DEF DisplayInv
<1>6. CASE /\ found = NoCard /\ i <= Cards
           /\ found' = (IF Heads(i) = {} THEN i ELSE NoCard)
           /\ i' = i + 1 /\ pc' = pc
  <2>1. i' \in 1..(Cards + 1) /\ found' \in 0..Cards
    BY <1>2, <1>6, DisplayAssumption DEF NoCard
  <2>2. TypeOK'
    BY <1>1, <1>2, <1>3, <1>6, <1>types, <2>1 DEF TypeOK, OutputTypes, AnswerTypes
  <2>3. \A d \in 1..(i - 1) : Heads(d) # {}
    BY <1>2, <1>6, <1>types DEF Guess
  <2>4. Guess'
    <3>1. i \in Nat /\ i > 0 /\ i' = i + 1 /\ i' - 1 = i
      BY <1>2, <1>6
    <3>2. CASE Heads(i) = {}
      <4>1. found' = i
        BY <1>6, <3>2
      <4> QED
        BY <1>2, <1>4, <1>6, <2>3, <3>1, <3>2, <4>1 DEF Guess, NoCard, FirstWithout
    <3>3. CASE Heads(i) # {}
      <4>1. found' = 0
        BY <1>6, <3>3 DEF NoCard
      <4>2. \A d \in 1..i : Heads(d) # {}
        BY <2>3, <3>1, <3>3
      <4> QED
        BY <1>2, <1>4, <1>6, <3>1, <4>1, <4>2 DEF Guess, NoCard, FirstWithout
    <3> QED
      BY <3>2, <3>3
  <2>5. (Phases /\ FallbackCard)'
    BY <1>1, <1>2, <1>6 DEF Phases, FallbackCard
  <2> QED
    BY <1>1, <2>2, <2>4, <2>5 DEF DisplayInv
<1> QED
  <2>1. Cards \in Nat /\ i \in Nat
    BY <1>2, DisplayAssumption
  <2> QED
    BY <1>5, <1>6, <2>1 DEF FallbackCards

LEMMA FallbackAddressStep == DisplayInv /\ FallbackAddress => DisplayInv'
<1> SUFFICES ASSUME DisplayInv, FallbackAddress PROVE DisplayInv'
  OBVIOUS
<1>1. World' /\ World /\ UNCHANGED <<card, x, cwd, outputs, before, i, found, why>>
  BY WorldStep DEF DisplayInv, FallbackAddress, world
<1>2. pc = "address" /\ why # "none" /\ found \in 0..Cards
  BY DEF DisplayInv, Phases, FallbackAddress, TypeOK
<1>types. TypeOK /\ OutputTypes /\ AnswerTypes /\ Guess
  BY DEF DisplayInv, TypeOK, OutputTypes, AnswerTypes
<1>3. OutputTypes'
  BY <1>1, <1>types DEF OutputTypes
<1>4. \A c : Heads(c)' = Heads(c)
  BY <1>1 DEF Heads
<1>5. CASE /\ pc' = "error" /\ UNCHANGED result
           /\ found = NoCard \/ ~HasAddress(found, TRUE)
  <2>1. AnswerTypes'
    BY <1>5, <1>types DEF AnswerTypes
  <2>2. TypeOK'
    BY <1>1, <1>2, <1>3, <1>5, <1>types, <2>1 DEF TypeOK, OutputTypes, AnswerTypes
  <2>3. (Phases /\ Guess /\ FallbackCard)'
    BY <1>1, <1>2, <1>4, <1>5, <1>types DEF Phases, Guess, FallbackCard, FirstWithout, HasAddress
  <2> QED
    BY <1>1, <2>2, <2>3 DEF DisplayInv
<1>6. CASE /\ found # NoCard /\ pc' = "done"
           /\ result' = [k \in 1..Len(x) |-> [stream |-> k - 1, card |-> found, id |-> k - 1]]
  <2>1. Len(x) \in Nat
    BY <1>1 DEF World
  <2>2. found \in 1..Cards
    BY <1>2, <1>6 DEF NoCard
  <2>3. \A k \in 1..Len(x) : [stream |-> k - 1, card |-> found, id |-> k - 1] \in Infos
    BY <2>1, <2>2 DEF Infos
  <2>4. result' \in [1..Len(x) -> Infos]
    BY <1>6, <2>3
  <2>5. result' \in Seq(Infos) /\ Len(result') = Len(x)
    BY <2>1, <2>4, FunctionIsSeq
  <2>6. \A k \in 1..Len(result') : result'[k].stream = k - 1 /\ result'[k].card = found
    BY <1>6, <2>5
  <2>7. TypeOK'
    BY <1>1, <1>2, <1>3, <1>6, <1>types, <2>5, <2>6 DEF TypeOK, OutputTypes
  <2>8. FallbackCard'
    BY <1>1, <1>2, <1>4, <1>6, <1>types, <2>6 DEF Guess, FallbackCard, FirstWithout
  <2>9. (Phases /\ Guess)'
    BY <1>1, <1>2, <1>4, <1>6, <1>types DEF Phases, Guess, FirstWithout
  <2> QED
    BY <1>1, <2>7, <2>8, <2>9 DEF DisplayInv
<1> QED
  BY <1>5, <1>6 DEF FallbackAddress

LEMMA DisplayStep == DisplayInv /\ [Next]_vars => DisplayInv'
<1> SUFFICES ASSUME DisplayInv, [Next]_vars PROVE DisplayInv'
  OBVIOUS
<1>1. CASE UNCHANGED vars
  <2>1. World' /\ UNCHANGED <<card, x, cwd, pc, outputs, before, i, found, result, why>>
    BY <1>1, WorldStep DEF DisplayInv, vars, world
  <2>2. \A c : Heads(c)' = Heads(c)
    BY <2>1 DEF Heads
  <2> QED
    BY <2>1, <2>2 DEF DisplayInv, TypeOK, Phases, Guess, FallbackCard, FirstWithout, HasAddress
<1> QED
  BY <1>1, SortStep, DrmFailsStep, RenameStep, LookupStep, FallbackCardsStep, FallbackAddressStep
  DEF Next

-----------------------------------------------------------------------------
(* The match of the outputs. *)
LEMMA MatchInit == Init /\ OneBase => MatchInv
<1> SUFFICES ASSUME Init, OneBase PROVE MatchInv
  OBVIOUS
<1>1. pc = "outputs" /\ why = "none"
  BY DEF Init
<1>2. \A k \in 1..Len(result) : FALSE
  BY EmptySeq DEF Init
<1> QED
  BY <1>1, <1>2 DEF MatchInv, Listed, Renamed, Answered, RightDevice, LookupFinds

(* What the loop makes of an output that is not counted from Virtual-0, and *)
(* that the only one which is has X's name before the loop.                *)
LEMMA RenamedToX ==
  ASSUME World, OneBase, NEW o \in GetOutputs
  PROVE  /\ ~zero => o.name # Virtual0
         /\ ~zero /\ card[o.card].qxl /\ o.name.prefix = "Virtual-"
              => AsX(o) = [o EXCEPT !.name.n = @ - 1]
         /\ zero /\ card[o.card].qxl => o.name = Virtual0
         /\ zero \/ ~(card[o.card].qxl /\ o.name.prefix = "Virtual-") => AsX(o) = o
         /\ AsX(o).name = XName(o.card, Number(o))
         /\ AsX(o).card = o.card /\ AsX(o).id = o.id
<1> DEFINE n == Number(o)  c == o.card
<1>1. o \in Outputs /\ n \in 1..9 /\ c \in 1..Cards /\ o.name = DrmName(c, n)
  BY HeadOfOutput
<1>2. card[c].qxl => card[c].prefix = "Virtual-"
  BY <1>1 DEF World
<1>3. zero /\ card[c].qxl => n = 1
  <2> SUFFICES ASSUME zero, card[c].qxl PROVE n = 1
    OBVIOUS
  <2>1. n \in Numbers(c)
    BY HeadOfOutput
  <2>2. Numbers(c) = Heads(c) /\ Len(card[c].connectors) <= 1
    BY <1>1 DEF World, OneBase
  <2>3. Len(card[c].connectors) \in Nat
    BY <1>1 DEF World
  <2> HIDE DEF n, c
  <2> QED
    BY <2>1, <2>2, <2>3 DEF Heads
<1> HIDE DEF n
<1>4. o.name = Name(card[c].prefix, IF card[c].qxl /\ zero THEN n - 1 ELSE n)
  BY <1>1 DEF DrmName
<1>5. AsX(o) = [o EXCEPT !.name = XName(c, n)]
  BY DEF AsX, n
<1>6. CASE ~zero /\ card[c].qxl
  <2>1. o.name = Name(card[c].prefix, n) /\ o.name # Virtual0 /\ o.name.prefix = "Virtual-"
    BY <1>1, <1>2, <1>4, <1>6 DEF Virtual0, Name
  <2>2. XName(c, n) = [o.name EXCEPT !.n = @ - 1]
    BY <2>1, <1>6 DEF XName, Name
  <2>3. AsX(o) = [o EXCEPT !.name.n = @ - 1]
    BY <1>1, <1>5, <2>2 DEF Outputs
  <2> QED
    BY <1>1, <1>5, <1>6, <2>1, <2>3 DEF Outputs, n
<1>7. CASE zero \/ ~card[c].qxl
  <2>1. XName(c, n) = o.name
    BY <1>3, <1>4, <1>7 DEF XName
  <2>2. ~zero => o.name # Virtual0
    BY <1>1, <1>4, <1>7 DEF Virtual0, Name
  <2>3. zero /\ card[c].qxl => o.name = Virtual0
    BY <1>2, <1>3, <1>4 DEF Virtual0
  <2>4. AsX(o) = o
    BY <1>1, <1>5, <2>1 DEF Outputs
  <2> QED
    BY <1>5, <1>7, <2>1, <2>2, <2>3, <2>4 DEF n
<1> QED
  BY <1>6, <1>7

LEMMA SameWorld ==
  UNCHANGED world =>
    /\ OneBase' = OneBase /\ x' = x /\ card' = card /\ GetOutputs' = GetOutputs
    /\ \A o : AsX(o)' = AsX(o)
    /\ \A c : Heads(c)' = Heads(c)
    /\ \A c, n : XName(c, n)' = XName(c, n)
<1> SUFFICES ASSUME UNCHANGED world
             PROVE  /\ OneBase' = OneBase /\ x' = x /\ card' = card /\ GetOutputs' = GetOutputs
                    /\ \A o : AsX(o)' = AsX(o)
                    /\ \A c : Heads(c)' = Heads(c)
                    /\ \A c, n : XName(c, n)' = XName(c, n)
  OBVIOUS
<1>1. zero' = zero /\ x' = x /\ card' = card /\ OneBase' = OneBase
  BY DEF world, OneBase
<1>2. \A c : Heads(c)' = Heads(c)
  BY <1>1 DEF Heads
<1>3. \A c, n : XName(c, n)' = XName(c, n) /\ DrmName(c, n)' = DrmName(c, n)
  BY <1>1 DEF XName, DrmName
<1>4. GetOutputs' = GetOutputs
  BY <1>1, <1>2, <1>3 DEF GetOutputs
<1>5. \A o : AsX(o)' = AsX(o)
  BY <1>1, <1>3 DEF AsX, Number
<1> QED
  BY <1>1, <1>2, <1>3, <1>4, <1>5

(* Of a step that leaves the answers alone, or makes them the fallback's. *)
LEMMA AnswersStay ==
  ASSUME Answered, RightDevice, UNCHANGED world,
         why' # "none" \/ UNCHANGED <<result, why>>
  PROVE  Answered' /\ RightDevice'
<1> USE SameWorld
<1>1. CASE why' # "none"
  BY <1>1 DEF Answered, RightDevice
<1>2. CASE UNCHANGED <<result, why>>
  <2>1. Answered'
    BY <1>2 DEF Answered
  <2>2. RightDevice'
    BY <1>2 DEF RightDevice, XName
  <2> QED
    BY <2>1, <2>2
<1> QED
  BY <1>1, <1>2

LEMMA SortMatches == DisplayInv /\ MatchInv /\ Sort => MatchInv'
<1> SUFFICES ASSUME DisplayInv, MatchInv, Sort PROVE MatchInv'
  OBVIOUS
<1>1. UNCHANGED world /\ UNCHANGED <<result, why>> /\ World /\ MatchInv
  BY DEF Sort, DisplayInv
<1>2. Answered' /\ RightDevice' /\ LookupFinds' /\ OneBase'
  BY <1>1, AnswersStay, SameWorld DEF MatchInv, LookupFinds
<1>3. pc' = "rename" /\ i' = 1 /\ before' = outputs'
  BY DEF Sort, DisplayInv, Phases
<1>4. /\ outputs' \in Seq(Outputs)
      /\ \A k \in 1..Len(outputs') : outputs'[k] \in GetOutputs
      /\ \A o \in GetOutputs : \E k \in 1..Len(outputs') : outputs'[k] = o
      /\ \A j, k \in 1..Len(outputs') : outputs'[j] = outputs'[k] => j = k
  <2>1. outputs' = Sorted
    BY DEF Sort
  <2> QED
    BY <1>1, <2>1, SortedList
<1>5. Listed'
  BY <1>1, <1>3, <1>4, SameWorld DEF Listed
<1>6. Renamed'
  <2>1. \A k \in 1..Len(before') : k >= i'
    BY <1>3
  <2> QED
    BY <1>3, <2>1 DEF Renamed
<1> QED
  BY <1>2, <1>5, <1>6 DEF MatchInv

LEMMA RenameMatches == DisplayInv /\ MatchInv /\ Rename => MatchInv'
<1> SUFFICES ASSUME DisplayInv, MatchInv, Rename PROVE MatchInv'
  OBVIOUS
<1>1. UNCHANGED world /\ UNCHANGED <<before, result, why>> /\ World
  BY DEF Rename, DisplayInv
<1>2. Answered' /\ RightDevice' /\ LookupFinds' /\ OneBase' /\ OneBase
  BY <1>1, AnswersStay, SameWorld DEF MatchInv, LookupFinds
<1>3. /\ pc = "rename" /\ i \in 1..(Len(outputs) + 1)
      /\ outputs \in Seq(Outputs) /\ before \in Seq(Outputs) /\ Len(outputs) = Len(before)
  BY DEF Rename, DisplayInv, TypeOK
<1>4. /\ \A k \in 1..Len(before) : before[k] \in GetOutputs
      /\ \A o \in GetOutputs : \E k \in 1..Len(before) : before[k] = o
      /\ \A j, k \in 1..Len(before) : before[j] = before[k] => j = k
  BY <1>3 DEF MatchInv, Listed
<1>5. Listed'
  BY <1>1, <1>4, SameWorld DEF Listed
<1>6. \A k \in 1..Len(before) : outputs[k] = IF k >= i THEN before[k] ELSE AsX(before[k])
  BY <1>3 DEF MatchInv, Renamed
<1>7. i <= Len(outputs) => outputs[i] = before[i] /\ before[i] \in GetOutputs
  BY <1>3, <1>4, <1>6
<1>8. i <= Len(outputs) /\ card[outputs[i].card].qxl => (outputs[i].name = Virtual0 <=> zero)
  BY <1>1, <1>2, <1>7, RenamedToX
<1>9. Renamed'
  <2>1. CASE i > Len(outputs) \/ (card[outputs[i].card].qxl /\ outputs[i].name = Virtual0)
    <3>1. pc' = "lookup" /\ outputs' = outputs
      BY <2>1 DEF Rename
    <3>2. i > Len(outputs) \/ zero
      BY <1>3, <1>8, <2>1
    <3>3. ASSUME NEW k \in 1..Len(before) PROVE outputs[k] = AsX(before[k])
      <4>1. CASE i > Len(outputs)
        <5>1. ~(k >= i)
          BY <1>3, <4>1
        <5> QED
          BY <1>6, <5>1
      <4>2. CASE zero
        BY <1>1, <1>2, <1>4, <1>6, <4>2, RenamedToX
      <4> QED
        BY <3>2, <4>1, <4>2
    <3> QED
      BY <1>1, <3>1, <3>3, SameWorld DEF Renamed
  <2>2. CASE ~(i > Len(outputs)) /\ ~(card[outputs[i].card].qxl /\ outputs[i].name = Virtual0)
    <3> DEFINE o == before[i]
    <3>1. i \in 1..Len(outputs) /\ i <= Len(outputs)
      BY <1>3, <2>2
    <3>2. outputs[i] = o /\ o \in GetOutputs /\ (card[o.card].qxl => ~zero)
      BY <1>7, <1>8, <2>2, <3>1
    <3>3. /\ i' = i + 1 /\ pc' = "rename"
          /\ IF card[o.card].qxl /\ o.name.prefix = "Virtual-"
             THEN outputs' = [outputs EXCEPT ![i].name.n = @ - 1]
             ELSE outputs' = outputs
      BY <1>3, <2>2, <3>2 DEF Rename
    <3>4. outputs' = [outputs EXCEPT ![i] = AsX(o)]
      <4>1. CASE card[o.card].qxl /\ o.name.prefix = "Virtual-"
        <5>1. AsX(o) = [o EXCEPT !.name.n = @ - 1]
          BY <1>1, <1>2, <3>2, <4>1, RenamedToX
        <5> HIDE DEF o
        <5> QED
          BY <3>2, <3>3, <4>1, <5>1
      <4>2. CASE ~(card[o.card].qxl /\ o.name.prefix = "Virtual-")
        <5>1. AsX(o) = o
          BY <1>1, <1>2, <3>2, <4>2, RenamedToX
        <5> HIDE DEF o
        <5>2. outputs' = outputs
          BY <3>3, <4>2
        <5> QED
          BY <1>3, <3>1, <3>2, <5>1, <5>2
      <4> QED
        BY <4>1, <4>2
    <3>5. ASSUME NEW k \in 1..Len(before)
          PROVE  outputs'[k] = IF k >= i + 1 THEN before[k] ELSE AsX(before[k])
      <4>1. CASE k = i
        BY <1>3, <3>1, <3>4, <4>1
      <4>2. CASE k # i
        <5>1. outputs'[k] = outputs[k]
          BY <1>3, <3>4, <4>2
        <5>2. k >= i + 1 <=> k >= i
          BY <3>1, <4>2
        <5> QED
          BY <1>6, <5>1, <5>2
      <4> QED
        BY <4>1, <4>2
    <3> QED
      BY <1>1, <3>3, <3>5, SameWorld DEF Renamed
  <2> QED
    BY <2>1, <2>2
<1> QED
  BY <1>2, <1>5, <1>9 DEF MatchInv

LEMMA LookupMatches == DisplayInv /\ MatchInv /\ Lookup => MatchInv'
<1> SUFFICES ASSUME DisplayInv, MatchInv, Lookup PROVE MatchInv'
  OBVIOUS
<1>1. UNCHANGED world /\ UNCHANGED <<before, outputs>> /\ World
  BY DEF Lookup, DisplayInv
<1>2. OneBase /\ Answered /\ RightDevice /\ LookupFinds
  BY DEF MatchInv
<1>3. /\ pc = "lookup" /\ why = "none" /\ i \in 1..(Len(x) + 1) /\ Len(result) = i - 1
      /\ outputs \in Seq(Outputs) /\ before \in Seq(Outputs) /\ Len(outputs) = Len(before)
      /\ result \in Seq(Infos)
  BY DEF Lookup, DisplayInv, TypeOK, Phases
<1>4. /\ \A k \in 1..Len(before) : before[k] \in GetOutputs
      /\ \A o \in GetOutputs : \E k \in 1..Len(before) : before[k] = o
      /\ \A j, k \in 1..Len(before) : before[j] = before[k] => j = k
  BY <1>3 DEF MatchInv, Listed
<1>5. \A k \in 1..Len(before) : outputs[k] = AsX(before[k])
  BY <1>3 DEF MatchInv, Renamed
<1>6. ASSUME pc' # "rename" PROVE Listed' /\ Renamed' /\ OneBase'
  <2>1. Listed'
    BY <1>1, <1>4, SameWorld DEF Listed
  <2>2. Renamed'
    BY <1>1, <1>5, <1>6, SameWorld DEF Renamed
  <2> QED
    BY <1>1, <1>2, <2>1, <2>2, SameWorld
<1>7. Len(x) \in Nat /\ x \in Seq(XNames)
  BY <1>1 DEF World
<1>8. CASE i > Len(x) /\ pc' = "done" /\ UNCHANGED <<i, result, why>>
  <2>1. Answered' /\ RightDevice' /\ LookupFinds'
    BY <1>1, <1>2, <1>8, AnswersStay DEF LookupFinds
  <2> QED
    BY <1>6, <1>8, <2>1 DEF MatchInv
(* The X output is a connector's, and the connector is in the list. *)
<1>9. ASSUME i <= Len(x) PROVE LastNamed(x[i]) # 0
  <2>1. i \in 1..Len(x)
    BY <1>3, <1>7, <1>9
  <2>2. x[i] \in XNames
    BY <1>7, <2>1
  <2>3. PICK c \in 1..Cards : \E h \in Heads(c) : x[i] = XName(c, card[c].connectors[h])
    BY <2>2 DEF XNames
  <2>4. PICK h \in Heads(c) : x[i] = XName(c, card[c].connectors[h])
    BY <2>3
  <2> DEFINE o == Output(c, h)
  <2>5. o \in GetOutputs
    BY <1>1, OutputOfHead
  <2>6. AsX(o).name = x[i]
    <3>1. o.card = c /\ o.id + 1 = h
      BY <2>4 DEF Output, Heads
    <3>2. Number(o) = card[c].connectors[h]
      BY <3>1 DEF Number
    <3> HIDE DEF o
    <3> QED
      BY <1>1, <1>2, <2>4, <2>5, <3>1, <3>2, RenamedToX
  <2> HIDE DEF o
  <2>7. PICK k \in 1..Len(before) : before[k] = o
    BY <1>4, <2>5
  <2>8. k \in 1..Len(outputs) /\ outputs[k].name = x[i]
    BY <1>3, <1>5, <2>6, <2>7
  <2> QED
    BY <1>3, <2>8, LastNamedFinds
<1>10. CASE Fallback("address")
  <2>1. pc' = "cards" /\ why' = "address"
    BY <1>10 DEF Fallback
  <2>2. Answered' /\ RightDevice'
    BY <1>1, <1>2, <2>1, AnswersStay
  <2> QED
    BY <1>6, <2>1, <2>2 DEF MatchInv, LookupFinds
<1>11. CASE /\ i <= Len(x) /\ LastNamed(x[i]) # 0
            /\ result' = Append(result, [stream |-> i - 1, card |-> outputs[LastNamed(x[i])].card,
                                         id |-> outputs[LastNamed(x[i])].id])
            /\ i' = i + 1
            /\ UNCHANGED <<pc, why>>
  <2> DEFINE k == LastNamed(x[i])
             r == [stream |-> i - 1, card |-> outputs[k].card, id |-> outputs[k].id]
  <2>1. k \in 1..Len(outputs) /\ outputs[k].name = x[i]
    <3>1. k \in 0..Len(outputs) /\ k # 0 /\ outputs[k].name = x[i]
      BY <1>3, <1>11, LastNamedFinds
    <3> HIDE DEF k
    <3> QED
      BY <1>3, <3>1
  <2>2. result' = Append(result, r) /\ pc' = "lookup" /\ why' = "none"
    BY <1>3, <1>11
  <2> HIDE DEF k
  <2> DEFINE o == before[k]
  <2>3. outputs[k] = AsX(o) /\ o \in GetOutputs
    BY <1>3, <1>4, <1>5, <2>1
  <2> HIDE DEF o
  <2>4. r.card = o.card /\ r.id = o.id /\ x[i] = XName(o.card, Number(o))
    BY <1>1, <1>2, <2>1, <2>3, RenamedToX
  <2>5. r.id + 1 \in Heads(r.card) /\ x[i] = XName(r.card, card[r.card].connectors[r.id + 1])
    BY <1>1, <2>3, <2>4, HeadOfOutput DEF Number
  <2> HIDE DEF r
  <2>6. Len(result') = i /\ result'[i] = r
    BY <1>3, <2>2
  <2>7. \A j \in 1..Len(result') : j # i => j \in 1..Len(result) /\ result'[j] = result[j]
    BY <1>3, <2>2, <2>6
  <2>8. Answered'
    <3>1. \A j \in 1..Len(result') : result'[j].id + 1 \in Heads(result'[j].card)
      BY <1>2, <1>3, <2>5, <2>6, <2>7 DEF Answered
    <3> QED
      BY <1>1, <3>1, SameWorld DEF Answered
  <2>9. RightDevice'
    <3>1. \A j \in 1..Len(result') :
            x[j] = XName(result'[j].card, card[result'[j].card].connectors[result'[j].id + 1])
      BY <1>2, <1>3, <2>5, <2>6, <2>7 DEF RightDevice
    <3>2. x' = x /\ card' = card
      BY <1>1, SameWorld
    <3> QED
      BY <3>1, <3>2 DEF RightDevice, XName
  <2> QED
    BY <1>6, <2>2, <2>8, <2>9 DEF MatchInv, LookupFinds
<1> QED
  <2>1. i \in Nat
    BY <1>3
  <2> QED
    BY <1>1, <1>8, <1>9, <1>10, <1>11, <2>1, LookupCases

LEMMA MatchStep == DisplayInv /\ MatchInv /\ [Next]_vars => MatchInv'
<1> SUFFICES ASSUME DisplayInv, MatchInv, [Next]_vars PROVE MatchInv'
  OBVIOUS
<1>1. CASE \/ DrmFails \/ FallbackCards \/ FallbackAddress
  <2>1. UNCHANGED world /\ OneBase' /\ Answered /\ RightDevice
    <3>1. UNCHANGED world
      BY <1>1 DEF DrmFails, FallbackCards, FallbackAddress
    <3> QED
      BY <3>1, SameWorld DEF MatchInv
  <2>2. pc' \notin {"rename", "lookup"} /\ why' # "none" /\ why' # "missing"
    <3>1. CASE DrmFails
      BY <3>1 DEF DrmFails, Fallback
    <3>2. CASE FallbackCards \/ FallbackAddress
      <4>1. pc \in {"cards", "address"} /\ why' = why
        BY <3>2 DEF FallbackCards, FallbackAddress
      <4>2. why # "none" /\ why # "missing"
        BY <4>1 DEF DisplayInv, Phases, MatchInv, LookupFinds
      <4>3. pc' \in {"cards", "address", "done", "error"}
        <5>1. CASE FallbackCards
          BY <5>1 DEF FallbackCards
        <5>2. CASE FallbackAddress
          BY <5>2 DEF FallbackAddress
        <5> QED
          BY <3>2, <5>1, <5>2
      <4> QED
        BY <4>1, <4>2, <4>3
    <3> QED
      BY <1>1, <3>1, <3>2
  <2>3. Answered' /\ RightDevice'
    BY <2>1, <2>2, AnswersStay
  <2> QED
    BY <2>1, <2>2, <2>3 DEF MatchInv, Listed, Renamed, LookupFinds
<1>2. CASE UNCHANGED vars
  <2>1. UNCHANGED world /\ UNCHANGED <<pc, outputs, before, i, result, why>>
    BY <1>2 DEF vars
  <2>2. Answered' /\ RightDevice' /\ LookupFinds' /\ OneBase'
    BY <2>1, AnswersStay, SameWorld DEF MatchInv, LookupFinds
  <2>3. Listed'
    BY <2>1, SameWorld DEF MatchInv, Listed
  <2>4. Renamed'
    BY <2>1, SameWorld DEF MatchInv, Renamed
  <2> QED
    BY <2>2, <2>3, <2>4 DEF MatchInv
<1> QED
  BY <1>1, <1>2, SortMatches, RenameMatches, LookupMatches DEF Next

-----------------------------------------------------------------------------
(* Whatever the cards list and however DRM fails, the names keep a digit   *)
(* at their end, the loops stay in their lists, and the answer has one     *)
(* entry for each X output.                                                *)
THEOREM DisplayTypes == Spec => []TypeOK
<1>1. DisplayInv => TypeOK
  BY DEF DisplayInv
<1> QED
  BY <1>1, DisplayInit, DisplayStep, PTL DEF Spec

(* The fallback answers with the first card that lists no outputs.         *)
THEOREM FallbackTakesFirst == Spec => []FallbackCard
<1>1. DisplayInv => FallbackCard
  BY DEF DisplayInv
<1> QED
  BY <1>1, DisplayInit, DisplayStep, PTL DEF Spec

(* The fallback fails for no other reason than that there is no card to    *)
(* answer with, or none of its on a PCI bus, when the agent runs in the    *)
(* directory of the cards.                                                 *)
THEOREM AnswersInSysDrm == Spec => [](cwd => FallbackAnswers)
<1>1. DisplayInv => (cwd => FallbackAnswers)
  <2> SUFFICES ASSUME DisplayInv, cwd, pc = "error", NEW c \in 1..Cards, FirstWithout(c)
               PROVE  ~card[c].pci
    BY DEF FallbackAnswers
  <2>1. found \in 0..Cards /\ found # NoCard
    BY DEF DisplayInv, TypeOK, Guess, FirstWithout
  <2>2. found = c
    BY <2>1 DEF DisplayInv, Guess, FirstWithout, NoCard
  <2> QED
    BY <2>1, <2>2 DEF DisplayInv, Guess, HasAddress
<1> QED
  BY <1>1, DisplayInit, DisplayStep, PTL DEF Spec

LEMMA MatchInvariant == Spec => [](OneBase => MatchInv)
<1>1. DisplayInv /\ (OneBase => MatchInv) /\ [Next]_vars => (OneBase => MatchInv)'
  <2> SUFFICES ASSUME DisplayInv, OneBase => MatchInv, [Next]_vars, OneBase'
               PROVE  MatchInv'
    OBVIOUS
  <2>1. UNCHANGED world
    BY DEF Next, Sort, DrmFails, Rename, Lookup, FallbackCards, FallbackAddress, vars
  <2>2. OneBase
    BY <2>1, SameWorld
  <2> QED
    BY <2>2, MatchStep
<1>2. Init => (OneBase => MatchInv)
  BY MatchInit
<1> QED
  BY <1>1, <1>2, DisplayInit, DisplayStep, PTL DEF Spec

(* An answer that came through DRM names the card and the connector that X *)
(* means, for every number of cards and every order of connectors and of X *)
(* outputs: with QXL outputs counted from Virtual-1, or one of Virtual-0.  *)
THEOREM AnswersRight == Spec => []RightDevice
<1>1. (OneBase => MatchInv) => RightDevice
  BY DEF MatchInv, RightDevice
<1> QED
  BY <1>1, MatchInvariant, PTL

(* Under the same names, every X output is found among those of DRM.       *)
THEOREM AllOutputsFound == Spec => []LookupFinds
<1>1. (OneBase => MatchInv) => LookupFinds
  BY DEF MatchInv, LookupFinds
<1> QED
  BY <1>1, MatchInvariant, PTL
===============================================================================
