--------------------------- MODULE MergeMapProofs ---------------------------
(***************************************************************************)
(* The hash map, for every table, every hash function and every initial     *)
(* capacity: probe chains stay intact and lookup answers with the first     *)
(* merge of the pair.                                                       *)
(*                                                                         *)
(* ChainsIntact alone is not inductive.  A merge that is stored must close  *)
(* the chain its own probe has walked (Probed), and a slot a chain refers   *)
(* to must hold a merge of the table (Genuine), so that filling an empty    *)
(* slot disturbs no chain that is there already.                            *)
(***************************************************************************)
EXTENDS MergeMap, SequenceTheorems, TLAPS

Allocated == phase # "sizing"

(* What is in a slot came from the table, from a merge inserted before.    *)
Genuine ==
    Allocated => \A s \in Slots : entries[s].key # Empty =>
        /\ entries[s].rank \in 1 .. next - 1
        /\ entries[s].key = MergeKey(entries[s].rank)
        /\ entries[s].target = merges[entries[s].rank][3]

(* The probe has passed occupied slots only, and looking none with its key. *)
Probed ==
    /\ phase = "building" /\ next <= Len(merges) =>
          \A u \in Slots : Distance(MergeKey(next), u) < Distance(MergeKey(next), idx) =>
              entries[u].key # Empty
    /\ phase = "looking" =>
          \A u \in Slots : Distance(QueryKey, u) < Distance(QueryKey, idx) =>
              entries[u].key \notin {Empty, QueryKey}

(* Nothing is stored before the table is allocated, and lookups wait until  *)
(* all merges are.                                                          *)
Phases ==
    /\ phase = "sizing" => next = 1
    /\ phase \in {"ready", "looking"} => next = Len(merges) + 1

IInv == TypeOK /\ Phases /\ Genuine /\ Probed /\ ChainsIntact

-----------------------------------------------------------------------------
(* Two numbers below v are read back from a * v + b.                       *)
LEMMA PackIsInjective ==
  ASSUME NEW v \in Nat, NEW a \in Nat, NEW b \in Nat, NEW c \in Nat, NEW d \in Nat,
         b < v, d < v, a * v + b = c * v + d
  PROVE  a = c /\ b = d
<1>1. ASSUME NEW x \in Nat, NEW e \in Nat \ {0}, NEW y \in Nat, NEW z \in Nat,
             y < v, x * v + y = (x + e) * v + z
      PROVE  FALSE
  <2>1. (x + e) * v = x * v + e * v
    OBVIOUS
  <2>2. e * v >= v
    OBVIOUS
  <2>3. x * v \in Nat /\ e * v \in Nat
    OBVIOUS
  <2> QED BY <1>1, <2>1, <2>2, <2>3
<1>2. CASE a < c
  <2>1. c - a \in Nat \ {0} /\ a + (c - a) = c
    BY <1>2
  <2> QED BY <1>1, <2>1
<1>3. CASE c < a
  <2>1. a - c \in Nat \ {0} /\ c + (a - c) = a
    BY <1>3
  <2> QED BY <1>1, <2>1
<1>4. CASE a = c
  <2>1. a * v \in Nat
    OBVIOUS
  <2> QED BY <1>4, <2>1
<1> QED BY <1>2, <1>3, <1>4

(***************************************************************************)
(* MergeMap::key: no pair of ids reads as an empty slot, and no two pairs   *)
(* share a key, the remapped pair (0, 0) included.                          *)
(***************************************************************************)
LEMMA KeyIsInjective ==
  ASSUME NEW a \in Ids, NEW b \in Ids, NEW c \in Ids, NEW d \in Ids
  PROVE  /\ Key(a, b) \in Keys /\ Key(a, b) # Empty
         /\ Key(a, b) = Key(c, d) => a = c /\ b = d
<1> DEFINE v == IdValues
<1>1. /\ v \in Nat /\ v > 1
      /\ a \in Nat /\ b \in Nat /\ c \in Nat /\ d \in Nat
      /\ a < v - 1 /\ b < v - 1 /\ c < v - 1 /\ d < v - 1
  BY IdsAssumption
<1>2. ASSUME NEW x \in Nat, NEW y \in Nat, x < v - 1, y < v - 1
      PROVE  Pack(x, y) \in Nat /\ Pack(x, y) < AllOnes
  <2>1. (x + 1) * v <= (v - 1) * v
    <3>1. x + 1 <= v - 1 /\ v - 1 \in Nat
      BY <1>1, <1>2
    <3>2. \A p, q, r \in Nat : p <= q => p * r <= q * r
      OBVIOUS
    <3> HIDE DEF v
    <3> QED BY <1>1, <3>1, <3>2
  <2>2. (x + 1) * v = x * v + v /\ (v - 1) * v = v * v - v
    BY <1>1
  <2>3. x * v \in Nat /\ v * v \in Nat
    BY <1>1
  <2>4. x * v + y \in Nat /\ x * v + y < v * v - 1
    <3> HIDE DEF v
    <3> QED BY <1>1, <1>2, <2>1, <2>2, <2>3
  <2> QED BY <2>4 DEF Pack, AllOnes
<1>3. AllOnes # Empty
  BY <1>1, <1>2 DEF Empty
<1>4. Key(a, b) # Empty
  BY <1>3 DEF Key
<1>5. ASSUME Key(a, b) = Key(c, d) PROVE a = c /\ b = d
  <2>1. Pack(a, b) < AllOnes /\ Pack(c, d) < AllOnes /\ Pack(a, b) \in Nat /\ Pack(c, d) \in Nat
    BY <1>1, <1>2
  <2>2. Pack(a, b) = Pack(c, d)
    BY <1>5, <2>1 DEF Key
  <2>3. b < v /\ d < v
    BY <1>1
  <2> QED BY <1>1, <2>2, <2>3, PackIsInjective DEF Pack
<1> QED BY <1>4, <1>5 DEF Keys

(* The parts of a merge of the table, and the key of its pair.             *)
LEMMA MergeParts ==
  ASSUME TypeOK, NEW i \in 1 .. Len(merges)
  PROVE  /\ merges[i][1] \in Ids /\ merges[i][2] \in Ids /\ merges[i][3] \in Ids
         /\ MergeKey(i) \in Keys /\ MergeKey(i) # Empty
<1>1. merges \in Seq(Ids \X Ids \X Ids)
  BY TablesAssumption DEF TypeOK
<1>2. merges[i] \in Ids \X Ids \X Ids
  BY <1>1, ElementOfSeq
<1>3. merges[i][1] \in Ids /\ merges[i][2] \in Ids /\ merges[i][3] \in Ids
  BY <1>2
<1> QED BY <1>3, KeyIsInjective DEF MergeKey

(* A probe starts at a slot, stays within the slots, and each step of it is *)
(* one further from home, until it is back there.                           *)
LEMMA ProbeWalk ==
  ASSUME TypeOK, NEW k \in Keys
  PROVE  /\ Home(k) \in Slots /\ Distance(k, Home(k)) = 0
         /\ \A s \in Slots : Distance(k, s) \in Nat
         /\ \A s, t \in Slots : Distance(k, s) = Distance(k, t) => s = t
         /\ \A s \in Slots : /\ After(s) \in Slots
                             /\ Distance(k, After(s)) \in {0, Distance(k, s) + 1}
<1>1. cap \in Nat \ {0} /\ hash[k] \in Nat
  BY HashAssumption DEF TypeOK
<1>2. Home(k) \in 0 .. cap - 1
  BY <1>1 DEF Home
<1> DEFINE h == Home(k)
<1>3. h \in 0 .. cap - 1
  BY <1>2
<1>4. \A s : Distance(k, s) = IF s >= h THEN s - h ELSE s + cap - h
  BY DEF Distance
<1> HIDE DEF h
<1>5. Distance(k, h) = 0
  BY <1>1, <1>3, <1>4
<1>6. \A s \in Slots : Distance(k, s) \in Nat
  BY <1>1, <1>3, <1>4 DEF Slots
<1>7. \A s, t \in Slots : Distance(k, s) = Distance(k, t) => s = t
  BY <1>1, <1>3, <1>4 DEF Slots
<1>8. ASSUME NEW s \in Slots
      PROVE  After(s) \in Slots /\ Distance(k, After(s)) \in {0, Distance(k, s) + 1}
  <2>1. CASE s + 1 = cap
    <3>1. After(s) = 0 /\ 0 \in Slots
      BY <1>1, <2>1 DEF After, Slots
    <3>2. Distance(k, 0) = IF h = 0 THEN 0 ELSE cap - h
      BY <1>1, <1>3, <1>4
    <3>3. Distance(k, s) = s - h
      BY <1>1, <1>3, <1>4, <1>8, <2>1 DEF Slots
    <3> QED BY <1>1, <1>3, <1>8, <2>1, <3>1, <3>2, <3>3 DEF Slots
  <2>2. CASE s + 1 # cap
    <3>1. After(s) = s + 1 /\ s + 1 \in Slots
      BY <1>1, <1>8, <2>2 DEF After, Slots
    <3>2. CASE s + 1 = h
      BY <1>5, <3>1, <3>2
    <3>3. CASE s + 1 # h
      <4>1. Distance(k, s + 1) = Distance(k, s) + 1
        BY <1>1, <1>3, <1>4, <1>8, <3>3 DEF Slots
      <4> QED BY <3>1, <4>1
    <3> QED BY <3>2, <3>3
  <2> QED BY <2>1, <2>2
<1> QED BY <1>3, <1>5, <1>6, <1>7, <1>8 DEF h, Slots

(* Moving a probe on: what it has passed now includes the slot it was at.  *)
LEMMA ProbeMoved ==
  ASSUME TypeOK, NEW k \in Keys, NEW u \in Slots,
         Distance(k, u) < Distance(k, After(idx))
  PROVE  u = idx \/ Distance(k, u) < Distance(k, idx)
<1>1. idx \in Slots
  BY DEF TypeOK
<1>2. /\ Distance(k, u) \in Nat /\ Distance(k, idx) \in Nat
      /\ Distance(k, After(idx)) \in {0, Distance(k, idx) + 1}
      /\ Distance(k, u) = Distance(k, idx) => u = idx
  BY <1>1, ProbeWalk
<1> QED BY <1>2

(* A probe that starts has passed nothing.                                 *)
LEMMA ProbeStarts ==
  ASSUME TypeOK, NEW k \in Keys, NEW u \in Slots
  PROVE  ~(Distance(k, u) < Distance(k, Home(k)))
<1>1. Distance(k, u) \in Nat /\ Distance(k, Home(k)) = 0
  BY ProbeWalk
<1> QED BY <1>1

-----------------------------------------------------------------------------
(* The slot in which the chain of merge i ends, as ChainsIntact has it.    *)
Chained(i, s) ==
    /\ entries[s] = [key |-> MergeKey(i), rank |-> i, target |-> merges[i][3]]
    /\ \A u \in Slots : Distance(MergeKey(i), u) < Distance(MergeKey(i), s) =>
          /\ entries[u].key # Empty
          /\ entries[u].key = MergeKey(i) => entries[u].rank < i

LEMMA InitIInv == Init => IInv
<1> SUFFICES ASSUME Init PROVE IInv
  OBVIOUS
<1> USE DEF Init
<1>1. cap \in Nat \ {0}
  BY HashAssumption
<1>2. query \in Ids \X Ids
  <2>1. PICK a \in Ids : TRUE
    BY IdsAssumption
  <2>2. <<a, a>> \in Ids \X Ids
    OBVIOUS
  <2> QED BY <2>2
<1>3. merges \in Seq(Ids \X Ids \X Ids) /\ Len(merges) \in Nat /\ NoRank \in Nat
  BY TablesAssumption, LenProperties
<1>4. 1 \in 1 .. Len(merges) + 1 /\ 0 \in Slots /\ <<NoRank, 0>> \in Nat \X Nat
  BY <1>1, <1>3 DEF Slots
<1>5. TypeOK
  BY <1>1, <1>2, <1>4 DEF TypeOK
<1>6. Phases /\ Genuine /\ Probed /\ ChainsIntact
  BY DEF Phases, Genuine, Allocated, Probed, ChainsIntact
<1> QED BY <1>5, <1>6 DEF IInv

LEMMA NextIInv == IInv /\ [Next]_vars => IInv'
<1> SUFFICES ASSUME IInv, [Next]_vars PROVE IInv'
  OBVIOUS
<1> USE DEF IInv
<1>1. /\ merges \in Tables /\ Len(merges) \in Nat /\ NoRank \in Nat
      /\ cap \in Nat \ {0} /\ next \in 1 .. Len(merges) + 1 /\ idx \in Slots
  <2>1. merges \in Seq(Ids \X Ids \X Ids) /\ NoRank \in Nat
    BY TablesAssumption DEF TypeOK
  <2> QED BY <2>1, LenProperties DEF TypeOK
<1>2. ASSUME Grow PROVE IInv'
  <2>1. /\ phase = "sizing" /\ cap' = 2 * cap
        /\ UNCHANGED <<merges, hash, entries, phase, next, idx, query, answer>>
    BY <1>2 DEF Grow
  <2>2. cap' \in Nat \ {0} /\ Slots \subseteq Slots'
    BY <1>1, <2>1 DEF Slots
  <2>3. TypeOK'
    BY <1>1, <2>1, <2>2 DEF TypeOK
  <2>4. Phases' /\ Genuine' /\ Probed' /\ ChainsIntact'
    BY <2>1 DEF Phases, Genuine, Allocated, Probed, ChainsIntact
  <2> QED BY <2>3, <2>4
<1>3. ASSUME UNCHANGED <<merges, hash, cap>>
      PROVE  /\ \A k, u : Distance(k, u)' = Distance(k, u)
             /\ \A k : Home(k)' = Home(k)
             /\ \A i : MergeKey(i)' = MergeKey(i)
             /\ Slots' = Slots
  BY <1>3 DEF Distance, Home, MergeKey, Slots
<1>4. ASSUME NEW i \in 1 .. Len(merges) + 1 PROVE StartOf(i) \in Slots
  <2>1. CASE i <= Len(merges)
    <3>1. MergeKey(i) \in Keys
      BY <1>1, <1>4, <2>1, MergeParts
    <3> QED BY <2>1, <3>1, ProbeWalk DEF StartOf
  <2>2. CASE ~(i <= Len(merges))
    BY <1>1, <2>2 DEF StartOf, Slots
  <2> QED BY <2>1, <2>2
<1>5. ASSUME Allocate PROVE IInv'
  <2>1. /\ phase = "sizing" /\ phase' = "building" /\ next = 1
        /\ entries' = [s \in Slots |-> EmptyEntry] /\ idx' = StartOf(1)
        /\ UNCHANGED <<merges, hash, cap, next, query, answer>>
    BY <1>5 DEF Allocate, Phases
  <2>2. EmptyEntry \in [key : Keys \cup {Empty}, rank : Nat, target : Nat]
    BY DEF EmptyEntry
  <2>3. TypeOK'
    <3>1. idx' \in Slots
      BY <1>1, <1>4, <2>1
    <3>2. entries' \in [Slots -> [key : Keys \cup {Empty}, rank : Nat, target : Nat]]
      BY <2>1, <2>2
    <3> QED BY <1>3, <2>1, <3>1, <3>2 DEF TypeOK
  <2>4. Phases' /\ ChainsIntact'
    BY <2>1 DEF Phases, ChainsIntact
  <2>5. Genuine'
    BY <1>3, <2>1 DEF Genuine, EmptyEntry
  <2>6. Probed'
    <3>1. SUFFICES ASSUME next <= Len(merges), NEW u \in Slots,
                          Distance(MergeKey(next), u) < Distance(MergeKey(next), idx')
                   PROVE  FALSE
      BY <1>3, <2>1 DEF Probed, Distance, Home
    <3>2. idx' = Home(MergeKey(1)) /\ MergeKey(1) \in Keys
      BY <1>1, <2>1, <3>1, MergeParts DEF StartOf
    <3> QED BY <2>1, <3>1, <3>2, ProbeStarts
  <2> QED BY <2>3, <2>4, <2>5, <2>6
<1>6. ASSUME InsertProbe PROVE IInv'
  <2>1. /\ phase = "building" /\ next <= Len(merges) /\ entries[idx].key # Empty
        /\ idx' = After(idx)
        /\ UNCHANGED <<merges, hash, cap, entries, phase, next, query, answer>>
    BY <1>6 DEF InsertProbe
  <2>2. MergeKey(next) \in Keys
    BY <1>1, <2>1, MergeParts
  <2>3. TypeOK'
    <3>1. idx' \in Slots
      BY <1>1, <2>1, <2>2, ProbeWalk
    <3> QED BY <1>3, <2>1, <3>1 DEF TypeOK
  <2>4. Phases' /\ Genuine' /\ ChainsIntact'
    BY <1>3, <2>1 DEF Phases, Genuine, Allocated, ChainsIntact
  <2>5. Probed'
    <3>1. SUFFICES ASSUME NEW u \in Slots,
                          Distance(MergeKey(next), u) < Distance(MergeKey(next), After(idx))
                   PROVE  entries[u].key # Empty
      BY <1>3, <2>1 DEF Probed, Distance, Home
    <3>2. u = idx \/ Distance(MergeKey(next), u) < Distance(MergeKey(next), idx)
      BY <2>2, <3>1, ProbeMoved
    <3> QED BY <2>1, <3>2 DEF Probed
  <2> QED BY <2>3, <2>4, <2>5
<1>7. ASSUME InsertStore PROVE IInv'
  <2> DEFINE stored == [key |-> MergeKey(next), rank |-> next, target |-> merges[next][3]]
  <2>1. /\ phase = "building" /\ next <= Len(merges) /\ entries[idx].key = Empty
        /\ entries' = [entries EXCEPT ![idx] = stored]
        /\ next' = next + 1 /\ idx' = StartOf(next + 1)
        /\ UNCHANGED <<merges, hash, cap, phase, query, answer>>
    BY <1>7 DEF InsertStore
  <2>2. /\ MergeKey(next) \in Keys /\ MergeKey(next) # Empty
        /\ merges[next][3] \in Nat /\ next \in Nat /\ next \in 1 .. Len(merges)
    BY <1>1, <2>1, MergeParts, IdsAssumption, SMTT(30)
  <2>3. stored \in [key : Keys \cup {Empty}, rank : Nat, target : Nat]
    BY <2>2
  <2>4. /\ DOMAIN entries = Slots
        /\ \A s \in Slots : entries'[s] = IF s = idx THEN stored ELSE entries[s]
    BY <1>1, <2>1 DEF TypeOK
  <2>5. stored.key = MergeKey(next) /\ stored.rank = next /\ stored.target = merges[next][3]
    OBVIOUS
  <2>6. TypeOK'
    <3>1. next + 1 \in 1 .. Len(merges) + 1
      BY <1>1, <2>1
    <3>2. idx' \in Slots
      BY <1>4, <2>1, <3>1
    <3>3. entries' \in [Slots -> [key : Keys \cup {Empty}, rank : Nat, target : Nat]]
      BY <2>1, <2>3 DEF TypeOK
    <3> QED BY <1>3, <2>1, <3>1, <3>2, <3>3 DEF TypeOK
  <2> HIDE DEF stored
  <2>7. Phases'
    BY <2>1 DEF Phases
  <2>8. \A s \in Slots : entries[s].key # Empty =>
          /\ entries[s].rank \in 1 .. next - 1
          /\ entries[s].key = MergeKey(entries[s].rank)
          /\ entries[s].target = merges[entries[s].rank][3]
    BY <2>1 DEF Genuine, Allocated
  <2>9. Genuine'
    <3>1. SUFFICES ASSUME NEW s \in Slots, entries'[s].key # Empty
                   PROVE  /\ entries'[s].rank \in 1 .. next
                          /\ entries'[s].key = MergeKey(entries'[s].rank)
                          /\ entries'[s].target = merges[entries'[s].rank][3]
      <4>1. next' - 1 = next
        BY <2>1, <2>2
      <4> QED BY <1>3, <2>1, <4>1 DEF Genuine, MergeKey
    <3>2. CASE s = idx
      BY <2>2, <2>4, <2>5, <3>2
    <3>3. CASE s # idx
      <4>1. entries'[s] = entries[s]
        BY <2>4, <3>3
      <4>2. entries[s].rank \in 1 .. next - 1
        BY <2>8, <3>1, <4>1
      <4> QED BY <2>2, <2>8, <3>1, <4>1, <4>2
    <3> QED BY <3>2, <3>3
  <2>10. Probed'
    <3>1. SUFFICES ASSUME next + 1 <= Len(merges), NEW u \in Slots,
                          Distance(MergeKey(next + 1), u) < Distance(MergeKey(next + 1), idx')
                   PROVE  FALSE
      BY <1>3, <2>1 DEF Probed, Distance, Home, MergeKey
    <3>2. idx' = Home(MergeKey(next + 1)) /\ MergeKey(next + 1) \in Keys
      BY <1>1, <2>1, <2>2, <3>1, MergeParts DEF StartOf
    <3> QED BY <3>1, <3>2, ProbeStarts
  <2>11. ASSUME NEW i \in 1 .. next PROVE \E s \in Slots : Chained(i, s)'
    <3>1. CASE i = next
      <4> PICK h \in Slots : h = idx
        BY <1>1
      <4>1. entries'[h] = stored
        BY <2>4
      <4>2. ASSUME NEW u \in Slots, Distance(MergeKey(i), u) < Distance(MergeKey(i), h)
            PROVE  /\ entries'[u].key # Empty
                   /\ entries'[u].key = MergeKey(i) => entries'[u].rank < i
        <5>1. entries[u].key # Empty
          BY <2>1, <3>1, <4>2 DEF Probed
        <5>2. u # idx
          BY <2>1, <5>1
        <5>3. entries'[u] = entries[u] /\ entries[u].rank < next
          BY <2>2, <2>4, <2>8, <5>1, <5>2
        <5> QED BY <3>1, <5>1, <5>3
      <4>3. Chained(i, h)'
        BY <1>3, <2>1, <3>1, <4>1, <4>2 DEF Chained, stored, Distance, Home, MergeKey
      <4> QED BY <1>3, <2>1, <4>3
    <3>2. CASE i # next
      <4>1. i \in 1 .. next - 1 /\ i \in 1 .. Len(merges)
        BY <1>1, <2>2, <3>2
      <4>2. PICK s \in Slots : Chained(i, s)
        BY <4>1 DEF ChainsIntact, Chained
      <4>3. entries[s].key = MergeKey(i) /\ MergeKey(i) # Empty
        BY <4>1, <4>2, MergeParts DEF Chained
      <4>4. s # idx /\ entries'[s] = entries[s]
        BY <2>1, <2>4, <4>3
      <4>5. ASSUME NEW u \in Slots, Distance(MergeKey(i), u) < Distance(MergeKey(i), s)
            PROVE  /\ entries'[u].key # Empty
                   /\ entries'[u].key = MergeKey(i) => entries'[u].rank < i
        <5>1. entries[u].key # Empty /\ (entries[u].key = MergeKey(i) => entries[u].rank < i)
          BY <4>2, <4>5 DEF Chained
        <5>2. entries'[u] = entries[u]
          BY <2>1, <2>4, <5>1
        <5> QED BY <5>1, <5>2
      <4>6. Chained(i, s)'
        BY <1>3, <2>1, <4>2, <4>4, <4>5 DEF Chained, Distance, Home, MergeKey
      <4> QED BY <1>3, <2>1, <4>6
    <3> QED BY <3>1, <3>2
  <2>12. ChainsIntact'
    <3>1. next' - 1 = next
      BY <2>1, <2>2
    <3> QED BY <1>3, <2>1, <2>11, <3>1 DEF ChainsIntact, Chained
  <2> QED BY <2>6, <2>7, <2>9, <2>10, <2>12
<1>8. ASSUME Built PROVE IInv'
  <2>1. /\ phase = "building" /\ phase' = "ready" /\ next > Len(merges)
        /\ UNCHANGED <<merges, hash, cap, entries, next, idx, query, answer>>
    BY <1>8 DEF Built
  <2>2. TypeOK' /\ Phases' /\ Probed'
    BY <1>1, <1>3, <2>1 DEF TypeOK, Phases, Probed
  <2>3. Genuine' /\ ChainsIntact'
    BY <1>3, <2>1 DEF Genuine, Allocated, ChainsIntact
  <2> QED BY <2>2, <2>3
<1>9. ASSUME NEW a \in Ids, NEW b \in Ids, Lookup(a, b) PROVE IInv'
  <2>1. /\ phase = "ready" /\ phase' = "looking" /\ query' = <<a, b>>
        /\ idx' = Home(Key(a, b))
        /\ UNCHANGED <<merges, hash, cap, entries, next, answer>>
    BY <1>9 DEF Lookup
  <2>2. Key(a, b) \in Keys
    BY DEF Keys
  <2>3. idx' \in Slots
    BY <2>1, <2>2, ProbeWalk
  <2>4. TypeOK' /\ Phases'
    BY <1>3, <2>1, <2>3 DEF TypeOK, Phases
  <2>5. Genuine' /\ ChainsIntact'
    BY <1>3, <2>1 DEF Genuine, Allocated, ChainsIntact
  <2>6. QueryKey' = Key(a, b)
    BY <2>1 DEF QueryKey
  <2>7. Probed'
    <3>1. SUFFICES ASSUME NEW u \in Slots,
                          Distance(Key(a, b), u) < Distance(Key(a, b), Home(Key(a, b)))
                   PROVE  FALSE
      BY <1>3, <2>1, <2>6 DEF Probed, Distance, Home
    <3> QED BY <2>2, <3>1, ProbeStarts
  <2> QED BY <2>4, <2>5, <2>7
<1>10. ASSUME LookupHit \/ LookupMiss PROVE IInv'
  <2>1. /\ phase = "looking" /\ phase' = "ready"
        /\ UNCHANGED <<merges, hash, cap, entries, next, idx, query>>
        /\ answer' \in {<<entries[idx].rank, entries[idx].target>>, <<NoRank, 0>>}
    BY <1>10 DEF LookupHit, LookupMiss
  <2>2. answer' \in Nat \X Nat
    BY <1>1, <2>1 DEF TypeOK
  <2>3. TypeOK' /\ Phases' /\ Probed'
    BY <1>3, <2>1, <2>2 DEF TypeOK, Phases, Probed
  <2>4. Genuine' /\ ChainsIntact'
    BY <1>3, <2>1 DEF Genuine, Allocated, ChainsIntact
  <2> QED BY <2>3, <2>4
<1>11. ASSUME LookupProbe PROVE IInv'
  <2>1. /\ phase = "looking" /\ entries[idx].key \notin {QueryKey, Empty}
        /\ idx' = After(idx)
        /\ UNCHANGED <<merges, hash, cap, entries, phase, next, query, answer>>
    BY <1>11 DEF LookupProbe
  <2>2. QueryKey \in Keys /\ QueryKey' = QueryKey
    BY <2>1 DEF QueryKey, Keys, TypeOK
  <2>3. TypeOK'
    <3>1. idx' \in Slots
      BY <1>1, <2>1, <2>2, ProbeWalk
    <3> QED BY <1>3, <2>1, <3>1 DEF TypeOK
  <2>4. Phases' /\ Genuine' /\ ChainsIntact'
    BY <1>3, <2>1 DEF Phases, Genuine, Allocated, ChainsIntact
  <2>5. Probed'
    <3>1. SUFFICES ASSUME NEW u \in Slots,
                          Distance(QueryKey, u) < Distance(QueryKey, After(idx))
                   PROVE  entries[u].key \notin {Empty, QueryKey}
      BY <1>3, <2>1, <2>2 DEF Probed, Distance, Home
    <3>2. u = idx \/ Distance(QueryKey, u) < Distance(QueryKey, idx)
      BY <2>2, <3>1, ProbeMoved
    <3> QED BY <2>1, <3>2 DEF Probed
  <2> QED BY <2>3, <2>4, <2>5
<1>12. CASE UNCHANGED vars
  BY <1>3, <1>12 DEF vars, TypeOK, Phases, Genuine, Allocated, Probed, ChainsIntact, QueryKey
<1> QED
  BY <1>2, <1>5, <1>6, <1>7, <1>8, <1>9, <1>10, <1>11, <1>12 DEF Next, Step

THEOREM Invariance == Spec => []IInv
  BY InitIInv, NextIInv, PTL DEF Spec

(***************************************************************************)
(* The probed slot is always one of the map: the unchecked read of lookup   *)
(* stays within `entries`.                                                  *)
(***************************************************************************)
THEOREM TypeCorrect == Spec => []TypeOK
  BY Invariance, PTL DEF IInv

(***************************************************************************)
(* MergeMap::new leaves probe chains without a hole and in the order of the *)
(* table, whatever the hash does and wherever the chains wrap around.       *)
(***************************************************************************)
THEOREM ChainsStayIntact == Spec => []ChainsIntact
  BY Invariance, PTL DEF IInv

-----------------------------------------------------------------------------
(* The merges that name the pair looked up are those with its key.         *)
LEMMA NamedByKey ==
  ASSUME TypeOK, NEW i \in 1 .. Len(merges)
  PROVE  i \in Named <=> MergeKey(i) = QueryKey
<1>1. /\ merges[i][1] \in Ids /\ merges[i][2] \in Ids
      /\ query[1] \in Ids /\ query[2] \in Ids
  BY MergeParts DEF TypeOK
<1>2. DOMAIN merges = 1 .. Len(merges)
  BY TablesAssumption, LenProperties DEF TypeOK
<1>3. MergeKey(i) = QueryKey <=> merges[i][1] = query[1] /\ merges[i][2] = query[2]
  BY <1>1, KeyIsInjective DEF MergeKey, QueryKey
<1> QED BY <1>2, <1>3 DEF Named

(* A merge of the pair is not behind the probe, and if it is ahead of it    *)
(* the slot under the probe is neither empty nor of a later merge.          *)
LEMMA ChainAhead ==
  ASSUME IInv, phase = "looking", NEW j \in Named
  PROVE  /\ entries[idx].key # Empty
         /\ entries[idx].key = QueryKey => entries[idx].rank <= j
<1>1. /\ TypeOK /\ idx \in Slots /\ next = Len(merges) + 1
      /\ Len(merges) \in Nat /\ DOMAIN merges = 1 .. Len(merges)
  BY TablesAssumption, LenProperties DEF IInv, TypeOK, Phases
<1>2. j \in 1 .. Len(merges) /\ j \in 1 .. next - 1 /\ j \in Nat
  BY <1>1 DEF Named
<1>3. MergeKey(j) = QueryKey /\ MergeKey(j) \in Keys /\ MergeKey(j) # Empty
  BY <1>1, <1>2, NamedByKey, MergeParts
<1>4. PICK s \in Slots : Chained(j, s)
  BY <1>2 DEF IInv, ChainsIntact, Chained
<1>5. entries[s].key = QueryKey /\ entries[s].rank = j
  BY <1>3, <1>4 DEF Chained
<1>6. ~(Distance(QueryKey, s) < Distance(QueryKey, idx))
  BY <1>5 DEF IInv, Probed
<1>7. /\ Distance(QueryKey, s) \in Nat /\ Distance(QueryKey, idx) \in Nat
      /\ Distance(QueryKey, s) = Distance(QueryKey, idx) => s = idx
  BY <1>1, <1>3, ProbeWalk
<1>8. CASE s = idx
  BY <1>2, <1>3, <1>5, <1>8
<1>9. CASE Distance(QueryKey, idx) < Distance(QueryKey, s)
  <2>1. /\ entries[idx].key # Empty
        /\ entries[idx].key = QueryKey => entries[idx].rank < j
    BY <1>1, <1>3, <1>4, <1>9 DEF Chained
  <2>2. entries[idx].key # Empty => entries[idx].rank \in Nat
    BY <1>1 DEF IInv, Genuine, Allocated
  <2> QED BY <1>2, <2>1, <2>2
<1> QED BY <1>6, <1>7, <1>8, <1>9

LEMMA StepAnswers ==
  ASSUME IInv, [Next]_vars, phase = "looking", phase' = "ready"
  PROVE  IF Named = {} THEN answer'[1] = NoRank
         ELSE \E i \in Named : /\ \A j \in Named : i <= j
                               /\ answer' = <<i, merges[i][3]>>
<1>1. LookupHit \/ LookupMiss
  BY DEF Next, Step, Grow, Allocate, InsertProbe, InsertStore, Built, Lookup,
         LookupProbe, vars
<1>2. /\ TypeOK /\ idx \in Slots /\ next = Len(merges) + 1 /\ Len(merges) \in Nat
      /\ QueryKey # Empty
  <2>1. query[1] \in Ids /\ query[2] \in Ids
    BY DEF IInv, TypeOK
  <2> QED BY <2>1, TablesAssumption, LenProperties, KeyIsInjective
          DEF IInv, TypeOK, Phases, QueryKey
<1>3. CASE LookupHit
  <2> DEFINE i == entries[idx].rank
  <2>1. entries[idx].key = QueryKey /\ answer' = <<i, entries[idx].target>>
    BY <1>3 DEF LookupHit
  <2>2. /\ i \in 1 .. next - 1 /\ MergeKey(i) = QueryKey
        /\ entries[idx].target = merges[i][3]
    BY <1>2, <2>1 DEF IInv, Genuine, Allocated
  <2>3. i \in 1 .. Len(merges)
    BY <1>2, <2>2
  <2>4. i \in Named
    BY <1>2, <2>2, <2>3, NamedByKey
  <2>5. \A j \in Named : i <= j
    BY <2>1, ChainAhead
  <2> QED BY <2>1, <2>2, <2>4, <2>5
<1>4. CASE LookupMiss
  <2>1. entries[idx].key = Empty /\ answer' = <<NoRank, 0>>
    BY <1>4 DEF LookupMiss
  <2>2. Named = {}
    BY <2>1, ChainAhead
  <2> QED BY <2>1, <2>2
<1> QED BY <1>1, <1>3, <1>4

(***************************************************************************)
(* MergeMap::lookup: the first merge of the pair, or u32::MAX when no merge *)
(* names it, for every table and every hash function.                       *)
(***************************************************************************)
THEOREM LookupAnswers == Spec => AnswerIsFirstMerge
<1>1. IInv /\ [Next]_vars =>
        [phase = "looking" /\ phase' = "ready" =>
            IF Named = {} THEN answer'[1] = NoRank
            ELSE \E i \in Named : /\ \A j \in Named : i <= j
                                  /\ answer' = <<i, merges[i][3]>>]_vars
  BY StepAnswers
<1> QED BY <1>1, Invariance, PTL DEF Spec, AnswerIsFirstMerge
=============================================================================
