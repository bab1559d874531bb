------------------------------ MODULE MergeMap ------------------------------
(***************************************************************************)
(* The hash map behind every lookup: open addressing with linear probing,   *)
(* filled once by MergeMap::new in rank order and only read afterwards.     *)
(* Token ids are numbers here, because the packed key of a pair matters:    *)
(* key 0 marks an empty slot, and the pair (0, 0) would pack to it.         *)
(*                                                                         *)
(* The hash is an arbitrary function of the key, chosen in Init: nothing    *)
(* may depend on how well it spreads the keys.                              *)
(***************************************************************************)
EXTENDS Naturals, Sequences

CONSTANTS
    IdValues,   \* how many values a token id has, 2^32 in the code
    Ids,        \* the token ids in use
    Tables,     \* merge tables over Ids
    HashValues, \* what the hash may return
    InitialCap, \* capacity of the empty map, 16 in the code
    NoRank      \* u32::MAX

Empty == 0      \* the key of an empty slot
AllOnes == IdValues * IdValues - 1      \* u64::MAX

(* The largest id would pack with itself to the key that stands for (0, 0). *)
(* A vocabulary that large (2^32 tokens) cannot be loaded.                  *)
ASSUME IdsAssumption ==
    IdValues \in Nat \ {0} /\ Ids # {} /\ \A a \in Ids : a \in Nat /\ a + 1 < IdValues
ASSUME TablesAssumption ==
    NoRank \in Nat /\ \A m \in Tables : m \in Seq(Ids \X Ids \X Ids) /\ Len(m) < NoRank
ASSUME HashAssumption == HashValues \subseteq Nat /\ InitialCap \in Nat \ {0}

VARIABLES
    merges,     \* the argument of new
    hash,       \* MergeMap::hash
    cap,        \* entries.len(); mask is cap - 1
    entries,    \* slot -> [key, rank, target]
    phase,      \* "sizing", "building", "ready" or "looking"
    next,       \* the merge being inserted
    idx,        \* the slot being probed
    query,      \* the pair looked up
    answer      \* <<rank, target>> that lookup returned last

vars == <<merges, hash, cap, entries, phase, next, idx, query, answer>>

Pack(a, b) == a * IdValues + b
KeyUnmapped(a, b) == Pack(a, b)     \* mutant: the remap of key 0 dropped
Key(a, b) == IF Pack(a, b) = Empty THEN AllOnes ELSE Pack(a, b)
Keys == {Key(a, b) : a, b \in Ids}

CapTight == cap >= Len(merges)      \* mutant: the factor three is dropped
CapEnough == cap >= 3 * Len(merges)

Slots == 0 .. cap - 1
EmptyEntry == [key |-> Empty, rank |-> 0, target |-> 0]

Home(k) == hash[k] % cap                        \* hash & mask
NoWrap(s) == s + 1                              \* mutant: `& mask` dropped
After(s) == IF s + 1 = cap THEN 0 ELSE s + 1    \* (idx + 1) & mask

TypeOK ==
    /\ merges \in Tables
    /\ hash \in [Keys -> HashValues]
    /\ cap \in Nat \ {0}
    /\ phase # "sizing" =>
          entries \in [Slots -> [key : Keys \cup {Empty}, rank : Nat, target : Nat]]
    /\ phase \in {"sizing", "building", "ready", "looking"}
    /\ next \in 1 .. Len(merges) + 1
    /\ idx \in Slots
    /\ query \in Ids \X Ids
    /\ answer \in Nat \X Nat

MergeKey(i) == Key(merges[i][1], merges[i][2])

(* The slot a probe for merge i starts at, when there is a merge i.        *)
StartOf(i) == IF i <= Len(merges) THEN Home(MergeKey(i)) ELSE 0

Init ==
    /\ merges \in Tables
    /\ hash \in [Keys -> HashValues]
    /\ cap = InitialCap
    /\ entries = <<>>
    /\ phase = "sizing"
    /\ next = 1
    /\ idx = 0
    /\ query = CHOOSE p \in Ids \X Ids : TRUE
    /\ answer = <<NoRank, 0>>

Grow ==
    /\ phase = "sizing" /\ ~CapEnough
    /\ cap' = 2 * cap
    /\ UNCHANGED <<merges, hash, entries, phase, next, idx, query, answer>>

Allocate ==
    /\ phase = "sizing" /\ CapEnough
    /\ entries' = [s \in Slots |-> EmptyEntry]
    /\ phase' = "building"
    /\ idx' = StartOf(1)
    /\ UNCHANGED <<merges, hash, cap, next, query, answer>>

InsertProbe ==
    /\ phase = "building" /\ next <= Len(merges)
    /\ entries[idx].key # Empty
    /\ idx' = After(idx)
    /\ UNCHANGED <<merges, hash, cap, entries, phase, next, query, answer>>

(* Mutant: a pair that is listed again overwrites its first entry.         *)
InsertUpdate ==
    /\ phase = "building" /\ next <= Len(merges)
    /\ entries[idx].key \in {Empty, MergeKey(next)}
    /\ entries' = [entries EXCEPT ![idx] =
           [key |-> MergeKey(next), rank |-> next, target |-> merges[next][3]]]
    /\ next' = next + 1
    /\ idx' = StartOf(next + 1)
    /\ UNCHANGED <<merges, hash, cap, phase, query, answer>>

InsertStore ==
    /\ phase = "building" /\ next <= Len(merges)
    /\ entries[idx].key = Empty
    /\ entries' = [entries EXCEPT ![idx] =
           [key |-> MergeKey(next), rank |-> next, target |-> merges[next][3]]]
    /\ next' = next + 1
    /\ idx' = StartOf(next + 1)
    /\ UNCHANGED <<merges, hash, cap, phase, query, answer>>

Built ==
    /\ phase = "building" /\ next > Len(merges)
    /\ phase' = "ready"
    /\ UNCHANGED <<merges, hash, cap, entries, next, idx, query, answer>>

Lookup(a, b) ==
    /\ phase = "ready"
    /\ phase' = "looking"
    /\ query' = <<a, b>>
    /\ idx' = Home(Key(a, b))
    /\ UNCHANGED <<merges, hash, cap, entries, next, answer>>

QueryKey == Key(query[1], query[2])

LookupHit ==
    /\ phase = "looking"
    /\ entries[idx].key = QueryKey
    /\ answer' = <<entries[idx].rank, entries[idx].target>>
    /\ phase' = "ready"
    /\ UNCHANGED <<merges, hash, cap, entries, next, idx, query>>

LookupMiss ==
    /\ phase = "looking"
    /\ entries[idx].key # QueryKey
    /\ entries[idx].key = Empty
    /\ answer' = <<NoRank, 0>>
    /\ phase' = "ready"
    /\ UNCHANGED <<merges, hash, cap, entries, next, idx, query>>

LookupProbe ==
    /\ phase = "looking"
    /\ entries[idx].key \notin {QueryKey, Empty}
    /\ idx' = After(idx)
    /\ UNCHANGED <<merges, hash, cap, entries, phase, next, query, answer>>

Step ==
    \/ Grow \/ Allocate \/ InsertProbe \/ InsertStore \/ Built
    \/ LookupHit \/ LookupMiss \/ LookupProbe

Next == Step \/ \E a, b \in Ids : Lookup(a, b)

Spec == Init /\ [][Next]_vars /\ WF_vars(Step)

-----------------------------------------------------------------------------
(* How many probes after its home the key's probe reaches slot s.          *)
Distance(k, s) == IF s >= Home(k) THEN s - Home(k) ELSE s + cap - Home(k)

(* Probe chains have no holes and keep the order of the table: every merge  *)
(* inserted so far sits in a slot that its probe reaches without crossing   *)
(* an empty slot, and of two merges of one pair the earlier is met first.   *)
ChainsIntact ==
    \A i \in 1 .. next - 1 : \E s \in Slots :
        LET k == MergeKey(i) IN
        /\ entries[s] = [key |-> k, rank |-> i, target |-> merges[i][3]]
        /\ \A u \in Slots : Distance(k, u) < Distance(k, s) =>
              /\ entries[u].key # Empty
              /\ entries[u].key = k => entries[u].rank < i

(* What every engine relies on: lookup answers with the first merge of the  *)
(* pair, and with u32::MAX exactly when the table has none.  In particular  *)
(* the pair (0, 0) neither reads as an empty slot nor as another pair.      *)
Named == {i \in DOMAIN merges : merges[i][1] = query[1] /\ merges[i][2] = query[2]}

AnswerIsFirstMerge ==
    [][phase = "looking" /\ phase' = "ready" =>
          IF Named = {} THEN answer'[1] = NoRank
          ELSE \E i \in Named : /\ \A j \in Named : i <= j
                                /\ answer' = <<i, merges[i][3]>>]_vars

(* Construction and every lookup end.                                      *)
Terminates ==
    /\ phase = "sizing" ~> phase = "ready"
    /\ phase = "looking" ~> phase = "ready"
=============================================================================
