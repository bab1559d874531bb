----------------------------- MODULE HeapMerge ------------------------------
(***************************************************************************)
(* merge_canonical on a chunk of more than SMALL_CANON tokens: a doubly     *)
(* linked list over the positions of the chunk and a min-heap of candidate  *)
(* pairs <<rank, left position>>.  Entries are never deleted from the heap  *)
(* when the pair they stand for changes; they are recognised as stale when  *)
(* they are popped.                                                         *)
(*                                                                         *)
(* Positions count from 1, and None is one past the last (`n as u32`).      *)
(* The heap is a bag: the same pair may well be queued twice.               *)
(***************************************************************************)
EXTENDS MergeTable, FiniteSets, BagsExt, Bags

CONSTANTS
    Tables,
    Chunks,
    SmallCanon  \* SMALL_CANON, 256 in the code

VARIABLES
    merges,     \* the table of the loaded model
    engine,     \* "heap" while merge_canonical runs this path, else "idle"
    tokens,     \* the chunk: tokens[i] is the token that starts at position i
    prev,       \* CanonScratch: the list links, which positions still head a
    next,       \* token, and the candidate pairs; all of it is kept from
    alive,      \* chunk to chunk
    heap

scratch == <<prev, next, alive, heap>>
vars == <<merges, engine, tokens, scratch>>

None == Len(tokens) + 1

TypeOK ==
    LET Position == 1 .. Len(tokens) IN
    /\ merges \in Tables
    /\ engine \in {"idle", "heap"}
    /\ tokens \in Seq(Token)
    /\ IsABag(heap)
    /\ engine = "heap" =>
          /\ prev \in [Position -> 1 .. None]
          /\ next \in [Position -> 1 .. None]
          /\ alive \in [Position -> BOOLEAN]
          /\ DOMAIN heap \subseteq (DOMAIN merges) \X Position

Init ==
    /\ merges \in Tables
    /\ engine = "idle"
    /\ tokens = <<>>
    /\ prev = <<>> /\ next = <<>> /\ alive = <<>>
    /\ heap = EmptyBag

(* Mutant: `if r != u32::MAX` dropped before the push.                     *)
CandidateUnchecked(a, b, i) == {<<Rank(merges, a, b), i>>}

(* The heap entry of the pair that starts at i, if it can be merged.       *)
Candidate(a, b, i) ==
    IF Rank(merges, a, b) = NoRank THEN {} ELSE {<<Rank(merges, a, b), i>>}

Begin(c) ==
    LET n == Len(c) IN
    /\ engine = "idle"
    /\ n > SmallCanon /\ n > 1
    /\ engine' = "heap"
    /\ tokens' = c
    /\ prev' = [i \in 1 .. n |-> IF i = 1 THEN n + 1 ELSE i - 1]
    /\ next' = [i \in 1 .. n |-> i + 1]
    /\ alive' = [i \in 1 .. n |-> TRUE]
    /\ heap' = SetToBag(UNION {Candidate(c[i], c[i + 1], i) : i \in 1 .. n - 1})
    /\ UNCHANGED merges

(* Mutant: ties between equal ranks are not broken by position.            *)
IsTopAnyTie(e) ==
    /\ e \in DOMAIN heap
    /\ \A f \in DOMAIN heap : e[1] <= f[1]

(* BinaryHeap<Reverse<(rank, position)>>: lowest rank, then leftmost.      *)
IsTop(e) ==
    /\ e \in DOMAIN heap
    /\ \A f \in DOMAIN heap : Precedes(e, f)

(* Mutant: heap.peek() for heap.pop().                                     *)
Peeked(e) == heap

Popped(e) == BagRemove(heap, e)

(* The entry still describes the list: its left token is live, has a right  *)
(* neighbour, and the pair still has the rank it was queued with.           *)
Current(e) ==
    LET i == e[2] IN
    /\ alive[i]
    /\ next[i] # None
    /\ alive[next[i]]
    /\ Rank(merges, tokens[i], tokens[next[i]]) = e[1]

PopStale ==
    /\ engine = "heap"
    /\ \E e \in DOMAIN heap :
          /\ IsTop(e)
          /\ ~Current(e)
          /\ heap' = Popped(e)
    /\ UNCHANGED <<merges, engine, tokens, prev, next, alive>>

(* Mutants: no new left pair; the back link of the next token kept.        *)
NoLeftPair(i, t) == {}
KeepPrev(i, k) == prev

(* The pairs that token t at i forms with its neighbours p and k.          *)
LeftPair(i, t) == IF prev[i] = None THEN {} ELSE Candidate(tokens[prev[i]], t, prev[i])
RightPair(i, k, t) == IF k = None THEN {} ELSE Candidate(t, tokens[k], i)

BackLink(i, k) == IF k = None THEN prev ELSE [prev EXCEPT ![k] = i]

(* Fold the right token j into the left token i, unlink j, and queue the    *)
(* two new pairs.                                                           *)
Fold(e) ==
    LET i == e[2]
        j == next[i]
        k == next[j]
        t == Target(merges, tokens[i], tokens[j])
    IN  /\ tokens' = [tokens EXCEPT ![i] = t]
        /\ alive' = [alive EXCEPT ![j] = FALSE]
        /\ next' = [next EXCEPT ![i] = k]
        /\ prev' = BackLink(i, k)
        /\ heap' = Popped(e) (+) SetToBag(LeftPair(i, t) \cup RightPair(i, k, t))

PopFold ==
    /\ engine = "heap"
    /\ \E e \in DOMAIN heap : IsTop(e) /\ Current(e) /\ Fold(e)
    /\ UNCHANGED <<merges, engine>>

(* The survivors in list order, from the head at position 1.               *)
Survivors ==
    LET from[i \in 1 .. Len(tokens)] ==
            IF next[i] = None THEN <<tokens[i]>> ELSE <<tokens[i]>> \o from[next[i]]
    IN  from[1]

(* The heap is empty: the survivors replace the chunk.  (They are gathered  *)
(* in s.out, which is cleared first and swapped with the chunk after.)      *)
Gather ==
    /\ engine = "heap"
    /\ heap = EmptyBag
    /\ tokens' = Survivors
    /\ engine' = "idle"
    /\ UNCHANGED <<merges, prev, next, alive, heap>>

Step == PopStale \/ PopFold \/ Gather

Next == Step \/ \E c \in Chunks : Begin(c)

Spec == Init /\ [][Next]_vars /\ WF_vars(Step)

-----------------------------------------------------------------------------
(* The list skips exactly the positions that were folded away: links point  *)
(* at live positions, agree in both directions and leave no live position   *)
(* out; the head is never folded away (the comment on the gather loop).     *)
ListLinked ==
    engine = "heap" =>
        /\ alive[1] /\ prev[1] = None
        /\ \A i \in 1 .. Len(tokens) : alive[i] =>
              /\ next[i] > i
              /\ \A j \in i + 1 .. next[i] - 1 : ~alive[j]
              /\ next[i] # None => alive[next[i]] /\ prev[next[i]] = i

(* No pair is forgotten: whatever the table can merge in the list is in the *)
(* heap with the rank the pair has now, among any number of stale entries.  *)
QueueComplete ==
    engine = "heap" =>
        \A i \in 1 .. Len(tokens) : alive[i] /\ next[i] # None =>
            Candidate(tokens[i], tokens[next[i]], i) \subseteq DOMAIN heap

(* Every fold is the merge canonical BPE makes next, and the chunk is given *)
(* up only when it is canonical.                                            *)
Canon == INSTANCE CanonicalBpe WITH
            word <- IF engine = "heap" THEN Survivors ELSE tokens
ImplementsCanonical == Canon!Spec
=============================================================================
