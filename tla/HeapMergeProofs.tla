-------------------------- MODULE HeapMergeProofs ---------------------------
(***************************************************************************)
(* The long canonical path, for every table, chunk and threshold: the list  *)
(* stays linked, no pair that can be merged is missing from the heap, and   *)
(* so every fold is the one canonical BPE makes next and the loop ends only *)
(* when nothing can be merged.                                              *)
(*                                                                         *)
(* QueueComplete is inductive only with ListLinked: that a fold disturbs    *)
(* just the two pairs it queues again is because a position has one left    *)
(* and one right neighbour.  The word the list spells is described by the   *)
(* path of its positions: unlinking one of them takes it off the path, and  *)
(* the gather loop, a recursion along the links, visits the path in order.  *)
(***************************************************************************)
EXTENDS HeapMerge, MergeTableProofs

(* What the loader and the encoder hand over: tables with fewer merges than *)
(* u32::MAX and chunks of token ids.                                        *)
Loadable ==
    /\ \A m \in Tables : IsTable(m)
    /\ Chunks \subseteq Seq(Token)

Position == 1 .. Len(tokens)

Typed ==
    /\ merges \in Tables
    /\ engine = "heap" =>
          /\ tokens \in Seq(Token) /\ Len(tokens) > 0
          /\ prev \in [Position -> 1 .. None]
          /\ next \in [Position -> 1 .. None]
          /\ alive \in [Position -> BOOLEAN]
          /\ DOMAIN heap \subseteq (DOMAIN merges) \X Position

IInv == Typed /\ ListLinked /\ QueueComplete

(* The pairs of the list that can be merged, with their ranks.             *)
LiveCandidates ==
    UNION {Candidate(tokens[i], tokens[next[i]], i) :
              i \in {j \in Position : alive[j] /\ next[j] # None}}

-----------------------------------------------------------------------------
(* BinaryHeap::pop and push, as far as membership goes.                    *)
LEMMA HeapOperations ==
  ASSUME NEW e, NEW S
  PROVE  /\ DOMAIN Popped(e) \subseteq DOMAIN heap
         /\ DOMAIN heap \ {e} \subseteq DOMAIN Popped(e)
         /\ DOMAIN (Popped(e) (+) SetToBag(S)) = DOMAIN Popped(e) \cup S
         /\ DOMAIN SetToBag(S) = S
<1>1. DOMAIN SetToBag(S) = S
  BY DEF SetToBag
<1>2. /\ DOMAIN Popped(e) \subseteq DOMAIN heap
      /\ DOMAIN heap \ {e} \subseteq DOMAIN Popped(e)
  <2>1. CASE e \in DOMAIN heap /\ heap[e] = 1
    BY <2>1 DEF Popped, BagRemove
  <2>2. CASE e \in DOMAIN heap /\ heap[e] # 1
    BY <2>2 DEF Popped, BagRemove
  <2>3. CASE e \notin DOMAIN heap
    BY <2>3 DEF Popped, BagRemove
  <2> QED BY <2>1, <2>2, <2>3
<1>3. DOMAIN (Popped(e) (+) SetToBag(S)) = DOMAIN Popped(e) \cup DOMAIN SetToBag(S)
  BY DEF (+)
<1> QED BY <1>1, <1>2, <1>3

(* A candidate is at its position with the rank of a merge of the table.   *)
LEMMA CandidateInTable ==
  ASSUME IsTable(merges), NEW a, NEW b, NEW i
  PROVE  /\ Candidate(a, b, i) \subseteq (DOMAIN merges) \X {i}
         /\ \A c \in Candidate(a, b, i) : c[1] = Rank(merges, a, b) /\ c[2] = i
<1>1. CASE Rank(merges, a, b) = NoRank
  BY <1>1 DEF Candidate
<1>2. CASE Rank(merges, a, b) # NoRank
  <2>1. Rank(merges, a, b) \in DOMAIN merges
    BY <1>2, RankOfPair DEF IsFirst, MergesOf
  <2>2. Candidate(a, b, i) = {<<Rank(merges, a, b), i>>}
    BY <1>2 DEF Candidate
  <2> QED BY <2>1, <2>2
<1> QED BY <1>1, <1>2

(* The three positions of a fold: the left token, the right one, which is   *)
(* live, and what follows it.                                               *)
LEMMA FoldPositions ==
  ASSUME Loadable, IInv, engine = "heap", NEW e \in DOMAIN heap, Current(e)
  PROVE  /\ IsTable(merges) /\ Len(tokens) \in Nat
         /\ e[1] \in DOMAIN merges /\ e[2] \in Position
         /\ alive[e[2]] /\ next[e[2]] \in Position /\ alive[next[e[2]]]
         /\ e[2] < next[e[2]] /\ next[e[2]] < next[next[e[2]]]
         /\ next[next[e[2]]] \in 1 .. None
         /\ Target(merges, tokens[e[2]], tokens[next[e[2]]]) \in Token
<1>1. IsTable(merges) /\ tokens \in Seq(Token) /\ Len(tokens) \in Nat
  BY LenProperties DEF Loadable, IInv, Typed
<1>2. e[1] \in DOMAIN merges /\ e[2] \in Position
  BY DEF IInv, Typed
<1>3. /\ alive[e[2]] /\ next[e[2]] # None /\ alive[next[e[2]]]
      /\ Rank(merges, tokens[e[2]], tokens[next[e[2]]]) = e[1]
  BY DEF Current
<1>4. next[e[2]] \in 1 .. None /\ next[e[2]] \in Position
  BY <1>1, <1>2, <1>3 DEF IInv, Typed, Position, None
<1>5. next[next[e[2]]] \in 1 .. None
  BY <1>4 DEF IInv, Typed
<1>6. e[2] < next[e[2]] /\ next[e[2]] < next[next[e[2]]]
  BY <1>1, <1>2, <1>3, <1>4 DEF IInv, ListLinked, Position
<1>7. e[1] # NoRank
  <2>1. DOMAIN merges = 1 .. Len(merges) /\ Len(merges) < NoRank /\ NoRank \in Nat
        /\ Len(merges) \in Nat
    BY <1>1, LenProperties DEF IsTable
  <2> QED BY <1>2, <2>1
<1>8. Target(merges, tokens[e[2]], tokens[next[e[2]]]) \in Token
  BY <1>1, <1>3, <1>7, RankOfPair
<1> QED BY <1>1, <1>2, <1>3, <1>4, <1>5, <1>6, <1>8

-----------------------------------------------------------------------------
LEMMA InitIInv == Loadable /\ Init => IInv
  BY DEF Loadable, Init, IInv, Typed, ListLinked, QueueComplete

(* Filling the lists and the heap for a chunk, whatever they held.         *)
LEMMA BeginStep ==
  ASSUME Loadable, merges \in Tables, NEW c \in Seq(Token), Begin(c)
  PROVE  IInv'
<1>1. PICK n : n = Len(c)
  OBVIOUS
<1>2. /\ IsTable(merges) /\ merges \in Tables /\ c \in Seq(Token) /\ n \in Nat /\ n > 1
      /\ merges' = merges /\ tokens' = c /\ engine' = "heap"
      /\ None' = n + 1 /\ Position' = 1 .. n
  BY <1>1, LenProperties DEF Loadable, Begin, None, Position
<1>3. /\ prev' = [i \in 1 .. n |-> IF i = 1 THEN n + 1 ELSE i - 1]
      /\ next' = [i \in 1 .. n |-> i + 1]
      /\ alive' = [i \in 1 .. n |-> TRUE]
  BY <1>1 DEF Begin
<1>4. DOMAIN heap' = UNION {Candidate(c[i], c[i + 1], i) : i \in 1 .. n - 1}
  BY <1>1, HeapOperations DEF Begin
<1>5. DOMAIN heap' \subseteq (DOMAIN merges) \X (1 .. n)
  <2>1. ASSUME NEW i \in 1 .. n - 1
        PROVE  Candidate(c[i], c[i + 1], i) \subseteq (DOMAIN merges) \X (1 .. n)
    <3>1. Candidate(c[i], c[i + 1], i) \subseteq (DOMAIN merges) \X {i}
      BY <1>2, CandidateInTable
    <3>2. i \in 1 .. n
      BY <1>2
    <3> QED BY <3>1, <3>2
  <2> QED BY <1>4, <2>1
<1>6. Typed'
  <2>1. /\ prev' \in [1 .. n -> 1 .. n + 1] /\ next' \in [1 .. n -> 1 .. n + 1]
        /\ alive' \in [1 .. n -> BOOLEAN]
    BY <1>2, <1>3
  <2> QED BY <1>1, <1>2, <1>5, <2>1 DEF Typed
<1>7. ListLinked'
  <2>1. alive'[1] /\ prev'[1] = n + 1
    BY <1>2, <1>3
  <2>2. ASSUME NEW i \in 1 .. n
        PROVE  /\ next'[i] = i + 1
               /\ next'[i] # n + 1 => alive'[next'[i]] /\ prev'[next'[i]] = i
    BY <1>2, <1>3
  <2>3. ASSUME NEW i \in 1 .. n
        PROVE  next'[i] > i /\ \A j \in i + 1 .. next'[i] - 1 : ~alive'[j]
    BY <1>2, <2>2
  <2> QED BY <1>1, <1>2, <2>1, <2>2, <2>3 DEF ListLinked
<1>8. QueueComplete'
  <2>1. ASSUME NEW i \in 1 .. n, next'[i] # n + 1
        PROVE  Candidate(c[i], c[next'[i]], i) \subseteq DOMAIN heap'
    BY <1>2, <1>3, <1>4, <2>1
  <2>2. \A a, b, i : Candidate(a, b, i)' = Candidate(a, b, i)
    BY <1>2 DEF Candidate
  <2> QED BY <1>1, <1>2, <2>1, <2>2 DEF QueueComplete
<1> QED BY <1>6, <1>7, <1>8 DEF IInv

(* A stale entry is not the candidate of any pair of the list.             *)
LEMMA PopStaleStep ==
  ASSUME Loadable, IInv, PopStale
  PROVE  IInv'
<1>1. PICK e \in DOMAIN heap : ~Current(e) /\ heap' = Popped(e)
  BY DEF PopStale
<1>2. /\ engine = "heap" /\ IsTable(merges)
      /\ merges' = merges /\ engine' = engine /\ tokens' = tokens
      /\ prev' = prev /\ next' = next /\ alive' = alive
  BY DEF PopStale, Loadable, IInv, Typed
<1>3. DOMAIN heap' \subseteq DOMAIN heap /\ DOMAIN heap \ {e} \subseteq DOMAIN heap'
  BY <1>1, HeapOperations
<1>4. Typed' /\ ListLinked'
  BY <1>2, <1>3 DEF IInv, Typed, ListLinked, Position, None
<1>5. ASSUME NEW a \in Position, alive[a], next[a] # None
      PROVE  Candidate(tokens[a], tokens[next[a]], a) \subseteq DOMAIN heap'
  <2>1. alive[next[a]]
    BY <1>2, <1>5 DEF IInv, ListLinked, Position
  <2>2. \A c \in Candidate(tokens[a], tokens[next[a]], a) :
           c[1] = Rank(merges, tokens[a], tokens[next[a]]) /\ c[2] = a
    BY <1>2, CandidateInTable
  <2>3. e \notin Candidate(tokens[a], tokens[next[a]], a)
    BY <1>1, <1>5, <2>1, <2>2 DEF Current
  <2>4. Candidate(tokens[a], tokens[next[a]], a) \subseteq DOMAIN heap
    BY <1>2, <1>5 DEF IInv, QueueComplete, Position
  <2> QED BY <1>3, <2>3, <2>4
<1>6. QueueComplete'
  <2>1. \A a, b, i : Candidate(a, b, i)' = Candidate(a, b, i)
    BY <1>2 DEF Candidate
  <2> QED BY <1>2, <1>5, <2>1 DEF QueueComplete, Position, None
<1> QED BY <1>4, <1>6 DEF IInv

(***************************************************************************)
(* Folding j, the right neighbour of i, into i, when k follows j.           *)
(***************************************************************************)
LEMMA PopFoldStep ==
  ASSUME Loadable, IInv, PopFold
  PROVE  IInv'
<1>1. PICK e \in DOMAIN heap : Current(e) /\ Fold(e)
  BY DEF PopFold
<1>2. engine = "heap" /\ engine' = engine /\ merges' = merges /\ merges \in Tables
  BY DEF PopFold, IInv, Typed
<1>3. PICK i, j, k, t, n : /\ i = e[2] /\ j = next[i] /\ k = next[j]
                           /\ t = Target(merges, tokens[i], tokens[j])
                           /\ n = Len(tokens)
  OBVIOUS
<1>4. /\ IsTable(merges) /\ n \in Nat /\ t \in Token /\ e[1] \in DOMAIN merges
      /\ i \in 1 .. n /\ j \in 1 .. n /\ k \in 1 .. n + 1
      /\ i < j /\ j < k /\ alive[i] /\ alive[j]
  BY <1>1, <1>2, <1>3, FoldPositions DEF Position, None
<1>5. /\ tokens \in Seq(Token) /\ None = n + 1 /\ Position = 1 .. n /\ n > 0
      /\ prev \in [1 .. n -> 1 .. n + 1]
      /\ next \in [1 .. n -> 1 .. n + 1]
      /\ alive \in [1 .. n -> BOOLEAN]
      /\ DOMAIN heap \subseteq (DOMAIN merges) \X (1 .. n)
  BY <1>2, <1>3 DEF IInv, Typed, Position, None
<1>6. /\ tokens' = [tokens EXCEPT ![i] = t]
      /\ alive' = [alive EXCEPT ![j] = FALSE]
      /\ next' = [next EXCEPT ![i] = k]
      /\ prev' = IF k = n + 1 THEN prev ELSE [prev EXCEPT ![k] = i]
      /\ heap' = Popped(e) (+) SetToBag(LeftPair(i, t) \cup RightPair(i, k, t))
  BY <1>1, <1>3, <1>5 DEF Fold, BackLink
<1>7. tokens' \in Seq(Token) /\ Len(tokens') = n
  BY <1>3, <1>4, <1>5, <1>6, ExceptSeq
<1>8. None' = n + 1 /\ Position' = 1 .. n
  BY <1>7 DEF None, Position
<1>9. ASSUME NEW a \in 1 .. n
      PROVE  /\ tokens'[a] = IF a = i THEN t ELSE tokens[a]
             /\ alive'[a] = (a # j /\ alive[a])
             /\ next'[a] = IF a = i THEN k ELSE next[a]
             /\ prev'[a] = IF a = k THEN i ELSE prev[a]
  <2>1. tokens'[a] = IF a = i THEN t ELSE tokens[a]
    BY <1>3, <1>4, <1>5, <1>6, LenProperties
  <2>2. alive'[a] = (a # j /\ alive[a])
    BY <1>5, <1>6
  <2>3. next'[a] = IF a = i THEN k ELSE next[a]
    BY <1>5, <1>6
  <2>4. prev'[a] = IF a = k THEN i ELSE prev[a]
    BY <1>4, <1>5, <1>6
  <2> QED BY <2>1, <2>2, <2>3, <2>4
(* The list before the fold, without the actions' names.                   *)
<1>10. /\ alive[1] /\ prev[1] = n + 1
       /\ \A a \in 1 .. n : alive[a] =>
             /\ next[a] > a
             /\ \A b \in a + 1 .. next[a] - 1 : ~alive[b]
             /\ next[a] # n + 1 => alive[next[a]] /\ prev[next[a]] = a
  BY <1>2, <1>3, <1>5 DEF IInv, ListLinked
<1>11. prev[j] = i /\ (k # n + 1 => alive[k] /\ prev[k] = j)
  BY <1>3, <1>4, <1>10, SMTT(30)
<1>12. ListLinked'
  <2>1. alive'[1] /\ prev'[1] = n + 1
    <3>1. 1 \in 1 .. n /\ 1 # j /\ 1 # k
      BY <1>4, <1>5, SMTT(30)
    <3> QED BY <1>9, <1>10, <3>1
  <2>2. ASSUME NEW a \in 1 .. n, alive'[a], a = i
        PROVE  /\ next'[a] > a
               /\ \A b \in a + 1 .. next'[a] - 1 : ~alive'[b]
               /\ next'[a] # n + 1 => alive'[next'[a]] /\ prev'[next'[a]] = a
    <3>1. next'[a] = k
      BY <1>9, <2>2
    <3>2. ASSUME NEW b \in i + 1 .. k - 1 PROVE ~alive'[b]
      <4>1. b \in 1 .. n
        BY <1>4
      <4>2. CASE b = j
        BY <1>9, <4>1, <4>2
      <4>3. CASE b < j
        <5>1. b \in i + 1 .. next[i] - 1
          BY <1>3, <1>4, <4>3
        <5> QED BY <1>4, <1>9, <1>10, <4>1, <5>1
      <4>4. CASE b > j
        <5>1. b \in j + 1 .. next[j] - 1
          BY <1>3, <1>4, <4>4
        <5> QED BY <1>4, <1>9, <1>10, <4>1, <5>1
      <4> QED BY <1>4, <4>1, <4>2, <4>3, <4>4
    <3>3. k # n + 1 => alive'[k] /\ prev'[k] = i
      <4>1. SUFFICES ASSUME k # n + 1 PROVE alive'[k] /\ prev'[k] = i
        OBVIOUS
      <4>2. k \in 1 .. n /\ k # j /\ alive[k]
        BY <1>4, <1>11, <4>1
      <4> QED BY <1>9, <4>2
    <3> QED BY <1>4, <2>2, <3>1, <3>2, <3>3
  <2>3. ASSUME NEW a \in 1 .. n, alive'[a], a # i
        PROVE  /\ next'[a] > a
               /\ \A b \in a + 1 .. next'[a] - 1 : ~alive'[b]
               /\ next'[a] # n + 1 => alive'[next'[a]] /\ prev'[next'[a]] = a
    <3>1. alive[a] /\ a # j /\ next'[a] = next[a] /\ next[a] \in 1 .. n + 1
      BY <1>5, <1>9, <2>3
    <3>2. ASSUME NEW b \in a + 1 .. next[a] - 1 PROVE ~alive'[b]
      <4>1. b \in 1 .. n /\ ~alive[b]
        BY <1>4, <1>10, <3>1
      <4> QED BY <1>9, <4>1
    <3>3. ASSUME next[a] # n + 1
          PROVE  alive'[next[a]] /\ prev'[next[a]] = a
      <4>1. next[a] \in 1 .. n /\ alive[next[a]] /\ prev[next[a]] = a
        BY <1>4, <1>10, <3>1, <3>3
      <4>2. next[a] # j /\ next[a] # k
        BY <1>4, <1>11, <2>3, <3>1, <4>1
      <4> QED BY <1>9, <4>1, <4>2
    <3> QED BY <1>10, <3>1, <3>2, <3>3
  <2> QED BY <1>7, <1>8, <2>1, <2>2, <2>3 DEF ListLinked
<1>13. /\ DOMAIN heap' = DOMAIN Popped(e) \cup LeftPair(i, t) \cup RightPair(i, k, t)
       /\ DOMAIN Popped(e) \subseteq DOMAIN heap
       /\ DOMAIN heap \ {e} \subseteq DOMAIN Popped(e)
  <2> DEFINE S == LeftPair(i, t) \cup RightPair(i, k, t)
  <2>1. heap' = Popped(e) (+) SetToBag(S)
    BY <1>6
  <2> HIDE DEF S
  <2>2. /\ DOMAIN heap' = DOMAIN Popped(e) \cup S
        /\ DOMAIN Popped(e) \subseteq DOMAIN heap
        /\ DOMAIN heap \ {e} \subseteq DOMAIN Popped(e)
    BY <2>1, HeapOperations
  <2> QED BY <2>2 DEF S
<1>14. Typed'
  <2>1. LeftPair(i, t) \subseteq (DOMAIN merges) \X (1 .. n)
    <3>1. CASE prev[i] = n + 1
      BY <1>5, <3>1 DEF LeftPair
    <3>2. CASE prev[i] # n + 1
      <4>1. prev[i] \in 1 .. n
        <5>1. prev[i] \in 1 .. n + 1
          BY <1>4, <1>5
        <5> QED BY <1>4, <3>2, <5>1
      <4>2. LeftPair(i, t) = Candidate(tokens[prev[i]], t, prev[i])
        BY <1>5, <3>2 DEF LeftPair
      <4>3. LeftPair(i, t) \subseteq (DOMAIN merges) \X {prev[i]}
        BY <1>4, <4>2, CandidateInTable
      <4> QED BY <4>1, <4>3
    <3> QED BY <3>1, <3>2
  <2>2. RightPair(i, k, t) \subseteq (DOMAIN merges) \X (1 .. n)
    <3>1. RightPair(i, k, t) \subseteq Candidate(t, tokens[k], i)
      BY DEF RightPair
    <3>2. Candidate(t, tokens[k], i) \subseteq (DOMAIN merges) \X {i}
      BY <1>4, CandidateInTable
    <3> QED BY <1>4, <3>1, <3>2
  <2>3. DOMAIN heap' \subseteq (DOMAIN merges) \X (1 .. n)
    BY <1>5, <1>13, <2>1, <2>2
  <2>4. /\ prev' \in [1 .. n -> 1 .. n + 1] /\ next' \in [1 .. n -> 1 .. n + 1]
        /\ alive' \in [1 .. n -> BOOLEAN]
    <3>1. i \in 1 .. n + 1
      BY <1>4
    <3>2. next' \in [1 .. n -> 1 .. n + 1] /\ alive' \in [1 .. n -> BOOLEAN]
      BY <1>4, <1>5, <1>6
    <3>3. prev' \in [1 .. n -> 1 .. n + 1]
      BY <1>5, <1>6, <3>1
    <3> QED BY <3>2, <3>3
  <2> QED BY <1>2, <1>5, <1>7, <1>8, <2>3, <2>4 DEF Typed
<1>15. QueueComplete'
  <2>1. ASSUME NEW a \in 1 .. n, alive'[a], next'[a] # n + 1
        PROVE  Candidate(tokens'[a], tokens'[next'[a]], a) \subseteq DOMAIN heap'
    <3>1. alive[a] /\ a # j
      BY <1>9, <2>1
    <3>2. CASE a = i
      <4>1. next'[a] = k /\ k # n + 1 /\ k # i /\ k \in 1 .. n
        BY <1>4, <1>9, <2>1, <3>2
      <4>2. tokens'[a] = t /\ tokens'[next'[a]] = tokens[k]
        BY <1>9, <3>2, <4>1
      <4>3. RightPair(i, k, t) = Candidate(t, tokens[k], i)
        BY <1>5, <4>1 DEF RightPair
      <4> QED BY <1>13, <3>2, <4>2, <4>3
    <3>3. CASE a # i /\ next[a] = i
      <4>1. prev[i] = a /\ a # n + 1
        BY <1>4, <1>10, <3>1, <3>3
      <4>2. tokens'[a] = tokens[a] /\ next'[a] = i /\ tokens'[i] = t
        BY <1>4, <1>9, <3>3
      <4>3. LeftPair(i, t) = Candidate(tokens[a], t, a)
        BY <1>5, <4>1 DEF LeftPair
      <4> QED BY <1>13, <4>2, <4>3
    <3>4. CASE a # i /\ next[a] # i
      <4>1. next'[a] = next[a] /\ next[a] \in 1 .. n
        <5>1. next'[a] = next[a] /\ next[a] # n + 1
          BY <1>9, <2>1, <3>4
        <5>2. next[a] \in 1 .. n + 1
          BY <1>5
        <5> QED BY <1>4, <5>1, <5>2
      <4>2. tokens'[a] = tokens[a] /\ tokens'[next[a]] = tokens[next[a]]
        BY <1>9, <3>4, <4>1
      <4>3. Candidate(tokens[a], tokens[next[a]], a) \subseteq DOMAIN heap
        BY <1>2, <1>3, <1>4, <1>5, <3>1, <4>1 DEF IInv, QueueComplete
      <4>4. \A c \in Candidate(tokens[a], tokens[next[a]], a) : c[2] = a
        BY <1>4, CandidateInTable
      <4>5. e \notin Candidate(tokens[a], tokens[next[a]], a)
        BY <1>3, <3>4, <4>4
      <4> QED BY <1>13, <4>1, <4>2, <4>3, <4>5
    <3> QED BY <3>2, <3>3, <3>4
  <2>2. \A a, b, p : Candidate(a, b, p)' = Candidate(a, b, p)
    BY <1>2 DEF Candidate
  <2> QED BY <1>7, <1>8, <2>1, <2>2 DEF QueueComplete
<1> QED BY <1>12, <1>14, <1>15 DEF IInv

LEMMA NextIInv ==
  ASSUME Loadable, IInv, [Next]_vars
  PROVE  IInv'
<1>1. ASSUME NEW c \in Chunks, Begin(c) PROVE IInv'
  <2>1. merges \in Tables /\ c \in Seq(Token)
    BY DEF Loadable, IInv, Typed
  <2> QED BY <1>1, <2>1, BeginStep
<1>2. CASE PopStale
  BY <1>2, PopStaleStep
<1>3. CASE PopFold
  BY <1>3, PopFoldStep
<1>4. CASE Gather
  BY <1>4 DEF Gather, IInv, Typed, ListLinked, QueueComplete
<1>5. CASE UNCHANGED vars
  BY <1>5 DEF vars, scratch, IInv, Typed, ListLinked, QueueComplete, Position,
              None, Candidate
<1> QED BY <1>1, <1>2, <1>3, <1>4, <1>5 DEF Next, Step

LEMMA Invariance == ASSUME Loadable PROVE Spec => []IInv
<1>1. Init => IInv
  BY InitIInv
<1>2. IInv /\ [Next]_vars => IInv'
  BY NextIInv
<1> QED BY <1>1, <1>2, PTL DEF Spec

-----------------------------------------------------------------------------
(***************************************************************************)
(* After any number of folds the links skip exactly the positions that were *)
(* folded away, agree in both directions, and the head is position 1.       *)
(***************************************************************************)
THEOREM ListStaysLinked == ASSUME Loadable PROVE Spec => []ListLinked
<1>1. IInv => ListLinked
  BY DEF IInv
<1> QED BY <1>1, Invariance, PTL

(***************************************************************************)
(* However many stale entries the heap holds, every pair of the list that   *)
(* can be merged is in it with the rank the pair has now.                   *)
(***************************************************************************)
THEOREM QueueStaysComplete == ASSUME Loadable PROVE Spec => []QueueComplete
<1>1. IInv => QueueComplete
  BY DEF IInv
<1> QED BY <1>1, Invariance, PTL

(* The first of the pairs that can be merged, as canonical BPE takes them.  *)
FirstLive(c) == c \in LiveCandidates /\ \A d \in LiveCandidates : Precedes(c, d)

(* What is queued covers what can be merged.                               *)
LEMMA LiveIsQueued ==
  ASSUME Loadable, IInv, engine = "heap"
  PROVE  LiveCandidates \subseteq DOMAIN heap
  BY DEF LiveCandidates, IInv, QueueComplete, Position

LEMMA FoldIsFirst ==
  ASSUME Loadable, IInv, engine = "heap", NEW e \in DOMAIN heap, IsTop(e), Current(e)
  PROVE  FirstLive(e)
<1>1. /\ e[1] \in DOMAIN merges /\ e[2] \in Position /\ IsTable(merges)
      /\ alive[e[2]] /\ next[e[2]] # None
      /\ e[1] = Rank(merges, tokens[e[2]], tokens[next[e[2]]])
  BY FoldPositions DEF Current
<1>2. e = <<e[1], e[2]>>
  BY DEF IInv, Typed
<1>3. e[1] # NoRank
  <2>1. DOMAIN merges = 1 .. Len(merges) /\ Len(merges) < NoRank /\ NoRank \in Nat
        /\ Len(merges) \in Nat
    BY <1>1, LenProperties DEF IsTable
  <2> QED BY <1>1, <2>1
<1>4. e \in Candidate(tokens[e[2]], tokens[next[e[2]]], e[2])
  BY <1>1, <1>2, <1>3 DEF Candidate
<1>5. e \in LiveCandidates
  BY <1>1, <1>4 DEF LiveCandidates
<1> QED BY <1>5, LiveIsQueued DEF FirstLive, IsTop

(***************************************************************************)
(* Canonical order: the pair a fold merges is the lowest ranked, leftmost   *)
(* pair of the list, and the loop gives the list up only when the table     *)
(* can merge nothing in it.                                                 *)
(***************************************************************************)
CanonicalOrder ==
    [][/\ PopFold => \E c \in DOMAIN heap : FirstLive(c) /\ Fold(c)
       /\ Gather => LiveCandidates = {}]_vars

THEOREM FoldsInCanonicalOrder == ASSUME Loadable PROVE Spec => CanonicalOrder
<1>1. ASSUME IInv, PopFold
      PROVE  \E c \in DOMAIN heap : FirstLive(c) /\ Fold(c)
  BY <1>1, FoldIsFirst DEF PopFold
<1>2. ASSUME IInv, Gather
      PROVE  LiveCandidates = {}
  <2>1. DOMAIN heap = {}
    BY <1>2 DEF Gather, EmptyBag, SetToBag
  <2> QED BY <1>2, <2>1, LiveIsQueued DEF Gather
<1>3. IInv => [/\ PopFold => \E c \in DOMAIN heap : FirstLive(c) /\ Fold(c)
               /\ Gather => LiveCandidates = {}]_vars
  BY <1>1, <1>2
<1> QED BY <1>3, Invariance, PTL DEF CanonicalOrder

-----------------------------------------------------------------------------
(* A list over the positions 1 .. n as the sequence of its k positions: it  *)
(* starts at 1, follows the links to the right and ends at None.           *)
Path(nx, n, pos, k) ==
    /\ n \in Nat /\ k \in 1 .. n /\ pos \in [1 .. k -> 1 .. n]
    /\ pos[1] = 1 /\ nx[pos[k]] = n + 1
    /\ \A m \in 1 .. k - 1 : nx[pos[m]] = pos[m + 1]
    /\ \A l, m \in 1 .. k : l < m => pos[l] < pos[m]

Forward(nx, n) == n \in Nat /\ nx \in [1 .. n -> 1 .. n + 1] /\ \A a \in 1 .. n : nx[a] > a

(* What is gathered from tokens ts and links nx.                           *)
Gathered(ts, nx) ==
    LET from[i \in 1 .. Len(ts)] ==
            IF nx[i] = Len(ts) + 1 THEN <<ts[i]>> ELSE <<ts[i]>> \o from[nx[i]]
    IN  from[1]

Spelled(ts, pos, k, w) ==
    w \in Seq(Token) /\ Len(w) = k /\ \A m \in 1 .. k : w[m] = ts[pos[m]]

(* The gather loop visits the positions of the list in order.               *)
LEMMA GatherSpells ==
  ASSUME NEW ts \in Seq(Token), NEW nx, Forward(nx, Len(ts)), NEW pos, NEW k,
         Path(nx, Len(ts), pos, k)
  PROVE  Spelled(ts, pos, k, Gathered(ts, nx))
<1> DEFINE n == Len(ts)
           D == 1 .. n
           body(g) == [i \in D |-> IF nx[i] = n + 1 THEN <<ts[i]>> ELSE <<ts[i]>> \o g[nx[i]]]
           from == CHOOSE g : g = body(g)
           stop == {i \in D : nx[i] = n + 1}
           size == [i \in D |-> n - i]
           single == [i \in D |-> <<ts[i]>>]
<1>1. /\ n \in Nat /\ k \in 1 .. n /\ nx \in [D -> 1 .. n + 1] /\ \A a \in D : nx[a] > a
      /\ \A i \in D : ts[i] \in Token
  BY LenProperties, ElementOfSeq DEF Path, Forward
<1>2. PICK f \in [D -> Seq(Token)] : \A i \in D :
         f[i] = IF i \in stop THEN single[i] ELSE single[i] \o f[nx[i]]
  <2>1. size \in [D -> Nat]
    BY <1>1
  <2>2. ASSUME NEW i \in D \ stop PROVE nx[i] \in D /\ size[nx[i]] < size[i]
    <3>1. nx[i] \in D /\ nx[i] > i
      BY <1>1
    <3> QED BY <1>1, <3>1
  <2>3. single \in [D -> Seq(Token)]
    BY <1>1
  <2> HIDE DEF size, single, stop, D
  <2>4. Descends(Token, D, size, stop, nx, single, single)
    BY <2>1, <2>2, <2>3 DEF Descends
  <2> QED BY <2>4, Recursion
<1>3. f = body(f)
  BY <1>2
<1>4. Gathered(ts, nx) = from[1]
  BY DEF Gathered
<1> HIDE DEF body
<1>5. from = body(from)
  BY <1>3
<1> HIDE DEF from
<1>6. \A i \in D : from[i] = IF nx[i] = n + 1 THEN <<ts[i]>> ELSE <<ts[i]>> \o from[nx[i]]
  BY <1>5 DEF body
<1>7. PICK N, S : /\ N = n
                  /\ S = {d \in Nat : d < k =>
                           /\ from[pos[k - d]] \in Seq(Token) /\ Len(from[pos[k - d]]) = d + 1
                           /\ \A l \in 1 .. d + 1 : from[pos[k - d]][l] = ts[pos[k - d + l - 1]]}
  OBVIOUS
<1>8. /\ N \in Nat /\ k \in 1 .. N /\ pos \in [1 .. k -> 1 .. N] /\ pos[1] = 1
      /\ nx[pos[k]] = N + 1
      /\ \A m \in 1 .. k - 1 : nx[pos[m]] = pos[m + 1]
      /\ \A i \in 1 .. N : ts[i] \in Token
      /\ \A i \in 1 .. N :
            from[i] = IF nx[i] = N + 1 THEN <<ts[i]>> ELSE <<ts[i]>> \o from[nx[i]]
  BY <1>1, <1>6, <1>7 DEF Path
<1>9. ASSUME NEW d \in Nat, 0 .. d - 1 \subseteq S PROVE d \in S
  <2>1. SUFFICES ASSUME d < k
                 PROVE  /\ from[pos[k - d]] \in Seq(Token) /\ Len(from[pos[k - d]]) = d + 1
                        /\ \A l \in 1 .. d + 1 :
                              from[pos[k - d]][l] = ts[pos[k - d + l - 1]]
    BY <1>7
  <2>2. PICK m, g : m = k - d /\ g = from[pos[k - d]]
    OBVIOUS
  <2>3. m \in 1 .. k /\ m \in Nat /\ k \in Nat /\ pos[m] \in 1 .. N /\ g = from[pos[m]]
    BY <1>8, <2>1, <2>2
  <2>4. SUFFICES /\ g \in Seq(Token) /\ Len(g) = d + 1
                 /\ \A l \in 1 .. d + 1 : g[l] = ts[pos[m + l - 1]]
    BY <2>2
  <2>5. CASE d = 0
    <3>1. m = k
      BY <1>8, <2>2, <2>5
    <3>2. g = <<ts[pos[m]]>> /\ ts[pos[m]] \in Token
      BY <1>8, <2>3, <3>1
    <3>3. \A l \in 1 .. d + 1 : l = 1 /\ m + l - 1 = m
      BY <2>3, <2>5
    <3> QED BY <2>5, <3>2, <3>3
  <2>6. CASE d # 0
    <3>1. d - 1 \in 0 .. d - 1 /\ d - 1 < k /\ k - (d - 1) = m + 1 /\ m \in 1 .. k - 1
          /\ m + 1 \in 1 .. k /\ (d - 1) + 1 = d /\ d >= 1
      BY <1>8, <2>1, <2>2, <2>6
    <3>2. PICK i, j, t, u, v : /\ i = pos[m] /\ j = pos[m + 1] /\ t = ts[i] /\ u = <<t>>
                               /\ v = from[j]
      OBVIOUS
    <3>3. v \in Seq(Token) /\ Len(v) = d /\ \A l \in 1 .. d : v[l] = ts[pos[m + 1 + l - 1]]
      <4>1. d - 1 \in S
        BY <1>9, <3>1
      <4> QED BY <1>7, <3>1, <3>2, <4>1
    <3>4. i \in 1 .. N /\ nx[i] = j /\ j \in 1 .. N /\ t \in Token
      BY <1>8, <2>3, <3>1, <3>2
    <3>5. j # N + 1
      BY <1>8, <3>4
    <3>6. g = u \o v
      BY <1>8, <2>3, <3>2, <3>4, <3>5
    <3>7. u \in Seq(Token) /\ Len(u) = 1 /\ u[1] = t
      BY <3>2, <3>4
    <3>8. /\ g \in Seq(Token) /\ Len(g) = d + 1
          /\ \A l \in 1 .. d + 1 : g[l] = IF l <= 1 THEN u[l] ELSE v[l - 1]
      <4>1. /\ g \in Seq(Token) /\ Len(g) = Len(u) + Len(v)
            /\ \A l \in 1 .. Len(u) + Len(v) :
                  g[l] = IF l <= Len(u) THEN u[l] ELSE v[l - Len(u)]
        BY ONLY <3>3, <3>6, <3>7, ConcatProperties
      <4> QED BY <3>3, <3>7, <4>1
    <3>9. ASSUME NEW l \in 1 .. d + 1 PROVE g[l] = ts[pos[m + l - 1]]
      <4>1. CASE l = 1
        <5>1. m + l - 1 = m
          BY <2>3, <4>1
        <5> QED BY <3>2, <3>7, <3>8, <4>1, <5>1
      <4>2. CASE l # 1
        <5>1. l - 1 \in 1 .. d /\ m + 1 + (l - 1) - 1 = m + l - 1 /\ ~(l <= 1)
          BY <2>3, <4>2
        <5> QED BY <3>3, <3>8, <5>1
      <4> QED BY <4>1, <4>2
    <3> QED BY <3>8, <3>9
  <2> QED BY <2>5, <2>6
<1> QED
  <2>1. k - 1 \in S /\ k - 1 < k /\ k - (k - 1) = 1 /\ k - 1 + 1 = k /\ k \in Nat
    <3>1. Nat \subseteq S
      BY <1>9, Induction
    <3> QED BY <1>8, <3>1
  <2>2. /\ from[pos[1]] \in Seq(Token) /\ Len(from[pos[1]]) = k
        /\ \A l \in 1 .. k : from[pos[1]][l] = ts[pos[1 + l - 1]]
    BY <1>7, <2>1
  <2>3. \A l \in 1 .. k : 1 + l - 1 = l
    BY <2>1
  <2> QED BY <1>4, <1>8, <2>2, <2>3 DEF Spelled

(* Every live position is on the path, and only those are.                 *)
Covers(al, n, pos, k) == \A a \in 1 .. n : al[a] <=> \E m \in 1 .. k : pos[m] = a

(* The list without the position behind the x-th one.                      *)
Dropped(pos, k, x) == [m \in 1 .. k - 1 |-> IF m <= x THEN pos[m] ELSE pos[m + 1]]

(* The path pos of length k over the list of n positions.                  *)
On(nx, al, n, pos, k) ==
    /\ Forward(nx, n) /\ Path(nx, n, pos, k)
    /\ al \in [1 .. n -> BOOLEAN] /\ Covers(al, n, pos, k)

Unlinks(nx, al, pos, x, nx2, al2) ==
    /\ nx2 = [nx EXCEPT ![pos[x]] = nx[pos[x + 1]]]
    /\ al2 = [al EXCEPT ![pos[x + 1]] = FALSE]

(* Unlinking a position takes it off the path.                             *)
LEMMA Unlinked ==
  ASSUME NEW nx, NEW al, NEW n, NEW pos, NEW k, NEW x \in 1 .. k - 1, On(nx, al, n, pos, k),
         NEW nx2, NEW al2, Unlinks(nx, al, pos, x, nx2, al2)
  PROVE  On(nx2, al2, n, Dropped(pos, k, x), k - 1)
<1>1. PICK i, j, h : i = pos[x] /\ j = pos[x + 1] /\ h = nx[j]
  OBVIOUS
<1>2. /\ n \in Nat /\ k \in 1 .. n /\ pos \in [1 .. k -> 1 .. n] /\ pos[1] = 1
      /\ nx[pos[k]] = n + 1 /\ \A m \in 1 .. k - 1 : nx[pos[m]] = pos[m + 1]
      /\ \A l, m \in 1 .. k : l < m => pos[l] < pos[m]
      /\ nx \in [1 .. n -> 1 .. n + 1] /\ \A a \in 1 .. n : nx[a] > a
      /\ al \in [1 .. n -> BOOLEAN]
  BY DEF On, Forward, Path
<1>3. x \in 1 .. k /\ x + 1 \in 1 .. k /\ k \in Nat /\ x \in Nat
  BY <1>2
<1>4. i \in 1 .. n /\ j \in 1 .. n /\ h \in 1 .. n + 1 /\ h > j /\ i < j /\ nx[i] = j
  BY <1>1, <1>2, <1>3
<1>5. \A l, m \in 1 .. k : pos[l] = pos[m] => l = m
  <2>1. SUFFICES ASSUME NEW l \in 1 .. k, NEW m \in 1 .. k, pos[l] = pos[m] PROVE l = m
    OBVIOUS
  <2>2. ~(pos[l] < pos[m]) /\ ~(pos[m] < pos[l])
    BY <1>2, <2>1
  <2> QED BY <1>2, <2>2
<1>6. /\ nx2 \in [1 .. n -> 1 .. n + 1]
      /\ \A a \in 1 .. n : nx2[a] = IF a = i THEN h ELSE nx[a]
      /\ al2 \in [1 .. n -> BOOLEAN]
      /\ \A a \in 1 .. n : al2[a] = IF a = j THEN FALSE ELSE al[a]
  BY <1>1, <1>2, <1>4 DEF Unlinks
<1>7. Forward(nx2, n)
  <2>1. h > i
    BY <1>2, <1>4
  <2>2. \A a \in 1 .. n : nx2[a] > a
    BY <1>2, <1>6, <2>1
  <2> QED BY <1>2, <1>6, <2>2 DEF Forward
<1>8. PICK po : po = Dropped(pos, k, x)
  OBVIOUS
<1>9. /\ k - 1 \in 1 .. n /\ po \in [1 .. k - 1 -> 1 .. n]
      /\ \A m \in 1 .. k - 1 : po[m] = IF m <= x THEN pos[m] ELSE pos[m + 1]
  <2>1. \A m \in 1 .. k - 1 : pos[m] \in 1 .. n /\ pos[m + 1] \in 1 .. n
    <3>1. \A m \in 1 .. k - 1 : m \in 1 .. k /\ m + 1 \in 1 .. k
      BY <1>3
    <3> QED BY <1>2, <3>1
  <2>2. k - 1 \in 1 .. n
    BY <1>2, <1>3
  <2> QED BY <1>8, <2>1, <2>2 DEF Dropped
<1>10. po[1] = 1
  BY <1>2, <1>3, <1>9
<1>11. nx2[po[k - 1]] = n + 1
  <2>1. CASE x = k - 1
    <3>1. po[k - 1] = i /\ h = nx[pos[k]]
      BY <1>1, <1>2, <1>3, <1>9, <2>1
    <3> QED BY <1>2, <1>4, <1>6, <3>1
  <2>2. CASE x # k - 1
    <3>1. ~(k - 1 <= x) /\ k - 1 \in 1 .. k - 1 /\ k - 1 + 1 = k /\ k \in 1 .. k /\ k # x
      BY <1>2, <1>3, <2>2
    <3>2. po[k - 1] = pos[k] /\ pos[k] # i /\ pos[k] \in 1 .. n
      BY <1>1, <1>2, <1>3, <1>5, <1>9, <3>1
    <3> QED BY <1>2, <1>6, <3>2
  <2> QED BY <2>1, <2>2
<1>12. ASSUME NEW m \in 1 .. k - 1 - 1 PROVE nx2[po[m]] = po[m + 1]
  <2>1. /\ m \in 1 .. k - 1 /\ m + 1 \in 1 .. k - 1 /\ m \in 1 .. k /\ m + 1 \in 1 .. k
        /\ m + 1 + 1 \in 1 .. k /\ m \in Nat
    BY <1>3
  <2>2. CASE m < x
    <3>1. m # x /\ m <= x /\ m + 1 <= x
      BY <1>3, <2>1, <2>2
    <3>2. po[m] = pos[m] /\ po[m + 1] = pos[m + 1] /\ pos[m] # i /\ pos[m] \in 1 .. n
      BY <1>1, <1>2, <1>3, <1>5, <1>9, <2>1, <3>1
    <3> QED BY <1>2, <1>6, <2>1, <3>2
  <2>3. CASE m = x
    <3>1. m <= x /\ ~(m + 1 <= x)
      BY <1>3, <2>1, <2>3
    <3>2. po[m] = i /\ po[m + 1] = pos[m + 1 + 1] /\ h = pos[m + 1 + 1]
      BY <1>1, <1>2, <1>9, <2>1, <2>3, <3>1
    <3> QED BY <1>4, <1>6, <3>2
  <2>4. CASE m > x
    <3>1. ~(m <= x) /\ ~(m + 1 <= x) /\ m + 1 # x
      BY <1>3, <2>1, <2>4
    <3>2. /\ po[m] = pos[m + 1] /\ po[m + 1] = pos[m + 1 + 1] /\ pos[m + 1] # i
          /\ pos[m + 1] \in 1 .. n
      BY <1>1, <1>2, <1>3, <1>5, <1>9, <2>1, <3>1
    <3> QED BY <1>2, <1>6, <2>1, <3>2
  <2> QED BY <1>3, <2>1, <2>2, <2>3, <2>4
<1>13. ASSUME NEW l \in 1 .. k - 1, NEW m \in 1 .. k - 1, l < m PROVE po[l] < po[m]
  <2>1. /\ l \in 1 .. k /\ m \in 1 .. k /\ l + 1 \in 1 .. k /\ m + 1 \in 1 .. k
        /\ l + 1 < m + 1 /\ l < m + 1
    BY <1>3, <1>13
  <2>2. /\ pos[l] < pos[m] /\ pos[l + 1] < pos[m + 1] /\ pos[l] < pos[m + 1]
    BY <1>2, <1>13, <2>1
  <2>3. l <= x \/ ~(m <= x)
    BY <1>3, <1>13
  <2> QED BY <1>9, <2>2, <2>3
<1>14. Path(nx2, n, po, k - 1)
  BY <1>2, <1>9, <1>10, <1>11, <1>12, <1>13 DEF Path
<1>15. ASSUME NEW a \in 1 .. n
       PROVE  al2[a] <=> \E m \in 1 .. k - 1 : po[m] = a
  <2>1. ASSUME al2[a] PROVE \E m \in 1 .. k - 1 : po[m] = a
    <3>1. a # j /\ al[a]
      BY <1>6, <2>1
    <3>2. PICK m \in 1 .. k : pos[m] = a
      BY <3>1 DEF On, Covers
    <3>3. m # x + 1
      BY <1>1, <3>1, <3>2
    <3>4. CASE m <= x
      <4>1. m \in 1 .. k - 1
        BY <1>3, <3>4
      <4> QED BY <1>9, <3>2, <3>4, <4>1
    <3>5. CASE ~(m <= x)
      <4>1. m - 1 \in 1 .. k - 1 /\ ~(m - 1 <= x) /\ m - 1 + 1 = m
        BY <1>3, <3>3, <3>5
      <4> QED BY <1>9, <3>2, <4>1
    <3> QED BY <3>4, <3>5
  <2>2. ASSUME NEW m \in 1 .. k - 1, po[m] = a PROVE al2[a]
    <3>1. PICK y \in 1 .. k : po[m] = pos[y] /\ y # x + 1
      <4>1. m \in 1 .. k /\ m + 1 \in 1 .. k /\ (m <= x => m # x + 1) /\ (~(m <= x) => m + 1 # x + 1)
        BY <1>3
      <4> QED BY <1>9, <4>1
    <3>2. al[a] /\ a # j
      BY <1>1, <1>3, <1>5, <2>2, <3>1 DEF On, Covers
    <3> QED BY <1>6, <3>2
  <2> QED BY <2>1, <2>2
<1> QED BY <1>6, <1>7, <1>8, <1>14, <1>15 DEF On, Covers

Writes(ts, pos, x, ts2) ==
    ts2 = [ts EXCEPT ![pos[x]] = Target(merges, ts[pos[x]], ts[pos[x + 1]])]

(* Writing the merged token at the left position folds the spelled word.   *)
LEMMA SpelledFold ==
  ASSUME IsTable(merges), NEW ts \in Seq(Token), NEW pos, NEW k, NEW nx,
         Path(nx, Len(ts), pos, k),
         NEW w, Spelled(ts, pos, k, w), NEW x \in 1 .. k - 1, RankAt(merges, w, x) # NoRank,
         NEW ts2, Writes(ts, pos, x, ts2),
         NEW v, Spelled(ts2, Dropped(pos, k, x), k - 1, v)
  PROVE  v = FoldAt(merges, w, x)
<1> DEFINE n == Len(ts)
<1>1. /\ w \in Seq(Token) /\ Len(w) = k /\ \A m \in 1 .. k : w[m] = ts[pos[m]]
      /\ v \in Seq(Token) /\ Len(v) = k - 1
      /\ \A m \in 1 .. k - 1 : v[m] = ts2[Dropped(pos, k, x)[m]]
  BY DEF Spelled
<1>2. /\ k \in 1 .. n /\ pos \in [1 .. k -> 1 .. n]
      /\ \A l, m \in 1 .. k : l < m => pos[l] < pos[m]
  BY DEF Path
<1>3. x \in 1 .. k /\ x + 1 \in 1 .. k /\ k \in Nat /\ x \in Nat /\ DOMAIN ts = 1 .. n
  BY <1>2, LenProperties
<1>4. PICK t : t = Target(merges, w[x], w[x + 1])
  OBVIOUS
<1>5. \A a \in 1 .. n : ts2[a] = IF a = pos[x] THEN t ELSE ts[a]
  <2>1. t = Target(merges, ts[pos[x]], ts[pos[x + 1]])
    BY <1>1, <1>3, <1>4
  <2> QED BY <1>3, <2>1 DEF Writes
<1>6. ASSUME NEW m \in 1 .. k - 1
      PROVE  v[m] = IF m < x THEN w[m] ELSE IF m = x THEN t ELSE w[m + 1]
  <2>1. m \in 1 .. k /\ m + 1 \in 1 .. k
    BY <1>3
  <2>2. v[m] = ts2[IF m <= x THEN pos[m] ELSE pos[m + 1]]
    BY <1>1 DEF Dropped
  <2>3. CASE m < x
    <3>1. m <= x /\ pos[m] # pos[x] /\ pos[m] \in 1 .. n
      BY <1>2, <1>3, <2>1, <2>3
    <3> QED BY <1>1, <1>5, <2>1, <2>2, <2>3, <3>1
  <2>4. CASE m = x
    <3>1. m <= x /\ ~(m < x) /\ pos[m] \in 1 .. n
      BY <1>2, <1>3, <2>1, <2>4
    <3> QED BY <1>5, <2>2, <2>4, <3>1
  <2>5. CASE m > x
    <3>1. ~(m <= x) /\ ~(m < x) /\ m # x /\ x < m + 1
      BY <1>3, <2>5
    <3>2. pos[m + 1] # pos[x] /\ pos[m + 1] \in 1 .. n
      BY <1>2, <1>3, <2>1, <3>1
    <3> QED BY <1>1, <1>5, <2>1, <2>2, <3>1, <3>2
  <2> QED BY <1>3, <2>3, <2>4, <2>5
<1>7. PICK f : f = FoldAt(merges, w, x)
  OBVIOUS
<1>8. /\ f \in Seq(Token) /\ Len(f) = Len(w) - 1
      /\ \A m \in 1 .. Len(w) - 1 : f[m] =
            IF m < x THEN w[m] ELSE IF m = x THEN Target(merges, w[x], w[x + 1]) ELSE w[m + 1]
  <2>1. Mergeable(merges, w, x)
    BY <1>1 DEF Mergeable
  <2>2. IsFolded(merges, w, x, f)
    BY <1>1, <1>7, <2>1, Folded
  <2> QED BY <2>2 DEF IsFolded
<1>9. f \in Seq(Token) /\ Len(f) = k - 1 /\ \A m \in 1 .. k - 1 : f[m] = v[m]
  BY <1>1, <1>4, <1>6, <1>8
<1> QED BY <1>1, <1>7, <1>9, SeqEqual

-----------------------------------------------------------------------------
(* What has to hold besides IInv for the chunk to be described at every     *)
(* moment: the list is a path over the live positions, and a chunk that was *)
(* handed back is fully merged.                                            *)
Listed(pos, k) == On(next, alive, Len(tokens), pos, k)

Whole ==
    /\ engine \in {"idle", "heap"} /\ IsABag(heap)
    /\ engine = "heap" => \E k, pos : Listed(pos, k)
    /\ engine = "idle" => tokens \in Seq(Token) /\ NormalForm(merges, tokens)

IInvWhole == IInv /\ Whole

LEMMA BagsStayBags ==
  ASSUME NEW e, NEW S, IsABag(heap)
  PROVE  IsABag(Popped(e)) /\ IsABag(Popped(e) (+) SetToBag(S)) /\ IsABag(SetToBag(S))
<1>1. PICK P : P = {n \in Nat : n > 0}
  OBVIOUS
<1>2. \A n \in P : n \in Nat /\ n > 0 /\ (n = 1 \/ n - 1 \in P) /\ \A l \in P : n + l \in P
  BY <1>1
<1>3. 1 \in P /\ \A n \in P : n + 0 = n /\ 0 + n = n
  BY <1>1
<1>4. \A d \in DOMAIN heap : heap[d] \in P
  BY <1>1 DEF IsABag
<1>5. IsABag(SetToBag(S))
  BY <1>1, <1>3 DEF IsABag, SetToBag
<1>6. IsABag(Popped(e))
  <2>1. CASE e \in DOMAIN heap /\ heap[e] = 1
    BY <1>1, <1>4, <2>1 DEF Popped, BagRemove, IsABag
  <2>2. CASE e \in DOMAIN heap /\ heap[e] # 1
    <3>1. Popped(e) = [d \in DOMAIN heap |-> IF d = e THEN heap[d] - 1 ELSE heap[d]]
      BY <2>2 DEF Popped, BagRemove
    <3>2. \A d \in DOMAIN heap : (IF d = e THEN heap[d] - 1 ELSE heap[d]) \in P
      BY <1>2, <1>4, <2>2
    <3> QED BY <1>1, <3>1, <3>2 DEF IsABag
  <2>3. CASE e \notin DOMAIN heap
    BY <2>3 DEF Popped, BagRemove
  <2> QED BY <2>1, <2>2, <2>3
<1>7. IsABag(Popped(e) (+) SetToBag(S))
  <2>1. PICK A, B : A = Popped(e) /\ B = SetToBag(S)
    OBVIOUS
  <2>2. (\A d \in DOMAIN A : A[d] \in P) /\ (\A d \in DOMAIN B : B[d] \in P)
    BY <1>1, <1>5, <1>6, <2>1 DEF IsABag
  <2>3. \A d \in DOMAIN A \cup DOMAIN B :
           (IF d \in DOMAIN A THEN A[d] ELSE 0) + (IF d \in DOMAIN B THEN B[d] ELSE 0) \in P
    BY <1>2, <1>3, <2>2
  <2>4. IsABag(A (+) B)
    BY <1>1, <2>3 DEF IsABag, (+)
  <2> QED BY <2>1, <2>4
<1> QED BY <1>5, <1>6, <1>7

(* The survivors are the tokens of the path.                               *)
LEMMA SurvivorsSpelled ==
  ASSUME tokens \in Seq(Token), Forward(next, Len(tokens)), NEW pos, NEW k,
         Path(next, Len(tokens), pos, k)
  PROVE  Spelled(tokens, pos, k, Survivors)
<1>1. Survivors = Gathered(tokens, next)
  BY DEF Survivors, Gathered, None
<1> QED BY <1>1, GatherSpells

(* The pair at x of the survivors is the pair of the list at pos[x].        *)
SamePair(pos, w, x) ==
    /\ next[pos[x]] = pos[x + 1] /\ x \in 1 .. Len(w) - 1
    /\ RankAt(merges, w, x) = Rank(merges, tokens[pos[x]], tokens[next[pos[x]]])
    /\ RankAt(merges, w, x) # NoRank => <<RankAt(merges, w, x), pos[x]>> \in LiveCandidates

LEMMA PathPairs ==
  ASSUME NEW pos, NEW k, Listed(pos, k), NEW w, Spelled(tokens, pos, k, w), NEW x \in 1 .. k - 1
  PROVE  SamePair(pos, w, x)
<1>1. PICK n : n = Len(tokens)
  OBVIOUS
<1>2. /\ n \in Nat /\ k \in 1 .. n /\ pos \in [1 .. k -> 1 .. n]
      /\ \A m \in 1 .. k - 1 : next[pos[m]] = pos[m + 1]
      /\ Len(w) = k /\ \A m \in 1 .. k : w[m] = tokens[pos[m]]
  BY <1>1 DEF Listed, On, Path, Spelled
<1>3. x \in 1 .. k /\ x + 1 \in 1 .. k /\ x \in 1 .. Len(w) - 1
  BY <1>2
<1>4. pos[x] \in 1 .. n /\ next[pos[x]] = pos[x + 1] /\ pos[x + 1] \in 1 .. n
  BY <1>2, <1>3
<1>5. pos[x + 1] # n + 1
  BY <1>2, <1>4
<1>6. alive[pos[x]]
  BY <1>1, <1>3, <1>4 DEF Listed, On, Covers
<1>7. RankAt(merges, w, x) = Rank(merges, tokens[pos[x]], tokens[next[pos[x]]])
  BY <1>2, <1>3, <1>4 DEF RankAt
<1>8. RankAt(merges, w, x) # NoRank =>
         <<RankAt(merges, w, x), pos[x]>> \in Candidate(tokens[pos[x]], tokens[next[pos[x]]], pos[x])
  BY <1>7 DEF Candidate
<1> QED BY <1>1, <1>3, <1>4, <1>5, <1>6, <1>7, <1>8 DEF SamePair, LiveCandidates, Position, None

(* The first live pair is the pair canonical BPE merges in the survivors.   *)
LEMMA FirstIsLowest ==
  ASSUME Loadable, IInv, engine = "heap", NEW pos, NEW k, Listed(pos, k), NEW w,
         Spelled(tokens, pos, k, w), NEW e \in DOMAIN heap, Current(e), FirstLive(e)
  PROVE  \E x \in 1 .. k - 1 : /\ IsLowest(merges, w, x) /\ RankAt(merges, w, x) # NoRank
                               /\ pos[x] = e[2] /\ pos[x + 1] = next[e[2]]
<1>1. PICK n : n = Len(tokens)
  OBVIOUS
<1>2. /\ n \in Nat /\ k \in 1 .. n /\ pos \in [1 .. k -> 1 .. n]
      /\ next[pos[k]] = n + 1
      /\ \A l, m \in 1 .. k : l < m => pos[l] < pos[m]
      /\ Len(w) = k
  BY <1>1 DEF Listed, On, Path, Spelled
<1>3. /\ IsTable(merges) /\ e[1] \in DOMAIN merges /\ e[2] \in 1 .. n /\ alive[e[2]]
      /\ next[e[2]] \in 1 .. n
      /\ e[1] = Rank(merges, tokens[e[2]], tokens[next[e[2]]])
  BY <1>1, FoldPositions DEF Position, Current
<1>4. DOMAIN merges \subseteq Nat /\ NoRank \notin DOMAIN merges
  BY <1>3, RankMeans
<1>5. PICK x \in 1 .. k : pos[x] = e[2]
  BY <1>1, <1>3 DEF Listed, On, Covers
<1>6. x \in 1 .. k - 1
  <2>1. next[pos[x]] # n + 1
    BY <1>2, <1>3, <1>5
  <2>2. x # k
    BY <1>2, <2>1
  <2> QED BY <1>2, <2>2
<1>7. /\ pos[x + 1] = next[e[2]] /\ RankAt(merges, w, x) = e[1] /\ e[1] # NoRank
      /\ x \in 1 .. Len(w) - 1
  <2>1. SamePair(pos, w, x)
    BY <1>6, PathPairs
  <2>2. e[1] # NoRank
    BY <1>3, <1>4
  <2> QED BY <1>3, <1>5, <2>1, <2>2 DEF SamePair
<1>8. ASSUME NEW p \in Candidates(merges, w) PROVE Precedes(<<RankAt(merges, w, x), x>>, p)
  <2>1. PICK y \in 1 .. k - 1 : p = <<RankAt(merges, w, y), y>> /\ RankAt(merges, w, y) # NoRank
    BY <1>2, <1>8 DEF Candidates
  <2>2. <<RankAt(merges, w, y), pos[y]>> \in LiveCandidates
    BY <2>1, PathPairs DEF SamePair
  <2>3. Precedes(e, <<RankAt(merges, w, y), pos[y]>>)
    BY <2>2 DEF FirstLive
  <2>4. e[1] < RankAt(merges, w, y) \/ (e[1] = RankAt(merges, w, y) /\ pos[x] <= pos[y])
    BY <1>5, <2>3 DEF Precedes
  <2>5. pos[x] <= pos[y] => x <= y
    <3>1. x \in 1 .. k /\ y \in 1 .. k /\ pos[x] \in 1 .. n /\ pos[y] \in 1 .. n
      BY <1>2
    <3>2. y < x => pos[y] < pos[x]
      BY <1>2, <3>1
    <3> QED BY <1>2, <3>1, <3>2
  <2> QED BY <1>7, <2>1, <2>4, <2>5 DEF Precedes
<1>9. IsLowest(merges, w, x)
  BY <1>7, <1>8 DEF IsLowest, Mergeable
<1> QED BY <1>5, <1>6, <1>7, <1>9

(* The list is given up when nothing can be merged in it.                  *)
LEMMA GatherWhenDone ==
  ASSUME Loadable, IInv, Gather
  PROVE  LiveCandidates = {}
<1>1. DOMAIN heap = {}
  BY DEF Gather, EmptyBag, SetToBag
<1> QED BY <1>1, LiveIsQueued DEF Gather

-----------------------------------------------------------------------------
LEMMA InitWhole == ASSUME Loadable, Init PROVE Whole
<1>1. tokens = <<>> /\ engine = "idle" /\ heap = EmptyBag
  BY DEF Init
<1>2. IsABag(heap)
  BY <1>1 DEF IsABag, EmptyBag, SetToBag
<1>3. tokens \in Seq(Token) /\ Len(tokens) = 0
  BY <1>1
<1>4. NormalForm(merges, tokens)
  BY <1>3 DEF NormalForm
<1> QED BY <1>1, <1>2, <1>3, <1>4 DEF Whole

LEMMA BeginWhole ==
  ASSUME IsABag(heap), NEW c \in Seq(Token), Begin(c)
  PROVE  Whole' /\ Survivors' = c
<1>1. PICK n, pos : n = Len(c) /\ pos = [m \in 1 .. n |-> m]
  OBVIOUS
<1>2. c \in Seq(Token) /\ n \in Nat /\ n > 1 /\ tokens' = c /\ engine' = "heap"
  BY <1>1, LenProperties DEF Begin
<1>3. /\ next' = [i \in 1 .. n |-> i + 1]
      /\ alive' = [i \in 1 .. n |-> TRUE]
  BY <1>1 DEF Begin
<1>4. IsABag(heap')
  BY BagsStayBags DEF Begin
<1>5. Forward(next', n)
  BY <1>2, <1>3 DEF Forward
<1>6. Path(next', n, pos, n)
  <2>1. n \in 1 .. n /\ pos \in [1 .. n -> 1 .. n] /\ pos[1] = 1 /\ pos[n] = n
    BY <1>1, <1>2
  <2>2. next'[pos[n]] = n + 1
    BY <1>3, <2>1
  <2>3. \A m \in 1 .. n - 1 : next'[pos[m]] = pos[m + 1]
    BY <1>1, <1>2, <1>3
  <2>4. \A l, m \in 1 .. n : l < m => pos[l] < pos[m]
    BY <1>1, <1>2
  <2> QED BY <1>2, <2>1, <2>2, <2>3, <2>4 DEF Path
<1>7. Covers(alive', n, pos, n)
  BY <1>1, <1>3 DEF Covers
<1>8. Whole'
  <2>1. alive' \in [1 .. n -> BOOLEAN]
    BY <1>3
  <2> QED BY <1>1, <1>2, <1>4, <1>5, <1>6, <1>7, <2>1 DEF Whole, Listed, On
<1>9. Survivors' = c
  <2>1. PICK w : w = Gathered(tokens', next')
    OBVIOUS
  <2>2. Spelled(c, pos, n, w)
    BY <1>1, <1>2, <1>5, <1>6, <2>1, GatherSpells
  <2>3. /\ w \in Seq(Token) /\ Len(w) = n /\ \A m \in 1 .. n : w[m] = c[m]
    BY <1>1, <2>2 DEF Spelled
  <2>4. w = c
    BY <1>1, <1>2, <2>3, SeqEqual
  <2> QED BY <2>1, <2>4 DEF Survivors, Gathered, None
<1> QED BY <1>8, <1>9

LEMMA PopStaleWhole ==
  ASSUME Loadable, IInvWhole, PopStale
  PROVE  Whole' /\ Survivors' = Survivors
<1>1. /\ engine = "heap" /\ merges' = merges /\ engine' = engine /\ tokens' = tokens
      /\ next' = next /\ alive' = alive
  BY DEF PopStale
<1>2. PICK e : heap' = Popped(e)
  BY DEF PopStale
<1>3. IsABag(heap')
  BY <1>2, BagsStayBags DEF IInvWhole, Whole
<1>4. Whole'
  BY <1>1, <1>3 DEF IInvWhole, Whole, Listed
<1> QED BY <1>1, <1>4 DEF Survivors, None

(* A fold folds the survivors, at the pair canonical BPE merges.           *)
LEMMA PopFoldWhole ==
  ASSUME Loadable, IInvWhole, PopFold
  PROVE  /\ Whole'
         /\ \E x \in 1 .. Len(Survivors) - 1 : /\ IsLowest(merges, Survivors, x)
                                               /\ Survivors' = FoldAt(merges, Survivors, x)
<1>1. PICK e \in DOMAIN heap : IsTop(e) /\ Current(e) /\ Fold(e)
  BY DEF PopFold
<1>2. engine = "heap" /\ engine' = engine /\ merges' = merges /\ IInv /\ Whole
  BY DEF PopFold, IInvWhole
<1>3. FirstLive(e)
  BY <1>1, <1>2, FoldIsFirst
<1>4. PICK n, w, k, pos : n = Len(tokens) /\ w = Survivors /\ Listed(pos, k)
  BY <1>2 DEF Whole
<1>5. /\ tokens \in Seq(Token) /\ On(next, alive, n, pos, k) /\ IsTable(merges) /\ n \in Nat
  BY <1>2, <1>4, LenProperties DEF Loadable, IInv, Typed, Listed
<1>6. Spelled(tokens, pos, k, w)
  BY <1>4, <1>5, SurvivorsSpelled DEF On
<1>7. PICK x \in 1 .. k - 1 : /\ IsLowest(merges, w, x) /\ RankAt(merges, w, x) # NoRank
                              /\ pos[x] = e[2] /\ pos[x + 1] = next[e[2]]
  BY <1>1, <1>2, <1>3, <1>4, <1>6, FirstIsLowest
<1>8. Writes(tokens, pos, x, tokens') /\ Unlinks(next, alive, pos, x, next', alive')
  BY <1>1, <1>7 DEF Fold, Writes, Unlinks
<1>9. IsABag(heap')
  BY <1>1, <1>2, BagsStayBags DEF Fold, Whole
<1>10. tokens' \in Seq(Token) /\ Len(tokens') = n
  <2>1. /\ e[2] \in 1 .. n /\ Target(merges, tokens[e[2]], tokens[next[e[2]]]) \in Token
    BY <1>1, <1>2, <1>4, FoldPositions DEF Position
  <2> QED BY <1>4, <1>5, <1>7, <1>8, <2>1, ExceptSeq DEF Writes
<1>11. PICK po, nx, al, ts, v : /\ po = Dropped(pos, k, x) /\ nx = next' /\ al = alive'
                                /\ ts = tokens' /\ v = Gathered(ts, nx)
  OBVIOUS
<1>12. On(nx, al, n, po, k - 1)
  BY <1>5, <1>8, <1>11, Unlinked
<1>13. Whole'
  BY <1>2, <1>9, <1>10, <1>11, <1>12 DEF Whole, Listed
<1>14. Spelled(ts, po, k - 1, v)
  BY <1>10, <1>11, <1>12, GatherSpells DEF On
<1>15. v = FoldAt(merges, w, x)
  <2>1. /\ ts \in Seq(Token) /\ Writes(tokens, pos, x, ts) /\ Path(next, Len(tokens), pos, k)
        /\ Spelled(ts, Dropped(pos, k, x), k - 1, v)
    BY <1>4, <1>5, <1>8, <1>10, <1>11, <1>14 DEF On
  <2> QED BY <1>5, <1>6, <1>7, <2>1, SpelledFold
<1>16. Survivors' = v
  BY <1>11 DEF Survivors, Gathered, None
<1>17. x \in 1 .. Len(w) - 1
  BY <1>6 DEF Spelled
<1> QED BY <1>4, <1>7, <1>13, <1>15, <1>16, <1>17

LEMMA GatherWhole ==
  ASSUME Loadable, IInvWhole, Gather
  PROVE  Whole' /\ tokens' = Survivors
<1>1. /\ engine = "heap" /\ engine' = "idle" /\ merges' = merges /\ heap' = heap
      /\ tokens' = Survivors /\ IInv /\ Whole
  BY DEF Gather, IInvWhole
<1>2. PICK k, pos : Listed(pos, k)
  BY <1>1 DEF Whole
<1>3. PICK w : w = Survivors
  OBVIOUS
<1>4. Spelled(tokens, pos, k, w)
  BY <1>1, <1>2, <1>3, SurvivorsSpelled DEF IInv, Typed, Listed, On
<1>5. LiveCandidates = {}
  BY <1>1, GatherWhenDone
<1>6. NormalForm(merges, w)
  <2>1. SUFFICES ASSUME NEW x \in 1 .. Len(w) - 1 PROVE RankAt(merges, w, x) = NoRank
    BY DEF NormalForm
  <2>2. x \in 1 .. k - 1
    BY <1>4 DEF Spelled
  <2> QED BY <1>1, <1>2, <1>4, <1>5, <2>2, PathPairs DEF SamePair
<1> QED BY <1>1, <1>3, <1>4, <1>6 DEF Whole, Spelled

LEMMA NextWhole ==
  ASSUME Loadable, IInvWhole, [Next]_vars
  PROVE  IInvWhole'
<1>1. IInv'
  BY NextIInv DEF IInvWhole
<1>2. Whole'
  <2>1. ASSUME NEW c \in Chunks, Begin(c) PROVE Whole'
    <3>1. IsABag(heap) /\ c \in Seq(Token)
      BY DEF Loadable, IInvWhole, Whole
    <3> QED BY <2>1, <3>1, BeginWhole
  <2>2. CASE PopStale
    BY <2>2, PopStaleWhole
  <2>3. CASE PopFold
    BY <2>3, PopFoldWhole
  <2>4. CASE Gather
    BY <2>4, GatherWhole
  <2>5. CASE UNCHANGED vars
    BY <2>5 DEF vars, scratch, IInvWhole, Whole, Listed, NormalForm, RankAt
  <2> QED BY <2>1, <2>2, <2>3, <2>4, <2>5 DEF Next, Step
<1> QED BY <1>1, <1>2 DEF IInvWhole

LEMMA InvarianceWhole == ASSUME Loadable PROVE Spec => []IInvWhole
<1>1. Init => IInvWhole
  BY InitIInv, InitWhole DEF IInvWhole
<1>2. IInvWhole /\ [Next]_vars => IInvWhole'
  BY NextWhole
<1> QED BY <1>1, <1>2, PTL DEF Spec

(***************************************************************************)
(* The buffers of the long path: while the loop runs, links and live marks  *)
(* of every position and entries for merges of the table; and what is       *)
(* handed back is a word of tokens.                                        *)
(***************************************************************************)
LEMMA WholeTyped == IInvWhole => TypeOK
  BY DEF IInvWhole, IInv, Typed, Whole, TypeOK, Position

THEOREM TypeCorrect == ASSUME Loadable PROVE Spec => []TypeOK
  BY InvarianceWhole, WholeTyped, PTL

-----------------------------------------------------------------------------
(* What a caller relies on: the survivors stay a word that canonical BPE    *)
(* makes of the chunk, and what is handed back is the end of its way.       *)
LEMMA Starting ==
  ASSUME Loadable, merges \in Tables, IsABag(heap), NEW c \in Seq(Token), Begin(c)
  PROVE  IInvWhole' /\ merges' = merges /\ engine' = "heap" /\ Survivors' = c
<1>1. engine' = "heap" /\ merges' = merges
  BY DEF Begin
<1>2. IInv' /\ Whole' /\ Survivors' = c
  BY BeginStep, BeginWhole
<1> QED BY <1>1, <1>2 DEF IInvWhole

LEMMA SurvivorsAreTokens ==
  ASSUME IInvWhole, engine = "heap"
  PROVE  Survivors \in Seq(Token)
<1>1. PICK k, pos : Listed(pos, k)
  BY DEF IInvWhole, Whole
<1>2. tokens \in Seq(Token) /\ On(next, alive, Len(tokens), pos, k)
  BY <1>1 DEF IInvWhole, IInv, Typed, Listed
<1>3. Spelled(tokens, pos, k, Survivors)
  BY <1>2, SurvivorsSpelled DEF On
<1> QED BY <1>3 DEF Spelled

LEMMA Stepping ==
  ASSUME Loadable, IInvWhole, Step
  PROVE  /\ IInvWhole' /\ merges' = merges /\ engine' \in {"heap", "idle"}
         /\ engine' = "heap" => Canonical(merges, Survivors') = Canonical(merges, Survivors)
         /\ engine' = "idle" =>
               tokens' \in Seq(Token) /\ tokens' = Canonical(merges, Survivors)
<1>1. IInvWhole'
  BY NextWhole DEF Next
<1>2. engine = "heap" /\ merges' = merges /\ merges \in Tables /\ IsTable(merges)
  BY DEF IInvWhole, IInv, Typed, Loadable, Step, PopStale, PopFold, Gather
<1>3. CASE PopStale
  <2>1. engine' = "heap" /\ Survivors' = Survivors
    BY <1>2, <1>3, PopStaleWhole DEF PopStale
  <2> QED BY <1>1, <1>2, <2>1
<1>4. CASE PopFold
  <2>1. PICK x \in 1 .. Len(Survivors) - 1 : /\ IsLowest(merges, Survivors, x)
                                             /\ Survivors' = FoldAt(merges, Survivors, x)
    BY <1>4, PopFoldWhole
  <2>2. Survivors \in Seq(Token)
    BY <1>2, SurvivorsAreTokens
  <2>3. Canonical(merges, Survivors) = Canonical(merges, FoldAt(merges, Survivors, x))
    BY <1>2, <2>1, <2>2, CanonicalUnfolds
  <2>4. engine' = "heap"
    BY <1>2, <1>4 DEF PopFold
  <2> QED BY <1>1, <1>2, <2>1, <2>3, <2>4
<1>5. CASE Gather
  <2>1. engine' = "idle" /\ tokens' = Survivors
    BY <1>5 DEF Gather
  <2>2. tokens' \in Seq(Token) /\ NormalForm(merges, tokens')
    BY <1>1, <1>2, <2>1 DEF IInvWhole, Whole, NormalForm, RankAt
  <2>3. Canonical(merges, tokens') = tokens'
    BY <1>2, <2>2, CanonicalUnfolds
  <2> QED BY <1>1, <1>2, <2>1, <2>2, <2>3
<1> QED BY <1>3, <1>4, <1>5 DEF Step

-----------------------------------------------------------------------------
(* The abstract specification instantiates MergeTable a second time: its    *)
(* operators are the same.                                                 *)
LEMMA SameOperators ==
  /\ \A m, w : Canon!NormalForm(m, w) <=> NormalForm(m, w)
  /\ \A m, w, i : Canon!IsLowest(m, w, i) <=> IsLowest(m, w, i)
  /\ \A m, w, i : Canon!FoldAt(m, w, i) = FoldAt(m, w, i)
<1>1. \A m, a, b : Canon!Rank(m, a, b) = Rank(m, a, b)
  BY DEF Canon!Rank, Rank, Canon!MergesOf, MergesOf, Canon!IsFirst, IsFirst
<1>2. \A m, w, i : Canon!RankAt(m, w, i) = RankAt(m, w, i)
  BY <1>1 DEF Canon!RankAt, RankAt
<1>3. \A m, w, i : Canon!FoldAt(m, w, i) = FoldAt(m, w, i)
  BY <1>1 DEF Canon!FoldAt, FoldAt, Canon!Target, Target
<1>4. \A m, w : Canon!Candidates(m, w) = Candidates(m, w)
  BY <1>2 DEF Canon!Candidates, Candidates
<1>5. \A m, w, i : Canon!IsLowest(m, w, i) <=> IsLowest(m, w, i)
  BY <1>2, <1>4 DEF Canon!IsLowest, IsLowest, Canon!Mergeable, Mergeable,
                    Canon!Precedes, Precedes
<1>6. \A m, w : Canon!NormalForm(m, w) <=> NormalForm(m, w)
  BY <1>2 DEF Canon!NormalForm, NormalForm
<1> QED BY <1>3, <1>5, <1>6

(* The word that a state of this path stands for.                          *)
Word == IF engine = "heap" THEN Survivors ELSE tokens

LEMMA InitRefines == Init => Canon!Init
  BY DEF Init, Canon!Init

LEMMA StepRefines ==
  ASSUME Loadable, IInvWhole, [Next]_vars
  PROVE  [Canon!Next]_(Canon!vars)
<1>1. ASSUME NEW c \in Chunks, Begin(c) PROVE Canon!NextChunk
  <2>1. engine = "idle" /\ engine' = "heap" /\ merges' = merges /\ Survivors' = c
    <3>1. IsABag(heap) /\ c \in Seq(Token)
      BY DEF Loadable, IInvWhole, Whole
    <3> QED BY <1>1, <3>1, BeginWhole DEF Begin
  <2>2. NormalForm(merges, tokens)
    BY <2>1 DEF IInvWhole, Whole
  <2>3. Word = tokens /\ Word' = c
    BY <2>1 DEF Word
  <2>4. Canon!NormalForm(merges, Word) /\ Word' \in Chunks
    BY <2>2, <2>3, SameOperators
  <2> QED BY <2>1, <2>4 DEF Canon!NextChunk, Word
<1>2. CASE PopStale
  <2>1. Survivors' = Survivors /\ merges' = merges /\ engine' = engine /\ tokens' = tokens
    BY <1>2, PopStaleWhole DEF PopStale
  <2> QED BY <2>1 DEF Canon!vars
<1>3. CASE PopFold
  <2>1. PICK x \in 1 .. Len(Survivors) - 1 : /\ IsLowest(merges, Survivors, x)
                                             /\ Survivors' = FoldAt(merges, Survivors, x)
    BY <1>3, PopFoldWhole
  <2>2. engine = "heap" /\ engine' = "heap" /\ merges' = merges
    BY <1>3 DEF PopFold
  <2>3. Word = Survivors /\ Word' = Survivors'
    BY <2>2 DEF Word
  <2>4. /\ x \in 1 .. Len(Word) - 1 /\ Canon!IsLowest(merges, Word, x)
        /\ Word' = Canon!FoldAt(merges, Word, x)
    BY <2>1, <2>3, SameOperators
  <2>5. Canon!MergeLowest
    BY <2>2, <2>4 DEF Canon!MergeLowest, Word
  <2> QED BY <2>5 DEF Canon!Next
<1>4. CASE Gather
  <2>1. /\ engine = "heap" /\ engine' = "idle" /\ merges' = merges /\ tokens' = Survivors
    BY <1>4 DEF Gather
  <2> QED BY <2>1 DEF Canon!vars
<1>5. CASE UNCHANGED vars
  BY <1>5 DEF vars, scratch, Canon!vars, Survivors, None
<1> QED BY <1>1, <1>2, <1>3, <1>4, <1>5 DEF Next, Step, Canon!Next

(***************************************************************************)
(* The long path implements canonical BPE: through the list, every fold is  *)
(* the single merge canonical BPE makes next, and a chunk is given up only  *)
(* when it is canonical.                                                   *)
(***************************************************************************)
THEOREM Refinement == ASSUME Loadable PROVE Spec => ImplementsCanonical
<1>1. Init => Canon!Init
  BY InitRefines
<1>2. IInvWhole /\ [Next]_vars => [Canon!Next]_(Canon!vars)
  BY StepRefines
<1>3. Spec => [][Canon!Next]_(Canon!vars)
  BY <1>2, InvarianceWhole, PTL DEF Spec
<1>4. Spec => Canon!Init
  BY <1>1, PTL DEF Spec
<1> QED BY <1>3, <1>4, PTL DEF ImplementsCanonical, Canon!Spec
=============================================================================
