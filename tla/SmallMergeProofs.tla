-------------------------- MODULE SmallMergeProofs --------------------------
(***************************************************************************)
(* The short canonical path, for every table, every set of chunks and every *)
(* threshold: the rank cache is fresh, a returned word is fully merged, and *)
(* the path implements canonical BPE.                                       *)
(*                                                                         *)
(* None of the three is inductive alone: that the word is fully merged when *)
(* the loop ends follows from the cached ranks being those of the word, and *)
(* that a refresh leaves them so needs the two buffers to have the lengths  *)
(* that TypeOK states.                                                      *)
(***************************************************************************)
EXTENDS MCCanonicalMerge, MergeTableProofs

IInv == TypeOK /\ CacheFresh /\ FullyMerged

-----------------------------------------------------------------------------
(* The ranks looked up for a word: one per adjacent pair.                  *)
LEMMA RanksOfWord ==
  ASSUME NEW w \in Seq(Token), merges \in Tables
  PROVE  /\ PairRanks(w) \in Seq(1 .. NoRank)
         /\ Len(w) > 0 => Len(PairRanks(w)) + 1 = Len(w)
         /\ DOMAIN PairRanks(w) = 1 .. Len(w) - 1
         /\ \A i \in 1 .. Len(w) - 1 : PairRanks(w)[i] = RankAt(merges, w, i)
<1>1. IsTable(merges) /\ Len(w) \in Nat
  BY TablesAssumption, LenProperties
<1>2. \A i \in 1 .. Len(w) - 1 : RankAt(merges, w, i) \in 1 .. NoRank
  BY <1>1, RankOfPair DEF RankAt
<1>3. CASE Len(w) = 0
  <2>1. PairRanks(w) = << >>
    BY <1>3 DEF PairRanks
  <2> QED BY <1>3, <2>1
<1>4. CASE Len(w) > 0
  <2> DEFINE n == Len(w) - 1
             r == PairRanks(w)
  <2>1. n \in Nat /\ n + 1 = Len(w)
    BY <1>1, <1>4
  <2>2. r \in [1 .. n -> 1 .. NoRank] /\ \A i \in 1 .. n : r[i] = RankAt(merges, w, i)
    BY <1>2 DEF PairRanks
  <2> HIDE DEF n, r
  <2>3. r \in Seq(1 .. NoRank)
    <3>1. r \in UNION {[1 .. k -> 1 .. NoRank] : k \in Nat}
      BY <2>1, <2>2
    <3> QED BY <3>1, SeqDef
  <2>4. DOMAIN r = 1 .. n /\ Len(r) = n
    BY <2>1, <2>2, <2>3, LenProperties
  <2> QED BY <2>1, <2>2, <2>3, <2>4 DEF n, r
<1> QED BY <1>1, <1>3, <1>4

(* The heart of the path: after the fold at bi, refreshing the two ranks    *)
(* around it makes the cache that of the shorter word.                      *)
LEMMA RefreshedRanks ==
  ASSUME TypeOK, ranks = PairRanks(tokens), NEW bi \in DOMAIN ranks,
         ranks[bi] # NoRank, tokens' = FoldAt(merges, tokens, bi)
  PROVE  Refresh(bi) = PairRanks(tokens')
<1> DEFINE n == Len(tokens) - 1
<1>1. /\ IsTable(merges) /\ tokens \in Seq(Token) /\ Len(tokens) \in Nat
      /\ merges \in Tables
  BY TablesAssumption, LenProperties DEF TypeOK
<1>2. /\ DOMAIN ranks = 1 .. n /\ ranks \in Seq(1 .. NoRank)
      /\ \A i \in 1 .. n : ranks[i] = RankAt(merges, tokens, i)
  BY <1>1, RanksOfWord
<1>3. bi \in 1 .. n /\ n \in Nat /\ Len(ranks) = n
  BY <1>1, <1>2, LenProperties
<1>4. /\ tokens' \in Seq(Token) /\ Len(tokens') = n
      /\ \A k \in 1 .. n : tokens'[k] =
            IF k < bi THEN tokens[k]
            ELSE IF k = bi THEN Target(merges, tokens[bi], tokens[bi + 1])
            ELSE tokens[k + 1]
  <2>1. RankAt(merges, tokens, bi) # NoRank
    BY <1>2, <1>3
  <2>2. bi \in 1 .. Len(tokens) - 1 /\ n = Len(tokens) - 1
    BY <1>3
  <2> DEFINE word == FoldAt(merges, tokens, bi)
  <2>3. /\ word \in Seq(Token) /\ Len(word) = Len(tokens) - 1
        /\ \A k \in 1 .. Len(tokens) - 1 : word[k] =
              IF k < bi THEN tokens[k]
              ELSE IF k = bi THEN Target(merges, tokens[bi], tokens[bi + 1])
              ELSE tokens[k + 1]
    BY <1>1, <2>1, <2>2, FoldedWord
  <2>4. tokens' = word
    OBVIOUS
  <2> HIDE DEF word, n
  <2> QED BY <2>2, <2>3, <2>4
<1> HIDE DEF n
<1>5. ASSUME NEW k \in 1 .. n - 1
      PROVE  RankAt(merges, tokens', k) =
               CASE k \in {bi - 1, bi} -> RankAt(merges, tokens', k)
                 [] k < bi - 1         -> ranks[k]
                 [] k > bi             -> ranks[k + 1]
  <2>1. CASE k \in {bi - 1, bi}
    BY <1>3, <2>1
  <2>2. CASE k < bi - 1
    <3>1. tokens'[k] = tokens[k] /\ tokens'[k + 1] = tokens[k + 1]
      BY <1>3, <1>4, <2>2
    <3>2. RankAt(merges, tokens', k) = ranks[k]
      BY <1>2, <1>3, <3>1 DEF RankAt
    <3> QED BY <1>3, <2>2, <3>2
  <2>3. CASE k > bi
    <3>1. tokens'[k] = tokens[k + 1] /\ tokens'[k + 1] = tokens[(k + 1) + 1]
      <4>1. k \in 1 .. n /\ k + 1 \in 1 .. n /\ ~(k < bi) /\ k # bi
            /\ ~(k + 1 < bi) /\ k + 1 # bi
        BY <1>3, <2>3
      <4> QED BY <1>4, <4>1
    <3>2. RankAt(merges, tokens', k) = ranks[k + 1]
      BY <1>2, <1>3, <3>1 DEF RankAt
    <3> QED BY <1>3, <2>3, <3>2
  <2> QED BY <1>3, <2>1, <2>2, <2>3
<1>6. Len(ranks) - 1 = n - 1 /\ Len(tokens') - 1 = n - 1
  BY <1>3, <1>4
<1> QED BY <1>5, <1>6 DEF Refresh, PairRanks

-----------------------------------------------------------------------------
LEMMA InitIInv == Init => IInv
<1> SUFFICES ASSUME Init PROVE IInv
  OBVIOUS
<1>1. tokens = <<>> /\ ranks = <<>> /\ engine = "idle" /\ merges \in Tables
  BY DEF Init
<1>2. TypeOK
  BY <1>1 DEF TypeOK
<1>3. CacheFresh
  BY <1>1 DEF CacheFresh
<1>4. FullyMerged
  BY <1>1 DEF FullyMerged, NormalForm
<1> QED BY <1>2, <1>3, <1>4 DEF IInv

(* Starting on a chunk, whatever the buffers hold.                         *)
LEMMA Begun ==
  ASSUME merges \in Tables, NEW c \in Seq(Token), Begin(c)
  PROVE  IInv'
<1>1. Len(c) \in Nat /\ Len(c) > 0
  BY LenProperties DEF Begin
<1>2. /\ tokens' = c /\ engine' = "small" /\ ranks' = PairRanks(c)
      /\ merges' = merges
  BY DEF Begin
<1>3. TypeOK'
  BY <1>1, <1>2, RanksOfWord DEF TypeOK
<1>4. CacheFresh'
  BY <1>2 DEF CacheFresh, PairRanks
<1>5. FullyMerged'
  BY <1>2 DEF FullyMerged
<1> QED BY <1>3, <1>4, <1>5 DEF IInv

LEMMA NextIInv == IInv /\ [Next]_vars => IInv'
<1> SUFFICES ASSUME IInv, [Next]_vars PROVE IInv'
  OBVIOUS
<1> USE DEF IInv
<1>1. ASSUME NEW c \in Chunks, Trivial(c) PROVE IInv'
  <2>1. c \in Seq(Token) /\ Len(c) \in Nat /\ Len(c) <= 1
    BY <1>1, ChunksAssumption, LenProperties DEF Trivial
  <2>2. /\ tokens' = c /\ engine' = "idle" /\ ranks' = ranks /\ merges' = merges
    BY <1>1 DEF Trivial
  <2>3. TypeOK'
    BY <2>1, <2>2 DEF TypeOK
  <2>4. CacheFresh'
    BY <2>2 DEF CacheFresh
  <2>5. FullyMerged'
    BY <2>1, <2>2 DEF FullyMerged, NormalForm
  <2> QED BY <2>3, <2>4, <2>5
<1>2. ASSUME NEW c \in Chunks, Begin(c) PROVE IInv'
  <2>1. c \in Seq(Token) /\ merges \in Tables
    BY ChunksAssumption DEF TypeOK
  <2> QED BY <1>2, <2>1, Begun
<1>3. ASSUME MergeBest PROVE IInv'
  <2>1. PICK bi \in DOMAIN ranks : /\ IsBest(bi)
                                   /\ tokens' = FoldAt(merges, tokens, bi)
                                   /\ ranks' = Refresh(bi)
    BY <1>3 DEF MergeBest
  <2>2. /\ engine = "small" /\ engine' = "small" /\ merges' = merges
        /\ merges \in Tables /\ IsTable(merges)
        /\ tokens \in Seq(Token) /\ Len(tokens) \in Nat
        /\ ranks = PairRanks(tokens)
    BY <1>3, TablesAssumption, LenProperties DEF MergeBest, TypeOK, CacheFresh
  <2>3. ranks' = PairRanks(tokens')
    BY <2>1, <2>2, RefreshedRanks DEF IsBest
  <2>4. /\ bi \in 1 .. Len(tokens) - 1
        /\ RankAt(merges, tokens, bi) # NoRank
    BY <2>1, <2>2, RanksOfWord DEF IsBest
  <2>5. tokens' \in Seq(Token) /\ Len(tokens') = Len(tokens) - 1
    BY <2>1, <2>2, <2>4, FoldedWord
  <2>6. TypeOK'
    <3>1. Len(tokens') > 0 /\ Len(tokens') \in Nat
      BY <2>2, <2>4, <2>5
    <3>2. ranks' \in Seq(1 .. NoRank) /\ Len(ranks') + 1 = Len(tokens')
      BY <2>2, <2>3, <2>5, <3>1, RanksOfWord
    <3> QED BY <2>2, <2>5, <3>2 DEF TypeOK
  <2>7. CacheFresh'
    BY <2>2, <2>3 DEF CacheFresh, PairRanks
  <2>8. FullyMerged'
    BY <2>2 DEF FullyMerged
  <2> QED BY <2>6, <2>7, <2>8
<1>4. ASSUME Return PROVE IInv'
  <2>1. /\ engine = "small" /\ engine' = "idle"
        /\ UNCHANGED <<merges, tokens, ranks>>
        /\ \A i \in DOMAIN ranks : ranks[i] = NoRank
    BY <1>4 DEF Return
  <2>2. TypeOK'
    BY <2>1 DEF TypeOK
  <2>3. CacheFresh'
    BY <2>1 DEF CacheFresh
  <2>4. \A i \in 1 .. Len(tokens) - 1 : RankAt(merges, tokens, i) = NoRank
    BY <2>1, RanksOfWord DEF CacheFresh, TypeOK
  <2>5. FullyMerged'
    BY <2>1, <2>4 DEF FullyMerged, NormalForm, RankAt
  <2> QED BY <2>2, <2>3, <2>5
<1>5. CASE UNCHANGED vars
  BY <1>5 DEF vars, TypeOK, CacheFresh, FullyMerged, PairRanks, RankAt, NormalForm
<1> QED BY <1>1, <1>2, <1>3, <1>4, <1>5 DEF Next, Step

THEOREM Invariance == Spec => []IInv
  BY InitIInv, NextIInv, PTL DEF Spec

(***************************************************************************)
(* The buffers are a word of tokens and, while the loop runs, one rank per  *)
(* adjacent pair: `tokens.remove` and `ranks.remove` stay in step.          *)
(***************************************************************************)
THEOREM TypeCorrect == Spec => []TypeOK
  BY Invariance, PTL DEF IInv

(***************************************************************************)
(* The cached rank of a pair is the rank lookup would return now.           *)
(***************************************************************************)
THEOREM CacheStaysFresh == Spec => []CacheFresh
  BY Invariance, PTL DEF IInv

(***************************************************************************)
(* merge_canonical never returns a word in which a pair could be merged.    *)
(***************************************************************************)
THEOREM ReturnsFullyMerged == Spec => []FullyMerged
  BY Invariance, PTL DEF IInv

-----------------------------------------------------------------------------
(* The abstract specification instantiates MergeTable a second time: its    *)
(* operators are the same functions.                                       *)
LEMMA SameOperators ==
  /\ \A m, a, b : Canon!Rank(m, a, b) = Rank(m, a, b)
  /\ \A m, w, i : Canon!RankAt(m, w, i) = RankAt(m, w, i)
  /\ \A m, w, i : Canon!FoldAt(m, w, i) = FoldAt(m, w, i)
<1>1. \A m, a, b : Canon!Rank(m, a, b) = Rank(m, a, b)
  BY DEF Canon!Rank, Rank, Canon!MergesOf, MergesOf, Canon!IsFirst, IsFirst
<1>2. \A m, w, i : Canon!RankAt(m, w, i) = RankAt(m, w, i)
  BY <1>1 DEF Canon!RankAt, RankAt
<1>3. \A m, w, i : Canon!FoldAt(m, w, i) = FoldAt(m, w, i)
  BY <1>1 DEF Canon!FoldAt, FoldAt, Canon!Target, Target
<1> QED BY <1>1, <1>2, <1>3

(* The pair the scan of s.ranks finds is the one canonical BPE merges.      *)
LEMMA BestIsLowest ==
  ASSUME TypeOK, ranks = PairRanks(tokens), NEW bi \in DOMAIN ranks, IsBest(bi)
  PROVE  Canon!IsLowest(merges, tokens, bi) /\ bi \in 1 .. Len(tokens) - 1
<1>1. /\ DOMAIN ranks = 1 .. Len(tokens) - 1
      /\ \A i \in 1 .. Len(tokens) - 1 :
            ranks[i] = RankAt(merges, tokens, i) /\ ranks[i] \in Nat
  <2>1. /\ tokens \in Seq(Token) /\ merges \in Tables /\ IsTable(merges)
        /\ NoRank \in Nat
    BY TablesAssumption DEF TypeOK, IsTable
  <2>2. \A i \in 1 .. Len(tokens) - 1 : RankAt(merges, tokens, i) \in 1 .. NoRank
    BY <2>1, RankOfPair DEF RankAt
  <2> QED BY <2>1, <2>2, RanksOfWord
<1>2. Canon!Mergeable(merges, tokens, bi)
  BY <1>1, SameOperators DEF Canon!Mergeable, IsBest
<1>3. ASSUME NEW p \in Canon!Candidates(merges, tokens)
      PROVE  Canon!Precedes(<<Canon!RankAt(merges, tokens, bi), bi>>, p)
  <2>1. PICK j \in 1 .. Len(tokens) - 1 : p = <<RankAt(merges, tokens, j), j>>
    BY <1>3, SameOperators DEF Canon!Candidates
  <2>2. ranks[bi] <= ranks[j] /\ (j < bi => ranks[bi] < ranks[j])
    BY <1>1, <2>1 DEF IsBest
  <2>3. Len(tokens) \in Nat
    BY LenProperties DEF TypeOK
  <2>4. ranks[bi] < ranks[j] \/ (ranks[bi] = ranks[j] /\ bi <= j)
    BY <1>1, <2>2, <2>3
  <2> QED BY <1>1, <2>1, <2>4, SameOperators DEF Canon!Precedes
<1> QED BY <1>1, <1>2, <1>3 DEF Canon!IsLowest

LEMMA InitRefines == Init => Canon!Init
  BY DEF Init, Canon!Init

LEMMA StepRefines == IInv /\ [Next]_vars => [Canon!Next]_(Canon!vars)
<1> SUFFICES ASSUME IInv, [Next]_vars PROVE [Canon!Next]_(Canon!vars)
  OBVIOUS
<1> USE DEF IInv
<1>1. ASSUME NEW c \in Chunks, Trivial(c) \/ Begin(c) PROVE Canon!NextChunk
  <2>1. engine = "idle" /\ tokens' = c /\ merges' = merges
    BY <1>1 DEF Trivial, Begin
  <2>2. Canon!NormalForm(merges, tokens)
    BY <2>1, SameOperators DEF FullyMerged, NormalForm, Canon!NormalForm
  <2> QED BY <2>1, <2>2 DEF Canon!NextChunk
<1>2. ASSUME MergeBest PROVE Canon!MergeLowest
  <2>1. PICK bi \in DOMAIN ranks : /\ IsBest(bi)
                                   /\ tokens' = FoldAt(merges, tokens, bi)
    BY <1>2 DEF MergeBest
  <2>2. merges' = merges /\ ranks = PairRanks(tokens)
    BY <1>2 DEF MergeBest, CacheFresh
  <2>3. Canon!IsLowest(merges, tokens, bi) /\ bi \in 1 .. Len(tokens) - 1
    BY <2>1, <2>2, BestIsLowest
  <2> QED BY <2>1, <2>2, <2>3, SameOperators DEF Canon!MergeLowest
<1>3. ASSUME Return \/ UNCHANGED vars PROVE UNCHANGED Canon!vars
  BY <1>3 DEF Return, vars, Canon!vars
<1> QED BY <1>1, <1>2, <1>3 DEF Next, Step, Canon!Next

(***************************************************************************)
(* "Exact HF/tiktoken semantics", of any merge table: every step of the     *)
(* short path is the merge canonical BPE makes next, or changes nothing of  *)
(* the word, and a chunk is given up only when it is canonical.             *)
(***************************************************************************)
THEOREM Implements == Spec => ImplementsCanonical
<1>1. Spec => Canon!Init
  BY InitRefines, PTL DEF Spec
<1>2. Spec => [][Canon!Next]_(Canon!vars)
  BY Invariance, StepRefines, PTL DEF Spec
<1> QED BY <1>1, <1>2 DEF ImplementsCanonical, Canon!Spec

-----------------------------------------------------------------------------
(* What a caller relies on: the word stays one that canonical BPE makes of  *)
(* the chunk, and what is returned is the end of its way.                   *)
LEMMA Stepping ==
  ASSUME IInv, Step
  PROVE  /\ IInv' /\ merges' = merges /\ engine' \in {"small", "idle"}
         /\ Canonical(merges, tokens') = Canonical(merges, tokens)
         /\ engine' = "idle" => tokens' = Canonical(merges, tokens)
<1>1. IInv'
  BY NextIInv DEF Next
<1>2. /\ engine = "small" /\ merges' = merges /\ merges \in Tables /\ IsTable(merges)
      /\ tokens \in Seq(Token) /\ ranks = PairRanks(tokens)
  BY TablesAssumption DEF IInv, TypeOK, CacheFresh, Step, MergeBest, Return
<1>3. CASE MergeBest
  <2>1. PICK bi \in DOMAIN ranks : IsBest(bi) /\ tokens' = FoldAt(merges, tokens, bi)
    BY <1>3 DEF MergeBest
  <2>2. Canon!IsLowest(merges, tokens, bi)
    BY <1>2, <2>1, BestIsLowest DEF IInv
  <2>3. IsLowest(merges, tokens, bi)
    BY <2>2, SameOperators DEF IsLowest, Canon!IsLowest, Mergeable, Canon!Mergeable,
                               Candidates, Canon!Candidates, Precedes, Canon!Precedes
  <2>4. Canonical(merges, tokens) = Canonical(merges, FoldAt(merges, tokens, bi))
    BY <1>2, <2>3, CanonicalUnfolds
  <2> QED BY <1>1, <1>2, <1>3, <2>1, <2>4 DEF MergeBest
<1>4. CASE Return
  <2>1. engine' = "idle" /\ tokens' = tokens
    BY <1>4 DEF Return
  <2>2. NormalForm(merges, tokens)
    BY <1>1, <1>2, <2>1 DEF IInv, FullyMerged, NormalForm, RankAt
  <2>3. Canonical(merges, tokens) = tokens
    BY <1>2, <2>2, CanonicalUnfolds
  <2> QED BY <1>1, <1>2, <2>1, <2>3
<1> QED BY <1>3, <1>4 DEF Step

-----------------------------------------------------------------------------
(* The two paths together, as they are checked: either takes its own steps, *)
(* and the table is the only thing they share.                             *)
HP == INSTANCE HeapMergeProofs WITH
          SmallCanon <- AnyLength, engine <- heapEngine, tokens <- heapTokens

MCIInv == IInv /\ HP!IInvWhole

(* Module HeapMerge is instantiated twice; its operators are the same.      *)
LEMMA SameTables ==
  /\ \A m : HP!IsTable(m) <=> IsTable(m)
  /\ \A m, a, b : HP!Rank(m, a, b) = Heap!Rank(m, a, b)
  /\ \A m, a, b : HP!Target(m, a, b) = Heap!Target(m, a, b)
  /\ \A p, q : HP!Precedes(p, q) <=> Heap!Precedes(p, q)
<1>1. \A m : HP!IsTable(m) <=> IsTable(m)
  BY DEF HP!IsTable, IsTable, HP!Merge, Merge
<1>2. \A m, a, b : HP!Rank(m, a, b) = Heap!Rank(m, a, b)
  BY DEF HP!Rank, Heap!Rank, HP!MergesOf, Heap!MergesOf, HP!IsFirst, Heap!IsFirst
<1>3. \A m, a, b : HP!Target(m, a, b) = Heap!Target(m, a, b)
  BY <1>2 DEF HP!Target, Heap!Target
<1>4. \A p, q : HP!Precedes(p, q) <=> Heap!Precedes(p, q)
  BY DEF HP!Precedes, Heap!Precedes
<1> QED BY <1>1, <1>2, <1>3, <1>4

LEMMA SameHeaps ==
  /\ \A a, b, i : HP!Candidate(a, b, i) = Heap!Candidate(a, b, i)
  /\ \A e : HP!IsTop(e) <=> Heap!IsTop(e)
  /\ \A e : HP!Current(e) <=> Heap!Current(e)
  /\ \A e : HP!Popped(e) = Heap!Popped(e)
  /\ \A e : HP!Fold(e) <=> Heap!Fold(e)
  /\ HP!Survivors = Heap!Survivors
  /\ HP!None = Heap!None
<1>1. \A a, b, i : HP!Candidate(a, b, i) = Heap!Candidate(a, b, i)
  BY SameTables DEF HP!Candidate, Heap!Candidate
<1>2. \A e : HP!IsTop(e) <=> Heap!IsTop(e)
  BY SameTables DEF HP!IsTop, Heap!IsTop
<1>3. HP!None = Heap!None
  BY DEF HP!None, Heap!None
<1>4. \A e : HP!Current(e) <=> Heap!Current(e)
  BY <1>3, SameTables DEF HP!Current, Heap!Current
<1>5. \A e : HP!Popped(e) = Heap!Popped(e)
  BY DEF HP!Popped, Heap!Popped, HP!BagRemove, Heap!BagRemove
<1>6. \A i, k, t : /\ HP!LeftPair(i, t) = Heap!LeftPair(i, t)
                   /\ HP!RightPair(i, k, t) = Heap!RightPair(i, k, t)
                   /\ HP!BackLink(i, k) = Heap!BackLink(i, k)
  BY <1>1, <1>3 DEF HP!LeftPair, Heap!LeftPair, HP!RightPair, Heap!RightPair,
                    HP!BackLink, Heap!BackLink
<1>7. \A e : HP!Fold(e) <=> Heap!Fold(e)
  BY <1>5, <1>6, SameTables DEF HP!Fold, Heap!Fold, HP!(+), Heap!(+),
                                HP!SetToBag, Heap!SetToBag
<1>8. HP!Survivors = Heap!Survivors
  BY DEF HP!Survivors, Heap!Survivors, HP!None, Heap!None
<1> QED BY <1>1, <1>2, <1>3, <1>4, <1>5, <1>7, <1>8

LEMMA HeapLoadable == HP!Loadable
  BY TablesAssumption, ChunksAssumption, SameTables DEF HP!Loadable

LEMMA HeapInit == Heap!Init => HP!Init
  BY DEF Heap!Init, HP!Init, Heap!EmptyBag, HP!EmptyBag, Heap!SetToBag, HP!SetToBag

LEMMA HeapNext == Heap!Next => HP!Next
<1>1. Heap!PopStale => HP!PopStale
  BY SameHeaps DEF Heap!PopStale, HP!PopStale
<1>2. Heap!PopFold => HP!PopFold
  BY SameHeaps DEF Heap!PopFold, HP!PopFold
<1>3. Heap!Gather => HP!Gather
  BY SameHeaps DEF Heap!Gather, HP!Gather, Heap!EmptyBag, HP!EmptyBag,
                   Heap!SetToBag, HP!SetToBag
<1>4. \A c : Heap!Begin(c) => HP!Begin(c)
  BY SameHeaps DEF Heap!Begin, HP!Begin, Heap!SetToBag, HP!SetToBag
<1> QED BY <1>1, <1>2, <1>3, <1>4 DEF Heap!Next, HP!Next, Heap!Step, HP!Step

(* No step of either path changes the table.                               *)
LEMMA TableKept ==
  /\ Next => merges' = merges
  /\ Heap!Next => merges' = merges
<1>1. Next => merges' = merges
  BY DEF Next, Step, Trivial, Begin, MergeBest, Return
<1>2. Heap!Next => merges' = merges
  BY DEF Heap!Next, Heap!Step, Heap!Begin, Heap!PopStale, Heap!PopFold, Heap!Gather
<1> QED BY <1>1, <1>2

LEMMA MCSteps ==
  [MCNext]_<<vars, path, heapVars>> => [Next]_vars /\ [HP!Next]_(HP!vars)
<1> SUFFICES ASSUME [MCNext]_<<vars, path, heapVars>> PROVE [Next]_vars /\ [HP!Next]_(HP!vars)
  OBVIOUS
<1>1. [Next]_vars
  BY TableKept DEF MCNext, heapVars, smallVars, vars
<1>2. [HP!Next]_(HP!vars)
  BY HeapNext, TableKept DEF MCNext, heapVars, HP!vars, HP!scratch, vars
<1> QED BY <1>1, <1>2

LEMMA MCInitIInv == MCInit => MCIInv
<1> SUFFICES ASSUME MCInit PROVE MCIInv
  OBVIOUS
<1>1. IInv
  BY InitIInv DEF MCInit
<1>2. HP!Init /\ HP!Loadable
  BY HeapInit, HeapLoadable DEF MCInit
<1>3. HP!IInvWhole
  BY <1>2, HP!InitIInv, HP!InitWhole DEF HP!IInvWhole
<1> QED BY <1>1, <1>3 DEF MCIInv

LEMMA MCNextIInv == MCIInv /\ [MCNext]_<<vars, path, heapVars>> => MCIInv'
<1> SUFFICES ASSUME MCIInv, [MCNext]_<<vars, path, heapVars>> PROVE MCIInv'
  OBVIOUS
<1>1. IInv'
  BY MCSteps, NextIInv DEF MCIInv
<1>2. HP!IInvWhole'
  BY MCSteps, HeapLoadable, HP!NextWhole DEF MCIInv
<1> QED BY <1>1, <1>2 DEF MCIInv

LEMMA MCInvariance == MCSpec => []MCIInv
  BY MCInitIInv, MCNextIInv, PTL DEF MCSpec

(***************************************************************************)
(* The buffers of the long path: while the loop runs, links and live marks  *)
(* of every position and entries for merges of the table; and what is       *)
(* handed back is a word of tokens.                                        *)
(***************************************************************************)
THEOREM HeapTyped == MCSpec => []HeapTypeOK
<1>1. HP!TypeOK => Heap!TypeOK
  BY SameHeaps DEF HP!TypeOK, Heap!TypeOK, HP!IsABag, Heap!IsABag
<1>2. MCIInv => HeapTypeOK
  BY <1>1, HP!WholeTyped DEF MCIInv, HeapTypeOK
<1> QED BY <1>2, MCInvariance, PTL

(***************************************************************************)
(* After any number of folds the links skip exactly the positions that were *)
(* folded away, agree in both directions, and the head is position 1.       *)
(***************************************************************************)
THEOREM HeapListStaysLinked == MCSpec => []ListLinked
<1>1. MCIInv => ListLinked
  BY SameHeaps DEF MCIInv, HP!IInvWhole, HP!IInv, HP!ListLinked, ListLinked, Heap!ListLinked
<1> QED BY <1>1, MCInvariance, PTL

(***************************************************************************)
(* However many stale entries the heap holds, every pair of the list that   *)
(* can be merged is in it with the rank the pair has now.                   *)
(***************************************************************************)
THEOREM HeapQueueStaysComplete == MCSpec => []QueueComplete
<1>1. MCIInv => QueueComplete
  BY SameHeaps DEF MCIInv, HP!IInvWhole, HP!IInv, HP!QueueComplete, QueueComplete,
                   Heap!QueueComplete
<1> QED BY <1>1, MCInvariance, PTL

(***************************************************************************)
(* The long path implements canonical BPE: through the list, every fold is  *)
(* the single merge canonical BPE makes next, and a chunk is given up only  *)
(* when it is canonical.                                                   *)
(***************************************************************************)
THEOREM HeapRefinement == MCSpec => HeapImplementsCanonical
<1>1. /\ \A m, a, b : HP!Canon!Rank(m, a, b) = Heap!Canon!Rank(m, a, b)
      /\ \A m, w, i : HP!Canon!FoldAt(m, w, i) = Heap!Canon!FoldAt(m, w, i)
      /\ \A m, w, i : HP!Canon!RankAt(m, w, i) = Heap!Canon!RankAt(m, w, i)
  BY DEF HP!Canon!Rank, Heap!Canon!Rank, HP!Canon!MergesOf, Heap!Canon!MergesOf,
         HP!Canon!IsFirst, Heap!Canon!IsFirst, HP!Canon!FoldAt, Heap!Canon!FoldAt,
         HP!Canon!Target, Heap!Canon!Target, HP!Canon!RankAt, Heap!Canon!RankAt
<1>2. \A m, w, i : HP!Canon!IsLowest(m, w, i) <=> Heap!Canon!IsLowest(m, w, i)
  BY <1>1 DEF HP!Canon!IsLowest, Heap!Canon!IsLowest, HP!Canon!Mergeable, Heap!Canon!Mergeable,
              HP!Canon!Candidates, Heap!Canon!Candidates, HP!Canon!Precedes, Heap!Canon!Precedes
<1>3. \A m, w : HP!Canon!NormalForm(m, w) <=> Heap!Canon!NormalForm(m, w)
  BY <1>1 DEF HP!Canon!NormalForm, Heap!Canon!NormalForm
<1>4. Heap!Init => Heap!Canon!Init
  BY DEF Heap!Init, Heap!Canon!Init
<1>5. [HP!Canon!Next]_(HP!Canon!vars) => [Heap!Canon!Next]_(Heap!Canon!vars)
  <2>1. HP!Survivors = Heap!Survivors /\ HP!Survivors' = Heap!Survivors'
    BY DEF HP!Survivors, Heap!Survivors, HP!None, Heap!None
  <2> QED BY <1>1, <1>2, <1>3, <2>1
       DEF HP!Canon!Next, Heap!Canon!Next, HP!Canon!NextChunk, Heap!Canon!NextChunk,
         HP!Canon!MergeLowest, Heap!Canon!MergeLowest, HP!Canon!vars, Heap!Canon!vars
<1>6. MCIInv /\ [MCNext]_<<vars, path, heapVars>> => [Heap!Canon!Next]_(Heap!Canon!vars)
  BY <1>5, MCSteps, HeapLoadable, HP!StepRefines DEF MCIInv
<1>7. MCSpec => [][Heap!Canon!Next]_(Heap!Canon!vars)
  BY <1>6, MCInvariance, PTL DEF MCSpec
<1>8. MCSpec => Heap!Canon!Init
  BY <1>4, PTL DEF MCSpec, MCInit
<1> QED BY <1>7, <1>8, PTL DEF HeapImplementsCanonical, Heap!ImplementsCanonical,
                              Heap!Canon!Spec
=============================================================================
