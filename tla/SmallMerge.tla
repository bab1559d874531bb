----------------------------- MODULE SmallMerge -----------------------------
(***************************************************************************)
(* merge_canonical on a chunk of at most SMALL_CANON tokens: the word with  *)
(* one cached rank per adjacent pair, of which each merge refreshes two.    *)
(* The rank buffer belongs to the scratch and keeps what the previous chunk *)
(* left in it.                                                              *)
(***************************************************************************)
EXTENDS MergeTable

CONSTANTS
    Tables,
    Chunks,
    SmallCanon  \* SMALL_CANON, 256 in the code

ASSUME TablesAssumption == \A m \in Tables : IsTable(m)
ASSUME ChunksAssumption == Chunks \subseteq Seq(Token)

VARIABLES
    merges,     \* the table of the loaded model
    engine,     \* "small" while merge_canonical runs this path, else "idle"
    tokens,     \* the chunk, merged in place
    ranks       \* s.ranks

vars == <<merges, engine, tokens, ranks>>

TypeOK ==
    /\ merges \in Tables
    /\ engine \in {"idle", "small"}
    /\ tokens \in Seq(Token)
    /\ ranks \in Seq(1 .. NoRank)
    /\ engine = "small" => Len(ranks) + 1 = Len(tokens)

Init ==
    /\ merges \in Tables
    /\ engine = "idle"
    /\ tokens = <<>>
    /\ ranks = <<>>

PairRanks(w) == [i \in 1 .. Len(w) - 1 |-> RankAt(merges, w, i)]

(* A chunk of one token, or none, is returned as it came.                  *)
Trivial(c) ==
    /\ engine = "idle"
    /\ Len(c) <= 1
    /\ tokens' = c
    /\ UNCHANGED <<merges, engine, ranks>>

Begin(c) ==
    /\ engine = "idle"
    /\ Len(c) \in 2 .. SmallCanon
    /\ engine' = "small"
    /\ tokens' = c
    /\ ranks' = PairRanks(c)
    /\ UNCHANGED merges

(* Mutant: `r <= best` keeps the last of the equal minima.                 *)
RightmostBest(i) ==
    /\ i \in DOMAIN ranks
    /\ ranks[i] # NoRank
    /\ \A j \in DOMAIN ranks : /\ ranks[i] <= ranks[j]
                               /\ j > i => ranks[i] < ranks[j]

(* The scan of s.ranks with a strict comparison: the leftmost minimum.     *)
IsBest(i) ==
    /\ i \in DOMAIN ranks
    /\ ranks[i] # NoRank
    /\ \A j \in DOMAIN ranks : /\ ranks[i] <= ranks[j]
                               /\ j < i => ranks[i] < ranks[j]

(* Mutants: ranks.remove(bi) forgotten; the left neighbour's rank not       *)
(* looked up again.                                                         *)
RefreshNoRemove(bi) ==
    [k \in 1 .. Len(ranks) |->
        IF k \in {bi - 1, bi} /\ k < Len(tokens') THEN RankAt(merges, tokens', k)
        ELSE ranks[k]]

RefreshRightOnly(bi) ==
    [k \in 1 .. Len(ranks) - 1 |->
        CASE k = bi -> RankAt(merges, tokens', k)
          [] k < bi -> ranks[k]
          [] k > bi -> ranks[k + 1]]

(* ranks.remove(bi), then the ranks of the two neighbours of the merged    *)
(* token are looked up again, where it has them.                           *)
Refresh(bi) ==
    [k \in 1 .. Len(ranks) - 1 |->
        CASE k \in {bi - 1, bi} -> RankAt(merges, tokens', k)
          [] k < bi - 1         -> ranks[k]
          [] k > bi             -> ranks[k + 1]]

MergeBest ==
    /\ engine = "small"
    /\ \E bi \in DOMAIN ranks :
          /\ IsBest(bi)
          /\ tokens' = FoldAt(merges, tokens, bi)
          /\ ranks' = Refresh(bi)
    /\ UNCHANGED <<merges, engine>>

(* Mutant: the scan ends one short of the last rank.                       *)
ReturnNotLast ==
    /\ engine = "small"
    /\ \A i \in 1 .. Len(ranks) - 1 : ranks[i] = NoRank
    /\ engine' = "idle"
    /\ UNCHANGED <<merges, tokens, ranks>>

Return ==
    /\ engine = "small"
    /\ \A i \in DOMAIN ranks : ranks[i] = NoRank
    /\ engine' = "idle"
    /\ UNCHANGED <<merges, tokens, ranks>>

Step == MergeBest \/ Return

Next == Step \/ \E c \in Chunks : Trivial(c) \/ Begin(c)

Spec == Init /\ [][Next]_vars /\ WF_vars(Step)

-----------------------------------------------------------------------------
(* While the loop runs, every cached rank is the rank the table gives the  *)
(* pair now: a merge that forgets a neighbour leaves a stale one behind.   *)
CacheFresh ==
    engine = "small" => ranks = PairRanks(tokens)

(* merge_canonical leaves no pair that the table could still merge.        *)
FullyMerged ==
    engine = "idle" => NormalForm(merges, tokens)

(* Every step is a canonical merge, and a chunk is given up only when it   *)
(* is canonical: "exact HF/tiktoken semantics".                            *)
Canon == INSTANCE CanonicalBpe WITH word <- tokens
ImplementsCanonical == Canon!Spec
=============================================================================
