----------------------------- MODULE BatchMerge -----------------------------
(***************************************************************************)
(* The batch engine `merge`: each pass applies every pair of the lowest     *)
(* rank at once, left to right and without overlap, then rebuilds the       *)
(* cached ranks, looking up only the pairs that touch a merged token.  It   *)
(* bails, returning false, when a pass leaves a rank below the one it       *)
(* applied.                                                                 *)
(*                                                                         *)
(* ntok and nrank are not state: each pass clears them before it writes     *)
(* them and swaps them with tokens and ranks at its end.                    *)
(***************************************************************************)
EXTENDS MergeTable, SequencesExt

CONSTANTS
    Tables,
    Chunks

VARIABLES
    merges,     \* the table of the loaded model
    engine,     \* "batch" while merge runs, else "idle"
    tokens,     \* the chunk, merged in place
    ranks,      \* cached rank of each adjacent pair
    min,        \* the lowest of them, NoRank when there is none
    ok,         \* the value merge returned last
    chunk       \* history: the chunk as it came

vars == <<merges, engine, tokens, ranks, min, ok, chunk>>

TypeOK ==
    /\ merges \in Tables
    /\ engine \in {"idle", "batch"}
    /\ tokens \in Seq(Token) /\ chunk \in Seq(Token)
    /\ ranks \in Seq(1 .. NoRank)
    /\ min \in 1 .. NoRank
    /\ ok \in BOOLEAN
    /\ engine = "batch" => Len(ranks) + 1 = Len(tokens)

Init ==
    /\ merges \in Tables
    /\ engine = "idle"
    /\ tokens = <<>> /\ chunk = <<>> /\ ranks = <<>>
    /\ min = NoRank
    /\ ok = TRUE

LowestOf(r) == Min({NoRank} \cup ToSet(r))

PairRanks(w) == [i \in 1 .. Len(w) - 1 |-> RankAt(merges, w, i)]

(* A chunk of one token, or none, is returned as it came.                  *)
Trivial(c) ==
    /\ engine = "idle"
    /\ Len(c) <= 1
    /\ tokens' = c /\ chunk' = c
    /\ ok' = TRUE
    /\ UNCHANGED <<merges, engine, ranks, min>>

Begin(c) ==
    /\ engine = "idle"
    /\ Len(c) > 1
    /\ engine' = "batch"
    /\ tokens' = c /\ chunk' = c
    /\ ranks' = PairRanks(c)
    /\ min' = LowestOf(PairRanks(c))
    /\ UNCHANGED <<merges, ok>>

(* The pairs of the lowest rank.                                           *)
Hit(i) == i \in DOMAIN ranks /\ ranks[i] = min

(* Mutant: a merge consumes its left token only.                           *)
StrideOne(i) == 1

Stride(i) == IF Hit(i) THEN 2 ELSE 1

(* A pass goes from left to right: Walk[k] is the token it looks at for the *)
(* k-th time, which makes the k-th token of the next word, alone or merged  *)
(* with the one behind it.                                                 *)
Walk[k \in 1 .. Len(tokens)] == IF k = 1 THEN 1 ELSE Walk[k - 1] + Stride(Walk[k - 1])

Starts == [k \in {j \in 1 .. Len(tokens) : Walk[j] <= Len(tokens)} |-> Walk[k]]

Applied(start) ==
    [k \in DOMAIN start |->
        LET i == start[k] IN
        IF Hit(i) THEN Target(merges, tokens[i], tokens[i + 1]) ELSE tokens[i]]

(* Mutant: only the left token is asked whether it was merged.             *)
LeftCopied(start, k) == ~Hit(start[k])

(* Two copied tokens were adjacent before, so their rank is still cached.   *)
(* `src` of the code is the start of a copied token and -1 for a merged one.*)
BothCopied(start, k) == ~Hit(start[k]) /\ ~Hit(start[k + 1])

(* Mutant: nrank.clear() forgotten.                                        *)
Accumulated(start) ==
    ranks \o [k \in 1 .. Len(start) - 1 |-> RankAt(merges, tokens', k)]

Rebuilt(start) ==
    [k \in 1 .. Len(start) - 1 |->
        IF BothCopied(start, k) THEN ranks[start[k]]
        ELSE RankAt(merges, tokens', k)]

Pass ==
    /\ engine = "batch"
    /\ min # NoRank
    /\ \E start \in {Starts} :
          /\ tokens' = Applied(start)
          /\ ranks' = Rebuilt(start)
    /\ min' = LowestOf(ranks')
    /\ IF min' < min
       THEN engine' = "idle" /\ ok' = FALSE
       ELSE UNCHANGED <<engine, ok>>
    /\ UNCHANGED <<merges, chunk>>

Return ==
    /\ engine = "batch"
    /\ min = NoRank
    /\ engine' = "idle"
    /\ ok' = TRUE
    /\ UNCHANGED <<merges, tokens, ranks, min, chunk>>

Step == Pass \/ Return

Next == Step \/ \E c \in Chunks : Trivial(c) \/ Begin(c)

Spec == Init /\ [][Next]_vars /\ WF_vars(Step)

-----------------------------------------------------------------------------
(* Between passes every cached rank is the rank the table gives the pair    *)
(* now, although most of them were never looked up again, and min is the    *)
(* lowest of them.                                                          *)
CacheFresh ==
    engine = "batch" =>
        /\ ranks = PairRanks(tokens)
        /\ min = LowestOf(ranks)

(* "On monotonic vocabularies this never fires": the debug assertion of     *)
(* finish_chunk, which drops the returned flag in a release build.          *)
MonotonicNeverBails == Monotonic(merges) => ok

(* On monotonic tables the batch result is canonical BPE, although a pass   *)
(* merges pairs canonical BPE would merge one by one.                       *)
MonotonicIsCanonical ==
    engine = "idle" /\ Monotonic(merges) => tokens = Canonical(merges, chunk)
=============================================================================
