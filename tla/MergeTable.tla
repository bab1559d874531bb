----------------------------- MODULE MergeTable -----------------------------
(***************************************************************************)
(* The merge table of a BPE model and the words it rewrites (src/bpe.rs).   *)
(*                                                                         *)
(* A table is the model's list of merges <<t1, t2, target>>; the position   *)
(* of a merge is its rank, the smaller the more urgent (the code counts     *)
(* ranks from 0, this model from 1).  Tokens are opaque here: the encoders  *)
(* only ever compare them and look pairs up.                               *)
(***************************************************************************)
EXTENDS Naturals, Sequences

CONSTANTS
    Token,      \* the token ids of the vocabulary
    NoRank      \* u32::MAX, the rank of a pair that no merge names

Merge == Token \X Token \X Token

(* What every table the loader builds satisfies: it is shorter than the    *)
(* "no rank" sentinel, so `i as u32` never aliases it.                     *)
IsTable(m) == m \in Seq(Merge) /\ NoRank \in Nat /\ Len(m) < NoRank

(***************************************************************************)
(* MergeMap::lookup.  When a pair is listed twice the first merge inserted  *)
(* sits earlier on the probe chain and is the one found; module MergeMap    *)
(* shows that the hash map keeps this promise.                              *)
(***************************************************************************)
MergesOf(m, a, b) == {i \in DOMAIN m : m[i][1] = a /\ m[i][2] = b}

IsFirst(i, S) == i \in S /\ \A j \in S : i <= j

Rank(m, a, b) ==
    LET listed == MergesOf(m, a, b) IN
    IF listed = {} THEN NoRank ELSE CHOOSE i \in listed : IsFirst(i, listed)

Target(m, a, b) == m[Rank(m, a, b)][3]

(***************************************************************************)
(* Words: the sequence of tokens a chunk has been merged into so far.       *)
(***************************************************************************)
RankAt(m, w, i) == Rank(m, w[i], w[i + 1])

Mergeable(m, w, i) == i \in 1 .. Len(w) - 1 /\ RankAt(m, w, i) # NoRank

NormalForm(m, w) == \A i \in 1 .. Len(w) - 1 : RankAt(m, w, i) = NoRank

(* Candidate pairs <<rank, position>>, by rank and then from the left.      *)
Candidates(m, w) ==
    {<<RankAt(m, w, i), i>> : i \in {j \in 1 .. Len(w) - 1 : RankAt(m, w, j) # NoRank}}

Precedes(p, q) == p[1] < q[1] \/ (p[1] = q[1] /\ p[2] <= q[2])

(* The pair canonical BPE merges next: lowest rank, leftmost on ties.      *)
IsLowest(m, w, i) ==
    /\ Mergeable(m, w, i)
    /\ \A p \in Candidates(m, w) : Precedes(<<RankAt(m, w, i), i>>, p)

(* Token i + 1 is folded into token i.                                     *)
FoldAt(m, w, i) ==
    SubSeq(w, 1, i - 1) \o <<Target(m, w[i], w[i + 1])>> \o SubSeq(w, i + 2, Len(w))

(* The word canonical BPE reaches; every fold makes it shorter by one.     *)
Canonical(m, w) ==
    LET merged[v \in Seq(Token)] ==
            LET pairs == Candidates(m, v)
                lowest == CHOOSE p \in pairs : \A q \in pairs : Precedes(p, q)
            IN  IF pairs = {} THEN v ELSE merged[FoldAt(m, v, lowest[2])]
    IN  merged[w]

(* Mutant: only the left operand of a merge counts as consumed.            *)
MonotonicOnLeft(m) == \A i, j \in DOMAIN m : m[i][3] = m[j][1] => i < j

(***************************************************************************)
(* The loader's `monotonic` flag: every merge that produces a token comes   *)
(* before every merge that consumes it (produce_max < consume_min).  The    *)
(* loader derives the vocabulary from the ids in use, so its bound checks   *)
(* on ids never fail.                                                       *)
(***************************************************************************)
Monotonic(m) ==
    \A i, j \in DOMAIN m : m[i][3] \in {m[j][1], m[j][2]} => i < j
=============================================================================
