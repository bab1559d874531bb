----------------------------- MODULE SmallTables ----------------------------
(***************************************************************************)
(* Small merge tables for TLC.  A token is the string it stands for, as the *)
(* loader builds it (the target of a merge is the concatenation of its      *)
(* operands), and every operand is a base token or the target of some       *)
(* merge, before or after it: both trained and rank-inverted vocabularies.  *)
(*                                                                         *)
(* Two families: runs of one letter, where every pair competes with its own *)
(* copies (the whitespace runs of gemma are of this kind), and words over   *)
(* two letters, where pairs overlap and destroy each other.                 *)
(***************************************************************************)
EXTENDS Naturals, Sequences

CONSTANTS
    MaxRun,         \* longest token of a table of runs
    RunMerges,      \* longest table of runs
    MaxRunChunk,    \* longest chunk of one letter
    MaxWord,        \* longest token of a table of words
    WordMerges,     \* longest table of words
    MaxWordChunk    \* longest chunk of both letters

SeqsUpTo(S, n) == UNION {[1 .. k -> S] : k \in 0 .. n}

Strings(letters, n) == SeqsUpTo(letters, n) \ {<<>>}

Splits(letters, n) ==
    {<<s[1], s[2], s[1] \o s[2]>> : s \in
        {p \in Strings(letters, n) \X Strings(letters, n) : Len(p[1]) + Len(p[2]) <= n}}

Grounded(m) ==
    \A i \in DOMAIN m : \A x \in {m[i][1], m[i][2]} :
        Len(x) = 1 \/ \E j \in DOMAIN m : m[j][3] = x

TablesOver(letters, n, length) ==
    {m \in SeqsUpTo(Splits(letters, n), length) : Grounded(m)}

(* Swapping the two letters maps tables to tables and chunks to chunks, so   *)
(* the tables whose first merge starts with an "a" stand for all.            *)
StartsWithA(m) == m # <<>> => Head(m[1][1]) = "a"

RunTables  == TablesOver({"a"}, MaxRun, RunMerges)
WordTables == {m \in TablesOver({"a", "b"}, MaxWord, WordMerges) : StartsWithA(m)}
RunTokens  == Strings({"a"}, MaxRun)
WordTokens == Strings({"a", "b"}, MaxWord)
RunChunks  == SeqsUpTo({<<"a">>}, MaxRunChunk)
WordChunks == SeqsUpTo({<<"a">>, <<"b">>}, MaxWordChunk)

(* What the constants are replaced by.  TLC evaluates such a definition      *)
(* wherever the constant occurs, but those above only once.                 *)
AllTables == RunTables \cup WordTables
AllTokens == RunTokens \cup WordTokens
AllChunks == RunChunks \cup WordChunks

(* Larger than every rank of these tables.                                 *)
Unranked == RunMerges + WordMerges + 1
=============================================================================
