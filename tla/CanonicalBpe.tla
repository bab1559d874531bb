---------------------------- MODULE CanonicalBpe ----------------------------
(***************************************************************************)
(* What a BPE engine promises: it rewrites a word by merging, one at a      *)
(* time, the adjacent pair of lowest rank, leftmost on ties ("repeatedly    *)
(* merge the single adjacent pair of globally-lowest rank"), and it takes   *)
(* the next chunk only when no adjacent pair of the word has a rank.        *)
(***************************************************************************)
EXTENDS MergeTable

CONSTANTS
    Tables,     \* the merge tables a model may come with
    Chunks      \* the chunks (words of initial tokens) it may be given

VARIABLES merges, word

vars == <<merges, word>>

Init == merges \in Tables /\ word = <<>>

NextChunk ==
    /\ NormalForm(merges, word)
    /\ word' \in Chunks
    /\ UNCHANGED merges

MergeLowest ==
    \E i \in 1 .. Len(word) - 1 :
        /\ IsLowest(merges, word, i)
        /\ word' = FoldAt(merges, word, i)
        /\ UNCHANGED merges

Next == NextChunk \/ MergeLowest

Spec == Init /\ [][Next]_vars
=============================================================================
