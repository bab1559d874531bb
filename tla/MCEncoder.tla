----------------------------- MODULE MCEncoder ------------------------------
(***************************************************************************)
(* Small vocabularies and texts for EncoderAndOffsets.                      *)
(***************************************************************************)
EXTENDS EncoderAndOffsets, SmallTables

(* "a" and "b" have a token each (no merge names "b"), "x" is a byte that   *)
(* the vocabulary lacks, "w" a character of two byte tokens (only a         *)
(* byte_fallback model walks by characters).                                *)
MCChars == {"a", "b", "w", "x"}
MCInitial == [c \in MCChars |->
    CASE c = "w" -> << <<"a">>, <<"a">> >> [] c = "x" -> <<>> [] OTHER -> << <<c>> >>]

Run(n) == [i \in 1 .. n |-> "a"]
WideChunk == <<"a", "x", "w", "a">>
MCChunks == {Run(n) : n \in 1 .. 5} \cup
            { <<"x">>, <<"a", "b", "a", "a">>, <<"x", "a", "x", "x", "a", "a">>, WideChunk }
MCTexts == {<<c, d>> : c, d \in MCChunks}

NoLookup == [c \in {} |-> <<"a">>]
RunLookup == [c \in {Run(2), Run(4)} |-> c]
MCLookups == {NoLookup, RunLookup}

(* The tokens here are strings, as SpansHoldTokens has them.               *)
ASSUME TokensAreStrings == SpelledOut({"a", "b"})

(* To keep the run small, encode_with_offsets is asked after the default    *)
(* mode only, and the normalizer alters texts of the smallest models only.  *)
MCInit ==
    /\ BothInit
    /\ altered => Len(merges) <= 1

MCNext ==
    \/ Next /\ UNCHANGED offsetVars
    \/ Finished /\ mode = "Auto" /\ Offset!Next /\ UNCHANGED vars

MCSpec == MCInit /\ [][MCNext]_bothVars /\ WF_bothVars(MCNext)

-----------------------------------------------------------------------------
(* Every text is encoded to its end, by either engine.                     *)
BothTerminate == <>(Finished /\ (mode = "Auto" => offsetEngine \in {"done", "refused"}))
=============================================================================
