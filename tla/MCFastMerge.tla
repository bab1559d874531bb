---------------------------- MODULE MCFastMerge -----------------------------
(***************************************************************************)
(* The two engines that stand in for canonical BPE on monotonic tables, the *)
(* streaming one and, on variables of its own, the batch one.  Which of     *)
(* them a behavior exercises is chosen at the start.                        *)
(***************************************************************************)
EXTENDS StreamMerge, SmallTables

VARIABLES
    path, batchEngine, tokens, ranks, min, ok, batchChunk

Batch == INSTANCE BatchMerge WITH engine <- batchEngine, chunk <- batchChunk

batchVars == <<batchEngine, tokens, ranks, min, ok, batchChunk>>
streamVars == <<engine, chunk, at, scratch, out, mark>>

MCInit == Init /\ Batch!Init /\ path \in {"stream", "batch"}

MCNext ==
    /\ \/ path = "stream" /\ Next /\ UNCHANGED batchVars
       \/ path = "batch" /\ Batch!Next /\ UNCHANGED streamVars
    /\ UNCHANGED path

MCSpec ==
    /\ MCInit /\ [][MCNext]_<<vars, path, batchVars>>
    /\ WF_<<vars, batchVars>>(IF path = "stream" THEN Step /\ UNCHANGED batchVars
                                                 ELSE Batch!Step /\ UNCHANGED streamVars)

-----------------------------------------------------------------------------
(* The types of both engines, see StreamMerge and BatchMerge.              *)
BothTypeOK == TypeOK /\ Batch!TypeOK

(* The batch engine's part of what is checked, see BatchMerge.             *)
CacheFresh == Batch!CacheFresh
MonotonicNeverBails == Batch!MonotonicNeverBails
BatchIsCanonical == Batch!MonotonicIsCanonical

(* The tokens are the strings they stand for (module SmallTables).         *)
Text(w) == FlattenSeq(w)

(* The text of the chunk is the output, then the operands held back on the  *)
(* stack, then the tokens still to process, then the rest of the chunk: the *)
(* streaming machine neither loses, repeats nor reorders a byte, on any     *)
(* table.                                                                   *)
TextKept ==
    engine = "stream" =>
        LET held  == [k \in DOMAIN state |-> merges[state[k]][1]]
            stack == Reverse([k \in DOMAIN todo |-> todo[k][1]])
        IN  Text(SubSeq(out, mark + 1, Len(out)) \o held \o stack
                 \o SubSeq(chunk, at, Len(chunk))) = Text(chunk)

(* Either engine returns every chunk, of any table: the streaming machine   *)
(* may undo work (FallThrough), but not for ever.                           *)
Merging == engine = "stream" \/ batchEngine = "batch"
BothTerminate == Merging ~> ~Merging
=============================================================================
