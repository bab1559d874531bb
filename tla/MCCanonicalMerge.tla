-------------------------- MODULE MCCanonicalMerge --------------------------
(***************************************************************************)
(* Both paths of merge_canonical over the same tables: the short one and,   *)
(* on variables of its own, the one with the list and the heap.  Which of   *)
(* them a behavior exercises is chosen at the start, so every chunk goes    *)
(* through either, also those that SMALL_CANON would give to the other.     *)
(***************************************************************************)
EXTENDS SmallMerge, SmallTables

CONSTANTS
    AnyLength   \* SmallCanon of the heap path: it takes all longer chunks

VARIABLES
    path, heapEngine, heapTokens, prev, next, alive, heap

Heap == INSTANCE HeapMerge WITH
            SmallCanon <- AnyLength, engine <- heapEngine, tokens <- heapTokens

heapVars == <<heapEngine, heapTokens, prev, next, alive, heap>>
smallVars == <<engine, tokens, ranks>>

MCInit == Init /\ Heap!Init /\ path \in {"small", "heap"}

MCNext ==
    /\ \/ path = "small" /\ Next /\ UNCHANGED heapVars
       \/ path = "heap" /\ Heap!Next /\ UNCHANGED smallVars
    /\ UNCHANGED path

MCSpec ==
    /\ MCInit /\ [][MCNext]_<<vars, path, heapVars>>
    /\ WF_<<vars, heapVars>>(IF path = "small" THEN Step /\ UNCHANGED heapVars
                                              ELSE Heap!Step /\ UNCHANGED smallVars)

-----------------------------------------------------------------------------
(* The heap path's part of what is checked, see HeapMerge.                 *)
HeapTypeOK == Heap!TypeOK
ListLinked == Heap!ListLinked
QueueComplete == Heap!QueueComplete
HeapImplementsCanonical == Heap!ImplementsCanonical

(* Either path returns every chunk: the loops in the code have no bound.    *)
Merging == engine = "small" \/ heapEngine = "heap"
BothTerminate == Merging ~> ~Merging
=============================================================================
