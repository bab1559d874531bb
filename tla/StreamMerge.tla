---------------------------- MODULE StreamMerge -----------------------------
(***************************************************************************)
(* The streaming engine (StreamTables::merge_into): one pass over the chunk *)
(* with a stack of merges that are waiting for their right operand.  A      *)
(* stack entry d holds back the left operand of merge d; a merge that comes *)
(* earlier in the table may be opened above it, and when the next token     *)
(* does not complete the top merge its operand falls through to the next    *)
(* merge with the same left operand.                                        *)
(***************************************************************************)
EXTENDS MergeTable, SequencesExt

CONSTANTS
    Tables,
    Chunks,
    MaxOut      \* bound: a new chunk starts only while out is this short

ASSUME TablesAssumption == \A m \in Tables : IsTable(m)
ASSUME ChunksAssumption == Chunks \subseteq Seq(Token)

VARIABLES
    merges,     \* the table of the loaded model
    engine,     \* "stream" while merge_into runs, else "idle"
    chunk,      \* the tokens of the chunk, never modified
    at,         \* the next of them to push; past the end while flushing
    state,      \* the stack of waiting merges
    todo,       \* push_token's stack of <<token, destination>> to process
    out,        \* the caller's output, appended to
    mark        \* history: Len(out) when the chunk started

scratch == <<state, todo>>
vars == <<merges, engine, chunk, at, scratch, out, mark>>

TypeOK ==
    /\ merges \in Tables
    /\ engine \in {"idle", "stream"}
    /\ chunk \in Seq(Token)
    /\ at \in 1 .. Len(chunk) + 1
    /\ state \in Seq(DOMAIN merges)
    /\ todo \in Seq(Token \X (DOMAIN merges \cup {NoRank}))
    /\ out \in Seq(Token)
    /\ mark \in 0 .. Len(out)

Init ==
    /\ merges \in Tables
    /\ engine = "idle"
    /\ chunk = <<>> /\ at = 1
    /\ state = <<>> /\ todo = <<>>
    /\ out = <<>> /\ mark = 0

(***************************************************************************)
(* The jump tables of StreamTables::new: the first merge after i whose left *)
(* operand is t, or NONE.                                                   *)
(***************************************************************************)
MergesAfter(t, i) == {j \in DOMAIN merges : j > i /\ merges[j][1] = t}

FirstAfter(t, i) ==
    IF MergesAfter(t, i) = {} THEN NoRank
    ELSE CHOOSE j \in MergesAfter(t, i) : IsFirst(j, MergesAfter(t, i))

(* Mutants: the walk along one left operand starts over, or stops at once. *)
RestartToken1(i) == FirstAfter(merges[i][1], i - 1)
NoToken1Dest(i)  == NoRank

InitialDest(t)    == FirstAfter(t, 0)
NextToken1Dest(i) == FirstAfter(merges[i][1], i)
NextTargetDest(i) == FirstAfter(merges[i][3], i)

-----------------------------------------------------------------------------
(* state.clear(): the stack starts empty whatever the last chunk left.     *)
Begin(c) ==
    /\ engine = "idle"
    /\ engine' = "stream"
    /\ chunk' = c
    /\ at' = 1
    /\ state' = <<>>
    /\ mark' = Len(out)
    /\ UNCHANGED <<merges, todo, out>>

(* push_token of the next token of the chunk (todo.clear(), todo.push).    *)
PushNext ==
    /\ engine = "stream"
    /\ todo = <<>>
    /\ at <= Len(chunk)
    /\ todo' = << <<chunk[at], InitialDest(chunk[at])>> >>
    /\ at' = at + 1
    /\ UNCHANGED <<merges, engine, chunk, state, out, mark>>

(* flush: pop a waiting merge and push its left operand on.                *)
FlushTop ==
    /\ engine = "stream"
    /\ todo = <<>>
    /\ at > Len(chunk)
    /\ state # <<>>
    /\ LET top == Last(state) IN
          todo' = << <<merges[top][1], NextToken1Dest(top)>> >>
    /\ state' = Front(state)
    /\ UNCHANGED <<merges, engine, chunk, at, out, mark>>

(* One iteration of push_token's loop on the top of todo.                  *)
Processing == engine = "stream" /\ todo # <<>>

tok  == Last(todo)[1]
dest == Last(todo)[2]

(* Mutant: `d < next` dropped.                                             *)
OpensAny == dest # NoRank

Opens == dest # NoRank /\ (state # <<>> => dest < Last(state))

(* Nothing waits and no merge starts with this token: it is final.         *)
Emit ==
    /\ Processing
    /\ state = <<>> /\ dest = NoRank
    /\ out' = Append(out, tok)
    /\ todo' = Front(todo)
    /\ UNCHANGED <<merges, engine, chunk, at, state, mark>>

(* The token's merge is more urgent than the one waiting, if any.          *)
Open ==
    /\ Processing
    /\ Opens
    /\ state' = Append(state, dest)
    /\ todo' = Front(todo)
    /\ UNCHANGED <<merges, engine, chunk, at, out, mark>>

(* The token is the right operand the top merge was waiting for.           *)
Complete ==
    /\ Processing
    /\ ~Opens /\ state # <<>>
    /\ LET top == Last(state) IN
          /\ tok = merges[top][2]
          /\ todo' = Append(Front(todo), <<merges[top][3], NextTargetDest(top)>>)
    /\ state' = Front(state)
    /\ UNCHANGED <<merges, engine, chunk, at, out, mark>>

(* Mutant: todo.push((tok, d)) forgotten.                                  *)
FallThroughLosing ==
    /\ Processing
    /\ ~Opens /\ state # <<>>
    /\ LET top == Last(state) IN
          /\ tok # merges[top][2]
          /\ todo' = Append(Front(todo), <<merges[top][1], NextToken1Dest(top)>>)
    /\ state' = Front(state)
    /\ UNCHANGED <<merges, engine, chunk, at, out, mark>>

(* It is not: the left operand falls through first, then the token again.  *)
FallThrough ==
    /\ Processing
    /\ ~Opens /\ state # <<>>
    /\ LET top == Last(state) IN
          /\ tok # merges[top][2]
          /\ todo' = Append(todo, <<merges[top][1], NextToken1Dest(top)>>)
    /\ state' = Front(state)
    /\ UNCHANGED <<merges, engine, chunk, at, out, mark>>

Return ==
    /\ engine = "stream"
    /\ todo = <<>>
    /\ at > Len(chunk)
    /\ state = <<>>
    /\ engine' = "idle"
    /\ UNCHANGED <<merges, chunk, at, state, todo, out, mark>>

Step == PushNext \/ FlushTop \/ Emit \/ Open \/ Complete \/ FallThrough \/ Return

(* The caller takes the output when the text is encoded.                   *)
TakeOut ==
    /\ engine = "idle" /\ out # <<>>
    /\ out' = <<>> /\ mark' = 0
    /\ UNCHANGED <<merges, engine, chunk, at, state, todo>>

Next ==
    \/ Step
    \/ \E c \in Chunks : Len(out) <= MaxOut /\ Begin(c)
    \/ TakeOut

Spec == Init /\ [][Next]_vars /\ WF_vars(Step)

-----------------------------------------------------------------------------
(* The waiting merges are ever more urgent towards the top of the stack:    *)
(* completing one can never overtake a merge that had to come first.        *)
StackDescends ==
    \A i, j \in DOMAIN state : i < j => state[j] < state[i]

(* What the chunk appended to the output is canonical BPE of it, on every   *)
(* table the encoder streams ("the streaming merger equals canonical BPE"). *)
MonotonicIsCanonical ==
    engine = "idle" /\ Monotonic(merges) /\ out # <<>> =>
        SubSeq(out, mark + 1, Len(out)) = Canonical(merges, chunk)
=============================================================================
