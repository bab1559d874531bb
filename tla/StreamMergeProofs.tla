------------------------- MODULE StreamMergeProofs --------------------------
(***************************************************************************)
(* The streaming engine, for every table and every set of chunks: its       *)
(* stack, its work list and its output hold what they should, and the       *)
(* waiting merges are ever more urgent towards the top of the stack.        *)
(*                                                                         *)
(* That the stack descends is not inductive alone: a merge is opened at the *)
(* destination that came with the token, and only TypeOK says that this is  *)
(* a merge of the table.                                                    *)
(***************************************************************************)
EXTENDS MCFastMerge, MergeTableProofs

IInv == TypeOK /\ StackDescends

-----------------------------------------------------------------------------
(* What Front and Last return of a stack that is not empty.                *)
LEMMA Popping ==
  ASSUME NEW S, NEW s \in Seq(S), s # <<>>
  PROVE  /\ Len(s) \in Nat \ {0}
         /\ Last(s) = s[Len(s)] /\ Last(s) \in S
         /\ Front(s) \in Seq(S) /\ Len(Front(s)) = Len(s) - 1
         /\ \A i \in 1 .. Len(s) - 1 : Front(s)[i] = s[i]
<1>1. Len(s) \in Nat \ {0}
  BY EmptySeq
<1>2. \A i \in 1 .. Len(s) : s[i] \in S
  BY ElementOfSeq
<1>3. Last(s) = s[Len(s)] /\ Last(s) \in S
  BY <1>1, <1>2 DEF Last
<1>4. \A i \in 1 .. Len(s) - 1 : s[i] \in S
  BY <1>1, <1>2
<1>5. /\ SubSeq(s, 1, Len(s) - 1) \in Seq(S)
      /\ Len(SubSeq(s, 1, Len(s) - 1)) =
            IF 1 <= Len(s) - 1 THEN (Len(s) - 1) - 1 + 1 ELSE 0
      /\ \A i \in 1 .. (Len(s) - 1) - 1 + 1 : SubSeq(s, 1, Len(s) - 1)[i] = s[1 + i - 1]
  <2>1. 1 \in Int /\ Len(s) - 1 \in Int
    BY <1>1
  <2> QED BY <1>4, <2>1, SubSeqProperties
<1> DEFINE f == SubSeq(s, 1, Len(s) - 1)
<1>6. Front(s) = f
  BY DEF Front
<1>7. f \in Seq(S) /\ Len(f) = Len(s) - 1 /\ \A i \in 1 .. Len(s) - 1 : f[i] = s[i]
  <2> HIDE DEF f
  <2>1. /\ f \in Seq(S)
        /\ Len(f) = IF 1 <= Len(s) - 1 THEN (Len(s) - 1) - 1 + 1 ELSE 0
        /\ \A i \in 1 .. (Len(s) - 1) - 1 + 1 : f[i] = s[1 + i - 1]
    BY <1>5 DEF f
  <2>2. ASSUME NEW i \in 1 .. Len(s) - 1 PROVE f[i] = s[i]
    <3>1. i \in 1 .. (Len(s) - 1) - 1 + 1 /\ 1 + i - 1 = i
      BY <1>1
    <3>2. f[i] = s[1 + i - 1]
      BY <2>1, <3>1
    <3> QED BY <3>1, <3>2
  <2>3. Len(f) = Len(s) - 1
    <3>1. CASE Len(s) = 1
      BY <2>1, <3>1
    <3>2. CASE Len(s) > 1
      <4>1. 1 <= Len(s) - 1 /\ (Len(s) - 1) - 1 + 1 = Len(s) - 1
        BY <1>1, <3>2
      <4> QED BY <2>1, <4>1
    <3> QED BY <1>1, <3>1, <3>2
  <2> QED BY <2>1, <2>2, <2>3
<1> QED BY <1>1, <1>3, <1>6, <1>7

(* A jump table leads to a later merge with that left operand, or nowhere. *)
LEMMA JumpsForward ==
  ASSUME IsTable(merges), NEW t, NEW i
  PROVE  /\ FirstAfter(t, i) \in DOMAIN merges \cup {NoRank}
         /\ FirstAfter(t, i) # NoRank =>
               FirstAfter(t, i) > i /\ merges[FirstAfter(t, i)][1] = t
<1>1. MergesAfter(t, i) \subseteq DOMAIN merges /\ DOMAIN merges \subseteq Nat
  <2>1. DOMAIN merges = 1 .. Len(merges) /\ Len(merges) \in Nat
    BY LenProperties DEF IsTable
  <2> QED BY <2>1 DEF MergesAfter
<1>2. CASE MergesAfter(t, i) = {}
  BY <1>2 DEF FirstAfter
<1>3. CASE MergesAfter(t, i) # {}
  <2>1. \E j \in MergesAfter(t, i) : IsFirst(j, MergesAfter(t, i))
    BY <1>1, <1>3, LeastNatural
  <2>2. FirstAfter(t, i) \in MergesAfter(t, i)
    BY <1>3, <2>1 DEF FirstAfter
  <2> QED BY <1>1, <2>2 DEF MergesAfter
<1> QED BY <1>2, <1>3

(* The tokens of a merge of the table.                                     *)
LEMMA MergeOfTable ==
  ASSUME IsTable(merges), NEW i \in DOMAIN merges
  PROVE  merges[i][1] \in Token /\ merges[i][2] \in Token /\ merges[i][3] \in Token
<1>1. merges \in Seq(Merge) /\ i \in 1 .. Len(merges)
  BY LenProperties DEF IsTable
<1>2. merges[i] \in Merge
  BY <1>1, ElementOfSeq
<1> QED BY <1>2 DEF Merge

-----------------------------------------------------------------------------
Work == Token \X (DOMAIN merges \cup {NoRank})

LEMMA InitIInv == Init => IInv
<1> SUFFICES ASSUME Init PROVE IInv
  OBVIOUS
<1>1. /\ merges \in Tables /\ engine = "idle" /\ chunk = <<>> /\ at = 1
      /\ state = <<>> /\ todo = <<>> /\ out = <<>> /\ mark = 0
  BY DEF Init
<1>2. TypeOK
  BY <1>1 DEF TypeOK
<1>3. StackDescends
  BY <1>1 DEF StackDescends
<1> QED BY <1>2, <1>3 DEF IInv

(* Popping the stack, or leaving it, keeps it descending.                  *)
LEMMA PoppedDescends ==
  ASSUME TypeOK, StackDescends, state # <<>>, state' = Front(state)
  PROVE  StackDescends' /\ state' \in Seq(DOMAIN merges)
<1>1. /\ Len(state) \in Nat \ {0} /\ state' \in Seq(DOMAIN merges)
      /\ Len(state') = Len(state) - 1
      /\ \A i \in 1 .. Len(state) - 1 : state'[i] = state[i]
  <2>1. state \in Seq(DOMAIN merges)
    BY DEF TypeOK
  <2> QED BY <2>1, Popping
<1>2. DOMAIN state = 1 .. Len(state) /\ DOMAIN state' = 1 .. Len(state) - 1
  BY <1>1, LenProperties DEF TypeOK
<1> QED BY <1>1, <1>2 DEF StackDescends

LEMMA NextIInv == IInv /\ [Next]_vars => IInv'
<1> SUFFICES ASSUME IInv, [Next]_vars PROVE IInv'
  OBVIOUS
<1> USE DEF IInv
<1>0. /\ merges \in Tables /\ IsTable(merges)
      /\ engine \in {"idle", "stream"}
      /\ chunk \in Seq(Token) /\ Len(chunk) \in Nat /\ at \in 1 .. Len(chunk) + 1
      /\ state \in Seq(DOMAIN merges) /\ todo \in Seq(Work)
      /\ out \in Seq(Token) /\ Len(out) \in Nat /\ mark \in 0 .. Len(out)
  BY TablesAssumption, LenProperties DEF TypeOK, Work
<1>1. ASSUME NEW c \in Chunks, Begin(c) PROVE IInv'
  <2>1. /\ engine' = "stream" /\ chunk' = c /\ at' = 1 /\ state' = <<>>
        /\ mark' = Len(out) /\ UNCHANGED <<merges, todo, out>>
    BY <1>1 DEF Begin
  <2>2. c \in Seq(Token) /\ Len(c) \in Nat
    BY ChunksAssumption, LenProperties
  <2>3. TypeOK'
    BY <1>0, <2>1, <2>2 DEF TypeOK, Work
  <2>4. StackDescends'
    BY <2>1 DEF StackDescends
  <2> QED BY <2>3, <2>4
<1>2. ASSUME PushNext PROVE IInv'
  <2>1. /\ todo' = << <<chunk[at], InitialDest(chunk[at])>> >> /\ at' = at + 1
        /\ at <= Len(chunk) /\ UNCHANGED <<merges, engine, chunk, state, out, mark>>
    BY <1>2 DEF PushNext
  <2>2. chunk[at] \in Token
    BY <1>0, <2>1, ElementOfSeq
  <2>3. InitialDest(chunk[at]) \in DOMAIN merges \cup {NoRank}
    BY <1>0, JumpsForward DEF InitialDest
  <2>4. todo' \in Seq(Work)
    BY <2>1, <2>2, <2>3 DEF Work
  <2>5. at' \in 1 .. Len(chunk) + 1
    BY <1>0, <2>1
  <2>6. TypeOK'
    BY <1>0, <2>1, <2>4, <2>5 DEF TypeOK, Work
  <2>7. StackDescends'
    BY <2>1 DEF StackDescends
  <2> QED BY <2>6, <2>7
<1>3. ASSUME FlushTop PROVE IInv'
  <2> DEFINE top == Last(state)
  <2>1. /\ state # <<>> /\ todo' = << <<merges[top][1], NextToken1Dest(top)>> >>
        /\ state' = Front(state)
        /\ UNCHANGED <<merges, engine, chunk, at, out, mark>>
    BY <1>3 DEF FlushTop
  <2>2. top \in DOMAIN merges
    BY <1>0, <2>1, Popping
  <2>3. merges[top][1] \in Token /\ NextToken1Dest(top) \in DOMAIN merges \cup {NoRank}
    BY <1>0, <2>2, JumpsForward, MergeOfTable DEF NextToken1Dest
  <2>4. todo' \in Seq(Work)
    BY <2>1, <2>3 DEF Work
  <2>5. StackDescends' /\ state' \in Seq(DOMAIN merges)
    BY <2>1, PoppedDescends
  <2>6. TypeOK'
    BY <1>0, <2>1, <2>4, <2>5 DEF TypeOK, Work
  <2> QED BY <2>5, <2>6
<1>4. ASSUME Processing
      PROVE  /\ tok \in Token /\ dest \in DOMAIN merges \cup {NoRank}
             /\ Front(todo) \in Seq(Work)
  <2>1. todo # <<>>
    BY <1>4 DEF Processing
  <2>2. Last(todo) \in Work /\ Front(todo) \in Seq(Work)
    BY <1>0, <2>1, Popping
  <2> QED BY <2>2 DEF Work, tok, dest
<1>5. ASSUME Emit PROVE IInv'
  <2>1. /\ out' = Append(out, tok) /\ todo' = Front(todo)
        /\ UNCHANGED <<merges, engine, chunk, at, state, mark>>
    BY <1>5 DEF Emit
  <2>2. tok \in Token /\ Front(todo) \in Seq(Work)
    BY <1>4, <1>5 DEF Emit
  <2>3. out' \in Seq(Token) /\ Len(out') = Len(out) + 1
    BY <1>0, <2>1, <2>2, AppendProperties
  <2>4. mark' \in 0 .. Len(out')
    BY <1>0, <2>1, <2>3
  <2>5. TypeOK'
    BY <1>0, <2>1, <2>2, <2>3, <2>4 DEF TypeOK, Work
  <2>6. StackDescends'
    BY <2>1 DEF StackDescends
  <2> QED BY <2>5, <2>6
<1>6. ASSUME Open PROVE IInv'
  <2>1. /\ state' = Append(state, dest) /\ todo' = Front(todo) /\ Opens
        /\ UNCHANGED <<merges, engine, chunk, at, out, mark>>
    BY <1>6 DEF Open
  <2>2. dest \in DOMAIN merges /\ Front(todo) \in Seq(Work)
    BY <1>4, <1>6, <2>1 DEF Open, Opens
  <2>3. /\ state' \in Seq(DOMAIN merges) /\ Len(state') = Len(state) + 1
        /\ \A i \in 1 .. Len(state) : state'[i] = state[i]
        /\ state'[Len(state) + 1] = dest
    BY <1>0, <2>1, <2>2, AppendProperties
  <2>4. TypeOK'
    BY <1>0, <2>1, <2>2, <2>3 DEF TypeOK, Work
  <2>5. StackDescends'
    <3>1. SUFFICES ASSUME NEW i \in DOMAIN state', NEW j \in DOMAIN state', i < j
                   PROVE  state'[j] < state'[i]
      BY DEF StackDescends
    <3>2. /\ Len(state) \in Nat /\ DOMAIN state = 1 .. Len(state)
          /\ DOMAIN state' = 1 .. Len(state) + 1
          /\ DOMAIN merges \subseteq Nat
      <4>1. DOMAIN merges = 1 .. Len(merges) /\ Len(merges) \in Nat
        BY <1>0, LenProperties DEF IsTable
      <4> QED BY <1>0, <2>3, <4>1, LenProperties
    <3>3. CASE j <= Len(state)
      <4>1. i \in DOMAIN state /\ j \in DOMAIN state
        BY <3>1, <3>2, <3>3
      <4>2. state[j] < state[i]
        BY <3>1, <4>1 DEF StackDescends
      <4> QED BY <2>3, <3>2, <4>1, <4>2
    <3>4. CASE j = Len(state) + 1
      <4>1. i \in 1 .. Len(state) /\ Len(state) > 0
        BY <3>1, <3>2, <3>4
      <4>2. state # <<>>
        BY <4>1
      <4>3. dest < Last(state) /\ Last(state) = state[Len(state)]
        BY <1>0, <2>1, <4>2, Popping DEF Opens
      <4>4. state[Len(state)] <= state[i]
        <5>1. i = Len(state) \/ i < Len(state)
          BY <3>2, <4>1
        <5>2. /\ state[i] \in Nat
              /\ Len(state) \in DOMAIN state /\ i \in DOMAIN state
          BY <1>0, <3>2, <4>1, ElementOfSeq
        <5>3. state[Len(state)] \in Nat
          BY <1>0, <3>2, <5>2, ElementOfSeq
        <5> QED BY <5>1, <5>2, <5>3 DEF StackDescends
      <4>5. state[i] \in Nat /\ state[Len(state)] \in Nat /\ dest \in Nat
        BY <1>0, <2>2, <3>2, <4>1, ElementOfSeq
      <4>6. dest < state[i]
        BY <4>3, <4>4, <4>5
      <4> QED BY <2>3, <3>4, <4>1, <4>6
    <3> QED BY <3>2, <3>3, <3>4
  <2> QED BY <2>4, <2>5
<1>7. ASSUME Complete PROVE IInv'
  <2> DEFINE top == Last(state)
  <2>1. /\ state # <<>> /\ state' = Front(state)
        /\ todo' = Append(Front(todo), <<merges[top][3], NextTargetDest(top)>>)
        /\ UNCHANGED <<merges, engine, chunk, at, out, mark>>
    BY <1>7 DEF Complete
  <2>2. top \in DOMAIN merges
    BY <1>0, <2>1, Popping
  <2>3. merges[top][3] \in Token /\ NextTargetDest(top) \in DOMAIN merges \cup {NoRank}
    BY <1>0, <2>2, JumpsForward, MergeOfTable DEF NextTargetDest
  <2>4. Front(todo) \in Seq(Work)
    BY <1>4, <1>7 DEF Complete
  <2>5. todo' \in Seq(Work)
    <3>1. <<merges[top][3], NextTargetDest(top)>> \in Work
      BY <2>3 DEF Work
    <3> QED BY <2>1, <2>4, <3>1, AppendProperties
  <2>6. StackDescends' /\ state' \in Seq(DOMAIN merges)
    BY <2>1, PoppedDescends
  <2>7. TypeOK'
    BY <1>0, <2>1, <2>5, <2>6 DEF TypeOK, Work
  <2> QED BY <2>6, <2>7
<1>8. ASSUME FallThrough PROVE IInv'
  <2> DEFINE top == Last(state)
  <2>1. /\ state # <<>> /\ state' = Front(state)
        /\ todo' = Append(todo, <<merges[top][1], NextToken1Dest(top)>>)
        /\ UNCHANGED <<merges, engine, chunk, at, out, mark>>
    BY <1>8 DEF FallThrough
  <2>2. top \in DOMAIN merges
    BY <1>0, <2>1, Popping
  <2>3. merges[top][1] \in Token /\ NextToken1Dest(top) \in DOMAIN merges \cup {NoRank}
    BY <1>0, <2>2, JumpsForward, MergeOfTable DEF NextToken1Dest
  <2>4. todo' \in Seq(Work)
    <3>1. <<merges[top][1], NextToken1Dest(top)>> \in Work
      BY <2>3 DEF Work
    <3> QED BY <1>0, <2>1, <3>1, AppendProperties
  <2>5. StackDescends' /\ state' \in Seq(DOMAIN merges)
    BY <2>1, PoppedDescends
  <2>6. TypeOK'
    BY <1>0, <2>1, <2>4, <2>5 DEF TypeOK, Work
  <2> QED BY <2>5, <2>6
<1>9. ASSUME Return PROVE IInv'
  BY <1>0, <1>9 DEF Return, TypeOK, StackDescends
<1>10. ASSUME TakeOut PROVE IInv'
  BY <1>0, <1>10 DEF TakeOut, TypeOK, StackDescends
<1>11. CASE UNCHANGED vars
  BY <1>11 DEF vars, scratch, TypeOK, StackDescends
<1> QED
  BY <1>1, <1>2, <1>3, <1>5, <1>6, <1>7, <1>8, <1>9, <1>10, <1>11 DEF Next, Step

THEOREM Invariance == Spec => []IInv
  BY InitIInv, NextIInv, PTL DEF Spec

(***************************************************************************)
(* The stack of StreamTables holds merges of the table, its work list       *)
(* tokens with a destination in it, and the output tokens: the unchecked    *)
(* index into `merges` never leaves the table.                              *)
(***************************************************************************)
THEOREM TypeCorrect == Spec => []TypeOK
  BY Invariance, PTL DEF IInv

(***************************************************************************)
(* push_token opens a merge only above a later one, whatever falls through  *)
(* or is flushed in between.                                                *)
(***************************************************************************)
THEOREM StackStaysDescending == Spec => []StackDescends
  BY Invariance, PTL DEF IInv

-----------------------------------------------------------------------------
(***************************************************************************)
(* The machine's word: what the chunk has put out, the operands held back   *)
(* on the stack from the bottom to the top, the tokens still to process,    *)
(* next first, and the rest of the chunk; each with the first merge that it *)
(* may still be the left operand of.                                        *)
(***************************************************************************)
AtStack == Len(out) - mark
AtTodo  == AtStack + Len(state)
AtRest  == AtTodo + Len(todo)
Size    == AtRest + (Len(chunk) + 1 - at)

Item(k) ==
    IF k <= AtStack THEN <<out[mark + k], NoRank>>
    ELSE IF k <= AtTodo THEN <<merges[state[k - AtStack]][1], state[k - AtStack]>>
    ELSE IF k <= AtRest THEN todo[AtRest + 1 - k]
    ELSE <<chunk[at + (k - AtRest) - 1], 1>>

Word  == [k \in 1 .. Size |-> Item(k)[1]]
Level == [k \in 1 .. Size |-> Item(k)[2]]

(* A token waits for a merge that it is the left operand of.               *)
Destined ==
    /\ \A j \in DOMAIN todo : todo[j][2] # NoRank => merges[todo[j][2]][1] = todo[j][1]
    /\ engine = "idle" => todo = <<>>

(* No merge below its level applies to a token, and what canonical BPE      *)
(* makes of the word is what it makes of the chunk.                         *)
Aligned ==
    engine = "stream" /\ Monotonic(merges) =>
        /\ Calm(merges, Word, Level)
        /\ Canonical(merges, Word) = Canonical(merges, chunk)

IInvAligned == IInv /\ Destined /\ Aligned /\ MonotonicIsCanonical

(* What the definitions of the word and its levels come to.                *)
Laid ==
    /\ IsTable(merges) /\ DOMAIN merges = 1 .. Len(merges) /\ Len(merges) \in Nat
    /\ NoRank \in Nat /\ Len(merges) < NoRank
    /\ Len(out) \in Nat /\ mark \in Nat /\ Len(state) \in Nat /\ Len(todo) \in Nat
    /\ Len(chunk) \in Nat /\ at \in Nat /\ at <= Len(chunk) + 1 /\ 1 <= at
    /\ AtStack \in Nat /\ AtTodo \in Nat /\ AtRest \in Nat /\ Size \in Nat
    /\ Word \in Seq(Token) /\ Len(Word) = Size /\ Level \in [1 .. Size -> Nat]
    /\ \A k \in 1 .. Size : Word[k] = Item(k)[1] /\ Level[k] = Item(k)[2]

LEMMA LaidOut == TypeOK => Laid
<1> SUFFICES ASSUME TypeOK PROVE Laid
  OBVIOUS
<1>1. /\ merges \in Tables /\ IsTable(merges) /\ merges \in Seq(Merge)
      /\ NoRank \in Nat /\ Len(merges) < NoRank
      /\ chunk \in Seq(Token) /\ at \in 1 .. Len(chunk) + 1
      /\ state \in Seq(DOMAIN merges) /\ todo \in Seq(Work)
      /\ out \in Seq(Token) /\ mark \in 0 .. Len(out)
  BY TablesAssumption DEF TypeOK, Work, IsTable
<1>2. /\ DOMAIN merges = 1 .. Len(merges) /\ Len(merges) \in Nat
      /\ Len(out) \in Nat /\ Len(state) \in Nat /\ Len(todo) \in Nat /\ Len(chunk) \in Nat
  BY <1>1, LenProperties
<1>3. /\ AtStack \in Nat /\ AtTodo = AtStack + Len(state) /\ AtRest = AtTodo + Len(todo)
      /\ Size = AtRest + (Len(chunk) + 1 - at)
      /\ AtTodo \in Nat /\ AtRest \in Nat /\ Size \in Nat /\ AtStack + mark = Len(out)
  <2>1. AtStack \in Nat /\ AtStack + mark = Len(out)
    BY <1>1, <1>2 DEF AtStack
  <2>2. AtTodo \in Nat
    BY <1>2, <2>1 DEF AtTodo
  <2>3. AtRest \in Nat
    BY <1>2, <2>2 DEF AtRest
  <2>4. Size \in Nat
    BY <1>1, <1>2, <2>3 DEF Size
  <2> QED BY <2>1, <2>2, <2>3, <2>4 DEF AtTodo, AtRest, Size
<1>4. ASSUME NEW k \in 1 .. Size
      PROVE  Item(k) \in Token \X Nat
  <2>1. CASE k <= AtStack
    <3>1. mark + k \in 1 .. Len(out)
      BY <1>1, <1>2, <1>3, <2>1, SMTT(30)
    <3>2. Item(k) = <<out[mark + k], NoRank>>
      BY <2>1 DEF Item
    <3> QED BY <1>1, <3>1, <3>2, ElementOfSeq
  <2>2. CASE ~(k <= AtStack) /\ k <= AtTodo
    <3>1. k - AtStack \in 1 .. Len(state)
      BY <1>2, <1>3, <2>2
    <3>2. Item(k) = <<merges[state[k - AtStack]][1], state[k - AtStack]>>
      BY <2>2 DEF Item
    <3>3. state[k - AtStack] \in DOMAIN merges
      BY <1>1, <3>1, ElementOfSeq
    <3> QED BY <1>1, <1>2, <3>2, <3>3, MergeOfTable, SMTT(30)
  <2>3. CASE ~(k <= AtStack) /\ ~(k <= AtTodo) /\ k <= AtRest
    <3>1. AtRest + 1 - k \in 1 .. Len(todo)
      BY <1>2, <1>3, <2>3
    <3>2. Item(k) = todo[AtRest + 1 - k]
      BY <2>3 DEF Item
    <3>3. Item(k) \in Work
      BY <1>1, <3>1, <3>2, ElementOfSeq
    <3> QED BY <1>1, <1>2, <3>3 DEF Work
  <2>4. CASE ~(k <= AtStack) /\ ~(k <= AtTodo) /\ ~(k <= AtRest)
    <3>1. at + (k - AtRest) - 1 \in 1 .. Len(chunk)
      BY <1>1, <1>2, <1>3, <2>4, SMTT(30)
    <3>2. Item(k) = <<chunk[at + (k - AtRest) - 1], 1>>
      BY <2>4 DEF Item
    <3> QED BY <1>1, <3>1, <3>2, ElementOfSeq
  <2> QED BY <2>1, <2>2, <2>3, <2>4
<1>5. /\ Word \in [1 .. Size -> Token] /\ Level \in [1 .. Size -> Nat]
      /\ \A k \in 1 .. Size : Word[k] = Item(k)[1] /\ Level[k] = Item(k)[2]
  <2> HIDE DEF Item, Size
  <2> QED BY <1>4 DEF Word, Level
<1>6. Word \in Seq(Token) /\ Len(Word) = Size
  <2>1. Word \in Seq(Token)
    BY <1>3, <1>5, SeqDef
  <2> QED BY <1>3, <1>5, <2>1, LenProperties
<1> QED BY <1>1, <1>2, <1>3, <1>5, <1>6, SMTT(30) DEF Laid

LEMMA LaidOutNext == TypeOK' => Laid'
  BY LaidOut, PTL

(* The arithmetic of the four parts.                                       *)
Sizes ==
    /\ Len(out) \in Nat /\ mark \in Nat /\ Len(state) \in Nat /\ Len(todo) \in Nat
    /\ Len(chunk) \in Nat /\ at \in Nat /\ 1 <= at /\ at <= Len(chunk) + 1
    /\ AtStack \in Nat /\ AtTodo \in Nat /\ AtRest \in Nat /\ Size \in Nat
    /\ AtStack = Len(out) - mark /\ AtTodo = AtStack + Len(state)
    /\ AtRest = AtTodo + Len(todo) /\ Size = AtRest + (Len(chunk) + 1 - at)
    /\ AtStack <= AtTodo /\ AtTodo <= AtRest /\ AtRest <= Size

LEMMA Sized == TypeOK => Sizes
<1> SUFFICES ASSUME TypeOK PROVE Sizes
  OBVIOUS
<1>1. /\ Len(out) \in Nat /\ mark \in Nat /\ Len(state) \in Nat /\ Len(todo) \in Nat
      /\ Len(chunk) \in Nat /\ at \in Nat /\ 1 <= at /\ at <= Len(chunk) + 1
      /\ AtStack \in Nat /\ AtTodo \in Nat /\ AtRest \in Nat /\ Size \in Nat
  BY LaidOut DEF Laid
<1>2. /\ AtStack = Len(out) - mark /\ AtTodo = AtStack + Len(state)
      /\ AtRest = AtTodo + Len(todo) /\ Size = AtRest + (Len(chunk) + 1 - at)
  BY DEF AtStack, AtTodo, AtRest, Size
<1>3. AtStack <= AtTodo /\ AtTodo <= AtRest /\ AtRest <= Size
  BY <1>1, <1>2
<1> QED BY <1>1, <1>2, <1>3 DEF Sizes

LEMMA SizedNext == TypeOK' => Sizes'
  BY Sized, PTL

-----------------------------------------------------------------------------
(* A jump table skips no merge with the left operand it is for.            *)
LEMMA JumpsToNext ==
  ASSUME IsTable(merges), NEW t, NEW i \in DOMAIN merges \cup {0}
  PROVE  /\ FirstAfter(t, i) \in Nat /\ i \in Nat /\ i < FirstAfter(t, i)
         /\ \A s \in DOMAIN merges : i < s /\ s < FirstAfter(t, i) => merges[s][1] # t
<1>1. DOMAIN merges = 1 .. Len(merges) /\ Len(merges) \in Nat /\ NoRank \in Nat
      /\ Len(merges) < NoRank
  BY LenProperties DEF IsTable
<1>2. MergesAfter(t, i) \subseteq Nat
  BY <1>1 DEF MergesAfter
<1>3. CASE MergesAfter(t, i) = {}
  <2>1. FirstAfter(t, i) = NoRank
    BY <1>3 DEF FirstAfter
  <2> QED BY <1>1, <1>3, <2>1 DEF MergesAfter
<1>4. CASE MergesAfter(t, i) # {}
  <2>1. \E j \in MergesAfter(t, i) : IsFirst(j, MergesAfter(t, i))
    BY <1>2, <1>4, LeastNatural
  <2>2. IsFirst(FirstAfter(t, i), MergesAfter(t, i))
    BY <1>4, <2>1 DEF FirstAfter
  <2>3. FirstAfter(t, i) \in MergesAfter(t, i)
        /\ \A s \in MergesAfter(t, i) : FirstAfter(t, i) <= s
    BY <2>2 DEF IsFirst
  <2>4. ASSUME NEW s \in DOMAIN merges, i < s, s < FirstAfter(t, i), merges[s][1] = t
        PROVE  FALSE
    <3>1. s \in MergesAfter(t, i)
      BY <2>4 DEF MergesAfter
    <3>2. FirstAfter(t, i) <= s /\ FirstAfter(t, i) \in Nat /\ s \in Nat
      BY <1>2, <2>3, <3>1
    <3> QED BY <2>4, <3>2
  <2>5. FirstAfter(t, i) \in Nat /\ i < FirstAfter(t, i)
    BY <1>2, <2>3 DEF MergesAfter
  <2> QED BY <1>1, <2>4, <2>5
<1> QED BY <1>3, <1>4

LEMMA RanksOrdered ==
  ASSUME Laid
  PROVE  DOMAIN merges \subseteq Nat /\ NoRank \in Nat /\ \A r \in DOMAIN merges : r < NoRank
<1>1. DOMAIN merges = 1 .. Len(merges) /\ Len(merges) \in Nat /\ NoRank \in Nat
      /\ Len(merges) < NoRank
  BY DEF Laid
<1> QED BY <1>1

(* The steps that leave the word alone raise the level of one token over    *)
(* merges that cannot apply to it.                                         *)
LEMMA Relevelled ==
  ASSUME Laid, Laid', Aligned, engine = "stream", merges' = merges, chunk' = chunk,
         Size' = Size, NEW i,
         \A k \in 1 .. Size : Word'[k] = Word[k],
         \A k \in 1 .. Size : k # i => Level'[k] = Level[k],
         i \in 1 .. Size => Level[i] <= Level'[i],
         i \in 1 .. Size - 1 => \A s \in DOMAIN merges :
            Level[i] <= s /\ s < Level'[i] /\ merges[s][1] = Word[i] =>
               s <= Level[i + 1] /\ merges[s][2] # Word[i + 1]
  PROVE  Aligned' /\ Word' = Word
<1>1. /\ IsTable(merges) /\ Size \in Nat
      /\ Word \in Seq(Token) /\ Len(Word) = Size /\ Level \in [1 .. Size -> Nat]
  BY DEF Laid
<1>2. Word' \in Seq(Token) /\ Len(Word') = Size /\ Level' \in [1 .. Size -> Nat]
  BY DEF Laid
<1>3. Word' = Word
  BY <1>1, <1>2, SeqEqual
<1>7. SUFFICES Aligned'
  BY <1>3
<1>4. SUFFICES ASSUME Monotonic(merges)
               PROVE  Calm(merges, Word, Level') /\ Canonical(merges, Word) = Canonical(merges, chunk)
  BY <1>3 DEF Aligned
<1>5. Calm(merges, Word, Level) /\ Canonical(merges, Word) = Canonical(merges, chunk)
  BY <1>4 DEF Aligned
<1>6. Calm(merges, Word, Level')
  <2>1. PICK w, lv, mv : w = Word /\ lv = Level /\ mv = Level'
    OBVIOUS
  <2>2. w \in Seq(Token) /\ Calm(merges, w, lv) /\ Raised(merges, w, lv, mv, i)
    BY <1>1, <1>2, <1>5, <2>1 DEF Raised
  <2>3. Calm(merges, w, mv)
    BY <1>1, <2>2, CalmRaised
  <2> QED BY <2>1, <2>3
<1> QED BY <1>5, <1>6

-----------------------------------------------------------------------------
(* One lemma per step: what it does to the word and to its levels.         *)
LEMMA PushNextAligned ==
  ASSUME IInvAligned, TypeOK', PushNext
  PROVE  Destined' /\ Aligned' /\ engine' = "stream" /\ Word' = Word
<1> DEFINE d == InitialDest(chunk[at])
           i == AtRest + 1
<1>1. Laid /\ Laid' /\ Sizes /\ Sizes'
  BY LaidOut, LaidOutNext, Sized, SizedNext DEF IInvAligned, IInv
<1>2. /\ engine = "stream" /\ todo = <<>> /\ at <= Len(chunk)
      /\ todo' = << <<chunk[at], d>> >> /\ at' = at + 1
      /\ merges' = merges /\ engine' = engine /\ chunk' = chunk /\ state' = state
      /\ out' = out /\ mark' = mark
  BY DEF PushNext
<1>3. Len(todo) = 0 /\ Len(todo') = 1 /\ DOMAIN todo' = {1} /\ todo'[1] = <<chunk[at], d>>
  BY <1>2
<1>4. /\ AtStack' = AtStack /\ AtTodo' = AtTodo /\ AtRest = AtTodo /\ AtRest' = AtRest + 1
      /\ Size' = Size
  BY <1>1, <1>2, <1>3 DEF Sizes
<1>12. /\ AtStack \in Nat /\ AtTodo \in Nat /\ AtRest \in Nat /\ Size \in Nat /\ at \in Nat
       /\ AtStack <= AtTodo
  BY <1>1 DEF Sizes
<1>5. /\ d \in Nat /\ 0 < d
      /\ \A s \in DOMAIN merges : s < d => merges[s][1] # chunk[at]
      /\ d # NoRank => merges[d][1] = chunk[at]
  <2>1. IsTable(merges)
    BY <1>1 DEF Laid
  <2>2. \A s \in DOMAIN merges : 0 < s
    BY <2>1, LenProperties DEF IsTable
  <2> QED BY <2>1, <2>2, JumpsToNext, JumpsForward DEF InitialDest
<1>6. ASSUME NEW k \in 1 .. Size
      PROVE  IF k = i THEN Item(k) = <<chunk[at], 1>> /\ Item(k)' = <<chunk[at], d>>
             ELSE Item(k)' = Item(k)
  <2> HIDE DEF d
  <2>0. k \in Nat /\ 1 <= k /\ k <= Size
    BY <1>12
  <2>1. CASE k <= AtRest
    <3>1. k # i
      BY <1>12, <2>0, <2>1
    <3> QED BY <1>2, <1>4, <2>1, <3>1 DEF Item
  <2>2. CASE k = i
    <3>1. /\ ~(k <= AtStack) /\ ~(k <= AtTodo) /\ ~(k <= AtRest)
          /\ k <= AtRest' /\ AtRest' + 1 - k = 1 /\ at + (k - AtRest) - 1 = at
      BY <1>4, <1>12, <2>0, <2>2
    <3> QED BY <1>3, <1>4, <2>2, <3>1 DEF Item
  <2>3. CASE k > i
    <3>1. /\ ~(k <= AtStack) /\ ~(k <= AtTodo) /\ ~(k <= AtRest) /\ ~(k <= AtRest')
          /\ at' + (k - AtRest') - 1 = at + (k - AtRest) - 1 /\ k # i
      BY <1>2, <1>4, <1>12, <2>0, <2>3
    <3> QED BY <1>2, <1>4, <3>1 DEF Item
  <2> QED BY <1>12, <2>0, <2>1, <2>2, <2>3
<1>7. i \in 1 .. Size
  BY <1>1, <1>2, <1>4 DEF Sizes
<1>8. /\ \A k \in 1 .. Size : Word'[k] = Word[k]
      /\ \A k \in 1 .. Size : k # i => Level'[k] = Level[k]
      /\ Word[i] = chunk[at] /\ Level[i] = 1 /\ Level'[i] = d
  <2>1. \A k \in 1 .. Size : /\ Word[k] = Item(k)[1] /\ Level[k] = Item(k)[2]
                             /\ Word'[k] = Item(k)'[1] /\ Level'[k] = Item(k)'[2]
    BY <1>1, <1>4 DEF Laid
  <2> HIDE DEF i, d
  <2> QED BY <1>6, <1>7, <2>1
<1>9. Aligned' /\ Word' = Word
  <2> HIDE DEF i, d
  <2>1. Aligned
    BY DEF IInvAligned
  <2>2. Level[i] <= Level'[i]
    BY <1>5, <1>8
  <2>3. \A s \in DOMAIN merges : Level[i] <= s /\ s < Level'[i] => merges[s][1] # Word[i]
    BY <1>5, <1>8
  <2> QED BY <1>1, <1>2, <1>4, <1>8, <2>1, <2>2, <2>3, Relevelled
<1>10. Destined'
  BY <1>2, <1>3, <1>5 DEF Destined
<1> QED BY <1>2, <1>9, <1>10

LEMMA FlushTopAligned ==
  ASSUME IInvAligned, TypeOK', FlushTop
  PROVE  Destined' /\ Aligned' /\ engine' = "stream" /\ Word' = Word
<1> DEFINE top == Last(state)
           d == NextToken1Dest(top)
           i == AtTodo
<1>1. Laid /\ Laid' /\ Sizes /\ Sizes'
  BY LaidOut, LaidOutNext, Sized, SizedNext DEF IInvAligned, IInv
<1>2. /\ engine = "stream" /\ todo = <<>> /\ at > Len(chunk) /\ state # <<>>
      /\ todo' = << <<merges[top][1], d>> >> /\ state' = Front(state)
      /\ merges' = merges /\ engine' = engine /\ chunk' = chunk /\ at' = at
      /\ out' = out /\ mark' = mark
  BY DEF FlushTop
<1>3. /\ Len(todo) = 0 /\ Len(todo') = 1 /\ DOMAIN todo' = {1}
      /\ todo'[1] = <<merges[top][1], d>>
  BY <1>2
<1>4. /\ Len(state) \in Nat \ {0} /\ Len(state') = Len(state) - 1
      /\ top = state[Len(state)] /\ top \in DOMAIN merges
      /\ \A j \in 1 .. Len(state) - 1 : state'[j] = state[j]
  <2>1. state \in Seq(DOMAIN merges)
    BY DEF IInvAligned, IInv, TypeOK
  <2> QED BY <1>2, <2>1, Popping
<1>5. /\ AtStack' = AtStack /\ AtTodo = AtStack + Len(state) /\ AtTodo' = AtTodo - 1
      /\ AtRest = AtTodo /\ AtRest' = AtTodo /\ Size = AtTodo /\ Size' = Size
  <2>1. Len(state) \in Nat /\ Len(state') = Len(state) - 1 /\ Len(todo') = 1 /\ Len(todo) = 0
    BY <1>3, <1>4
  <2>2. at = Len(chunk) + 1 /\ at' = at /\ Len(chunk) \in Nat /\ Len(chunk') = Len(chunk)
    <3>1. at \in Nat /\ Len(chunk) \in Nat /\ at <= Len(chunk) + 1
      BY <1>1 DEF Sizes
    <3>2. at > Len(chunk) /\ at' = at /\ chunk' = chunk
      BY <1>2
    <3> QED BY <3>1, <3>2
  <2>3. AtStack' = AtStack /\ AtTodo = AtStack + Len(state) /\ AtRest = AtTodo /\ AtStack \in Nat
    BY <1>1, <1>2, <2>1 DEF Sizes
  <2>4. AtTodo' = AtStack + (Len(state) - 1) /\ AtRest' = AtTodo' + 1
    BY <1>1, <2>1, <2>3 DEF Sizes
  <2>5. Size = AtRest + 0 /\ Size' = AtRest' + 0
    BY <1>1, <2>2 DEF Sizes
  <2> QED BY <2>1, <2>3, <2>4, <2>5
<1>12. AtStack \in Nat /\ AtTodo \in Nat /\ Len(state) \in Nat /\ 0 < Len(state)
  BY <1>1, <1>4 DEF Sizes
<1>6. d \in Nat /\ top < d /\ top \in Nat
      /\ (d # NoRank => merges[d][1] = merges[top][1])
  BY <1>1, <1>4, JumpsToNext, JumpsForward DEF Laid, NextToken1Dest
<1>7. ASSUME NEW k \in 1 .. Size
      PROVE  IF k = i THEN Item(k) = <<merges[top][1], top>> /\ Item(k)' = <<merges[top][1], d>>
             ELSE Item(k)' = Item(k)
  <2> HIDE DEF d, top
  <2>1. CASE k <= AtStack
    <3>1. k # i /\ k <= AtStack'
      BY <1>5, <1>12, <2>1
    <3> QED BY <1>2, <2>1, <3>1 DEF Item
  <2>2. CASE ~(k <= AtStack) /\ k < AtTodo
    <3>1. /\ k # i /\ k <= AtTodo /\ k <= AtTodo' /\ k - AtStack \in 1 .. Len(state) - 1
      BY <1>5, <1>12, <2>2
    <3> QED BY <1>2, <1>4, <1>5, <2>2, <3>1 DEF Item
  <2>3. CASE k = i
    <3>1. /\ ~(k <= AtStack) /\ k <= AtTodo /\ ~(k <= AtTodo') /\ k <= AtRest'
          /\ k - AtStack = Len(state) /\ AtRest' + 1 - k = 1
      BY <1>5, <1>12, <2>3
    <3> QED BY <1>3, <1>4, <1>5, <2>3, <3>1 DEF Item
  <2>4. k \in Nat /\ k <= AtTodo /\ AtTodo \in Nat /\ AtStack \in Nat
    BY <1>5, <1>12
  <2> QED BY <2>1, <2>2, <2>3, <2>4
<1>8. i \in 1 .. Size /\ i \notin 1 .. Size - 1
  <2> QED BY <1>5, <1>12
<1>9. /\ \A k \in 1 .. Size : Word'[k] = Word[k]
      /\ \A k \in 1 .. Size : k # i => Level'[k] = Level[k]
      /\ Level[i] = top /\ Level'[i] = d
  <2>1. \A k \in 1 .. Size : /\ Word[k] = Item(k)[1] /\ Level[k] = Item(k)[2]
                             /\ Word'[k] = Item(k)'[1] /\ Level'[k] = Item(k)'[2]
    BY <1>1, <1>5 DEF Laid
  <2> HIDE DEF i, d, top
  <2> QED BY <1>7, <1>8, <2>1
<1>10. Aligned' /\ Word' = Word
  <2> HIDE DEF i, d, top
  <2>1. Aligned
    BY DEF IInvAligned
  <2>2. Level[i] <= Level'[i]
    BY <1>6, <1>9
  <2> QED BY <1>1, <1>2, <1>5, <1>8, <1>9, <2>1, <2>2, Relevelled
<1>11. Destined'
  BY <1>2, <1>3, <1>6 DEF Destined
<1> QED BY <1>2, <1>10, <1>11
-----------------------------------------------------------------------------
(* push_token's loop works on the token behind the stack.                  *)
LEMMA Taking ==
  ASSUME IInvAligned, Processing
  PROVE  /\ Laid /\ Sizes /\ engine = "stream"
         /\ Len(todo) \in Nat /\ 1 <= Len(todo)
         /\ todo[Len(todo)] = <<tok, dest>>
         /\ tok \in Token /\ dest \in DOMAIN merges \cup {NoRank}
         /\ dest # NoRank => merges[dest][1] = tok
         /\ Front(todo) \in Seq(Work) /\ Len(Front(todo)) = Len(todo) - 1
         /\ \A j \in 1 .. Len(todo) - 1 : Front(todo)[j] = todo[j]
         /\ AtTodo + 1 \in 1 .. Size /\ Item(AtTodo + 1) = <<tok, dest>>
<1>1. Laid /\ Sizes /\ todo \in Seq(Work) /\ engine = "stream" /\ todo # <<>>
  BY LaidOut, Sized DEF IInvAligned, IInv, TypeOK, Work, Processing
<1>2. /\ Len(todo) \in Nat \ {0} /\ Last(todo) = todo[Len(todo)] /\ Last(todo) \in Work
      /\ Front(todo) \in Seq(Work) /\ Len(Front(todo)) = Len(todo) - 1
      /\ \A j \in 1 .. Len(todo) - 1 : Front(todo)[j] = todo[j]
  BY <1>1, Popping
<1>3. /\ todo[Len(todo)] = <<tok, dest>>
      /\ tok \in Token /\ dest \in DOMAIN merges \cup {NoRank}
  <2>1. PICK e : e = Last(todo) /\ e \in Work
    BY <1>2
  <2>2. tok = e[1] /\ dest = e[2]
    BY <2>1 DEF tok, dest
  <2> QED BY <1>2, <2>1, <2>2 DEF Work
<1>4. Len(todo) \in DOMAIN todo
  BY <1>1, <1>2, LenProperties
<1>5. dest # NoRank => merges[dest][1] = tok
  BY <1>3, <1>4 DEF IInvAligned, Destined
<1>6. Len(todo) \in Nat /\ 1 <= Len(todo)
  BY <1>2
<1>7. AtTodo + 1 \in 1 .. Size /\ Item(AtTodo + 1) = <<tok, dest>>
  <2>1. /\ AtStack \in Nat /\ AtTodo \in Nat /\ AtRest \in Nat /\ Size \in Nat
        /\ AtStack <= AtTodo /\ AtRest = AtTodo + Len(todo) /\ AtRest <= Size
    BY <1>1 DEF Sizes
  <2>2. /\ AtTodo + 1 \in 1 .. Size /\ ~(AtTodo + 1 <= AtStack) /\ ~(AtTodo + 1 <= AtTodo)
        /\ AtTodo + 1 <= AtRest /\ AtRest + 1 - (AtTodo + 1) = Len(todo)
    BY <1>6, <2>1
  <2> QED BY <1>3, <2>2 DEF Item
<1> QED BY <1>1, <1>2, <1>3, <1>5, <1>6, <1>7

(* Tokens that are left to process keep their destination, and a token that *)
(* is put on top of them brings one of its own.                            *)
LEMMA FrontDestined ==
  ASSUME IInvAligned, TypeOK', engine' = "stream", merges' = merges,
         Len(todo') <= Len(todo), \A j \in 1 .. Len(todo') : todo'[j] = todo[j]
  PROVE  Destined'
<1>1. /\ Len(todo) \in Nat /\ DOMAIN todo = 1 .. Len(todo)
      /\ Len(todo') \in Nat /\ DOMAIN todo' = 1 .. Len(todo')
  <2>1. todo \in Seq(Work) /\ todo' \in Seq(Work')
    BY DEF IInvAligned, IInv, TypeOK, Work
  <2> QED BY <2>1, LenProperties
<1>2. \A j \in DOMAIN todo' : j \in DOMAIN todo /\ todo'[j] = todo[j]
  BY <1>1
<1>3. \A j \in DOMAIN todo : todo[j][2] # NoRank => merges[todo[j][2]][1] = todo[j][1]
  BY DEF IInvAligned, Destined
<1> QED BY <1>2, <1>3 DEF Destined

LEMMA TopDestined ==
  ASSUME IInvAligned, TypeOK', engine' = "stream", merges' = merges,
         NEW n \in Nat, Len(todo') = n + 1, n <= Len(todo),
         \A j \in 1 .. n : todo'[j] = todo[j],
         NEW t, NEW d, todo'[n + 1] = <<t, d>>, d # NoRank => merges[d][1] = t
  PROVE  Destined'
<1>1. /\ Len(todo) \in Nat /\ DOMAIN todo = 1 .. Len(todo)
      /\ DOMAIN todo' = 1 .. n + 1
  <2>1. todo \in Seq(Work) /\ todo' \in Seq(Work')
    BY DEF IInvAligned, IInv, TypeOK, Work
  <2> QED BY <2>1, LenProperties
<1>2. \A j \in DOMAIN todo' : j = n + 1 \/ (j \in 1 .. n /\ j \in DOMAIN todo)
  BY <1>1
<1>3. \A j \in DOMAIN todo : todo[j][2] # NoRank => merges[todo[j][2]][1] = todo[j][1]
  BY DEF IInvAligned, Destined
<1> QED BY <1>2, <1>3 DEF Destined

(* What the word and its levels are, item by item.                         *)
LEMMA ByItem ==
  ASSUME Laid, Laid', Size' = Size, \A k \in 1 .. Size : Item(k)' = Item(k)
  PROVE  \A k \in 1 .. Size : Word'[k] = Word[k] /\ Level'[k] = Level[k]
<1>1. \A k \in 1 .. Size : /\ Word[k] = Item(k)[1] /\ Level[k] = Item(k)[2]
                           /\ Word'[k] = Item(k)'[1] /\ Level'[k] = Item(k)'[2]
  BY DEF Laid
<1> QED BY <1>1

(* A step that moves no token and changes no level.                        *)
LEMMA SameItems ==
  ASSUME Laid, Laid', Aligned, engine = "stream", merges' = merges, chunk' = chunk,
         Size' = Size, \A k \in 1 .. Size : Item(k)' = Item(k)
  PROVE  Aligned' /\ Word' = Word
<1>1. \A k \in 1 .. Size : Word'[k] = Word[k] /\ Level'[k] = Level[k]
  BY ByItem
<1>2. Size \in Nat
  BY DEF Laid
<1>3. PICK i : i = 0
  OBVIOUS
<1>4. i \notin 1 .. Size /\ i \notin 1 .. Size - 1
  BY <1>2, <1>3
<1> QED BY <1>1, <1>4, Relevelled

LEMMA EmitAligned ==
  ASSUME IInvAligned, TypeOK', Emit
  PROVE  Destined' /\ Aligned' /\ engine' = "stream" /\ Word' = Word
<1>1. /\ Laid /\ Laid' /\ Sizes /\ Sizes' /\ engine = "stream" /\ Aligned
      /\ Len(todo) \in Nat /\ 1 <= Len(todo) /\ todo[Len(todo)] = <<tok, dest>>
      /\ tok \in Token /\ Len(todo') = Len(todo) - 1
      /\ \A j \in 1 .. Len(todo) - 1 : todo'[j] = todo[j]
  BY Taking, LaidOutNext, SizedNext DEF IInvAligned, Emit
<1>2. /\ state = <<>> /\ dest = NoRank /\ out' = Append(out, tok) /\ state' = state
      /\ merges' = merges /\ engine' = engine /\ chunk' = chunk /\ at' = at /\ mark' = mark
  BY DEF Emit
<1>3. /\ Len(out') = Len(out) + 1 /\ out'[Len(out) + 1] = tok
      /\ \A j \in 1 .. Len(out) : out'[j] = out[j] /\ Len(out) \in Nat
  <2>1. out \in Seq(Token)
    BY DEF IInvAligned, IInv, TypeOK
  <2> QED BY <1>1, <1>2, <2>1, AppendProperties, LenProperties
<1>4. /\ AtStack \in Nat /\ AtStack + mark = Len(out) /\ mark \in Nat
      /\ AtTodo = AtStack /\ AtRest = AtTodo + Len(todo) /\ AtRest \in Nat
  <2>1. Len(state) = 0
    BY <1>2
  <2> QED BY <1>1, <2>1 DEF Sizes
<1>5. AtStack' = AtStack + 1 /\ AtTodo' = AtTodo + 1 /\ AtRest' = AtRest /\ Size' = Size
  <2>1. AtStack' = Len(out') - mark' /\ AtTodo' = AtStack' + Len(state') /\ Len(state') = 0
    BY <1>1, <1>2 DEF Sizes
  <2>2. AtStack' = AtStack + 1
    <3>1. AtStack' = (Len(out) + 1) - mark
      BY <1>2, <1>3, <2>1
    <3>2. Len(out) \in Nat
      BY <1>1 DEF Sizes
    <3> QED BY <1>4, <3>1, <3>2
  <2>3. AtTodo' = AtTodo + 1
    BY <1>4, <2>1, <2>2
  <2>4. AtRest' = AtRest
    <3>1. AtRest' = AtTodo' + Len(todo')
      BY <1>1 DEF Sizes
    <3> QED BY <1>1, <1>4, <2>3, <3>1
  <2>5. Size' = Size
    BY <1>1, <1>2, <2>4 DEF Sizes
  <2> QED BY <2>2, <2>3, <2>4, <2>5
<1>6. ASSUME NEW k \in 1 .. Size
      PROVE  Item(k)' = Item(k)
  <2>0. k \in Nat /\ 1 <= k
    OBVIOUS
  <2>1. CASE k <= AtStack
    <3>1. mark + k \in 1 .. Len(out) /\ k <= AtStack'
      BY <1>4, <1>5, <2>0, <2>1
    <3> QED BY <1>2, <1>3, <2>1, <3>1 DEF Item
  <2>2. CASE k = AtTodo + 1
    <3>1. /\ ~(k <= AtStack) /\ ~(k <= AtTodo) /\ k <= AtRest /\ AtRest + 1 - k = Len(todo)
          /\ k <= AtStack' /\ mark + k = Len(out) + 1
      BY <1>1, <1>4, <1>5, <2>0, <2>2, SMTT(20)
    <3> QED BY <1>1, <1>2, <1>3, <3>1 DEF Item
  <2>3. CASE k > AtTodo + 1 /\ k <= AtRest
    <3>1. /\ ~(k <= AtStack) /\ ~(k <= AtTodo) /\ ~(k <= AtStack') /\ ~(k <= AtTodo')
          /\ AtRest + 1 - k \in 1 .. Len(todo) - 1
      BY <1>1, <1>4, <1>5, <2>0, <2>3
    <3> QED BY <1>1, <1>5, <2>3, <3>1 DEF Item
  <2>4. CASE k > AtRest
    <3>1. /\ ~(k <= AtStack) /\ ~(k <= AtTodo) /\ ~(k <= AtStack') /\ ~(k <= AtTodo')
          /\ ~(k <= AtRest)
      BY <1>1, <1>4, <1>5, <2>0, <2>4
    <3> QED BY <1>2, <1>5, <3>1 DEF Item
  <2> QED BY <1>4, <2>0, <2>1, <2>2, <2>3, <2>4
<1>7. Aligned' /\ Word' = Word
  BY <1>1, <1>2, <1>5, <1>6, SameItems
<1>8. Destined'
  BY <1>1, <1>2, FrontDestined DEF IInvAligned, Emit
<1> QED BY <1>1, <1>2, <1>7, <1>8

LEMMA OpenAligned ==
  ASSUME IInvAligned, TypeOK', Open
  PROVE  Destined' /\ Aligned' /\ engine' = "stream" /\ Word' = Word
<1>1. /\ Laid /\ Laid' /\ Sizes /\ Sizes' /\ engine = "stream" /\ Aligned
      /\ Len(todo) \in Nat /\ 1 <= Len(todo) /\ todo[Len(todo)] = <<tok, dest>>
      /\ Len(todo') = Len(todo) - 1
      /\ \A j \in 1 .. Len(todo) - 1 : todo'[j] = todo[j]
      /\ dest \in DOMAIN merges /\ merges[dest][1] = tok
  BY Taking, LaidOutNext, SizedNext DEF IInvAligned, Open, Opens
<1>2. /\ state' = Append(state, dest) /\ out' = out
      /\ merges' = merges /\ engine' = engine /\ chunk' = chunk /\ at' = at /\ mark' = mark
  BY DEF Open
<1>3. /\ Len(state') = Len(state) + 1 /\ state'[Len(state) + 1] = dest
      /\ \A j \in 1 .. Len(state) : state'[j] = state[j]
  <2>1. state \in Seq(DOMAIN merges)
    BY DEF IInvAligned, IInv, TypeOK
  <2> QED BY <1>1, <1>2, <2>1, AppendProperties, LenProperties
<1>4. /\ AtStack \in Nat /\ AtTodo \in Nat /\ AtRest \in Nat /\ Len(state) \in Nat
      /\ AtTodo = AtStack + Len(state) /\ AtRest = AtTodo + Len(todo)
  BY <1>1 DEF Sizes
<1>5. AtStack' = AtStack /\ AtTodo' = AtTodo + 1 /\ AtRest' = AtRest /\ Size' = Size
  <2>1. AtStack' = AtStack /\ AtTodo' = AtStack' + Len(state') /\ AtRest' = AtTodo' + Len(todo')
    BY <1>1, <1>2 DEF Sizes
  <2>2. AtTodo' = AtTodo + 1
    BY <1>3, <1>4, <2>1
  <2>3. AtRest' = AtRest
    <3>1. Len(todo') = Len(todo) - 1 /\ Len(todo) \in Nat
      BY <1>1
    <3>2. AtRest' = (AtTodo + 1) + (Len(todo) - 1)
      BY <2>1, <2>2, <3>1
    <3> QED BY <1>4, <3>1, <3>2
  <2>4. Size' = Size
    BY <1>1, <1>2, <2>3 DEF Sizes
  <2> QED BY <2>1, <2>2, <2>3, <2>4
<1>6. ASSUME NEW k \in 1 .. Size
      PROVE  Item(k)' = Item(k)
  <2>0. k \in Nat /\ 1 <= k
    OBVIOUS
  <2>1. CASE k <= AtStack
    BY <1>2, <1>5, <2>1 DEF Item
  <2>2. CASE ~(k <= AtStack) /\ k <= AtTodo
    <3>1. k <= AtTodo' /\ k - AtStack \in 1 .. Len(state)
      BY <1>4, <1>5, <2>0, <2>2
    <3> QED BY <1>2, <1>3, <1>5, <2>2, <3>1 DEF Item
  <2>3. CASE k = AtTodo + 1
    <3>1. /\ ~(k <= AtStack) /\ ~(k <= AtTodo) /\ k <= AtRest /\ AtRest + 1 - k = Len(todo)
          /\ k <= AtTodo' /\ k - AtStack = Len(state) + 1
      BY <1>1, <1>4, <1>5, <2>0, <2>3
    <3> QED BY <1>1, <1>2, <1>3, <1>5, <3>1 DEF Item
  <2>4. CASE k > AtTodo + 1 /\ k <= AtRest
    <3>1. /\ ~(k <= AtStack) /\ ~(k <= AtTodo) /\ ~(k <= AtTodo')
          /\ AtRest + 1 - k \in 1 .. Len(todo) - 1
      BY <1>1, <1>4, <1>5, <2>0, <2>4
    <3> QED BY <1>1, <1>5, <2>4, <3>1 DEF Item
  <2>5. CASE k > AtRest
    <3>1. ~(k <= AtStack) /\ ~(k <= AtTodo) /\ ~(k <= AtTodo') /\ ~(k <= AtRest)
      BY <1>1, <1>4, <1>5, <2>0, <2>5
    <3> QED BY <1>2, <1>5, <3>1 DEF Item
  <2> QED BY <1>4, <2>0, <2>1, <2>2, <2>3, <2>4, <2>5
<1>7. Aligned' /\ Word' = Word
  BY <1>1, <1>2, <1>5, <1>6, SameItems
<1>8. Destined'
  BY <1>1, <1>2, FrontDestined DEF IInvAligned, Open
<1> QED BY <1>1, <1>2, <1>7, <1>8

(* The top of the stack, and the tokens below it.                          *)
LEMMA Waiting ==
  ASSUME IInvAligned, state # <<>>
  PROVE  /\ Len(state) \in Nat /\ 1 <= Len(state) /\ Last(state) = state[Len(state)]
         /\ Last(state) \in DOMAIN merges
         /\ Len(Front(state)) = Len(state) - 1
         /\ \A j \in 1 .. Len(state) - 1 : Front(state)[j] = state[j]
         /\ AtStack \in Nat /\ AtTodo \in Nat /\ AtStack + 1 <= AtTodo
         /\ AtTodo = AtStack + Len(state) /\ AtTodo <= Size /\ AtTodo \in 1 .. Size
         /\ Item(AtTodo) = <<merges[Last(state)][1], Last(state)>>
<1>1. state \in Seq(DOMAIN merges)
  BY DEF IInvAligned, IInv, TypeOK
<1>2. /\ Len(state) \in Nat \ {0} /\ Last(state) = state[Len(state)]
      /\ Last(state) \in DOMAIN merges
      /\ Len(Front(state)) = Len(state) - 1
      /\ \A j \in 1 .. Len(state) - 1 : Front(state)[j] = state[j]
  BY <1>1, Popping
<1>3. Len(state) \in Nat /\ 1 <= Len(state)
  BY <1>2
<1>4. /\ AtStack \in Nat /\ AtTodo \in Nat /\ AtTodo = AtStack + Len(state) /\ AtTodo <= Size
      /\ Size \in Nat
  BY Sized, SMTT(30) DEF IInvAligned, IInv, Sizes
<1>5. /\ AtStack + 1 <= AtTodo /\ AtTodo \in 1 .. Size /\ AtTodo - AtStack = Len(state)
      /\ ~(AtTodo <= AtStack)
  BY <1>3, <1>4
<1>6. Item(AtTodo) = <<merges[Last(state)][1], Last(state)>>
  BY <1>2, <1>4, <1>5 DEF Item
<1> QED BY <1>2, <1>3, <1>4, <1>5, <1>6

LEMMA FallThroughAligned ==
  ASSUME IInvAligned, TypeOK', FallThrough
  PROVE  Destined' /\ Aligned' /\ engine' = "stream" /\ Word' = Word
<1>1. PICK top, d, i : top = Last(state) /\ d = NextToken1Dest(top) /\ i = AtTodo
  OBVIOUS
<1>2. /\ Laid /\ Laid' /\ Sizes /\ Sizes' /\ engine = "stream" /\ Aligned
      /\ Len(todo) \in Nat /\ 1 <= Len(todo)
      /\ tok \in Token /\ dest \in DOMAIN merges \cup {NoRank}
      /\ i + 1 \in 1 .. Size /\ Item(i + 1) = <<tok, dest>>
  BY <1>1, Taking, LaidOutNext, SizedNext DEF IInvAligned, FallThrough
<1>3. /\ ~Opens /\ state # <<>> /\ tok # merges[top][2] /\ out' = out
      /\ todo' = Append(todo, <<merges[top][1], d>>) /\ state' = Front(state)
      /\ merges' = merges /\ engine' = engine /\ chunk' = chunk /\ at' = at /\ mark' = mark
  BY <1>1 DEF FallThrough
<1>4. /\ Len(state) \in Nat /\ 1 <= Len(state) /\ Len(state') = Len(state) - 1
      /\ top = state[Len(state)] /\ top \in DOMAIN merges
      /\ \A j \in 1 .. Len(state) - 1 : state'[j] = state[j]
      /\ AtStack \in Nat /\ AtTodo \in Nat /\ AtTodo = AtStack + Len(state)
      /\ i \in 1 .. Size /\ Item(i) = <<merges[top][1], top>>
  BY <1>1, <1>3, Waiting
<1>5. d \in Nat /\ top < d /\ top \in Nat
      /\ (\A s \in DOMAIN merges : top < s /\ s < d => merges[s][1] # merges[top][1])
      /\ (d # NoRank => merges[d][1] = merges[top][1])
      /\ d \in DOMAIN merges \cup {NoRank}
  BY <1>1, <1>2, <1>4, JumpsToNext, JumpsForward DEF Laid, NextToken1Dest
<1>6. /\ Len(todo') = Len(todo) + 1 /\ todo'[Len(todo) + 1] = <<merges[top][1], d>>
      /\ \A j \in 1 .. Len(todo) : todo'[j] = todo[j]
  <2>1. todo \in Seq(Work)
    BY DEF IInvAligned, IInv, TypeOK, Work
  <2>2. <<merges[top][1], d>> \in Work
    BY <1>2, <1>4, <1>5, MergeOfTable DEF Work, Laid
  <2> QED BY <1>3, <2>1, <2>2, AppendProperties
<1>7. AtRest \in Nat /\ AtRest = AtTodo + Len(todo) /\ Size \in Nat /\ AtRest <= Size
  BY <1>2 DEF Sizes
<1>8. AtStack' = AtStack /\ AtTodo' = AtTodo - 1 /\ AtRest' = AtRest /\ Size' = Size
  <2>1. AtStack' = AtStack /\ AtTodo' = AtStack' + Len(state') /\ AtRest' = AtTodo' + Len(todo')
    BY <1>2, <1>3 DEF Sizes
  <2>2. AtTodo' = AtTodo - 1
    BY <1>4, <2>1
  <2>3. AtRest' = AtRest
    <3>1. AtRest' = (AtTodo - 1) + (Len(todo) + 1)
      BY <1>6, <2>1, <2>2
    <3> QED BY <1>2, <1>4, <1>7, <3>1
  <2>4. Size' = Size
    BY <1>2, <1>3, <2>3 DEF Sizes
  <2> QED BY <2>1, <2>2, <2>3, <2>4
<1>9. ASSUME NEW k \in 1 .. Size
      PROVE  IF k = i THEN Item(k)' = <<merges[top][1], d>> ELSE Item(k)' = Item(k)
  <2>0. k \in Nat /\ 1 <= k
    OBVIOUS
  <2>1. CASE k <= AtStack
    <3>1. k # i
      BY <1>1, <1>4, <2>0, <2>1
    <3> QED BY <1>3, <1>8, <2>1, <3>1 DEF Item
  <2>2. CASE ~(k <= AtStack) /\ k < AtTodo
    <3>1. k # i /\ k <= AtTodo /\ k <= AtTodo' /\ k - AtStack \in 1 .. Len(state) - 1
      BY <1>1, <1>4, <1>8, <2>0, <2>2, SMTT(30)
    <3> QED BY <1>3, <1>4, <1>8, <2>2, <3>1 DEF Item
  <2>3. CASE k = AtTodo
    <3>1. ~(k <= AtStack) /\ ~(k <= AtTodo') /\ k <= AtRest /\ AtRest + 1 - k = Len(todo) + 1
      BY <1>2, <1>4, <1>7, <1>8, <2>0, <2>3
    <3> QED BY <1>1, <1>6, <1>8, <2>3, <3>1 DEF Item
  <2>4. CASE k > AtTodo /\ k <= AtRest
    <3>1. /\ ~(k <= AtStack) /\ ~(k <= AtTodo) /\ ~(k <= AtTodo') /\ k # i
          /\ AtRest + 1 - k \in 1 .. Len(todo)
      <4>1. /\ AtStack \in Nat /\ AtTodo \in Nat /\ i = AtTodo /\ Len(todo) \in Nat
            /\ AtStack <= AtTodo /\ AtTodo' = AtTodo - 1 /\ AtRest = AtTodo + Len(todo)
        BY <1>1, <1>2, <1>4, <1>7, <1>8
      <4> QED BY <2>0, <2>4, <4>1
    <3> QED BY <1>6, <1>8, <2>4, <3>1 DEF Item
  <2>5. CASE k > AtRest
    <3>1. ~(k <= AtStack) /\ ~(k <= AtTodo) /\ ~(k <= AtTodo') /\ ~(k <= AtRest) /\ k # i
      BY <1>1, <1>2, <1>4, <1>7, <1>8, <2>0, <2>5
    <3> QED BY <1>3, <1>8, <3>1 DEF Item
  <2> QED BY <1>4, <1>7, <2>0, <2>1, <2>2, <2>3, <2>4, <2>5
<1>10. /\ \A k \in 1 .. Size : Word'[k] = Word[k]
       /\ \A k \in 1 .. Size : k # i => Level'[k] = Level[k]
       /\ Word[i] = merges[top][1] /\ Level[i] = top /\ Level'[i] = d
       /\ Word[i + 1] = tok /\ Level[i + 1] = dest
  <2>1. \A k \in 1 .. Size : /\ Word[k] = Item(k)[1] /\ Level[k] = Item(k)[2]
                             /\ Word'[k] = Item(k)'[1] /\ Level'[k] = Item(k)'[2]
    BY <1>2, <1>8 DEF Laid
  <2> QED BY <1>2, <1>4, <1>9, <2>1
<1>11. ASSUME NEW s \in DOMAIN merges, Level[i] <= s, s < Level'[i], merges[s][1] = Word[i]
       PROVE  s <= Level[i + 1] /\ merges[s][2] # Word[i + 1]
  <2>1. DOMAIN merges \subseteq Nat /\ NoRank \in Nat /\ \A r \in DOMAIN merges : r < NoRank
    BY <1>2, RanksOrdered
  <2>2. s = top
    BY <1>5, <1>10, <1>11, <2>1
  <2>3. top <= dest
    <3>1. CASE dest = NoRank
      BY <1>4, <2>1, <3>1
    <3>2. CASE dest # NoRank
      <4>1. ~(dest < top) /\ dest \in DOMAIN merges
        BY <1>1, <1>2, <1>3, <3>2 DEF Opens
      <4> QED BY <1>5, <2>1, <4>1
    <3> QED BY <3>1, <3>2
  <2> QED BY <1>3, <1>10, <2>2, <2>3
<1>12. Aligned' /\ Word' = Word
  <2>1. Level[i] <= Level'[i]
    BY <1>5, <1>10
  <2> QED BY <1>2, <1>3, <1>8, <1>10, <1>11, <2>1, Relevelled
<1>13. Destined'
  BY <1>2, <1>3, <1>5, <1>6, TopDestined, SMTT(30)
<1> QED BY <1>2, <1>3, <1>12, <1>13

(* Merge r of the table, applied at token i.                               *)
Applies(w, v, i, r) ==
    /\ r \in DOMAIN merges /\ i \in 1 .. Len(w) - 1 /\ Len(v) = Len(w) - 1
    /\ w[i] = merges[r][1] /\ w[i + 1] = merges[r][2] /\ v[i] = merges[r][3]
    /\ \A k \in 1 .. Len(w) - 1 : k < i => v[k] = w[k]
    /\ \A k \in 1 .. Len(w) - 1 : k > i => v[k] = w[k + 1]

LEMMA CompleteAligned ==
  ASSUME IInvAligned, TypeOK', Complete
  PROVE  /\ Destined' /\ Aligned' /\ engine' = "stream"
         /\ \E k, r : Applies(Word, Word', k, r)
<1>1. PICK top, d, i, n : top = Last(state) /\ d = NextTargetDest(top) /\ i = AtTodo
                          /\ n = Len(todo)
  OBVIOUS
<1>2. /\ Laid /\ Laid' /\ Sizes /\ Sizes' /\ engine = "stream" /\ Aligned
      /\ n \in Nat /\ 1 <= n
      /\ tok \in Token /\ dest \in DOMAIN merges \cup {NoRank}
      /\ Front(todo) \in Seq(Work) /\ Len(Front(todo)) = n - 1
      /\ \A j \in 1 .. n - 1 : Front(todo)[j] = todo[j]
      /\ i + 1 \in 1 .. Size /\ Item(i + 1) = <<tok, dest>>
  BY <1>1, Taking, LaidOutNext, SizedNext DEF IInvAligned, Complete
<1>3. /\ ~Opens /\ state # <<>> /\ tok = merges[top][2] /\ out' = out
      /\ todo' = Append(Front(todo), <<merges[top][3], d>>) /\ state' = Front(state)
      /\ merges' = merges /\ engine' = engine /\ chunk' = chunk /\ at' = at /\ mark' = mark
  BY <1>1 DEF Complete
<1>4. /\ Len(state) \in Nat /\ 1 <= Len(state) /\ Len(state') = Len(state) - 1
      /\ top = state[Len(state)] /\ top \in DOMAIN merges
      /\ \A j \in 1 .. Len(state) - 1 : state'[j] = state[j]
      /\ AtStack \in Nat /\ AtTodo \in Nat /\ AtTodo = AtStack + Len(state)
      /\ i \in 1 .. Size /\ Item(i) = <<merges[top][1], top>>
  BY <1>1, <1>3, Waiting
<1>5. d \in Nat /\ top < d /\ top \in Nat
      /\ (\A s \in DOMAIN merges : top < s /\ s < d => merges[s][1] # merges[top][3])
      /\ (d # NoRank => merges[d][1] = merges[top][3])
      /\ d \in DOMAIN merges \cup {NoRank}
  BY <1>1, <1>2, <1>4, JumpsToNext, JumpsForward DEF Laid, NextTargetDest
<1>6. /\ Len(todo') = n /\ todo'[n] = <<merges[top][3], d>>
      /\ \A j \in 1 .. n - 1 : todo'[j] = Front(todo)[j]
  <2>1. <<merges[top][3], d>> \in Work
    BY <1>2, <1>4, <1>5, MergeOfTable DEF Work, Laid
  <2>2. PICK f, e : f = Front(todo) /\ e = <<merges[top][3], d>>
    OBVIOUS
  <2>3. /\ Len(todo') = (n - 1) + 1 /\ todo'[(n - 1) + 1] = e
        /\ \A j \in 1 .. n - 1 : todo'[j] = f[j]
    BY <1>2, <1>3, <2>1, <2>2, AppendProperties
  <2>4. (n - 1) + 1 = n
    BY <1>2
  <2> QED BY <1>2, <2>2, <2>3, <2>4
<1>7. /\ AtRest \in Nat /\ AtRest = AtTodo + n /\ Size \in Nat /\ AtRest <= Size
      /\ i \in Nat /\ AtStack + 1 <= i /\ i + 1 <= AtRest /\ i + 1 <= Size
      /\ AtStack \in Nat /\ AtTodo = i /\ n \in Nat /\ AtStack <= i /\ i <= AtRest - 1
  <2>1. AtRest \in Nat /\ AtRest = AtTodo + n /\ Size \in Nat /\ AtRest <= Size
    BY <1>1, <1>2 DEF Sizes
  <2>2. AtStack \in Nat /\ AtTodo = i /\ n \in Nat /\ 1 <= n
    BY <1>1, <1>2, <1>4
  <2>3. i \in Nat /\ AtStack + 1 <= i /\ AtStack <= i
    <3>1. i = AtStack + Len(state) /\ Len(state) \in Nat /\ 1 <= Len(state)
      BY <1>1, <1>4
    <3> QED BY <2>2, <3>1
  <2>4. i + 1 <= AtRest /\ i + 1 <= Size /\ i <= AtRest - 1
    BY <2>1, <2>2, <2>3
  <2> QED BY <2>1, <2>2, <2>3, <2>4
<1>8. AtStack' = AtStack /\ AtTodo' = i - 1 /\ AtRest' = AtRest - 1 /\ Size' = Size - 1
  <2>1. AtStack' = AtStack /\ AtTodo' = AtStack' + Len(state') /\ AtRest' = AtTodo' + Len(todo')
    BY <1>2, <1>3 DEF Sizes
  <2>2. AtTodo' = i - 1
    BY <1>1, <1>4, <2>1
  <2>3. AtRest' = AtRest - 1
    <3>1. AtRest' = (i - 1) + n
      BY <1>6, <2>1, <2>2
    <3> QED BY <1>1, <1>2, <1>4, <1>7, <3>1
  <2>4. Size' = Size - 1
    <3>1. PICK x : x = Len(chunk) + 1 - at
      OBVIOUS
    <3>2. at \in Nat /\ Len(chunk) \in Nat /\ at <= Len(chunk) + 1 /\ Size = AtRest + x
      BY <1>2, <3>1 DEF Sizes
    <3>3. Size' = AtRest' + (Len(chunk') + 1 - at')
      BY <1>2 DEF Sizes
    <3>4. x \in Nat /\ Size' = (AtRest - 1) + x
      BY <1>3, <2>3, <3>1, <3>2, <3>3
    <3> QED BY <1>7, <3>2, <3>4
  <2> QED BY <2>1, <2>2, <2>3, <2>4
<1>9. ASSUME NEW k \in 1 .. Size - 1
      PROVE  Item(k)' = IF k < i THEN Item(k)
                        ELSE IF k = i THEN <<merges[top][3], d>> ELSE Item(k + 1)
  <2>0. k \in Nat /\ 1 <= k
    BY <1>7
  <2>1. CASE k <= AtStack
    <3>1. k < i
      BY <1>4, <1>7, <2>0, <2>1
    <3> QED BY <1>3, <1>8, <2>1, <3>1 DEF Item
  <2>2. CASE ~(k <= AtStack) /\ k < i
    <3>1. k <= AtTodo /\ k <= i - 1 /\ k - AtStack \in 1 .. Len(state) - 1
      BY <1>1, <1>4, <2>0, <2>2
    <3> QED BY <1>3, <1>4, <1>8, <2>2, <3>1 DEF Item
  <2>3. CASE k = i
    <3>1. /\ ~(k <= AtStack) /\ ~(k <= i - 1) /\ k <= AtRest - 1
          /\ (AtRest - 1) + 1 - k = n /\ ~(k < i)
      <4>1. /\ AtStack \in Nat /\ i \in Nat /\ AtRest \in Nat
            /\ AtStack + 1 <= i /\ i <= AtRest - 1 /\ n \in Nat /\ AtRest = i + n
        BY <1>7
      <4> QED BY <2>0, <2>3, <4>1
    <3> QED BY <1>6, <1>8, <2>3, <3>1 DEF Item
  <2>4. CASE k > i /\ k <= AtRest - 1
    <3>1. /\ ~(k <= AtStack) /\ ~(k <= i - 1) /\ ~(k < i) /\ k # i
          /\ (AtRest - 1) + 1 - k \in 1 .. n - 1
          /\ ~(k + 1 <= AtStack) /\ ~(k + 1 <= AtTodo) /\ k + 1 <= AtRest
          /\ (AtRest - 1) + 1 - k = AtRest + 1 - (k + 1)
      <4>1. /\ AtStack \in Nat /\ AtTodo = i /\ i \in Nat /\ AtRest \in Nat
            /\ AtStack <= i /\ i <= AtRest - 1 /\ n \in Nat /\ AtRest = i + n
        BY <1>7
      <4> QED BY <2>0, <2>4, <4>1
    <3>2. todo'[(AtRest - 1) + 1 - k] = todo[(AtRest - 1) + 1 - k]
      BY <1>2, <1>6, <3>1
    <3> QED BY <1>8, <2>4, <3>1, <3>2 DEF Item
  <2>5. CASE k > AtRest - 1
    <3>1. /\ ~(k <= AtStack) /\ ~(k <= i - 1) /\ ~(k <= AtRest - 1) /\ ~(k < i) /\ k # i
          /\ ~(k + 1 <= AtStack) /\ ~(k + 1 <= AtTodo) /\ ~(k + 1 <= AtRest)
          /\ k - (AtRest - 1) = (k + 1) - AtRest
      <4>1. /\ AtStack \in Nat /\ AtTodo = i /\ i \in Nat /\ AtRest \in Nat
            /\ AtStack <= i /\ i <= AtRest - 1
        BY <1>7
      <4> QED BY <2>0, <2>5, <4>1
    <3> QED BY <1>3, <1>8, <3>1 DEF Item
  <2> QED BY <1>7, <2>0, <2>1, <2>2, <2>3, <2>4, <2>5
<1>10. PICK w, lv, v, mv, sz : w = Word /\ lv = Level /\ v = Word' /\ mv = Level' /\ sz = Size
  OBVIOUS
<1>11. /\ IsTable(merges) /\ w \in Seq(Token) /\ Len(w) = sz /\ lv \in [1 .. sz -> Nat]
       /\ v \in Seq(Token) /\ Len(v) = sz - 1 /\ mv \in [1 .. sz - 1 -> Nat]
       /\ \A k \in 1 .. sz : w[k] = Item(k)[1] /\ lv[k] = Item(k)[2]
       /\ \A k \in 1 .. sz - 1 : v[k] = Item(k)'[1] /\ mv[k] = Item(k)'[2]
  BY <1>2, <1>8, <1>10 DEF Laid
<1>12. /\ w[i] = merges[top][1] /\ lv[i] = top /\ w[i + 1] = tok /\ lv[i + 1] = dest
       /\ i \in 1 .. sz - 1
       /\ \A k \in 1 .. sz - 1 : v[k] = IF k < i THEN w[k]
                                        ELSE IF k = i THEN merges[top][3] ELSE w[k + 1]
       /\ \A k \in 1 .. sz - 1 : mv[k] = IF k < i THEN lv[k]
                                        ELSE IF k = i THEN d ELSE lv[k + 1]
  <2>1. i \in 1 .. sz - 1 /\ \A k \in 1 .. sz - 1 : k \in 1 .. sz /\ k + 1 \in 1 .. sz
    BY <1>4, <1>7, <1>10
  <2>2. w[i] = merges[top][1] /\ lv[i] = top /\ w[i + 1] = tok /\ lv[i + 1] = dest
    BY <1>2, <1>4, <1>10, <1>11, SMTT(20)
  <2>3. ASSUME NEW k \in 1 .. sz - 1
        PROVE  /\ v[k] = IF k < i THEN w[k] ELSE IF k = i THEN merges[top][3] ELSE w[k + 1]
               /\ mv[k] = IF k < i THEN lv[k] ELSE IF k = i THEN d ELSE lv[k + 1]
    <3>1. PICK a, b, e : a = Item(k) /\ b = Item(k + 1) /\ e = Item(k)'
      OBVIOUS
    <3>2. /\ w[k] = a[1] /\ lv[k] = a[2] /\ w[k + 1] = b[1] /\ lv[k + 1] = b[2]
          /\ v[k] = e[1] /\ mv[k] = e[2]
      BY <1>11, <2>1, <3>1
    <3>3. e = IF k < i THEN a ELSE IF k = i THEN <<merges[top][3], d>> ELSE b
      BY <1>9, <1>10, <3>1
    <3> QED BY <3>2, <3>3
  <2> QED BY <2>1, <2>2, <2>3
<1>13. ASSUME NEW p \in 1 .. i - 1 PROVE top < lv[p]
  <2>1. p \in Nat /\ 1 <= p /\ p <= i - 1 /\ p \in 1 .. sz
    BY <1>7, <1>10
  <2>2. lv[p] = Item(p)[2]
    BY <1>11, <2>1
  <2>3. CASE p <= AtStack
    <3>1. lv[p] = NoRank
      BY <2>2, <2>3 DEF Item
    <3> QED BY <1>2, <1>4, <3>1, RanksOrdered
  <2>4. CASE ~(p <= AtStack)
    <3>1. p <= AtTodo /\ p - AtStack \in 1 .. Len(state) /\ Len(state) \in 1 .. Len(state)
          /\ p - AtStack < Len(state)
      BY <1>1, <1>4, <2>1, <2>4
    <3>2. lv[p] = state[p - AtStack]
      BY <2>2, <2>4, <3>1 DEF Item
    <3>3. DOMAIN state = 1 .. Len(state) /\ StackDescends
      BY LenProperties DEF IInvAligned, IInv, TypeOK
    <3> QED BY <1>4, <3>1, <3>2, <3>3 DEF StackDescends
  <2> QED BY <2>3, <2>4
<1>14. top <= dest
  <2>1. DOMAIN merges \subseteq Nat /\ NoRank \in Nat /\ \A r \in DOMAIN merges : r < NoRank
    BY <1>2, RanksOrdered
  <2>2. CASE dest = NoRank
    BY <1>4, <2>1, <2>2
  <2>3. CASE dest # NoRank
    <3>1. ~(dest < top) /\ dest \in DOMAIN merges
      BY <1>1, <1>2, <1>3, <2>3 DEF Opens
    <3> QED BY <1>5, <2>1, <3>1
  <2> QED BY <2>2, <2>3
<1>15. Monotonic(merges) => Calm(merges, v, mv) /\ Canonical(merges, v) = Canonical(merges, w)
  <2>1. SUFFICES ASSUME Monotonic(merges)
                 PROVE  Calm(merges, v, mv) /\ Canonical(merges, v) = Canonical(merges, w)
    OBVIOUS
  <2>0. IsTable(merges) /\ w \in Seq(Token)
    BY <1>11
  <2>2. Calm(merges, w, lv)
    BY <1>2, <1>10, <2>1 DEF Aligned
  <2>3. Settled(merges, w, lv, i)
    BY <1>3, <1>4, <1>11, <1>12, <1>13, <1>14, <2>2 DEF Settled
  <2>4. Target(merges, w[i], w[i + 1]) = merges[top][3] /\ Mergeable(merges, w, i)
    BY <1>11, <1>12, <2>3, SettledRank, SMTT(30)
  <2>5. IsFolded(merges, w, i, v)
    BY <1>11, <1>12, <2>4 DEF IsFolded
  <2>6. PICK f : f = FoldAt(merges, w, i)
    OBVIOUS
  <2>7. f = v
    <3>1. IsFolded(merges, w, i, f)
      BY <1>11, <2>4, <2>6, Folded
    <3> QED BY <2>5, <3>1, SeqEqual DEF IsFolded
  <2>8. Canonical(merges, w) = Canonical(merges, v)
    <3>1. Canonical(merges, w) = Canonical(merges, FoldAt(merges, w, i))
      BY <2>0, <2>1, <2>3, SafeFold
    <3> QED BY <2>6, <2>7, <3>1
  <2>9. Calm(merges, v, mv)
    <3>1. /\ mv \in [1 .. Len(w) - 1 -> Nat]
          /\ \A k \in 1 .. Len(w) - 1 : k < i => mv[k] = lv[k]
          /\ \A k \in 1 .. Len(w) - 1 : k > i => mv[k] = lv[k + 1]
          /\ lv[i] < mv[i]
          /\ \A s \in DOMAIN merges : lv[i] < s /\ s < mv[i] => merges[s][1] # merges[lv[i]][3]
      <4>1. i \in Nat /\ mv[i] = d
        BY <1>7, <1>12
      <4>2. ASSUME NEW k \in 1 .. sz - 1
            PROVE  (k < i => mv[k] = lv[k]) /\ (k > i => mv[k] = lv[k + 1])
        <5>1. k \in Nat
          OBVIOUS
        <5>2. k > i => ~(k < i) /\ k # i
          BY <4>1, <5>1
        <5> QED BY <1>12, <5>2
      <4>3. Len(w) = sz /\ mv \in [1 .. sz - 1 -> Nat]
        BY <1>11
      <4>4. lv[i] = top
        BY <1>12
      <4> QED BY <1>5, <4>1, <4>2, <4>3, <4>4
    <3> QED BY <2>0, <2>1, <2>3, <2>5, <3>1, CalmFolded
  <2> QED BY <2>8, <2>9
<1>16. Aligned'
  BY <1>2, <1>3, <1>10, <1>15 DEF Aligned
<1>17. Destined'
  <2>1. PICK q : q = n - 1
    OBVIOUS
  <2>2. /\ q \in Nat /\ Len(todo') = q + 1 /\ q <= Len(todo)
        /\ \A j \in 1 .. q : todo'[j] = todo[j]
        /\ todo'[q + 1] = <<merges[top][3], d>>
    <3>1. q + 1 = n
      BY <1>2, <2>1
    <3>2. q \in Nat /\ q <= Len(todo)
      BY <1>1, <1>2, <2>1
    <3>3. \A j \in 1 .. q : todo'[j] = todo[j]
      BY <1>2, <1>6, <2>1
    <3> QED BY <1>6, <3>1, <3>2, <3>3
  <2>3. engine' = "stream" /\ merges' = merges
    BY <1>2, <1>3
  <2>4. d # NoRank => merges[d][1] = merges[top][3]
    BY <1>5
  <2> QED BY <2>2, <2>3, <2>4, TopDestined
<1>18. \E k, r : Applies(Word, Word', k, r)
  <2>1. i \in Nat /\ ~(i < i)
    BY <1>7
  <2>2. v[i] = merges[top][3]
    BY <1>12, <2>1
  <2>3. ASSUME NEW k \in 1 .. sz - 1
        PROVE  (k < i => v[k] = w[k]) /\ (k > i => v[k] = w[k + 1])
    <3>1. k \in Nat
      OBVIOUS
    <3>2. k > i => ~(k < i) /\ k # i
      BY <2>1, <3>1
    <3> QED BY <1>12, <3>2
  <2>4. Applies(w, v, i, top)
    BY <1>3, <1>4, <1>11, <1>12, <2>2, <2>3 DEF Applies
  <2> QED BY <1>10, <2>4
<1> QED BY <1>2, <1>3, <1>16, <1>17, <1>18

(* Starting on a chunk, whatever the chunk before left in the buffers.     *)
LEMMA BeginTyped ==
  ASSUME merges \in Tables, out \in Seq(Token), todo = <<>>, NEW c \in Seq(Token), Begin(c)
  PROVE  IInv' /\ TypeOK'
<1>1. /\ engine' = "stream" /\ chunk' = c /\ at' = 1 /\ state' = <<>> /\ todo' = <<>>
      /\ mark' = Len(out) /\ merges' = merges /\ out' = out
  BY DEF Begin
<1>2. Len(c) \in Nat /\ Len(out) \in Nat
  BY LenProperties
<1>3. TypeOK'
  BY <1>1, <1>2 DEF TypeOK
<1>4. StackDescends'
  BY <1>1 DEF StackDescends
<1> QED BY <1>3, <1>4 DEF IInv

LEMMA BeginAligned ==
  ASSUME merges \in Tables, out \in Seq(Token), todo = <<>>, NEW c \in Seq(Token), Begin(c)
  PROVE  Destined' /\ Aligned' /\ engine' = "stream" /\ Word' = c
<1>1. /\ Laid' /\ Sizes' /\ engine' = "stream" /\ chunk' = c /\ at' = 1 /\ state' = <<>>
      /\ todo' = <<>> /\ mark' = Len(out) /\ out' = out /\ merges' = merges
  BY BeginTyped, LaidOutNext, SizedNext DEF Begin
<1>2. c \in Seq(Token) /\ Len(c) \in Nat /\ Len(out) \in Nat /\ Len(state') = 0 /\ Len(todo') = 0
  BY <1>1, LenProperties
<1>3. AtStack' = 0 /\ AtTodo' = 0 /\ AtRest' = 0 /\ Size' = Len(c)
  <2>1. AtStack' = 0
    BY <1>1, <1>2 DEF Sizes
  <2>2. AtTodo' = 0 /\ AtRest' = 0
    BY <1>1, <1>2, <2>1 DEF Sizes
  <2>3. Size' = 0 + (Len(c) + 1 - 1)
    BY <1>1, <2>2 DEF Sizes
  <2> QED BY <1>2, <2>1, <2>2, <2>3
<1>4. ASSUME NEW k \in 1 .. Len(c) PROVE Item(k)' = <<c[k], 1>>
  <2>1. ~(k <= 0) /\ 1 + (k - 0) - 1 = k
    BY <1>2
  <2> QED BY <1>1, <1>3, <2>1 DEF Item
<1>5. PICK w, lv : w = Word' /\ lv = Level'
  OBVIOUS
<1>6. /\ w \in Seq(Token) /\ Len(w) = Len(c) /\ lv \in [1 .. Len(c) -> Nat]
      /\ \A k \in 1 .. Len(c) : w[k] = c[k] /\ lv[k] = 1
  BY <1>1, <1>3, <1>4, <1>5 DEF Laid
<1>7. w = c
  BY <1>2, <1>6, SeqEqual
<1>8. Calm(merges, w, lv)
  <2>1. IsTable(merges)
    BY TablesAssumption
  <2>2. DOMAIN merges = 1 .. Len(merges) /\ Len(merges) \in Nat
    BY <2>1, LenProperties DEF IsTable
  <2>3. \A p \in 1 .. Len(w) - 1 : lv[p] = 1
    BY <1>2, <1>6
  <2>4. \A s \in DOMAIN merges : ~(s < 1)
    BY <2>2
  <2> QED BY <2>3, <2>4 DEF Calm
<1>9. Aligned'
  BY <1>1, <1>5, <1>7, <1>8 DEF Aligned
<1>10. Destined'
  BY <1>1 DEF Destined
<1> QED BY <1>1, <1>5, <1>7, <1>9, <1>10

(* What is left when nothing waits is in normal form.                      *)
LEMMA Returned ==
  ASSUME IInvAligned, Return, Monotonic(merges)
  PROVE  SubSeq(out, mark + 1, Len(out)) = Canonical(merges, chunk)
<1>1. /\ engine = "stream" /\ todo = <<>> /\ at > Len(chunk) /\ state = <<>>
      /\ engine' = "idle" /\ merges' = merges /\ chunk' = chunk /\ state' = state
      /\ todo' = todo /\ out' = out /\ mark' = mark
  BY DEF Return
<1>2. Laid /\ Sizes /\ Aligned /\ out \in Seq(Token) /\ mark \in 0 .. Len(out)
  BY LaidOut, Sized DEF IInvAligned, IInv, TypeOK
<1>3. Size = AtStack /\ AtStack \in Nat /\ AtStack + mark = Len(out) /\ Len(out) \in Nat
      /\ mark \in Nat
  <2>1. at \in Nat /\ Len(chunk) \in Nat /\ at <= Len(chunk) + 1
    BY <1>2 DEF Sizes
  <2>2. Len(chunk) + 1 - at = 0
    BY <1>1, <2>1
  <2>3. Len(state) = 0 /\ Len(todo) = 0
    BY <1>1
  <2>4. /\ AtStack \in Nat /\ AtStack = Len(out) - mark /\ Len(out) \in Nat /\ mark \in Nat
        /\ AtTodo = AtStack + Len(state) /\ AtRest = AtTodo + Len(todo)
        /\ Size = AtRest + (Len(chunk) + 1 - at)
    BY <1>2 DEF Sizes
  <2> QED BY <2>2, <2>3, <2>4
<1>4. PICK w, lv, n : w = Word /\ lv = Level /\ n = Size
  OBVIOUS
<1>5. /\ IsTable(merges) /\ w \in Seq(Token) /\ Len(w) = n /\ lv \in [1 .. n -> Nat] /\ n \in Nat
      /\ \A k \in 1 .. n : w[k] = out[mark + k] /\ lv[k] = NoRank
  <2>1. \A k \in 1 .. Size : Item(k) = <<out[mark + k], NoRank>>
    BY <1>3 DEF Item
  <2> QED BY <1>2, <1>4, <2>1, SMTT(30) DEF Laid
<1>6. w = SubSeq(out, mark + 1, Len(out))
  <2>1. PICK a, b, f : a = mark + 1 /\ b = Len(out) /\ f = SubSeq(out, a, b)
    OBVIOUS
  <2>2. a \in Int /\ b \in Int /\ \A i \in a .. b : out[i] \in Token
    BY <1>2, <1>3, <2>1, ElementOfSeq
  <2>3. /\ f \in Seq(Token) /\ Len(f) = IF a <= b THEN b - a + 1 ELSE 0
        /\ \A i \in 1 .. b - a + 1 : f[i] = out[a + i - 1]
    BY <2>1, <2>2, SubSeqProperties
  <2>4. b - a + 1 = n /\ Len(f) = n
    BY <1>3, <1>4, <2>1, <2>3
  <2>5. ASSUME NEW i \in 1 .. n PROVE f[i] = w[i]
    <3>1. a + i - 1 = mark + i
      BY <1>3, <2>1
    <3> QED BY <1>5, <2>3, <2>4, <3>1
  <2>6. f = w
    BY <1>5, <2>3, <2>4, <2>5, SeqEqual
  <2> QED BY <2>1, <2>6
<1>7. Calm(merges, w, lv) /\ Canonical(merges, w) = Canonical(merges, chunk)
  BY <1>1, <1>2, <1>4 DEF Aligned
<1>8. NormalForm(merges, w)
  <2>1. SUFFICES ASSUME NEW p \in 1 .. Len(w) - 1, RankAt(merges, w, p) # NoRank PROVE FALSE
    BY DEF NormalForm
  <2>2. Mergeable(merges, w, p)
    BY <2>1 DEF Mergeable
  <2>3. RankAt(merges, w, p) \in DOMAIN merges /\ lv[p] <= RankAt(merges, w, p)
    BY <1>5, <1>7, <2>2, CalmRank
  <2>4. lv[p] = NoRank
    BY <1>5
  <2>5. DOMAIN merges \subseteq Nat /\ NoRank \in Nat /\ \A r \in DOMAIN merges : r < NoRank
    BY <1>2, RanksOrdered
  <2> QED BY <2>3, <2>4, <2>5
<1>9. Canonical(merges, w) = w
  BY <1>5, <1>8, CanonicalUnfolds
<1> QED BY <1>6, <1>7, <1>9

LEMMA ReturnAligned ==
  ASSUME IInvAligned, Return
  PROVE  Destined' /\ Aligned' /\ MonotonicIsCanonical'
<1>1. /\ todo = <<>> /\ engine' = "idle" /\ merges' = merges /\ chunk' = chunk
      /\ todo' = todo /\ out' = out /\ mark' = mark
  BY DEF Return
<1>2. DOMAIN todo' = {}
  BY <1>1
<1>3. Monotonic(merges) => SubSeq(out, mark + 1, Len(out)) = Canonical(merges, chunk)
  BY Returned
<1> QED BY <1>1, <1>2, <1>3 DEF Destined, Aligned, MonotonicIsCanonical

LEMMA InitAligned == Init => IInvAligned
<1> SUFFICES ASSUME Init PROVE IInvAligned
  OBVIOUS
<1>1. engine = "idle" /\ todo = <<>> /\ out = <<>>
  BY DEF Init
<1> QED BY <1>1, InitIInv DEF IInvAligned, Destined, Aligned, MonotonicIsCanonical

LEMMA NextAligned == IInvAligned /\ [Next]_vars => IInvAligned'
<1> SUFFICES ASSUME IInvAligned, [Next]_vars PROVE IInvAligned'
  OBVIOUS
<1>1. IInv' /\ TypeOK'
  BY NextIInv DEF IInvAligned, IInv
<1>2. Destined' /\ Aligned' /\ engine' = "stream" => IInvAligned'
  BY <1>1 DEF IInvAligned, MonotonicIsCanonical
<1>3. CASE Step
  <2>1. CASE PushNext
    BY <1>1, <1>2, <2>1, PushNextAligned
  <2>2. CASE FlushTop
    BY <1>1, <1>2, <2>2, FlushTopAligned
  <2>3. CASE Emit
    BY <1>1, <1>2, <2>3, EmitAligned
  <2>4. CASE Open
    BY <1>1, <1>2, <2>4, OpenAligned
  <2>5. CASE Complete
    BY <1>1, <1>2, <2>5, CompleteAligned
  <2>6. CASE FallThrough
    BY <1>1, <1>2, <2>6, FallThroughAligned
  <2>7. CASE Return
    BY <1>1, <2>7, ReturnAligned DEF IInvAligned
  <2> QED BY <1>3, <2>1, <2>2, <2>3, <2>4, <2>5, <2>6, <2>7 DEF Step
<1>4. ASSUME NEW c \in Chunks, Begin(c) PROVE IInvAligned'
  <2>1. /\ merges \in Tables /\ out \in Seq(Token) /\ todo = <<>> /\ c \in Seq(Token)
    BY <1>4, ChunksAssumption DEF IInvAligned, IInv, TypeOK, Begin, Destined
  <2> QED BY <1>1, <1>2, <1>4, <2>1, BeginAligned
<1>5. CASE TakeOut
  <2>1. engine' = "idle" /\ out' = <<>> /\ todo' = todo /\ merges' = merges /\ todo = <<>>
    BY <1>5 DEF TakeOut, IInvAligned, Destined
  <2>2. Destined'
    BY <2>1 DEF Destined
  <2> QED BY <1>1, <2>1, <2>2 DEF IInvAligned, Aligned, MonotonicIsCanonical
<1>6. CASE UNCHANGED vars
  <2>1. /\ merges' = merges /\ engine' = engine /\ chunk' = chunk /\ at' = at /\ state' = state
        /\ todo' = todo /\ out' = out /\ mark' = mark
    BY <1>6 DEF vars, scratch
  <2>2. Destined' /\ MonotonicIsCanonical'
    BY <2>1 DEF IInvAligned, Destined, MonotonicIsCanonical
  <2>3. Laid /\ Laid' /\ Aligned
    BY <1>1, LaidOut, LaidOutNext DEF IInvAligned, IInv
  <2>4. AtStack' = AtStack /\ AtTodo' = AtTodo /\ AtRest' = AtRest /\ Size' = Size
    BY <2>1 DEF AtStack, AtTodo, AtRest, Size
  <2>5. ASSUME NEW k \in 1 .. Size PROVE Item(k)' = Item(k)
    BY <2>1, <2>4 DEF Item
  <2>6. CASE engine = "stream"
    BY <1>1, <2>1, <2>2, <2>3, <2>4, <2>5, <2>6, SameItems DEF IInvAligned
  <2>7. CASE engine # "stream"
    BY <1>1, <2>1, <2>2, <2>7 DEF IInvAligned, Aligned
  <2> QED BY <2>6, <2>7
<1> QED BY <1>3, <1>4, <1>5, <1>6 DEF Next

(***************************************************************************)
(* On every table whose merges are listed before they are consumed, what    *)
(* merge_into appends for a chunk is canonical BPE of the chunk, though the *)
(* streaming engine looks at each pair once and never at a rank.           *)
(***************************************************************************)
THEOREM StreamIsCanonical == Spec => []MonotonicIsCanonical
<1>1. IInvAligned => MonotonicIsCanonical
  BY DEF IInvAligned
<1> QED BY <1>1, InitAligned, NextAligned, PTL DEF Spec

-----------------------------------------------------------------------------
(* What a caller that shares `out` relies on: what it held before the chunk *)
(* is still there, and when the engine is through the canonical tokens of   *)
(* the chunk follow it.                                                    *)
Before == SubSeq(out, 1, mark)

LEMMA Starting ==
  ASSUME merges \in Tables, out \in Seq(Token), todo = <<>>, NEW c \in Seq(Token), Begin(c)
  PROVE  IInvAligned' /\ engine' = "stream" /\ merges' = merges /\ chunk' = c /\ Before' = out
<1>1. engine' = "stream" /\ merges' = merges /\ chunk' = c /\ mark' = Len(out) /\ out' = out
  BY DEF Begin
<1>2. IInvAligned'
  BY <1>1, BeginTyped, BeginAligned DEF IInvAligned, MonotonicIsCanonical
<1>3. Len(out) \in 0 .. Len(out)
  BY LenProperties
<1>4. SubSeq(out, 1, Len(out)) = out
  BY <1>3, Beginnings
<1> QED BY <1>1, <1>2, <1>4 DEF Before

LEMMA Stepping ==
  ASSUME IInvAligned, Step
  PROVE  /\ IInvAligned' /\ merges' = merges /\ chunk' = chunk /\ Before' = Before
         /\ engine' = "stream" \/ (engine' = "idle" /\ todo' = <<>>)
         /\ engine' = "idle" /\ Monotonic(merges) =>
               out' = Before \o Canonical(merges, chunk)
<1>1. engine = "stream" /\ merges' = merges /\ chunk' = chunk /\ mark' = mark
  BY DEF Step, PushNext, FlushTop, Emit, Open, Complete, FallThrough, Return, Processing
<1>2. IInvAligned'
  BY NextAligned DEF Next
<1>3. out \in Seq(Token) /\ mark \in 0 .. Len(out)
  BY DEF IInvAligned, IInv, TypeOK
<1>4. SubSeq(out', 1, mark) = SubSeq(out, 1, mark)
  <2>1. CASE out' = out
    BY <2>1
  <2>2. CASE Emit
    <3>1. PICK t : t = tok /\ out' = Append(out, t)
      BY <2>2 DEF Emit
    <3>2. out' \in Seq(Token)
      BY <1>2 DEF IInvAligned, IInv, TypeOK
    <3>3. /\ Len(out') = Len(out) + 1 /\ Len(out) \in Nat
          /\ \A i \in 1 .. Len(out) : out'[i] = out[i]
      BY <1>3, <3>1, AppendProperties, LenProperties
    <3>4. PICK f, g : f = SubSeq(out, 1, mark) /\ g = SubSeq(out', 1, mark)
      OBVIOUS
    <3>5. f \in Seq(Token) /\ Len(f) = mark /\ \A i \in 1 .. mark : f[i] = out[i]
      BY <1>3, <3>4, Beginnings
    <3>6. g \in Seq(Token) /\ Len(g) = mark /\ \A i \in 1 .. mark : g[i] = out'[i]
      <4>1. mark \in 0 .. Len(out')
        BY <1>3, <3>3
      <4>2. PICK o : o = out'
        OBVIOUS
      <4> QED BY <3>2, <3>4, <4>1, <4>2, Beginnings
    <3>7. \A i \in 1 .. mark : f[i] = g[i]
      BY <1>3, <3>3, <3>5, <3>6
    <3>8. f = g
      BY <3>5, <3>6, <3>7, SeqEqual
    <3> QED BY <3>4, <3>8
  <2> QED BY <2>1, <2>2 DEF Step, PushNext, FlushTop, Open, Complete, FallThrough, Return
<1>5. Return \/ engine' = "stream"
  BY <1>1 DEF Step, PushNext, FlushTop, Emit, Open, Complete, FallThrough
<1>6. Return => engine' = "idle" /\ todo' = <<>>
  BY DEF Return
<1>7. ASSUME Return, Monotonic(merges) PROVE out' = Before \o Canonical(merges, chunk)
  <2>1. SubSeq(out, mark + 1, Len(out)) = Canonical(merges, chunk) /\ out' = out
    BY <1>7, Returned DEF Return
  <2>2. out = SubSeq(out, 1, mark) \o SubSeq(out, mark + 1, Len(out))
    BY <1>3, SplitsAt
  <2> QED BY <2>1, <2>2 DEF Before
<1> QED BY <1>1, <1>2, <1>4, <1>5, <1>6, <1>7 DEF Before

-----------------------------------------------------------------------------
(* The parts of the machine's word, as TextKept reads them.                *)
Done  == SubSeq(out, mark + 1, Len(out))
Held  == [k \in DOMAIN state |-> merges[state[k]][1]]
Stack == Reverse([k \in DOMAIN todo |-> todo[k][1]])
Rest  == SubSeq(chunk, at, Len(chunk))

LEMMA DoneReads ==
  ASSUME TypeOK
  PROVE  Done \in Seq(Token) /\ Len(Done) = AtStack
         /\ \A k \in 1 .. AtStack : Done[k] = out[mark + k]
<1>1. PICK a, b, f : a = mark + 1 /\ b = Len(out) /\ f = SubSeq(out, a, b)
  OBVIOUS
<1>2. out \in Seq(Token) /\ mark \in 0 .. Len(out) /\ b \in Nat
  BY <1>1, LenProperties DEF TypeOK
<1>3. a \in Int /\ b \in Int /\ \A i \in a .. b : out[i] \in Token
  <2>1. \A i \in a .. b : i \in 1 .. Len(out)
    BY <1>1, <1>2
  <2>2. a \in Int /\ b \in Int
    BY <1>1, <1>2
  <2> QED BY <1>2, <2>1, <2>2, ElementOfSeq
<1>4. /\ f \in Seq(Token) /\ Len(f) = IF a <= b THEN b - a + 1 ELSE 0
      /\ \A i \in 1 .. b - a + 1 : f[i] = out[a + i - 1]
  BY <1>1, <1>3, SubSeqProperties
<1>5. AtStack = b - a + 1 /\ AtStack \in Nat /\ AtStack = b - mark
  BY <1>1, <1>2 DEF AtStack
<1>6. Len(f) = AtStack
  BY <1>1, <1>2, <1>4, <1>5
<1>7. ASSUME NEW k \in 1 .. AtStack PROVE f[k] = out[mark + k]
  <2>1. a + k - 1 = mark + k
    BY <1>1, <1>2, <1>5
  <2> QED BY <1>4, <1>5, <2>1
<1> QED BY <1>1, <1>4, <1>6, <1>7 DEF Done

LEMMA HeldReads ==
  ASSUME TypeOK
  PROVE  Held \in Seq(Token) /\ Len(Held) = Len(state)
         /\ \A k \in 1 .. Len(state) : Held[k] = merges[state[k]][1]
<1>1. /\ IsTable(merges) /\ state \in Seq(DOMAIN merges)
      /\ DOMAIN state = 1 .. Len(state) /\ Len(state) \in Nat
  BY TablesAssumption, LenProperties DEF TypeOK
<1>2. \A k \in 1 .. Len(state) : merges[state[k]][1] \in Token
  BY <1>1, ElementOfSeq, MergeOfTable
<1>3. Held \in [1 .. Len(state) -> Token]
  BY <1>1, <1>2 DEF Held
<1>4. Held \in Seq(Token) /\ Len(Held) = Len(state)
  BY <1>1, <1>3, SeqDef, LenProperties
<1> QED BY <1>1, <1>4 DEF Held

LEMMA StackReads ==
  ASSUME TypeOK
  PROVE  Stack \in Seq(Token) /\ Len(Stack) = Len(todo)
         /\ \A k \in 1 .. Len(todo) : Stack[k] = todo[Len(todo) - k + 1][1]
<1>1. PICK n, f : n = Len(todo) /\ f = [k \in DOMAIN todo |-> todo[k][1]]
  OBVIOUS
<1>2. todo \in Seq(Work) /\ DOMAIN todo = 1 .. n /\ n \in Nat
  BY <1>1, LenProperties DEF TypeOK, Work
<1>3. \A k \in 1 .. n : todo[k][1] \in Token
  BY <1>1, <1>2, ElementOfSeq DEF Work
<1>4. f \in [1 .. n -> Token] /\ \A k \in 1 .. n : f[k] = todo[k][1]
  BY <1>1, <1>2, <1>3
<1>5. f \in Seq(Token) /\ Len(f) = n
  BY <1>2, <1>4, SeqDef, LenProperties
<1>6. Stack = [k \in 1 .. n |-> f[n - k + 1]]
  BY <1>1, <1>5 DEF Stack, Reverse
<1>7. \A k \in 1 .. n : n - k + 1 \in 1 .. n
  BY <1>2
<1>8. Stack \in [1 .. n -> Token] /\ \A k \in 1 .. n : Stack[k] = todo[n - k + 1][1]
  BY <1>3, <1>4, <1>6, <1>7
<1>9. Stack \in Seq(Token) /\ Len(Stack) = n
  BY <1>2, <1>8, SeqDef, LenProperties
<1> QED BY <1>1, <1>8, <1>9

LEMMA RestReads ==
  ASSUME TypeOK
  PROVE  Rest \in Seq(Token) /\ Len(Rest) = Len(chunk) + 1 - at
         /\ \A k \in 1 .. Len(chunk) + 1 - at : Rest[k] = chunk[at + k - 1]
<1>1. PICK b, f : b = Len(chunk) /\ f = SubSeq(chunk, at, b)
  OBVIOUS
<1>2. chunk \in Seq(Token) /\ at \in 1 .. b + 1 /\ b \in Nat
  BY <1>1, LenProperties DEF TypeOK
<1>3. at \in Int /\ b \in Int /\ \A i \in at .. b : chunk[i] \in Token
  <2>1. \A i \in at .. b : i \in 1 .. Len(chunk)
    BY <1>1, <1>2
  <2> QED BY <1>2, <2>1, ElementOfSeq
<1>4. /\ f \in Seq(Token) /\ Len(f) = IF at <= b THEN b - at + 1 ELSE 0
      /\ \A i \in 1 .. b - at + 1 : f[i] = chunk[at + i - 1]
  BY <1>1, <1>3, SubSeqProperties
<1>5. b - at + 1 = b + 1 - at /\ Len(f) = b + 1 - at
  BY <1>2, <1>4
<1> QED BY <1>1, <1>4, <1>5 DEF Rest

Reads == Word = Done \o Held \o Stack \o Rest

LEMMA WordReads == TypeOK => Reads
<1> SUFFICES ASSUME TypeOK PROVE Word = Done \o Held \o Stack \o Rest
  BY DEF Reads
<1>1. PICK w, a, b, c, d : w = Word /\ a = Done /\ b = Held /\ c = Stack /\ d = Rest
  OBVIOUS
<1>2. Laid /\ Sizes
  BY LaidOut, Sized
<1>3. w \in Seq(Token) /\ Len(w) = Size /\ \A k \in 1 .. Size : w[k] = Item(k)[1]
  BY <1>1, <1>2 DEF Laid
<1>4. a \in Seq(Token) /\ Len(a) = AtStack /\ \A k \in 1 .. AtStack : a[k] = out[mark + k]
  BY <1>1, DoneReads
<1>5. /\ b \in Seq(Token) /\ Len(b) = Len(state)
      /\ \A k \in 1 .. Len(state) : b[k] = merges[state[k]][1]
  BY <1>1, HeldReads
<1>6. /\ c \in Seq(Token) /\ Len(c) = Len(todo)
      /\ \A k \in 1 .. Len(todo) : c[k] = todo[Len(todo) - k + 1][1]
  BY <1>1, StackReads
<1>7. /\ d \in Seq(Token) /\ Len(d) = Len(chunk) + 1 - at
      /\ \A k \in 1 .. Len(chunk) + 1 - at : d[k] = chunk[at + k - 1]
  BY <1>1, RestReads
<1>8. PICK l, m, o : l = Len(state) /\ m = Len(todo) /\ o = Len(chunk) + 1 - at
  OBVIOUS
<1>9. /\ l \in Nat /\ m \in Nat /\ o \in Nat /\ AtStack \in Nat /\ at \in Nat
      /\ AtTodo = AtStack + l /\ AtRest = AtStack + l + m /\ Size = AtStack + l + m + o
  <2>1. l \in Nat /\ m \in Nat /\ AtStack \in Nat /\ at \in Nat
        /\ AtTodo = AtStack + l /\ AtRest = AtTodo + m /\ Size = AtRest + o
    BY <1>2, <1>8 DEF Sizes
  <2>2. o \in Nat
    BY <1>2, <1>8 DEF Sizes
  <2> QED BY <2>1, <2>2
<1>10. ASSUME NEW k \in 1 .. AtStack PROVE w[k] = a[k]
  <2>1. k \in 1 .. Size /\ k <= AtStack
    BY <1>9
  <2>2. Item(k) = <<out[mark + k], NoRank>>
    BY <2>1 DEF Item
  <2> QED BY <1>3, <1>4, <2>1, <2>2
<1>11. ASSUME NEW k \in 1 .. l PROVE w[AtStack + k] = b[k]
  <2>1. PICK j : j = AtStack + k
    OBVIOUS
  <2>2. j \in 1 .. Size /\ ~(j <= AtStack) /\ j <= AtTodo /\ j - AtStack = k
    BY <1>9, <2>1
  <2>3. Item(j) = <<merges[state[k]][1], state[k]>>
    BY <2>2 DEF Item
  <2> QED BY <1>3, <1>5, <1>8, <2>1, <2>2, <2>3
<1>12. ASSUME NEW k \in 1 .. m PROVE w[AtStack + l + k] = c[k]
  <2>1. PICK j : j = AtStack + l + k
    OBVIOUS
  <2>2. /\ j \in 1 .. Size /\ ~(j <= AtStack) /\ ~(j <= AtTodo) /\ j <= AtRest
        /\ AtRest + 1 - j = m - k + 1
    BY <1>9, <2>1
  <2>3. Item(j) = todo[m - k + 1]
    BY <2>2 DEF Item
  <2> QED BY <1>3, <1>6, <1>8, <2>1, <2>2, <2>3
<1>13. ASSUME NEW k \in 1 .. o PROVE w[AtStack + l + m + k] = d[k]
  <2>1. PICK j : j = AtStack + l + m + k
    OBVIOUS
  <2>2. /\ j \in 1 .. Size /\ ~(j <= AtStack) /\ ~(j <= AtTodo) /\ ~(j <= AtRest)
        /\ at + (j - AtRest) - 1 = at + k - 1
    BY <1>9, <2>1
  <2>3. Item(j) = <<chunk[at + k - 1], 1>>
    BY <2>2 DEF Item
  <2> QED BY <1>3, <1>7, <1>8, <2>1, <2>2, <2>3
<1>14. Joins(w, a, b, c, d)
  <2>1. Len(a) = AtStack /\ Len(b) = l /\ Len(c) = m /\ Len(d) = o /\ Len(w) = Size
    BY <1>3, <1>4, <1>5, <1>6, <1>7, <1>8
  <2> QED BY <1>9, <1>10, <1>11, <1>12, <1>13, <2>1 DEF Joins
<1>15. w = a \o b \o c \o d
  <2>1. /\ w \in Seq(Token) /\ a \in Seq(Token) /\ b \in Seq(Token) /\ c \in Seq(Token)
        /\ d \in Seq(Token)
    BY <1>3, <1>4, <1>5, <1>6, <1>7
  <2> QED BY ONLY <1>14, <2>1, JoinedFour
<1> QED BY <1>1, <1>15

LEMMA WordReadsNext == TypeOK' => Reads'
  BY WordReads, PTL

(***************************************************************************)
(* What the tokens say, when they are the strings they stand for: loading   *)
(* looks the target of a merge up as its operands one after the other       *)
(* (format!("{t1s}{t2s}")).                                                 *)
(***************************************************************************)
Spells(Char) ==
    /\ Token \subseteq Seq(Char)
    /\ \A m \in Tables : \A r \in DOMAIN m : m[r][3] = m[r][1] \o m[r][2]

TextOfWord == engine = "stream" => FlattenSeq(Word) = FlattenSeq(chunk)

LEMMA NextText ==
  ASSUME NEW Char, Spells(Char), IInvAligned, TextOfWord, [Next]_vars
  PROVE  TextOfWord'
<1>1. IInvAligned' /\ TypeOK' /\ TypeOK /\ merges \in Tables
  BY NextAligned DEF IInvAligned, IInv, TypeOK
<1>2. ASSUME Step, ~Return PROVE TextOfWord'
  <2>1. engine = "stream" /\ chunk' = chunk /\ FlattenSeq(Word) = FlattenSeq(chunk)
    BY <1>2 DEF Step, PushNext, FlushTop, Emit, Open, Complete, FallThrough, Return, Processing,
                TextOfWord
  <2>2. CASE Word' = Word
    BY <2>1, <2>2 DEF TextOfWord
  <2>3. CASE Complete
    <3>1. PICK w, v, i, r : w = Word /\ v = Word' /\ Applies(w, v, i, r)
      BY <1>1, <2>3, CompleteAligned
    <3>2. Laid /\ Laid'
      BY <1>1, LaidOut, LaidOutNext
    <3>3. w \in Seq(Token) /\ v \in Seq(Token)
      BY <3>1, <3>2 DEF Laid
    <3>4. w \in Seq(Seq(Char)) /\ v \in Seq(Seq(Char))
      BY <3>3, Widened DEF Spells
    <3>5. Contracts(w, v, i)
      <4>1. merges[r][3] = merges[r][1] \o merges[r][2]
        BY <1>1, <3>1 DEF Applies, Spells
      <4> QED BY <3>1, <4>1 DEF Applies, Contracts
    <3>6. FlattenSeq(v) = FlattenSeq(w)
      BY ONLY <3>4, <3>5, ContractedText
    <3> QED BY <2>1, <3>1, <3>6 DEF TextOfWord
  <2> QED
    BY <1>1, <1>2, <2>2, <2>3, PushNextAligned, FlushTopAligned, EmitAligned, OpenAligned,
       FallThroughAligned DEF Step
<1>3. CASE Return
  BY <1>3 DEF Return, TextOfWord
<1>4. ASSUME NEW c \in Chunks, Begin(c) PROVE TextOfWord'
  <2>1. /\ merges \in Tables /\ out \in Seq(Token) /\ todo = <<>> /\ c \in Seq(Token)
        /\ chunk' = c
    BY <1>4, ChunksAssumption DEF IInvAligned, IInv, TypeOK, Begin, Destined
  <2>2. Word' = c
    BY <1>4, <2>1, BeginAligned
  <2> QED BY <2>1, <2>2 DEF TextOfWord
<1>5. CASE TakeOut
  BY <1>5 DEF TakeOut, TextOfWord
<1>6. CASE UNCHANGED vars
  <2>1. /\ merges' = merges /\ engine' = engine /\ chunk' = chunk /\ at' = at /\ state' = state
        /\ todo' = todo /\ out' = out /\ mark' = mark
    BY <1>6 DEF vars, scratch
  <2>2. AtStack' = AtStack /\ AtTodo' = AtTodo /\ AtRest' = AtRest /\ Size' = Size
    BY <2>1 DEF AtStack, AtTodo, AtRest, Size
  <2>3. Word' = Word
    <3>1. Done' = Done /\ Held' = Held /\ Stack' = Stack /\ Rest' = Rest
      BY <2>1 DEF Done, Held, Stack, Rest
    <3>2. Word' = Done' \o Held' \o Stack' \o Rest'
      BY <1>1, WordReadsNext DEF Reads
    <3> QED BY <1>1, <3>1, <3>2, WordReads DEF Reads
  <2> QED BY <2>1, <2>3 DEF TextOfWord
<1> QED BY <1>2, <1>3, <1>4, <1>5, <1>6 DEF Next

-----------------------------------------------------------------------------
(* The two engines together, as they are checked: either takes its own      *)
(* steps, and the table is the only thing they share.                      *)
BP == INSTANCE BatchMergeProofs WITH engine <- batchEngine, chunk <- batchChunk

MCIInv == IInvAligned /\ BP!IInvCanonical

(* Module BatchMerge is instantiated twice; its operators are the same.     *)
LEMMA SameTables ==
  /\ \A m : BP!IsTable(m) <=> IsTable(m)
  /\ \A m : BP!Monotonic(m) <=> Batch!Monotonic(m)
  /\ \A m, a, b : BP!Rank(m, a, b) = Batch!Rank(m, a, b)
  /\ \A m, a, b : BP!Target(m, a, b) = Batch!Target(m, a, b)
  /\ \A m, w, i : BP!RankAt(m, w, i) = Batch!RankAt(m, w, i)
  /\ \A m, w, i : BP!FoldAt(m, w, i) = Batch!FoldAt(m, w, i)
  /\ \A m, w : BP!Candidates(m, w) = Batch!Candidates(m, w)
<1>1. \A m : BP!IsTable(m) <=> IsTable(m)
  BY DEF BP!IsTable, IsTable, BP!Merge, Merge
<1>2. \A m : BP!Monotonic(m) <=> Batch!Monotonic(m)
  BY DEF BP!Monotonic, Batch!Monotonic
<1>3. \A m, a, b : BP!Rank(m, a, b) = Batch!Rank(m, a, b)
  BY DEF BP!Rank, Batch!Rank, BP!MergesOf, Batch!MergesOf, BP!IsFirst, Batch!IsFirst
<1>4. \A m, a, b : BP!Target(m, a, b) = Batch!Target(m, a, b)
  BY <1>3 DEF BP!Target, Batch!Target
<1>5. \A m, w, i : BP!RankAt(m, w, i) = Batch!RankAt(m, w, i)
  BY <1>3 DEF BP!RankAt, Batch!RankAt
<1>6. \A m, w, i : BP!FoldAt(m, w, i) = Batch!FoldAt(m, w, i)
  BY <1>4 DEF BP!FoldAt, Batch!FoldAt
<1>7. \A m, w : BP!Candidates(m, w) = Batch!Candidates(m, w)
  BY <1>5 DEF BP!Candidates, Batch!Candidates
<1> QED BY <1>1, <1>2, <1>3, <1>4, <1>5, <1>6, <1>7

LEMMA SameWords == \A m, w : BP!Canonical(m, w) = Batch!Canonical(m, w)
<1>1. SUFFICES ASSUME NEW m, NEW w PROVE BP!Canonical(m, w) = Batch!Canonical(m, w)
  OBVIOUS
<1> DEFINE lowestBP(v) == CHOOSE p \in BP!Candidates(m, v) :
                               \A q \in BP!Candidates(m, v) : BP!Precedes(p, q)
           lowest(v) == CHOOSE p \in Batch!Candidates(m, v) :
                            \A q \in Batch!Candidates(m, v) : Batch!Precedes(p, q)
           bodyBP(f) == [v \in Seq(Token) |->
                            IF BP!Candidates(m, v) = {} THEN v
                            ELSE f[BP!FoldAt(m, v, lowestBP(v)[2])]]
           body(f) == [v \in Seq(Token) |->
                          IF Batch!Candidates(m, v) = {} THEN v
                          ELSE f[Batch!FoldAt(m, v, lowest(v)[2])]]
<1>2. \A v : lowestBP(v) = lowest(v)
  BY SameTables, Zenon DEF BP!Precedes, Batch!Precedes
<1>3. \A f : bodyBP(f) = body(f)
  <2> SUFFICES ASSUME NEW f PROVE bodyBP(f) = body(f)
    OBVIOUS
  <2> HIDE DEF lowestBP, lowest
  <2>1. \A v : /\ BP!Candidates(m, v) = Batch!Candidates(m, v)
               /\ BP!FoldAt(m, v, lowestBP(v)[2]) = Batch!FoldAt(m, v, lowest(v)[2])
    BY <1>2, SameTables
  <2> QED BY <2>1
<1>4. BP!Canonical(m, w) = (CHOOSE f : f = bodyBP(f))[w]
  BY Zenon DEF BP!Canonical
<1>5. Batch!Canonical(m, w) = (CHOOSE f : f = body(f))[w]
  BY Zenon DEF Batch!Canonical
<1>6. (CHOOSE f : f = bodyBP(f)) = (CHOOSE f : f = body(f))
  <2> HIDE DEF bodyBP, body
  <2> QED BY <1>3
<1> QED BY <1>4, <1>5, <1>6

LEMMA SamePasses ==
  /\ \A w : BP!PairRanks(w) = Batch!PairRanks(w)
  /\ \A r : BP!LowestOf(r) = Batch!LowestOf(r)
  /\ \A i : BP!Hit(i) <=> Batch!Hit(i)
  /\ BP!Starts = Batch!Starts
  /\ \A st : BP!Applied(st) = Batch!Applied(st)
  /\ \A st : BP!Rebuilt(st) = Batch!Rebuilt(st)
<1>1. \A w : BP!PairRanks(w) = Batch!PairRanks(w)
  BY SameTables DEF BP!PairRanks, Batch!PairRanks
<1>2. \A r : BP!LowestOf(r) = Batch!LowestOf(r)
  BY DEF BP!LowestOf, Batch!LowestOf, BP!Min, Batch!Min, BP!ToSet, Batch!ToSet
<1>3. \A i : (BP!Hit(i) <=> Batch!Hit(i)) /\ BP!Stride(i) = Batch!Stride(i)
  BY DEF BP!Hit, Batch!Hit, BP!Stride, Batch!Stride
<1>4. BP!Walk = Batch!Walk
  BY <1>3 DEF BP!Walk, Batch!Walk
<1>5. BP!Starts = Batch!Starts
  BY <1>4 DEF BP!Starts, Batch!Starts
<1>6. \A st : BP!Applied(st) = Batch!Applied(st)
  BY <1>3, SameTables DEF BP!Applied, Batch!Applied
<1>7. \A st : BP!Rebuilt(st) = Batch!Rebuilt(st)
  BY <1>3, SameTables DEF BP!Rebuilt, Batch!Rebuilt, BP!BothCopied, Batch!BothCopied
<1> QED BY <1>1, <1>2, <1>3, <1>5, <1>6, <1>7

LEMMA BatchLoadable == BP!Loadable
  BY TablesAssumption, ChunksAssumption, SameTables DEF BP!Loadable

LEMMA BatchInit == Batch!Init => BP!Init
  BY DEF Batch!Init, BP!Init

LEMMA BatchNext == Batch!Next => BP!Next
<1>1. Batch!Pass => BP!Pass
  BY SamePasses DEF Batch!Pass, BP!Pass
<1>2. Batch!Return => BP!Return
  BY DEF Batch!Return, BP!Return
<1>3. \A c : (Batch!Trivial(c) => BP!Trivial(c)) /\ (Batch!Begin(c) => BP!Begin(c))
  BY SamePasses DEF Batch!Trivial, BP!Trivial, Batch!Begin, BP!Begin
<1> QED BY <1>1, <1>2, <1>3 DEF Batch!Next, BP!Next, Batch!Step, BP!Step

(* No step of either engine changes the table.                             *)
LEMMA TableKept ==
  /\ Next => merges' = merges
  /\ Batch!Next => merges' = merges
<1>1. Next => merges' = merges
  BY DEF Next, Step, PushNext, FlushTop, Emit, Open, Complete, FallThrough, Return, TakeOut, Begin
<1>2. Batch!Next => merges' = merges
  BY DEF Batch!Next, Batch!Step, Batch!Pass, Batch!Return, Batch!Trivial, Batch!Begin
<1> QED BY <1>1, <1>2

LEMMA MCInitIInv == MCInit => MCIInv
  BY InitAligned, BatchInit, BatchLoadable, BP!InitIInv DEF MCInit, MCIInv

LEMMA MCNextIInv == MCIInv /\ [MCNext]_<<vars, path, batchVars>> => MCIInv'
<1> SUFFICES ASSUME MCIInv, [MCNext]_<<vars, path, batchVars>> PROVE MCIInv'
  OBVIOUS
<1>1. [Next]_vars
  BY TableKept DEF MCNext, batchVars, streamVars, vars, scratch
<1>2. [BP!Next]_(BP!vars)
  BY BatchNext, TableKept DEF MCNext, batchVars, BP!vars, vars
<1>3. IInvAligned'
  BY <1>1, NextAligned DEF MCIInv
<1>4. BP!IInvCanonical'
  BY <1>2, BatchLoadable, BP!NextIInv DEF MCIInv
<1> QED BY <1>3, <1>4 DEF MCIInv

LEMMA MCInvariance == MCSpec => []MCIInv
  BY MCInitIInv, MCNextIInv, PTL DEF MCSpec

(***************************************************************************)
(* Both engines keep their buffers in step with the word they merge: one    *)
(* cached rank per adjacent pair, a stack of merges of the table.           *)
(***************************************************************************)
THEOREM BothTyped == MCSpec => []BothTypeOK
<1>1. BP!TypeOK => Batch!TypeOK
  BY DEF BP!TypeOK, Batch!TypeOK
<1>2. MCIInv => BothTypeOK
  BY <1>1 DEF MCIInv, IInvAligned, IInv, BP!IInvCanonical, BP!IInv, BothTypeOK
<1> QED BY <1>2, MCInvariance, PTL

(***************************************************************************)
(* The ranks that `merge` copies from pass to pass without looking them up  *)
(* again are those of the table, and min is the lowest of them.            *)
(***************************************************************************)
THEOREM BatchCacheStaysFresh == MCSpec => []CacheFresh
<1>1. MCIInv => CacheFresh
  BY SamePasses DEF MCIInv, BP!IInvCanonical, BP!IInv, BP!CacheFresh, CacheFresh, Batch!CacheFresh
<1> QED BY <1>1, MCInvariance, PTL

(***************************************************************************)
(* "On monotonic vocabularies this never fires": no pass of `merge` leaves  *)
(* a pair below the rank it applied.                                       *)
(***************************************************************************)
THEOREM BatchNeverBails == MCSpec => []MonotonicNeverBails
<1>1. MCIInv => MonotonicNeverBails
  BY SameTables DEF MCIInv, BP!IInvCanonical, BP!OnCanonicalWay, MonotonicNeverBails,
                    Batch!MonotonicNeverBails
<1> QED BY <1>1, MCInvariance, PTL

(***************************************************************************)
(* On a monotonic table `merge` returns canonical BPE of the chunk, although*)
(* it merges all pairs of a rank at once.                                  *)
(***************************************************************************)
THEOREM BatchStaysCanonical == MCSpec => []BatchIsCanonical
<1>1. MCIInv => BatchIsCanonical
  BY SameTables, SameWords DEF MCIInv, BP!IInvCanonical, BP!MonotonicIsCanonical,
                               BatchIsCanonical, Batch!MonotonicIsCanonical
<1> QED BY <1>1, MCInvariance, PTL

(***************************************************************************)
(* At every point of merge_into, on any table whatever, the output of the   *)
(* chunk, the operands held back, the tokens still to process and the rest  *)
(* of the chunk say what the chunk says: no byte is lost, repeated or moved *)
(* by opening, completing, undoing or flushing a merge.                    *)
(***************************************************************************)
THEOREM TextStaysKept ==
  ASSUME NEW Char, Spells(Char)
  PROVE  MCSpec => []TextKept
<1>1. MCInit => MCIInv /\ TextOfWord
  BY MCInitIInv DEF MCInit, Init, TextOfWord
<1>2. MCIInv /\ TextOfWord /\ [MCNext]_<<vars, path, batchVars>> => (MCIInv /\ TextOfWord)'
  <2>1. MCIInv /\ [MCNext]_<<vars, path, batchVars>> => [Next]_vars
    BY TableKept DEF MCNext, batchVars, streamVars, vars, scratch
  <2> QED BY <2>1, MCNextIInv, NextText DEF MCIInv
<1>3. MCIInv /\ TextOfWord => TextKept
  <2>1. SUFFICES ASSUME MCIInv, TextOfWord, engine = "stream"
                 PROVE  Text(Done \o Held \o Stack \o Rest) = Text(chunk)
    BY DEF TextKept, Done, Held, Stack, Rest
  <2>2. Word = Done \o Held \o Stack \o Rest
    BY <2>1, WordReads DEF MCIInv, IInvAligned, IInv, Reads
  <2> QED BY <2>1, <2>2 DEF TextOfWord, Text
<1> QED BY <1>1, <1>2, <1>3, PTL DEF MCSpec
=============================================================================
