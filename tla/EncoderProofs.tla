--------------------------- MODULE EncoderProofs ---------------------------
(***************************************************************************)
(* The encoder, for every table, vocabulary, lookup and text: between       *)
(* chunks the output is the expected tokens of the chunks emitted so far.   *)
(*                                                                         *)
(* The property only speaks of states in which no engine runs.  To be kept  *)
(* by every step it needs what the engine at work has made of its chunk,    *)
(* which is the invariant of that engine (the proof modules of the four     *)
(* engines), and it needs of the buffers the other three left behind no     *)
(* more than that they are sequences of tokens, bags and flags: each engine *)
(* overwrites what it reads.                                               *)
(*                                                                         *)
(* The first sections are about the encoder alone: Core is kept by every    *)
(* step, provided that an engine which is through left the canonical form   *)
(* of its chunk.  The last ones take in the proofs about one engine each    *)
(* and show that it does.                                                  *)
(*                                                                         *)
(* The sections between are about encode_with_offsets, run on the same text *)
(* after it: its ids are due the same tokens (OffsetFollows), its ranges    *)
(* fill the text up to where it stands but for bytes without a token        *)
(* (SpansFollow), and, where tokens are strings, each range holds what its  *)
(* token says (TextFollows).  Its engine looks ranks up where the batch     *)
(* engine keeps them: a pass of it is a pass of the batch engine whose      *)
(* cache is the ranks looked up, so the proofs about that one are taken in. *)
(***************************************************************************)
EXTENDS EncoderAndOffsets, MergeTableProofs

(* The chunks of the text that were taken, the initial tokens of one, and   *)
(* the output that the first d of them are due.                            *)
Done == Len(text) - Len(pending)
Word(d) == Initials(text[d])
Due(d) == FlattenSeq([i \in 1 .. d |-> Expected(text[i])])

(* The output as it was when the streaming engine was started.             *)
Before == SubSeq(out, 1, mark)

(* What each engine relies on in what the others left behind.              *)
Buffers ==
    /\ out \in Seq(Token) /\ Heap!IsABag(heap)
    /\ ok \in BOOLEAN /\ (Monotonic(merges) => ok)
    /\ engine # "stream" => todo = <<>>
    /\ engine \in {"idle", "batch", "stream", "small", "heap"}

Kept ==
    /\ merges \in Tables /\ lookup \in Lookups
    /\ text \in Seq(Seq(Chars)) /\ pending \in Seq(Seq(Chars))
    /\ Len(pending) <= Len(text)
    /\ \A k \in 1 .. Len(pending) : pending[k] = text[Done + k]
    /\ Buffers

(* An engine works on the last chunk taken, and what the output held before *)
(* is what the others are due.                                             *)
AtWork ==
    engine # "idle" =>
        /\ Done >= 1 /\ ~IsWhole(text[Done])
        /\ (IF engine = "stream" THEN Before ELSE out) = Due(Done - 1)

Core == Kept /\ AtWork /\ (engine = "idle" => out = Due(Done))

LEMMA InitialsAre ==
  ASSUME NEW c \in Seq(Chars)
  PROVE  Initials(c) \in Seq(Token)
<1>1. PICK s : s = [i \in DOMAIN c |-> Initial[c[i]]]
  OBVIOUS
<1>2. Len(c) \in Nat /\ DOMAIN c = 1 .. Len(c) /\ \A i \in 1 .. Len(c) : c[i] \in Chars
  BY LenProperties, ElementOfSeq
<1>3. s \in [1 .. Len(c) -> Seq(Token)]
  BY <1>1, <1>2, InitialAssumption
<1>4. s \in Seq(Seq(Token))
  BY <1>2, <1>3
<1> QED BY <1>1, <1>4, Flattened DEF Initials

LEMMA ExpectedIs ==
  ASSUME Kept, NEW c \in Seq(Chars)
  PROVE  Expected(c) \in Seq(Token)
<1>1. CASE IsWhole(c)
  <2>1. lookup[c] \in Token
    BY <1>1, LookupsAssumption DEF Kept, IsWhole
  <2> QED BY <1>1, <2>1 DEF Expected
<1>2. CASE ~IsWhole(c)
  <2>1. IsTable(merges) /\ Initials(c) \in Seq(Token)
    BY InitialsAre, TablesAssumption DEF Kept
  <2>2. Canonical(merges, Initials(c)) \in Seq(Token)
    BY <2>1, CanonicalUnfolds
  <2> QED BY <1>2, <2>2 DEF Expected
<1> QED BY <1>1, <1>2

(* A chunk more is its expected tokens more.                               *)
LEMMA DueGrows ==
  ASSUME Kept
  PROVE  /\ Due(0) = <<>>
         /\ \A d \in 1 .. Len(text) :
               Due(d) \in Seq(Token) /\ Due(d) = Due(d - 1) \o Expected(text[d])
<1>1. Len(text) \in Nat /\ \A i \in 1 .. Len(text) : Expected(text[i]) \in Seq(Token)
  <2>1. Len(text) \in Nat /\ \A i \in 1 .. Len(text) : text[i] \in Seq(Chars)
    BY LenProperties, ElementOfSeq DEF Kept
  <2> QED BY <2>1, ExpectedIs
<1> DEFINE s(d) == [i \in 1 .. d |-> Expected(text[i])]
<1>2. Due(0) = <<>>
  <2>1. s(0) = <<>>
    OBVIOUS
  <2> QED BY <2>1 DEF Due, FlattenSeq
<1>3. ASSUME NEW d \in 1 .. Len(text)
      PROVE  Due(d) \in Seq(Token) /\ Due(d) = Due(d - 1) \o Expected(text[d])
  <2>1. PICK e, t, x : e = d - 1 /\ t = s(e) /\ x = Expected(text[d])
    OBVIOUS
  <2>2. e \in Nat /\ d = e + 1 /\ x \in Seq(Token) /\ e <= Len(text)
    BY <1>1, <2>1
  <2>3. t \in [1 .. e -> Seq(Token)]
    <3>1. \A i \in 1 .. e : Expected(text[i]) \in Seq(Token)
      BY <1>1, <2>2
    <3> QED BY <2>1, <3>1
  <2>4. t \in Seq(Seq(Token)) /\ Len(t) = e
    BY <2>2, <2>3
  <2>5. PICK u : u = Append(t, x)
    OBVIOUS
  <2>6. /\ u \in Seq(Seq(Token)) /\ Len(u) = e + 1 /\ u[e + 1] = x
        /\ \A i \in 1 .. e : u[i] = t[i]
    BY <2>2, <2>4, <2>5, AppendProperties
  <2>7. u = s(d)
    <3>1. DOMAIN u = 1 .. d
      BY <2>2, <2>6, LenProperties
    <3>2. u = [i \in 1 .. d |-> u[i]]
      BY <2>6, <3>1
    <3>3. ASSUME NEW i \in 1 .. d PROVE u[i] = Expected(text[i])
      <4>1. CASE i = d
        BY <2>1, <2>2, <2>6, <4>1
      <4>2. CASE i # d
        <5>1. i \in 1 .. e
          BY <2>2, <4>2
        <5> QED BY <2>1, <2>6, <5>1
      <4> QED BY <4>1, <4>2
    <3> QED BY <3>2, <3>3
  <2>8. FlattenSeq(u) = FlattenSeq(t) \o x
    BY <2>2, <2>4, <2>5, Flattened
  <2>9. Due(d) = FlattenSeq(u) /\ Due(d - 1) = FlattenSeq(t)
    BY <2>1, <2>7 DEF Due
  <2>10. FlattenSeq(u) \in Seq(Token)
    BY <2>6, Flattened
  <2> QED BY <2>1, <2>8, <2>9, <2>10
<1> QED BY <1>2, <1>3

(* What a step that leaves the model and the text alone leaves alone.       *)
LEMMA Fixed ==
  ASSUME UNCHANGED <<model, text>>
  PROVE  /\ \A c : (IsWhole(c)' <=> IsWhole(c)) /\ Expected(c)' = Expected(c)
         /\ \A d : Due(d)' = Due(d) /\ Word(d)' = Word(d)
<1>1. merges' = merges /\ byteFallback' = byteFallback /\ lookup' = lookup /\ text' = text
  BY DEF model
<1>2. \A c : (IsWhole(c)' <=> IsWhole(c)) /\ Expected(c)' = Expected(c)
  BY <1>1 DEF IsWhole, Expected
<1> QED BY <1>1, <1>2 DEF Due, Word

(* The next chunk is taken.                                                *)
LEMMA Advances ==
  ASSUME Kept, pending # <<>>, pending' = Tail(pending), UNCHANGED <<model, text>>
  PROVE  /\ Done \in Nat /\ Done + 1 \in 1 .. Len(text) /\ Done' = Done + 1
         /\ Head(pending) = text[Done + 1] /\ text[Done + 1] \in Seq(Chars)
         /\ pending' \in Seq(Seq(Chars)) /\ Len(pending') <= Len(text)
         /\ \A k \in 1 .. Len(pending') : pending'[k] = text[Done' + k]
<1>1. PICK n, m : n = Len(text) /\ m = Len(pending)
  OBVIOUS
<1>2. /\ n \in Nat /\ m \in Nat /\ m # 0 /\ m <= n /\ Done = n - m
      /\ text \in Seq(Seq(Chars)) /\ pending \in Seq(Seq(Chars)) /\ text' = text
      /\ \A k \in 1 .. m : pending[k] = text[Done + k]
      /\ \A k \in 1 .. n : text[k] \in Seq(Chars)
  BY <1>1, LenProperties, EmptySeq, ElementOfSeq DEF Kept, Done
<1>3. PICK t : t = Tail(pending)
  OBVIOUS
<1>4. /\ Head(pending) = pending[1]
      /\ t \in Seq(Seq(Chars)) /\ Len(t) = m - 1 /\ \A k \in 1 .. m - 1 : t[k] = pending[k + 1]
  BY <1>1, <1>2, <1>3, HeadTailProperties
<1>5. Done \in Nat /\ Done + 1 \in 1 .. n
  BY <1>2
<1>6. Done' = Done + 1
  BY <1>1, <1>2, <1>3, <1>4 DEF Done
<1>7. ASSUME NEW k \in 1 .. m - 1 PROVE t[k] = text[Done' + k]
  <2>1. k + 1 \in 1 .. m /\ Done + (k + 1) = Done' + k
    BY <1>2, <1>5, <1>6
  <2> QED BY <1>2, <1>4, <2>1
<1>8. Head(pending) = text[Done + 1]
  <2>1. 1 \in 1 .. m
    BY <1>2
  <2> QED BY <1>2, <1>4, <2>1
<1>9. Len(t) <= n
  BY <1>2, <1>4
<1> QED BY <1>1, <1>2, <1>3, <1>4, <1>5, <1>6, <1>7, <1>8, <1>9

(* A chunk is through: the output is what its tokens make of it.            *)
LEMMA Settles ==
  ASSUME Kept, UNCHANGED <<model, text>>, NEW d \in 1 .. Len(text), Done' = d,
         out' = Due(d - 1) \o Expected(text[d])
  PROVE  out' \in Seq(Token) /\ out' = Due(Done)'
<1>1. out' = Due(d) /\ Due(d) \in Seq(Token)
  BY DueGrows
<1>2. Due(d) = Due(d)'
  BY Fixed
<1>3. Due(d)' = Due(Done)'
  BY Zenon DEF Due
<1> QED BY <1>1, <1>2, <1>3

LEMMA KeptOn ==
  ASSUME Kept, UNCHANGED <<model, text>>, Buffers',
         pending' = pending \/ (pending # <<>> /\ pending' = Tail(pending))
  PROVE  Kept'
<1>1. merges' = merges /\ lookup' = lookup /\ text' = text
  BY DEF model
<1>2. CASE pending' = pending
  BY <1>1, <1>2 DEF Kept, Done
<1>3. CASE pending # <<>> /\ pending' = Tail(pending)
  BY <1>1, <1>3, Advances DEF Kept
<1> QED BY <1>2, <1>3

LEMMA Idles ==
  ASSUME Kept', engine' = "idle", out' = Due(Done)'
  PROVE  Core'
BY DEF Core, AtWork

(* A word of one token, or none, is canonical.                             *)
LEMMA ShortIsCanonical ==
  ASSUME merges \in Tables, NEW w \in Seq(Token), Len(w) <= 1
  PROVE  Canonical(merges, w) = w
<1>1. IsTable(merges) /\ Len(w) \in Nat
  BY TablesAssumption, LenProperties
<1>2. NormalForm(merges, w)
  BY <1>1 DEF NormalForm
<1> QED BY <1>1, <1>2, CanonicalUnfolds

LEMMA InitCore == Init => Core
<1> SUFFICES ASSUME Init PROVE Core
  OBVIOUS
<1>1. /\ merges \in Tables /\ lookup \in Lookups /\ text \in Seq(Seq(Chars)) /\ pending = text
      /\ engine = "idle" /\ out = <<>> /\ ok = TRUE /\ todo = <<>> /\ heap = Heap!EmptyBag
  BY TextsAssumption DEF Init, EmptyScratch
<1>2. Heap!IsABag(heap)
  BY <1>1 DEF Heap!IsABag, Heap!EmptyBag, Heap!SetToBag
<1>3. Len(text) \in Nat /\ Done = 0
  BY <1>1, LenProperties DEF Done
<1>4. Kept
  BY <1>1, <1>2, <1>3 DEF Kept, Buffers
<1>5. Due(0) = <<>>
  BY <1>4, DueGrows
<1> QED BY <1>1, <1>3, <1>4, <1>5 DEF Core, AtWork

-----------------------------------------------------------------------------
(* The whole chunk is a token, or it has none.                             *)
LEMMA EmitWholeKeeps ==
  ASSUME Core, EmitWhole
  PROVE  Core'
<1>1. /\ engine = "idle" /\ pending # <<>> /\ IsWhole(Head(pending))
      /\ out' = Append(out, lookup[Head(pending)]) /\ pending' = Tail(pending)
      /\ UNCHANGED <<model, text>> /\ merges' = merges /\ engine' = engine
      /\ ok' = ok /\ todo' = todo /\ heap' = heap
  BY DEF EmitWhole, model, batchVars, streamVars, heapVars
<1>2. Kept /\ out = Due(Done) /\ out \in Seq(Token)
  BY <1>1 DEF Core, Kept, Buffers
<1>3. PICK d : d = Done + 1
  OBVIOUS
<1>4. d \in 1 .. Len(text) /\ d - 1 = Done /\ Done' = d /\ Head(pending) = text[d]
  <2>1. /\ Done \in Nat /\ Done + 1 \in 1 .. Len(text) /\ Done' = Done + 1
        /\ Head(pending) = text[Done + 1]
    BY <1>1, <1>2, Advances
  <2> QED BY <1>3, <2>1
<1>5. lookup[text[d]] \in Token /\ Expected(text[d]) = <<lookup[text[d]]>>
  BY <1>1, <1>2, <1>4, LookupsAssumption DEF Kept, IsWhole, Expected
<1>6. out' = out \o <<lookup[text[d]]>>
  BY <1>1, <1>2, <1>4, <1>5, AppendIsConcat
<1>7. out' \in Seq(Token) /\ out' = Due(Done)'
  BY <1>1, <1>2, <1>4, <1>5, <1>6, Settles
<1>8. Buffers'
  BY <1>1, <1>2, <1>7 DEF Kept, Buffers, Heap!IsABag
<1>9. Kept'
  BY <1>1, <1>2, <1>8, KeptOn
<1> QED BY <1>1, <1>7, <1>9, Idles

(* What Take says of the chunk that is taken.                              *)
Taken(d) ==
    /\ Kept /\ engine = "idle" /\ out = Due(Done) /\ out \in Seq(Token)
    /\ merges \in Tables /\ merges' = merges
    /\ pending # <<>> /\ pending' = Tail(pending) /\ UNCHANGED <<model, text>>
    /\ d \in 1 .. Len(text) /\ d - 1 = Done /\ Done' = d /\ Head(pending) = text[d]
    /\ d \in Nat /\ 1 <= d
    /\ ~IsWhole(text[d]) /\ Word(d) \in Seq(Token)
    /\ Expected(text[d]) = Canonical(merges, Word(d))

LEMMA Takes ==
  ASSUME Core, Take
  PROVE  \E d : Taken(d)
<1>1. /\ engine = "idle" /\ pending # <<>> /\ ~IsWhole(Head(pending))
      /\ pending' = Tail(pending) /\ UNCHANGED <<model, text>> /\ merges' = merges
  BY DEF Take, model
<1>2. Kept /\ out = Due(Done) /\ out \in Seq(Token) /\ merges \in Tables
  BY <1>1 DEF Core, Kept, Buffers
<1>3. PICK d : d = Done + 1
  OBVIOUS
<1>4. /\ d \in 1 .. Len(text) /\ d - 1 = Done /\ Done' = d /\ Head(pending) = text[d]
      /\ text[d] \in Seq(Chars) /\ d \in Nat /\ 1 <= d
  <2>1. /\ Done \in Nat /\ Done + 1 \in 1 .. Len(text) /\ Done' = Done + 1
        /\ Head(pending) = text[Done + 1] /\ text[Done + 1] \in Seq(Chars)
    BY <1>1, <1>2, Advances
  <2> QED BY <1>3, <2>1
<1>5. Word(d) \in Seq(Token)
  BY <1>4, InitialsAre DEF Word
<1>6. Expected(text[d]) = Canonical(merges, Word(d))
  BY <1>1, <1>4 DEF Expected, Word
<1> QED BY <1>1, <1>2, <1>4, <1>5, <1>6 DEF Taken

(* The chunk is through at once.                                           *)
LEMMA TakenIsThrough ==
  ASSUME NEW d, Taken(d), engine' = "idle", out' = out \o Word(d), Len(Word(d)) <= 1,
         ok' \in BOOLEAN, Monotonic(merges) => ok', todo' = todo, heap' = heap
  PROVE  Core'
<1>1. Canonical(merges, Word(d)) = Word(d)
  BY ShortIsCanonical DEF Taken
<1>2. out' \in Seq(Token) /\ out' = Due(Done)'
  BY <1>1, Settles DEF Taken
<1>3. Buffers'
  BY <1>2 DEF Taken, Kept, Buffers, Heap!IsABag
<1>4. Kept'
  BY <1>3, KeptOn DEF Taken
<1> QED BY <1>2, <1>4, Idles

LEMMA EmitNothingKeeps ==
  ASSUME Core, EmitNothing
  PROVE  Core'
<1>1. PICK d : Taken(d)
  BY Takes DEF EmitNothing
<1>2. /\ engine' = engine /\ out' = out /\ ok' = ok /\ todo' = todo /\ heap' = heap
      /\ Word(d) = <<>>
  BY <1>1 DEF EmitNothing, batchVars, streamVars, heapVars, Taken, Word
<1>3. out' = out \o Word(d) /\ Len(Word(d)) <= 1
  BY <1>1, <1>2, ConcatEmptySeq DEF Taken
<1>4. ok' \in BOOLEAN /\ (Monotonic(merges) => ok')
  BY <1>1, <1>2 DEF Taken, Kept, Buffers
<1>5. engine' = "idle"
  BY <1>1, <1>2 DEF Taken
<1> QED BY <1>1, <1>2, <1>3, <1>4, <1>5, TakenIsThrough

-----------------------------------------------------------------------------
(* An engine is started on the chunk that was taken.                       *)
LEMMA TakenIsWorkedOn ==
  ASSUME NEW d, Taken(d), engine' \in {"batch", "stream", "small", "heap"},
         (IF engine' = "stream" THEN Before' ELSE out') = out, out' = out,
         Heap!IsABag(heap'), ok' = ok, engine' # "stream" => todo' = <<>>
  PROVE  Core'
<1>1. ok' \in BOOLEAN /\ (Monotonic(merges') => ok')
  BY DEF Taken, Kept, Buffers
<1>2. Buffers'
  BY <1>1 DEF Taken, Buffers, Heap!IsABag
<1>3. Kept'
  BY <1>2, KeptOn DEF Taken
<1>4. Done' >= 1 /\ out = Due(d - 1)'
  <2>1. UNCHANGED <<model, text>> /\ out = Due(d - 1) /\ Done' = d /\ 1 <= d
    BY DEF Taken
  <2> QED BY <2>1, Fixed
<1>5. ~(~byteFallback' /\ text'[Done'] \in DOMAIN lookup')
  <2>1. /\ byteFallback' = byteFallback /\ lookup' = lookup /\ text' = text /\ Done' = d
        /\ ~IsWhole(text[d])
    BY DEF Taken, model
  <2> QED BY <2>1, Zenon DEF IsWhole
<1>6. Due(d - 1)' = Due(Done - 1)'
  <2>1. Done' = d
    BY DEF Taken
  <2> QED BY <2>1, Zenon DEF Due
<1>7. AtWork'
  BY <1>4, <1>5, <1>6 DEF AtWork, IsWhole
<1> QED BY <1>3, <1>7 DEF Core

LEMMA WordTaken ==
  ASSUME NEW d, Taken(d)
  PROVE  Word(Done)' = Word(d)
BY DEF Taken, Word, Initials

LEMMA StartStreamKeeps ==
  ASSUME Core, StartStream
  PROVE  Core'
<1>1. PICK d : Taken(d)
  BY Takes DEF StartStream
<1>2. /\ engine' = "stream" /\ mark' = Len(out) /\ out' = out /\ ok' = ok /\ heap' = heap
  BY DEF StartStream, Stream!Begin, batchVars, heapVars
<1>3. out \in Seq(Token) /\ Heap!IsABag(heap)
  BY <1>1 DEF Taken, Kept, Buffers
<1>4. Before' = out
  <2>1. SubSeq(out, 1, Len(out)) = out
    BY <1>3, Beginnings, LenProperties
  <2> QED BY <1>2, <2>1 DEF Before
<1>5. Heap!IsABag(heap')
  BY <1>2, <1>3 DEF Heap!IsABag
<1> QED BY <1>1, <1>2, <1>4, <1>5, TakenIsWorkedOn

LEMMA StartBatchKeeps ==
  ASSUME Core, StartBatch
  PROVE  Core'
<1>1. PICK d : Taken(d)
  BY Takes DEF StartBatch
<1>2. PICK w : w = Word(d)
  OBVIOUS
<1>3. /\ w \in Seq(Token) /\ Monotonic(merges) /\ (Batch!Trivial(w) \/ Batch!Begin(w))
      /\ ExtendOut /\ todo' = todo /\ heap' = heap
  BY <1>1, <1>2 DEF StartBatch, UseBatch, Taken, Word, streamVars, heapVars
<1>4. /\ todo = <<>> /\ Heap!IsABag(heap) /\ ok \in BOOLEAN /\ ok /\ engine = "idle"
  BY <1>1, <1>3 DEF Taken, Kept, Buffers
<1>5. CASE Batch!Trivial(w)
  <2>1. engine' = "idle" /\ Len(w) <= 1 /\ tokens' = w /\ ok' = TRUE
    BY <1>4, <1>5 DEF Batch!Trivial
  <2>2. out' = out \o w
    BY <1>3, <2>1 DEF ExtendOut
  <2> QED BY <1>1, <1>2, <1>3, <2>1, <2>2, TakenIsThrough
<1>6. CASE Batch!Begin(w)
  <2>1. engine' = "batch" /\ ok' = ok
    BY <1>6 DEF Batch!Begin
  <2>2. out' = out
    BY <1>3, <2>1 DEF ExtendOut
  <2>3. Heap!IsABag(heap')
    BY <1>3, <1>4 DEF Heap!IsABag
  <2> QED BY <1>1, <1>3, <1>4, <2>1, <2>2, <2>3, TakenIsWorkedOn
<1> QED BY <1>3, <1>5, <1>6

LEMMA StartCanonicalKeeps ==
  ASSUME Core, StartCanonical
  PROVE  Core'
<1>1. PICK d : Taken(d)
  BY Takes DEF StartCanonical
<1>2. PICK w : w = Word(d)
  OBVIOUS
<1>3. /\ w \in Seq(Token) /\ ExtendOut /\ todo' = todo /\ ok' = ok
      /\ \/ Small!Trivial(w) /\ heap' = heap
         \/ Small!Begin(w) /\ heap' = heap
         \/ Heap!Begin(w)
  BY <1>1, <1>2 DEF StartCanonical, Taken, Word, batchVars, streamVars, heapVars
<1>4. /\ todo = <<>> /\ Heap!IsABag(heap)
      /\ ok \in BOOLEAN /\ (Monotonic(merges) => ok) /\ engine = "idle"
  BY <1>1, <1>3 DEF Taken, Kept, Buffers
<1>5. CASE Small!Trivial(w) /\ heap' = heap
  <2>1. engine' = "idle" /\ Len(w) <= 1 /\ tokens' = w
    BY <1>4, <1>5 DEF Small!Trivial
  <2>2. out' = out \o w
    BY <1>3, <2>1 DEF ExtendOut
  <2> QED BY <1>1, <1>2, <1>3, <1>4, <1>5, <2>1, <2>2, TakenIsThrough
<1>6. CASE Small!Begin(w) /\ heap' = heap
  <2>1. engine' = "small"
    BY <1>6 DEF Small!Begin
  <2>2. out' = out
    BY <1>3, <2>1 DEF ExtendOut
  <2>3. Heap!IsABag(heap')
    BY <1>4, <1>6 DEF Heap!IsABag
  <2> QED BY <1>1, <1>3, <1>4, <2>1, <2>2, <2>3, TakenIsWorkedOn
<1>7. CASE Heap!Begin(w)
  <2>1. engine' = "heap"
    BY <1>7 DEF Heap!Begin
  <2>2. out' = out
    BY <1>3, <2>1 DEF ExtendOut
  <2>3. Heap!IsABag(heap')
    BY <1>7 DEF Heap!Begin, Heap!IsABag, Heap!SetToBag
  <2> QED BY <1>1, <1>3, <1>4, <2>1, <2>2, <2>3, TakenIsWorkedOn
<1> QED BY <1>3, <1>5, <1>6, <1>7

-----------------------------------------------------------------------------
(* The engine at work goes on, or is through with its chunk.               *)
OnChunk(d) ==
    /\ Kept /\ engine # "idle" /\ merges \in Tables /\ merges' = merges
    /\ pending' = pending /\ UNCHANGED <<model, text>>
    /\ d \in 1 .. Len(text) /\ d = Done /\ Done' = d /\ 1 <= d
    /\ ~IsWhole(text[d])
    /\ Expected(text[d]) = Canonical(merges, Word(d))
    /\ (IF engine = "stream" THEN Before ELSE out) = Due(d - 1)
    /\ out \in Seq(Token) /\ Heap!IsABag(heap)
    /\ ok \in BOOLEAN /\ (Monotonic(merges) => ok) /\ (engine # "stream" => todo = <<>>)

LEMMA Works ==
  ASSUME Core, Running, engine # "idle"
  PROVE  \E d : OnChunk(d)
<1>1. pending' = pending /\ text' = text /\ UNCHANGED <<model, text>> /\ merges' = merges
  BY DEF Running, model
<1>2. PICK d : d = Done
  OBVIOUS
<1>3. /\ 1 <= d /\ ~IsWhole(text[d])
      /\ (IF engine = "stream" THEN Before ELSE out) = Due(d - 1)
  BY <1>2 DEF Core, AtWork
<1>4. d \in 1 .. Len(text)
  <2>1. Len(text) \in Nat /\ Len(pending) \in Nat /\ Len(pending) <= Len(text)
    BY LenProperties DEF Core, Kept
  <2> QED BY <1>2, <1>3, <2>1 DEF Done
<1>5. Done' = d
  BY <1>1, <1>2 DEF Done
<1>6. Expected(text[d]) = Canonical(merges, Word(d))
  BY <1>3 DEF Expected, Word
<1>7. /\ Kept /\ merges \in Tables /\ out \in Seq(Token) /\ Heap!IsABag(heap)
      /\ ok \in BOOLEAN /\ (Monotonic(merges) => ok) /\ (engine # "stream" => todo = <<>>)
  BY DEF Core, Kept, Buffers
<1> QED BY <1>1, <1>2, <1>3, <1>4, <1>5, <1>6, <1>7 DEF OnChunk

LEMMA GoesOn ==
  ASSUME NEW d, OnChunk(d), engine' = engine, Buffers',
         (IF engine = "stream" THEN Before' ELSE out')
             = (IF engine = "stream" THEN Before ELSE out)
  PROVE  Core'
<1>1. Kept'
  BY KeptOn DEF OnChunk
<1>2. Done' >= 1 /\ (IF engine' = "stream" THEN Before' ELSE out') = Due(d - 1)'
  <2>1. UNCHANGED <<model, text>> /\ Done' = d /\ 1 <= d
        /\ (IF engine = "stream" THEN Before ELSE out) = Due(d - 1)
    BY DEF OnChunk
  <2> QED BY <2>1, Fixed
<1>3. ~(~byteFallback' /\ text'[Done'] \in DOMAIN lookup')
  <2>1. /\ byteFallback' = byteFallback /\ lookup' = lookup /\ text' = text /\ Done' = d
        /\ ~IsWhole(text[d])
    BY DEF OnChunk, model
  <2> QED BY <2>1, Zenon DEF IsWhole
<1>4. Due(d - 1)' = Due(Done - 1)'
  <2>1. Done' = d
    BY DEF OnChunk
  <2> QED BY <2>1, Zenon DEF Due
<1>5. AtWork'
  BY <1>2, <1>3, <1>4 DEF AtWork, IsWhole
<1>6. engine' # "idle"
  BY DEF OnChunk
<1> QED BY <1>1, <1>5, <1>6 DEF Core

LEMMA IsThrough ==
  ASSUME NEW d, OnChunk(d), engine' = "idle", todo' = <<>>, Heap!IsABag(heap'),
         ok' \in BOOLEAN, Monotonic(merges) => ok',
         out' = Due(d - 1) \o Canonical(merges, Word(d))
  PROVE  Core'
<1>1. out' \in Seq(Token) /\ out' = Due(Done)'
  BY Settles DEF OnChunk
<1>2. Buffers'
  BY <1>1 DEF OnChunk, Buffers, Heap!IsABag
<1>3. Kept'
  BY <1>2, KeptOn DEF OnChunk
<1> QED BY <1>1, <1>3, Idles

LEMMA WordWorkedOn ==
  ASSUME NEW d, OnChunk(d)
  PROVE  Word(Done) = Word(d) /\ Word(Done)' = Word(d)
BY DEF OnChunk, Word, Initials

(* A step of an engine, if it is done right when the engine is through.     *)
LEMMA RunStreamKeeps ==
  ASSUME Core, RunStream, Before' = Before, out' \in Seq(Token),
         engine' = "idle" => out' = Before \o Canonical(merges, Word(Done))
  PROVE  Core'
<1>1. /\ Running /\ ok' = ok /\ heap' = heap /\ engine = "stream"
      /\ engine' = "stream" \/ (engine' = "idle" /\ todo' = <<>>)
  BY DEF RunStream, batchVars, heapVars, Stream!Step, Stream!PushNext, Stream!FlushTop,
         Stream!Emit, Stream!Open, Stream!Complete, Stream!FallThrough, Stream!Return,
         Stream!Processing
<1>2. PICK d : OnChunk(d)
  BY <1>1, Works
<1>3. /\ Heap!IsABag(heap') /\ ok' \in BOOLEAN /\ (Monotonic(merges) => ok')
      /\ Before = Due(d - 1) /\ Word(Done) = Word(d)
  BY <1>1, <1>2, WordWorkedOn DEF OnChunk, Heap!IsABag
<1>4. CASE engine' = "idle"
  BY <1>1, <1>2, <1>3, <1>4, IsThrough
<1>5. CASE engine' = "stream"
  <2>1. Buffers'
    BY <1>2, <1>3, <1>5 DEF Buffers, Heap!IsABag, OnChunk
  <2> QED BY <1>1, <1>2, <1>5, <2>1, GoesOn
<1> QED BY <1>1, <1>4, <1>5

(* The other engines leave their result in the chunk buffer.                *)
LEMMA ExtendsOut ==
  ASSUME Core, Running, ExtendOut, engine \in {"batch", "small", "heap"},
         engine' \in {engine, "idle"}, todo' = todo, Heap!IsABag(heap'),
         ok' \in BOOLEAN, Monotonic(merges) => ok',
         engine' = "idle" => tokens' = Canonical(merges, Word(Done))
  PROVE  Core'
<1>1. PICK d : OnChunk(d)
  BY Works
<1>2. /\ todo' = <<>> /\ out = Due(d - 1) /\ out \in Seq(Token) /\ merges' = merges
      /\ out' = (IF engine' = "idle" THEN out \o tokens' ELSE out)
      /\ Word(Done) = Word(d)
  BY <1>1, WordWorkedOn DEF OnChunk, ExtendOut
<1>3. CASE engine' = "idle"
  BY <1>1, <1>2, <1>3, IsThrough
<1>4. CASE engine' = engine /\ engine' # "idle"
  <2>1. Buffers'
    BY <1>2, <1>4 DEF Buffers, Heap!IsABag
  <2> QED BY <1>1, <1>2, <1>4, <2>1, GoesOn
<1> QED BY <1>3, <1>4

LEMMA RunBatchKeeps ==
  ASSUME Core, RunBatch, ok' \in BOOLEAN, ok',
         engine' = "idle" => tokens' = Canonical(merges, Word(Done))
  PROVE  Core'
<1>1. /\ Running /\ ExtendOut /\ todo' = todo /\ heap' = heap
      /\ engine = "batch" /\ engine' \in {"batch", "idle"}
  BY DEF RunBatch, streamVars, heapVars, Batch!Step, Batch!Pass, Batch!Return
<1>2. Heap!IsABag(heap')
  BY <1>1 DEF Core, Kept, Buffers, Heap!IsABag
<1> QED BY <1>1, <1>2, ExtendsOut

LEMMA RunSmallKeeps ==
  ASSUME Core, RunSmall, engine' = "idle" => tokens' = Canonical(merges, Word(Done))
  PROVE  Core'
<1>1. /\ Running /\ ExtendOut /\ todo' = todo /\ heap' = heap /\ ok' = ok
      /\ engine = "small" /\ engine' \in {"small", "idle"}
  BY DEF RunSmall, batchVars, streamVars, heapVars, Small!Step, Small!MergeBest, Small!Return
<1>2. Heap!IsABag(heap') /\ ok' \in BOOLEAN /\ (Monotonic(merges) => ok')
  BY <1>1 DEF Core, Kept, Buffers, Heap!IsABag
<1> QED BY <1>1, <1>2, ExtendsOut

LEMMA RunHeapKeeps ==
  ASSUME Core, RunHeap, Heap!IsABag(heap'),
         engine' = "idle" => tokens' = Canonical(merges, Word(Done))
  PROVE  Core'
<1>1. /\ Running /\ ExtendOut /\ todo' = todo /\ ok' = ok
      /\ engine = "heap" /\ engine' \in {"heap", "idle"}
  BY DEF RunHeap, batchVars, streamVars, Heap!Step, Heap!PopStale, Heap!PopFold, Heap!Gather
<1>2. ok' \in BOOLEAN /\ (Monotonic(merges) => ok')
  BY <1>1 DEF Core, Kept, Buffers
<1> QED BY <1>1, <1>2, ExtendsOut

-----------------------------------------------------------------------------
(* Nothing happens.                                                        *)
Still ==
    /\ UNCHANGED <<model, text, pending>>
    /\ merges' = merges /\ engine' = engine /\ tokens' = tokens /\ out' = out
    /\ ranks' = ranks /\ min' = min /\ ok' = ok /\ given' = given
    /\ at' = at /\ state' = state /\ todo' = todo /\ mark' = mark
    /\ canonRanks' = canonRanks
    /\ prev' = prev /\ next' = next /\ alive' = alive /\ heap' = heap

LEMMA StutterIsStill == UNCHANGED vars => Still
BY DEF vars, model, batchVars, streamVars, heapVars, Still

LEMMA StillKeeps ==
  ASSUME Core, Still
  PROVE  Core' /\ Word(Done)' = Word(Done)
<1>1. UNCHANGED <<model, text>> /\ Done' = Done
  BY DEF Still, Done
<1>2. Before' = Before
  BY DEF Still, Before
<1>3. Buffers'
  <2>1. Buffers /\ out' = out /\ heap' = heap /\ ok' = ok /\ merges' = merges
        /\ engine' = engine /\ todo' = todo
    BY DEF Still, Core, Kept
  <2> QED BY <2>1 DEF Buffers, Heap!IsABag
<1>4. Word(Done)' = Word(Done)
  BY <1>1 DEF Word, Initials
<1>5. CASE engine = "idle"
  <2>1. Kept'
    BY <1>1, <1>3, KeptOn DEF Core, Still
  <2>2. out' = Due(Done)
    BY <1>5 DEF Core, Still
  <2>3. Due(Done) = Due(Done)'
    <3>1. PICK d : d = Done
      OBVIOUS
    <3>2. Due(d) = Due(d)'
      BY <1>1, Fixed
    <3>3. Due(d)' = Due(Done)'
      <4>1. Done' = d
        BY <1>1, <3>1
      <4> QED BY <4>1, Zenon DEF Due
    <3> QED BY <3>1, <3>2, <3>3
  <2> QED BY <1>4, <1>5, <2>1, <2>2, <2>3, Idles DEF Still
<1>6. CASE engine # "idle"
  <2>1. Running
    BY DEF Still, Running
  <2>2. PICK d : OnChunk(d)
    BY <1>6, <2>1, Works
  <2>3. engine' = engine /\ out' = out
    BY DEF Still
  <2> QED BY <1>2, <1>3, <1>4, <2>2, <2>3, GoesOn
<1> QED BY <1>5, <1>6

(* The engine that is at work after a step was started or run by it.        *)
LEMMA WhoRuns ==
  ASSUME [Next]_vars
  PROVE  \/ engine' = "idle" \/ Still
         \/ engine' = "stream" /\ (StartStream \/ RunStream)
         \/ engine' = "batch" /\ (StartBatch \/ RunBatch)
         \/ engine' = "small" /\ (StartCanonical \/ RunSmall)
         \/ engine' = "heap" /\ (StartCanonical \/ RunHeap)
<1>1. CASE EmitWhole \/ EmitNothing
  BY <1>1 DEF EmitWhole, EmitNothing, Take
<1>2. StartStream => engine' = "stream"
  BY DEF StartStream, Stream!Begin
<1>3. StartBatch => engine' \in {"idle", "batch"}
  BY DEF StartBatch, Batch!Trivial, Batch!Begin
<1>4. StartCanonical => engine' \in {"idle", "small", "heap"}
  BY DEF StartCanonical, Small!Trivial, Small!Begin, Heap!Begin
<1>5. RunStream => engine' \in {"idle", "stream"}
  BY DEF RunStream, Stream!Step, Stream!PushNext, Stream!FlushTop, Stream!Emit, Stream!Open,
         Stream!Complete, Stream!FallThrough, Stream!Return, Stream!Processing
<1>6. RunBatch => engine' \in {"idle", "batch"}
  BY DEF RunBatch, Batch!Step, Batch!Pass, Batch!Return
<1>7. RunSmall => engine' \in {"idle", "small"}
  BY DEF RunSmall, Small!Step, Small!MergeBest, Small!Return
<1>8. RunHeap => engine' \in {"idle", "heap"}
  BY DEF RunHeap, Heap!Step, Heap!PopStale, Heap!PopFold, Heap!Gather
<1> QED BY <1>1, <1>2, <1>3, <1>4, <1>5, <1>6, <1>7, <1>8, StutterIsStill DEF Next

LEMMA CoreIsEnough == Core => OutputIsCanonical
<1>1. SUFFICES ASSUME Core, engine = "idle"
               PROVE  out = FlattenSeq([i \in DOMAIN Emitted |-> Expected(Emitted[i])])
  BY DEF OutputIsCanonical
<1>2. Kept /\ out = Due(Done) /\ text \in Seq(Seq(Chars)) /\ Done \in 0 .. Len(text)
  <2>1. Len(text) \in Nat /\ Len(pending) \in Nat /\ Len(pending) <= Len(text)
    BY <1>1, LenProperties DEF Core, Kept
  <2> QED BY <1>1, <2>1 DEF Core, Kept, Done
<1>3. PICK e, d : e = Emitted /\ d = Done
  OBVIOUS
<1>4. e \in Seq(Seq(Chars)) /\ Len(e) = d /\ \A i \in 1 .. d : e[i] = text[i]
  BY <1>2, <1>3, Beginnings DEF Emitted, Done
<1>5. DOMAIN e = 1 .. d
  BY <1>4, LenProperties
<1>6. [i \in 1 .. d |-> Expected(text[i])] = [i \in DOMAIN e |-> Expected(e[i])]
  BY <1>4, <1>5
<1> QED BY <1>2, <1>3, <1>6 DEF Due

-----------------------------------------------------------------------------
(* The ranges of encode_with_offsets: where the k-th of them ends, with     *)
(* `from` before the first, and starts, with `to` behind the last.         *)
EndAt(s, k, from) == IF k = 0 THEN from ELSE s[k][2]

StartAt(s, k, to) == IF k = Len(s) + 1 THEN to ELSE s[k][1]

(* The ranges follow each other from `from` to `to`, and only skip bytes    *)
(* without a token.                                                        *)
Skips(a, b) == a <= b /\ Offset!Unknown(a, b)

Fills(from, s, to) ==
    /\ from \in Nat /\ to \in Nat /\ s \in Seq(Nat \X Nat)
    /\ \A k \in 1 .. Len(s) : s[k][1] \in from .. to /\ s[k][2] \in from .. to /\ s[k][1] < s[k][2]
    /\ \A k \in 0 .. Len(s) : Skips(EndAt(s, k, from), StartAt(s, k + 1, to))

LEMMA FillsBetween ==
  ASSUME NEW from, NEW to, NEW s, Fills(from, s, to)
  PROVE  /\ from <= to /\ Len(s) \in Nat
         /\ \A k \in 0 .. Len(s) : EndAt(s, k, from) \in from .. to
         /\ \A k \in 1 .. Len(s) + 1 : StartAt(s, k, to) \in from .. to
<1>1. PICK n : n = Len(s)
  OBVIOUS
<1>2. /\ from \in Nat /\ to \in Nat /\ n \in Nat
      /\ \A k \in 1 .. n : s[k][1] \in from .. to /\ s[k][2] \in from .. to
  BY <1>1, LenProperties DEF Fills
<1>3. from <= to
  <2>1. CASE n = 0
    <3>1. Skips(EndAt(s, n, from), StartAt(s, n + 1, to))
      <4>1. n \in 0 .. Len(s)
        BY <1>1, <1>2
      <4> QED BY <4>1 DEF Fills
    <3>2. EndAt(s, n, from) = from /\ StartAt(s, n + 1, to) = to
      BY <1>1, <2>1 DEF EndAt, StartAt
    <3> QED BY <3>1, <3>2 DEF Skips
  <2>2. CASE n # 0
    <3>1. 1 \in 1 .. n
      BY <1>2, <2>2
    <3>2. s[1][1] \in from .. to
      BY <1>2, <3>1
    <3> QED BY <1>2, <3>2
  <2> QED BY <2>1, <2>2
<1>4. ASSUME NEW k \in 0 .. n PROVE EndAt(s, k, from) \in from .. to
  <2>1. CASE k = 0
    BY <1>2, <1>3, <2>1 DEF EndAt
  <2>2. CASE k # 0
    <3>1. k \in 1 .. n
      BY <1>2, <2>2
    <3> QED BY <1>2, <2>2, <3>1 DEF EndAt
  <2> QED BY <2>1, <2>2
<1>5. ASSUME NEW k \in 1 .. n + 1 PROVE StartAt(s, k, to) \in from .. to
  <2>1. CASE k = n + 1
    BY <1>1, <1>2, <1>3, <2>1 DEF StartAt
  <2>2. CASE k # n + 1
    <3>1. k \in 1 .. n
      BY <1>2, <2>2
    <3> QED BY <1>1, <1>2, <2>2, <3>1 DEF StartAt
  <2> QED BY <2>1, <2>2
<1> QED BY <1>1, <1>2, <1>3, <1>4, <1>5

LEMMA FillsJoined ==
  ASSUME NEW from, NEW mid, NEW to, NEW s, NEW t, Fills(from, s, mid), Fills(mid, t, to)
  PROVE  Fills(from, s \o t, to)
<1>1. PICK u, n, m : u = s \o t /\ n = Len(s) /\ m = Len(t)
  OBVIOUS
<1>2. /\ s \in Seq(Nat \X Nat) /\ t \in Seq(Nat \X Nat)
      /\ from \in Nat /\ mid \in Nat /\ to \in Nat /\ n \in Nat /\ m \in Nat
  BY <1>1, LenProperties DEF Fills
<1>3. /\ \A k \in 1 .. n : s[k][1] \in from .. mid /\ s[k][2] \in from .. mid /\ s[k][1] < s[k][2]
      /\ \A k \in 0 .. n : Skips(EndAt(s, k, from), StartAt(s, k + 1, mid))
      /\ \A k \in 1 .. m : t[k][1] \in mid .. to /\ t[k][2] \in mid .. to /\ t[k][1] < t[k][2]
      /\ \A k \in 0 .. m : Skips(EndAt(t, k, mid), StartAt(t, k + 1, to))
  BY <1>1 DEF Fills
<1>4. /\ u \in Seq(Nat \X Nat) /\ Len(u) = n + m
      /\ \A k \in 1 .. n : u[k] = s[k]
      /\ \A k \in 1 .. m : u[n + k] = t[k]
  <2>1. PICK R : R = Nat \X Nat
    OBVIOUS
  <2>2. s \in Seq(R) /\ t \in Seq(R)
    BY <1>2, <2>1
  <2>3. /\ s \o t \in Seq(R) /\ Len(s \o t) = Len(s) + Len(t)
        /\ \A k \in 1 .. Len(s) : (s \o t)[k] = s[k]
        /\ \A k \in 1 .. Len(t) : (s \o t)[Len(s) + k] = t[k]
    BY ONLY <2>2, Joined
  <2> QED BY <1>1, <2>1, <2>3
<1>5. EndAt(s, n, from) <= mid /\ Offset!Unknown(EndAt(s, n, from), mid)
  <2>1. n \in 0 .. n /\ StartAt(s, n + 1, mid) = mid
    BY <1>1, <1>2 DEF StartAt
  <2> QED BY <1>3, <2>1 DEF Skips
<1>6. mid <= StartAt(t, 1, to) /\ Offset!Unknown(mid, StartAt(t, 1, to))
  <2>1. PICK z : z = 0
    OBVIOUS
  <2>2. z \in 0 .. m /\ EndAt(t, z, mid) = mid /\ z + 1 = 1
    BY <1>2, <2>1 DEF EndAt
  <2> QED BY <1>3, <2>2 DEF Skips
<1>7. from <= mid /\ mid <= to
  BY FillsBetween
<1>11. from .. mid \subseteq from .. to /\ mid .. to \subseteq from .. to
  BY <1>2, <1>7
<1>8. ASSUME NEW k \in 1 .. n + m
      PROVE  u[k][1] \in from .. to /\ u[k][2] \in from .. to /\ u[k][1] < u[k][2]
  <2>1. CASE k <= n
    <3>1. k \in 1 .. n
      BY <1>2, <2>1
    <3> QED BY <1>3, <1>4, <1>11, <3>1
  <2>2. CASE ~(k <= n)
    <3>1. PICK j : j = k - n
      OBVIOUS
    <3>2. j \in 1 .. m /\ k = n + j
      BY <1>2, <2>2, <3>1
    <3> QED BY <1>3, <1>4, <1>11, <3>2
  <2> QED BY <2>1, <2>2
<1>9. ASSUME NEW k \in 0 .. n + m
      PROVE  Skips(EndAt(u, k, from), StartAt(u, k + 1, to))
  <2>1. CASE k < n
    <3>1. k \in 0 .. n /\ k + 1 \in 1 .. n /\ k + 1 # n + m + 1 /\ k + 1 # n + 1
      BY <1>2, <2>1
    <3>2. u[k + 1] = s[k + 1] /\ (k # 0 => u[k] = s[k])
      <4>1. k # 0 => k \in 1 .. n
        BY <1>2, <2>1
      <4> QED BY <1>4, <3>1, <4>1
    <3>3. EndAt(u, k, from) = EndAt(s, k, from)
      BY <3>2 DEF EndAt
    <3>4. StartAt(u, k + 1, to) = StartAt(s, k + 1, mid)
      BY <1>1, <1>4, <3>1, <3>2 DEF StartAt
    <3> QED BY <1>3, <3>1, <3>3, <3>4
  <2>2. CASE k = n
    <3>1. EndAt(u, k, from) = EndAt(s, n, from)
      <4>1. k # 0 => u[k] = s[k]
        <5>1. k # 0 => k \in 1 .. n
          BY <1>2, <2>2
        <5> QED BY <1>4, <5>1
      <4> QED BY <2>2, <4>1 DEF EndAt
    <3>2. StartAt(u, k + 1, to) = StartAt(t, 1, to)
      <4>1. k + 1 = n + m + 1 <=> 1 = m + 1
        BY <1>2, <2>2
      <4>2. 1 # m + 1 => u[k + 1] = t[1]
        <5>1. 1 # m + 1 => 1 \in 1 .. m
          BY <1>2
        <5> QED BY <1>4, <2>2, <5>1
      <4> QED BY <1>1, <1>4, <4>1, <4>2 DEF StartAt
    <3>3. PICK a, b : a = EndAt(s, n, from) /\ b = StartAt(t, 1, to)
      OBVIOUS
    <3>4. a \in Nat /\ b \in Nat
      <4>1. n \in 0 .. n /\ 1 \in 1 .. m + 1
        BY <1>2
      <4>2. a \in from .. mid /\ b \in mid .. to
        BY <1>1, <3>3, <4>1, FillsBetween
      <4> QED BY <1>2, <4>2
    <3>5. Skips(a, b)
      <4>1. a <= mid /\ mid <= b /\ Offset!Unknown(a, mid) /\ Offset!Unknown(mid, b)
        BY <1>5, <1>6, <3>3
      <4>2. \A i \in a + 1 .. b : i \in a + 1 .. mid \/ i \in mid + 1 .. b
        BY <1>2, <3>4
      <4>3. a <= b
        BY <1>2, <3>4, <4>1
      <4> QED BY <4>1, <4>2, <4>3 DEF Skips, Offset!Unknown
    <3> QED BY <3>1, <3>2, <3>3, <3>5
  <2>3. CASE k > n
    <3>1. PICK j : j = k - n
      OBVIOUS
    <3>2. /\ j \in 1 .. m /\ j \in 0 .. m /\ j # 0 /\ k # 0 /\ k = n + j /\ k + 1 = n + (j + 1)
          /\ (k + 1 = n + m + 1 <=> j + 1 = m + 1) /\ (j + 1 # m + 1 => j + 1 \in 1 .. m)
      BY <1>2, <2>3, <3>1
    <3>4. u[k] = t[j] /\ (j + 1 # m + 1 => u[k + 1] = t[j + 1])
      BY <1>4, <3>2
    <3>3. EndAt(u, k, from) = EndAt(t, j, mid) /\ StartAt(u, k + 1, to) = StartAt(t, j + 1, to)
      BY <1>1, <1>4, <3>2, <3>4 DEF EndAt, StartAt
    <3> QED BY <1>3, <3>2, <3>3
  <2> QED BY <1>2, <2>1, <2>2, <2>3
<1> QED BY <1>1, <1>2, <1>4, <1>8, <1>9 DEF Fills

(* No range, and one range, between two places.                             *)
LEMMA FillsNone ==
  ASSUME NEW a \in Nat, NEW b \in Nat, Skips(a, b)
  PROVE  Fills(a, <<>>, b)
<1>1. PICK s : s = <<>>
  OBVIOUS
<1>2. s \in Seq(Nat \X Nat) /\ Len(s) = 0
  BY <1>1
<1>3. Skips(EndAt(s, 0, a), StartAt(s, 1, b))
  <2>1. EndAt(s, 0, a) = a /\ StartAt(s, 1, b) = b
    BY <1>2 DEF EndAt, StartAt
  <2> QED BY <2>1
<1>4. \A k \in 0 .. Len(s) : k = 0 /\ k + 1 = 1
  BY <1>2
<1>5. \A k \in 0 .. Len(s) : Skips(EndAt(s, k, a), StartAt(s, k + 1, b))
  BY <1>3, <1>4
<1>6. \A k \in 1 .. Len(s) : s[k][1] \in a .. b /\ s[k][2] \in a .. b /\ s[k][1] < s[k][2]
  BY <1>2
<1> QED BY <1>1, <1>2, <1>5, <1>6 DEF Fills

LEMMA FillsOne ==
  ASSUME NEW a \in Nat, NEW b \in Nat, a < b
  PROVE  Fills(a, << <<a, b>> >>, b)
<1>1. PICK p, s : p = <<a, b>> /\ s = <<p>>
  OBVIOUS
<1>2. p \in Nat \X Nat /\ p[1] = a /\ p[2] = b
  BY <1>1
<1>3. s \in Seq(Nat \X Nat) /\ Len(s) = 1 /\ s[1] = p
  BY <1>1, <1>2
<1>4. ASSUME NEW k \in 0 .. Len(s) PROVE Skips(EndAt(s, k, a), StartAt(s, k + 1, b))
  <2>1. k = 0 \/ k = 1
    BY <1>3
  <2>2. CASE k = 0
    <3>1. EndAt(s, k, a) = a /\ StartAt(s, k + 1, b) = a
      BY <1>2, <1>3, <2>2 DEF EndAt, StartAt
    <3> QED BY <3>1 DEF Skips, Offset!Unknown
  <2>3. CASE k = 1
    <3>1. EndAt(s, k, a) = b /\ StartAt(s, k + 1, b) = b
      BY <1>2, <1>3, <2>3 DEF EndAt, StartAt
    <3> QED BY <3>1 DEF Skips, Offset!Unknown
  <2> QED BY <2>1, <2>2, <2>3
<1>5. ASSUME NEW k \in 1 .. Len(s) PROVE s[k][1] \in a .. b /\ s[k][2] \in a .. b /\ s[k][1] < s[k][2]
  <2>1. k = 1
    BY <1>3
  <2> QED BY <1>2, <1>3, <2>1
<1> QED BY <1>1, <1>3, <1>4, <1>5 DEF Fills

(* The walk of a pass over the n tokens of the word, m steps long.         *)
Walked(st, m, n) ==
    /\ n \in Nat /\ toks \in Seq(Token) /\ Len(toks) = n
    /\ m \in 1 .. n /\ st \in [1 .. m -> 1 .. n] /\ st[1] = 1
    /\ \A k \in 1 .. m - 1 : st[k + 1] = st[k] + Offset!StepOf(st[k])
    /\ st[m] + Offset!StepOf(st[m]) = n + 1
    /\ \A i : Offset!Hit(i) => i \in 1 .. n - 1 /\ RankAt(merges, toks, i) # NoRank

(* A pass keeps the ranges one after the other: that of a merged pair goes  *)
(* from the start of the first to the end of the second.                   *)
LEMMA FillsPassed ==
  ASSUME NEW from, NEW to, Fills(from, sp, to), NEW st, NEW m, Walked(st, m, Len(sp))
  PROVE  /\ Fills(from, Offset!SpansMerged(st), to)
         /\ Len(Offset!SpansMerged(st)) = m
<1>1. PICK n, u : n = Len(sp) /\ u = Offset!SpansMerged(st)
  OBVIOUS
<1>2. /\ n \in Nat /\ m \in 1 .. n /\ m \in Nat /\ st \in [1 .. m -> 1 .. n] /\ st[1] = 1
      /\ \A k \in 1 .. m - 1 : st[k + 1] = st[k] + Offset!StepOf(st[k])
      /\ st[m] + Offset!StepOf(st[m]) = n + 1
      /\ \A i : Offset!Hit(i) => i \in 1 .. n - 1
  BY <1>1 DEF Walked
<1>3. /\ from \in Nat /\ to \in Nat /\ sp \in Seq(Nat \X Nat)
      /\ \A k \in 1 .. n : sp[k][1] \in from .. to /\ sp[k][2] \in from .. to /\ sp[k][1] < sp[k][2]
      /\ \A k \in 0 .. n : Skips(EndAt(sp, k, from), StartAt(sp, k + 1, to))
  BY <1>1 DEF Fills
<1> DEFINE end(k) == st[k] + (Offset!StepOf(st[k]) - 1)
<1>4. ASSUME NEW k \in 1 .. m
      PROVE  /\ st[k] \in 1 .. n /\ end(k) \in 1 .. n
             /\ Offset!Hit(st[k]) => end(k) = st[k] + 1
             /\ ~Offset!Hit(st[k]) => end(k) = st[k]
  <2>1. st[k] \in 1 .. n /\ (Offset!Hit(st[k]) => st[k] \in 1 .. n - 1)
    BY <1>2
  <2> QED BY <1>2, <2>1 DEF Offset!StepOf
<1>5. ASSUME NEW k \in 1 .. m PROVE u[k] = <<sp[st[k]][1], sp[end(k)][2]>>
  <2>1. DOMAIN st = 1 .. m
    BY <1>2
  <2>2. u[k] = IF Offset!Hit(st[k]) THEN <<sp[st[k]][1], sp[st[k] + 1][2]>> ELSE sp[st[k]]
    BY <1>1, <2>1 DEF Offset!SpansMerged
  <2>3. sp[st[k]] \in Nat \X Nat
    BY <1>1, <1>3, <1>4, ElementOfSeq
  <2>4. sp[st[k]] = <<sp[st[k]][1], sp[st[k]][2]>>
    BY <2>3
  <2> QED BY <1>4, <2>2, <2>4
<1>6. ASSUME NEW k \in 1 .. m
      PROVE  u[k][1] \in from .. to /\ u[k][2] \in from .. to /\ u[k][1] < u[k][2]
  <2>1. PICK i : i = st[k]
    OBVIOUS
  <2>2. i \in 1 .. n /\ end(k) \in 1 .. n /\ u[k][1] = sp[i][1] /\ u[k][2] = sp[end(k)][2]
    BY <1>4, <1>5, <2>1
  <2>3. u[k][1] \in from .. to /\ u[k][2] \in from .. to
    BY <1>3, <2>2
  <2>4. CASE ~Offset!Hit(i)
    BY <1>3, <1>4, <2>1, <2>2, <2>4
  <2>5. CASE Offset!Hit(i)
    <3>1. /\ end(k) = i + 1 /\ i \in 1 .. n /\ i + 1 \in 1 .. n
          /\ i \in 0 .. n /\ i # 0 /\ i + 1 # n + 1
      <4>1. k \in 1 .. m /\ i = st[k] /\ i \in 1 .. n - 1 /\ n \in Nat
        BY <1>2, <2>1, <2>5
      <4>2. end(k) = i + 1
        BY <1>4, <2>5, <4>1
      <4>3. i \in 1 .. n /\ i + 1 \in 1 .. n /\ i \in 0 .. n /\ i # 0 /\ i + 1 # n + 1
        BY ONLY <4>1
      <4> QED BY <4>2, <4>3
    <3>2. Skips(EndAt(sp, i, from), StartAt(sp, i + 1, to))
      BY <1>3, <3>1
    <3>3. sp[i][2] <= sp[i + 1][1]
      BY <1>1, <3>1, <3>2 DEF Skips, EndAt, StartAt
    <3>4. /\ sp[i][1] < sp[i][2] /\ sp[i + 1][1] < sp[i + 1][2]
          /\ sp[i][1] \in from .. to /\ sp[i][2] \in from .. to
          /\ sp[i + 1][1] \in from .. to /\ sp[i + 1][2] \in from .. to
      BY <1>3, <3>1
    <3>5. PICK a, b, c, d : a = sp[i][1] /\ b = sp[i][2] /\ c = sp[i + 1][1] /\ d = sp[i + 1][2]
      OBVIOUS
    <3>6. a \in Nat /\ b \in Nat /\ c \in Nat /\ d \in Nat /\ a < b /\ b <= c /\ c < d
      <4>1. /\ a \in from .. to /\ b \in from .. to /\ c \in from .. to /\ d \in from .. to
            /\ a < b /\ c < d /\ b <= c
        BY <3>3, <3>4, <3>5
      <4>2. from \in Nat /\ to \in Nat
        BY <1>3
      <4> QED BY ONLY <4>1, <4>2
    <3>7. a < d
      BY ONLY <3>6
    <3> HIDE DEF end
    <3> QED BY <2>2, <2>3, <3>1, <3>5, <3>7
  <2> QED BY <2>3, <2>4, <2>5
<1>7. u \in Seq(Nat \X Nat) /\ Len(u) = m
  <2>1. DOMAIN u = 1 .. m /\ u = [k \in DOMAIN u |-> u[k]]
    <3>1. DOMAIN st = 1 .. m
      BY <1>2
    <3> QED BY <1>1, <3>1 DEF Offset!SpansMerged
  <2>2. ASSUME NEW k \in 1 .. m PROVE u[k] \in Nat \X Nat
    <3>1. u[k][1] \in Nat /\ u[k][2] \in Nat
      BY <1>3, <1>6
    <3>2. PICK a, b : u[k] = <<a, b>>
      BY <1>5
    <3> QED BY <3>1, <3>2
  <2>3. PICK R : R = Nat \X Nat
    OBVIOUS
  <2>4. u \in [1 .. m -> R]
    BY <2>1, <2>2, <2>3
  <2>5. u \in Seq(R)
    BY <1>2, <2>4, SeqDef
  <2> QED BY <1>2, <2>1, <2>3, <2>5, LenProperties
<1>8. ASSUME NEW k \in 0 .. m
      PROVE  Skips(EndAt(u, k, from), StartAt(u, k + 1, to))
  <2>1. PICK e : e = IF k = 0 THEN 0 ELSE end(k)
    OBVIOUS
  <2>2. e \in 0 .. n
    <3>1. k # 0 => k \in 1 .. m
      BY <1>2
    <3> QED BY <1>2, <1>4, <2>1, <3>1
  <2>3. EndAt(u, k, from) = EndAt(sp, e, from)
    <3>1. CASE k = 0
      BY <2>1, <3>1 DEF EndAt
    <3>2. CASE k # 0
      <4>1. k \in 1 .. m
        BY <1>2, <3>2
      <4>2. e = end(k) /\ e # 0
        BY <1>4, <2>1, <3>2, <4>1
      <4>3. u[k][2] = sp[e][2]
        BY <1>5, <4>1, <4>2
      <4> QED BY <3>2, <4>2, <4>3 DEF EndAt
    <3> QED BY <3>1, <3>2
  <2>4. StartAt(u, k + 1, to) = StartAt(sp, e + 1, to)
    <3>1. CASE k = m
      <4>0. k # 0 /\ e = end(m)
        BY <1>2, <2>1, <3>1
      <4>2. end(m) = (n + 1) - 1
        <5>1. PICK x, y : x = st[m] /\ y = Offset!StepOf(st[m])
          OBVIOUS
        <5>2. x \in 1 .. n /\ y \in {1, 2} /\ x + y = n + 1
          BY <1>2, <5>1 DEF Offset!StepOf
        <5>3. end(m) = x + (y - 1)
          BY <5>1
        <5> QED BY <1>2, <5>2, <5>3
      <4>1. k # 0 /\ e = end(m) /\ e = n
        <5> HIDE DEF end
        <5> QED BY <1>2, <4>0, <4>2
      <4> QED BY <1>1, <1>7, <3>1, <4>1 DEF StartAt
    <3>2. CASE k # m
      <4>1. k + 1 \in 1 .. m /\ k + 1 # m + 1 /\ (k # 0 => k \in 1 .. m - 1 /\ k \in 1 .. m)
        BY <1>2, <3>2
      <4>2. st[k + 1] = e + 1
        <5>1. CASE k = 0
          BY <1>2, <2>1, <5>1
        <5>2. CASE k # 0
          <6>1. st[k + 1] = st[k] + Offset!StepOf(st[k]) /\ st[k + 1] \in 1 .. n /\ e = end(k)
            BY <1>2, <2>1, <4>1, <5>2
          <6>2. end(k) \in 1 .. n /\ st[k] \in 1 .. n /\ Offset!StepOf(st[k]) \in {1, 2}
            BY <1>4, <4>1, <5>2 DEF Offset!StepOf
          <6> QED BY <1>2, <6>1, <6>2
        <5> QED BY <5>1, <5>2
      <4>3. e + 1 \in 1 .. n /\ e + 1 # n + 1
        BY <1>2, <1>4, <4>1, <4>2
      <4>4. u[k + 1][1] = sp[e + 1][1]
        BY <1>5, <4>1, <4>2
      <4> QED BY <1>1, <1>7, <4>1, <4>3, <4>4 DEF StartAt
    <3> QED BY <3>1, <3>2
  <2> QED BY <1>3, <2>2, <2>3, <2>4
<1> QED BY <1>1, <1>3, <1>6, <1>7, <1>8 DEF Fills

LEMMA OffsetSameTables ==
  /\ \A m : Offset!Monotonic(m) <=> Monotonic(m)
  /\ \A m, a, b : Offset!Target(m, a, b) = Target(m, a, b)
  /\ \A m, w, i : Offset!RankAt(m, w, i) = RankAt(m, w, i)
BY DEF Offset!Monotonic, Monotonic, Offset!Target, Target, Offset!RankAt, RankAt,
       Offset!Rank, Rank, Offset!MergesOf, MergesOf, Offset!IsFirst, IsFirst

LEMMA OffsetSameFlatten == \A s : Offset!FlattenSeq(s) = FlattenSeq(s)
BY Zenon DEF Offset!FlattenSeq, FlattenSeq

(* Ranges that fill the text tile it.                                      *)
LEMMA FilledIsTiled ==
  ASSUME Fills(0, spans, Len(Offset!Bytes))
  PROVE  SpansTileText
<1>1. PICK n, z : n = Len(spans) /\ z = Len(Offset!Bytes)
  OBVIOUS
<1>2. /\ spans \in Seq(Nat \X Nat) /\ n \in Nat /\ DOMAIN spans = 1 .. n
      /\ \A k \in 1 .. n : spans[k][1] < spans[k][2]
      /\ \A k \in 0 .. n : Skips(EndAt(spans, k, 0), StartAt(spans, k + 1, z))
  BY <1>1, LenProperties DEF Fills
<1>3. ASSUME NEW k \in 1 .. n - 1
      PROVE  spans[k][2] <= spans[k + 1][1] /\ Offset!Unknown(spans[k][2], spans[k + 1][1])
  <2>1. k \in 0 .. n /\ k # 0 /\ k + 1 # n + 1
    <3>1. k \in 1 .. n - 1 /\ n \in Nat
      BY <1>2
    <3> QED BY ONLY <3>1
  <2>2. EndAt(spans, k, 0) = spans[k][2] /\ StartAt(spans, k + 1, z) = spans[k + 1][1]
    BY <1>1, <2>1 DEF EndAt, StartAt
  <2> QED BY <1>2, <2>1, <2>2 DEF Skips
<1>4. ASSUME spans # <<>>
      PROVE  Offset!Unknown(0, spans[1][1]) /\ Offset!Unknown(Offset!Last(spans)[2], z)
  <2>1. n # 0
    BY <1>1, <1>2, <1>4, EmptySeq
  <2>2. Offset!Unknown(0, spans[1][1])
    <3>1. PICK k : k = 0
      OBVIOUS
    <3>2. k \in 0 .. n /\ k + 1 = 1 /\ 1 # n + 1
      BY <1>2, <2>1, <3>1
    <3>3. EndAt(spans, k, 0) = 0 /\ StartAt(spans, k + 1, z) = spans[1][1]
      BY <1>1, <3>1, <3>2 DEF EndAt, StartAt
    <3> QED BY <1>2, <3>2, <3>3 DEF Skips
  <2>3. Offset!Unknown(spans[n][2], z)
    <3>1. n \in 0 .. n /\ EndAt(spans, n, 0) = spans[n][2] /\ StartAt(spans, n + 1, z) = z
      BY <1>1, <1>2, <2>1 DEF EndAt, StartAt
    <3> QED BY <1>2, <3>1 DEF Skips
  <2> QED BY <1>1, <2>2, <2>3 DEF Offset!Last
<1> QED BY <1>1, <1>2, <1>3, <1>4 DEF SpansTileText, Offset!SpansTileText

(* Where the chunks stand in the text.                                     *)
StandsAt(d, a, b) ==
    /\ a \in Nat /\ b \in Nat /\ b = a + Len(text[d]) /\ b <= Len(Offset!Bytes)
    /\ text[d] \in Seq(Chars) /\ Offset!Bytes \in Seq(Chars)
    /\ \A j \in 1 .. Len(text[d]) : Offset!Bytes[a + j] = text[d][j]

LEMMA FirstPlace ==
  ASSUME text \in Seq(Seq(Chars))
  PROVE  /\ Offset!StartOf(1) = 0
         /\ Offset!StartOf(Len(text) + 1) = Len(Offset!Bytes)
<1>1. Len(text) \in Nat /\ (Len(text) + 1) - 1 = Len(text)
  BY LenProperties
<1>2. Offset!StartOf(1) = 0
  <2>1. SubSeq(text, 1, 0) = <<>>
    <3>1. 0 \in 0 .. Len(text)
      BY <1>1
    <3>2. SubSeq(text, 1, 0) \in Seq(Seq(Chars)) /\ Len(SubSeq(text, 1, 0)) = 0
      BY <3>1, Beginnings
    <3> QED BY <3>2, EmptySeq
  <2>2. FlattenSeq(<<>>) = <<>>
    BY DEF FlattenSeq
  <2>3. Offset!StartOf(1) = Len(FlattenSeq(SubSeq(text, 1, 1 - 1)))
    BY OffsetSameFlatten DEF Offset!StartOf
  <2>4. 1 - 1 = 0 /\ Len(<<>>) = 0
    OBVIOUS
  <2> QED BY <2>1, <2>2, <2>3, <2>4
<1>3. Offset!StartOf(Len(text) + 1) = Len(Offset!Bytes)
  <2>1. PICK n : n = Len(text)
    OBVIOUS
  <2>2. n \in 0 .. Len(text) /\ (n + 1) - 1 = n
    BY <1>1, <2>1
  <2>3. SubSeq(text, 1, n) = text
    BY <2>1, <2>2, Beginnings
  <2>4. Offset!StartOf(n + 1) = Len(Offset!FlattenSeq(SubSeq(text, 1, (n + 1) - 1)))
    BY DEF Offset!StartOf
  <2> QED BY <2>1, <2>2, <2>3, <2>4 DEF Offset!Bytes
<1> QED BY <1>2, <1>3

LEMMA ChunkStands ==
  ASSUME text \in Seq(Seq(Chars)), NEW d \in 1 .. Len(text)
  PROVE  StandsAt(d, Offset!StartOf(d), Offset!StartOf(d + 1))
<1>1. PICK l, c, f, g, h : /\ l = d - 1 /\ c = text[d] /\ f = SubSeq(text, 1, l)
                           /\ g = SubSeq(text, 1, d) /\ h = SubSeq(text, d + 1, Len(text))
  OBVIOUS
<1>2. Len(text) \in Nat /\ l \in 0 .. Len(text) - 1 /\ d = l + 1 /\ (d + 1) - 1 = d /\ d \in 0 .. Len(text)
  BY <1>1, LenProperties
<1>3. f \in Seq(Seq(Chars)) /\ c \in Seq(Chars) /\ g = Append(f, c)
  BY <1>1, <1>2, NextPrefix
<1>4. g \in Seq(Seq(Chars)) /\ text = g \o h
  BY <1>1, <1>2, Beginnings, SplitsAt
<1>5. h \in Seq(Seq(Chars))
  <2>1. PICK n : n = Len(text)
    OBVIOUS
  <2>2. n \in d .. Len(text)
    BY <1>2, <2>1
  <2> QED BY <1>1, <1>2, <2>1, <2>2, PartOf
<1>6. PICK x, y, z, u : x = FlattenSeq(f) /\ y = FlattenSeq(g) /\ z = FlattenSeq(h) /\ u = FlattenSeq(text)
  OBVIOUS
<1>7. x \in Seq(Chars) /\ y \in Seq(Chars) /\ z \in Seq(Chars)
  BY <1>3, <1>4, <1>5, <1>6, Flattened
<1>8. y = x \o c
  BY <1>3, <1>6, Flattened
<1>9. u = y \o z
  BY <1>4, <1>5, <1>6, FlattensJoined, Zenon
<1>10. /\ Len(y) = Len(x) + Len(c) /\ \A k \in 1 .. Len(c) : y[Len(x) + k] = c[k]
  <2>1. x \in Seq(Chars) /\ c \in Seq(Chars)
    BY <1>3, <1>7
  <2> QED BY <1>8, <2>1, Joined
<1>11. u \in Seq(Chars) /\ Len(u) = Len(y) + Len(z) /\ \A k \in 1 .. Len(y) : u[k] = y[k]
  BY <1>7, <1>9, Joined
<1>12. Len(x) \in Nat /\ Len(y) \in Nat /\ Len(z) \in Nat /\ Len(c) \in Nat
  BY <1>3, <1>7, LenProperties
<1>13. Offset!StartOf(d) = Len(x) /\ Offset!StartOf(d + 1) = Len(y) /\ Offset!Bytes = u
  BY <1>1, <1>2, <1>6, OffsetSameFlatten DEF Offset!StartOf, Offset!Bytes
<1>14. ASSUME NEW j \in 1 .. Len(c) PROVE u[Len(x) + j] = c[j]
  <2>1. PICK i : i = Len(x) + j
    OBVIOUS
  <2>2. i \in 1 .. Len(y)
    BY <1>10, <1>12, <2>1
  <2> QED BY <1>10, <1>11, <2>1, <2>2
<1>15. Len(y) <= Len(u)
  BY <1>11, <1>12
<1> QED BY <1>1, <1>3, <1>10, <1>11, <1>12, <1>13, <1>14, <1>15 DEF StandsAt

-----------------------------------------------------------------------------
(* Tokens and their ranges.                                                *)
(* The tokens w and their ranges s are, one by one, of the kind R.          *)
Matched(R, w, s) ==
    /\ w \in Seq(Token) /\ s \in Seq(Nat \X Nat) /\ Len(w) = Len(s)
    /\ \A k \in 1 .. Len(w) : <<w[k], s[k]>> \in R

LEMMA MatchedJoined ==
  ASSUME NEW R, NEW w, NEW s, Matched(R, w, s), NEW v, NEW t, Matched(R, v, t)
  PROVE  Matched(R, w \o v, s \o t)
<1>1. PICK n, m, S : n = Len(w) /\ m = Len(v) /\ S = Nat \X Nat
  OBVIOUS
<1>2. /\ w \in Seq(Token) /\ v \in Seq(Token) /\ s \in Seq(S) /\ t \in Seq(S)
      /\ n = Len(w) /\ n = Len(s) /\ m = Len(v) /\ m = Len(t)
      /\ \A k \in 1 .. n : <<w[k], s[k]>> \in R
      /\ \A k \in 1 .. m : <<v[k], t[k]>> \in R
  BY <1>1 DEF Matched
<1>3. n \in Nat /\ m \in Nat
  BY <1>2, LenProperties
<1>4. PICK x, y : x = w \o v /\ y = s \o t
  OBVIOUS
<1>5. /\ x \in Seq(Token) /\ Len(x) = n + m
      /\ \A k \in 1 .. n : x[k] = w[k]
      /\ \A k \in 1 .. m : x[n + k] = v[k]
  <2>1. w \in Seq(Token) /\ v \in Seq(Token)
    BY <1>2
  <2>2. /\ w \o v \in Seq(Token) /\ Len(w \o v) = Len(w) + Len(v)
        /\ \A k \in 1 .. Len(w) : (w \o v)[k] = w[k]
        /\ \A k \in 1 .. Len(v) : (w \o v)[Len(w) + k] = v[k]
    BY ONLY <2>1, Joined
  <2> QED BY <1>1, <1>4, <2>2
<1>6. /\ y \in Seq(S) /\ Len(y) = n + m
      /\ \A k \in 1 .. n : y[k] = s[k]
      /\ \A k \in 1 .. m : y[n + k] = t[k]
  <2>1. s \in Seq(S) /\ t \in Seq(S)
    BY <1>2
  <2>2. /\ s \o t \in Seq(S) /\ Len(s \o t) = Len(s) + Len(t)
        /\ \A k \in 1 .. Len(s) : (s \o t)[k] = s[k]
        /\ \A k \in 1 .. Len(t) : (s \o t)[Len(s) + k] = t[k]
    BY ONLY <2>1, Joined
  <2> QED BY <1>2, <1>4, <2>2
<1>7. ASSUME NEW k \in 1 .. n + m PROVE <<x[k], y[k]>> \in R
  <2>1. CASE k <= n
    <3>1. k \in 1 .. n
      BY <1>3, <2>1
    <3> QED BY <1>2, <1>5, <1>6, <3>1
  <2>2. CASE ~(k <= n)
    <3>1. PICK j : j = k - n
      OBVIOUS
    <3>2. j \in 1 .. m /\ k = n + j
      BY <1>3, <2>2, <3>1
    <3> QED BY <1>2, <1>5, <1>6, <3>2
  <2> QED BY <2>1, <2>2
<1> QED BY <1>1, <1>4, <1>5, <1>6, <1>7 DEF Matched

(* Nothing matches nothing, and a token its range.                         *)
LEMMA MatchedNone == ASSUME NEW R PROVE Matched(R, <<>>, <<>>)
<1>1. <<>> \in Seq(Token) /\ <<>> \in Seq(Nat \X Nat) /\ Len(<<>>) = 0
  OBVIOUS
<1>2. 1 .. 0 = {}
  OBVIOUS
<1> QED BY <1>1, <1>2 DEF Matched

LEMMA MatchedOne ==
  ASSUME NEW R, NEW x \in Token, NEW p \in Nat \X Nat, <<x, p>> \in R
  PROVE  Matched(R, <<x>>, <<p>>)
<1>1. PICK w, s, S : w = <<x>> /\ s = <<p>> /\ S = Nat \X Nat
  OBVIOUS
<1>2. w \in Seq(Token) /\ s \in Seq(S) /\ Len(w) = 1 /\ Len(s) = 1 /\ w[1] = x /\ s[1] = p
  BY <1>1
<1>3. \A k \in 1 .. Len(w) : k = 1
  BY <1>2
<1> QED BY <1>1, <1>2, <1>3 DEF Matched

(* A token that was read from the one byte of its range.                   *)
ReadOff ==
    {p \in Token \X (Nat \X Nat) : /\ p[2][2] = p[2][1] + 1
                                   /\ Initial[Offset!Bytes[p[2][2]]] = <<p[1]>>}

(* The ranges of one byte, for the tokens it has: one, or none.             *)
ByteSpans(c, a, j) == [k \in DOMAIN Initial[c[j]] |-> <<a + (j - 1), a + j>>]

LEMMA ByteFills ==
  ASSUME NEW d, NEW a, NEW b, StandsAt(d, a, b), NEW j \in 1 .. Len(text[d]),
         Len(Initial[text[d][j]]) <= 1
  PROVE  /\ ByteSpans(text[d], a, j) \in Seq(Nat \X Nat)
         /\ Fills(a + (j - 1), ByteSpans(text[d], a, j), a + j)
         /\ Matched(ReadOff, Initial[text[d][j]], ByteSpans(text[d], a, j))
<1>1. PICK x, w, s, e, z : /\ x = text[d][j] /\ w = Initial[x] /\ s = ByteSpans(text[d], a, j)
                           /\ e = a + (j - 1) /\ z = a + j
  OBVIOUS
<1>2. /\ a \in Nat /\ Len(text[d]) \in Nat /\ j \in Nat /\ 1 <= j /\ x \in Chars
      /\ Offset!Bytes[z] = x
  BY <1>1, LenProperties, ElementOfSeq DEF StandsAt
<1>3. e \in Nat /\ z \in Nat /\ z = e + 1 /\ e < z /\ z \in Nat
  BY <1>1, <1>2
<1>4. w \in Seq(Token) /\ Len(w) \in Nat /\ DOMAIN w = 1 .. Len(w) /\ Len(w) <= 1
  BY <1>1, <1>2, InitialAssumption, LenProperties
<1>5. s = [k \in DOMAIN w |-> <<e, z>>]
  BY <1>1 DEF ByteSpans
<1>6. CASE Len(w) = 0
  <2>1. w = <<>> /\ s = <<>>
    <3>1. w = <<>>
      BY <1>4, <1>6, EmptySeq
    <3>2. DOMAIN w = {}
      BY <1>4, <1>6
    <3> QED BY <1>5, <3>1, <3>2
  <2>2. Skips(e, z)
    <3>1. \A k \in e + 1 .. z : k = z
      BY <1>3
    <3>2. Initial[Offset!Bytes[z]] = <<>>
      BY <1>1, <1>2, <2>1
    <3>3. \A k \in e + 1 .. z : Initial[Offset!Bytes[k]] = <<>>
      BY <3>1, <3>2
    <3>4. e <= z
      BY <1>3
    <3> QED BY <3>3, <3>4 DEF Skips, Offset!Unknown
  <2>3. Fills(e, s, z)
    BY <1>3, <2>1, <2>2, FillsNone
  <2>4. Matched(ReadOff, w, s)
    BY <2>1, MatchedNone
  <2> QED BY <1>1, <2>3, <2>4 DEF Fills
<1>7. CASE Len(w) = 1
  <2>1. PICK t, p : t = w[1] /\ p = <<e, z>>
    OBVIOUS
  <2>2. t \in Token /\ w = <<t>>
    <3>1. 1 \in 1 .. Len(w) /\ \A k \in 1 .. Len(w) : k = 1
      BY <1>7
    <3>2. t \in Token
      BY <1>4, <2>1, <3>1, ElementOfSeq
    <3>3. <<t>> \in Seq(Token) /\ Len(<<t>>) = Len(w) /\ \A k \in 1 .. Len(w) : w[k] = <<t>>[k]
      BY <1>7, <2>1, <3>1, <3>2
    <3> QED BY <1>4, <3>2, <3>3, SeqEqual
  <2>3. s = <<p>>
    <3>1. DOMAIN w = {1}
      BY <1>4, <1>7
    <3>2. s = [k \in {1} |-> p]
      BY <1>5, <2>1, <3>1
    <3> QED BY <3>2
  <2>4. Fills(e, s, z)
    BY <1>3, <2>1, <2>3, FillsOne
  <2>5. p \in Nat \X Nat /\ p[1] = e /\ p[2] = z
    BY <1>3, <2>1
  <2>6. <<t, p>> \in ReadOff
    BY <1>1, <1>2, <1>3, <2>2, <2>5 DEF ReadOff
  <2>7. Matched(ReadOff, w, s)
    BY <2>2, <2>3, <2>5, <2>6, MatchedOne
  <2> QED BY <1>1, <2>4, <2>7 DEF Fills
<1> QED BY <1>4, <1>6, <1>7

(* The bytes of a chunk, in order.                                         *)
LEMMA ChunkFills ==
  ASSUME NEW d, NEW a, NEW b, StandsAt(d, a, b),
         \A j \in 1 .. Len(text[d]) : Len(Initial[text[d][j]]) <= 1
  PROVE  LET r == FlattenSeq([j \in DOMAIN text[d] |-> ByteSpans(text[d], a, j)]) IN
         Fills(a, r, b) /\ Matched(ReadOff, Initials(text[d]), r)
<1>1. PICK c, n : c = text[d] /\ n = Len(c)
  OBVIOUS
<1>2. /\ n \in Nat /\ DOMAIN c = 1 .. n /\ c \in Seq(Chars) /\ \A j \in 1 .. n : c[j] \in Chars
      /\ a \in Nat /\ b \in Nat /\ b = a + n
  BY <1>1, LenProperties, ElementOfSeq DEF StandsAt
<1>3. PICK w, s : w = [j \in DOMAIN c |-> Initial[c[j]]] /\ s = [j \in DOMAIN c |-> ByteSpans(c, a, j)]
  OBVIOUS
<1>4. ASSUME NEW j \in 1 .. n
      PROVE  /\ w[j] \in Seq(Token) /\ s[j] \in Seq(Nat \X Nat)
             /\ Fills(a + (j - 1), s[j], a + j) /\ Matched(ReadOff, w[j], s[j])
  <2>1. w[j] = Initial[text[d][j]] /\ s[j] = ByteSpans(text[d], a, j) /\ j \in 1 .. Len(text[d])
    BY <1>1, <1>2, <1>3
  <2>2. /\ s[j] \in Seq(Nat \X Nat) /\ Fills(a + (j - 1), s[j], a + j)
        /\ Matched(ReadOff, w[j], s[j])
    BY <2>1, ByteFills
  <2>3. w[j] \in Seq(Token)
    BY <1>2, <1>3, InitialAssumption
  <2> QED BY <2>2, <2>3
<1>5. PICK S : S = Nat \X Nat
  OBVIOUS
<1>6. w \in Seq(Seq(Token)) /\ s \in Seq(Seq(S)) /\ Len(w) = n /\ Len(s) = n
  <2>1. w \in [1 .. n -> Seq(Token)] /\ s \in [1 .. n -> Seq(S)]
    BY <1>2, <1>3, <1>4, <1>5
  <2>2. w \in Seq(Seq(Token))
    BY <1>2, <2>1, SeqDef
  <2>3. s \in Seq(Seq(S))
    BY <1>2, <2>1, SeqDef
  <2> QED BY <1>2, <2>1, <2>2, <2>3, LenProperties
<1> DEFINE Right(l) == /\ Fills(a, FlattenSeq(SubSeq(s, 1, l)), a + l)
                       /\ Matched(ReadOff, FlattenSeq(SubSeq(w, 1, l)), FlattenSeq(SubSeq(s, 1, l)))
           T == {l \in Nat : l <= n => Right(l)}
<1>7. ASSUME NEW l \in Nat, 0 .. l - 1 \subseteq T PROVE l \in T
  <2>1. SUFFICES ASSUME l <= n PROVE Right(l)
    OBVIOUS
  <2>2. CASE l = 0
    <3>1. SubSeq(s, 1, 0) = <<>> /\ SubSeq(w, 1, 0) = <<>>
      <4>1. 0 \in 0 .. Len(s) /\ 0 \in 0 .. Len(w)
        BY <1>2, <1>6
      <4>2. SubSeq(s, 1, 0) \in Seq(Seq(S)) /\ Len(SubSeq(s, 1, 0)) = 0
        BY <1>6, <4>1, Beginnings
      <4>3. SubSeq(w, 1, 0) \in Seq(Seq(Token)) /\ Len(SubSeq(w, 1, 0)) = 0
        BY <1>6, <4>1, Beginnings
      <4> QED BY <4>2, <4>3, EmptySeq
    <3>2. FlattenSeq(<<>>) = <<>>
      BY DEF FlattenSeq
    <3>3. Fills(a, <<>>, a)
      <4>1. Skips(a, a)
        BY <1>2 DEF Skips, Offset!Unknown
      <4> QED BY <1>2, <4>1, FillsNone
    <3>4. a + 0 = a
      BY <1>2
    <3> QED BY <2>2, <3>1, <3>2, <3>3, <3>4, MatchedNone
  <2>3. CASE l # 0
    <3>1. PICK i, u, v : i = l - 1 /\ u = FlattenSeq(SubSeq(s, 1, i)) /\ v = FlattenSeq(SubSeq(w, 1, i))
      OBVIOUS
    <3>2. i \in 0 .. l - 1 /\ i \in Nat /\ i <= n /\ l = i + 1 /\ i \in 0 .. n - 1 /\ l \in 1 .. n
      BY <1>2, <2>1, <2>3, <3>1
    <3>3. Fills(a, u, a + i) /\ Matched(ReadOff, v, u)
      <4> HIDE DEF Right
      <4>1. i \in T
        BY <1>7, <3>2
      <4>2. Right(i)
        BY <3>2, <4>1
      <4> USE DEF Right
      <4> QED BY <3>1, <4>2
    <3>4. FlattenSeq(SubSeq(s, 1, l)) = u \o s[l]
      <4>1. /\ SubSeq(s, 1, i) \in Seq(Seq(S)) /\ s[i + 1] \in Seq(S)
            /\ SubSeq(s, 1, i + 1) = Append(SubSeq(s, 1, i), s[i + 1])
        <5>1. i \in 0 .. Len(s) - 1
          BY <1>6, <3>2
        <5> QED BY <1>6, <5>1, NextPrefix
      <4>2. PICK f, y : f = SubSeq(s, 1, i) /\ y = s[i + 1]
        OBVIOUS
      <4>3. FlattenSeq(Append(f, y)) = FlattenSeq(f) \o y
        BY <4>1, <4>2, Flattened
      <4> QED BY <3>1, <3>2, <4>1, <4>2, <4>3
    <3>5. FlattenSeq(SubSeq(w, 1, l)) = v \o w[l]
      <4>1. /\ SubSeq(w, 1, i) \in Seq(Seq(Token)) /\ w[i + 1] \in Seq(Token)
            /\ SubSeq(w, 1, i + 1) = Append(SubSeq(w, 1, i), w[i + 1])
        <5>1. i \in 0 .. Len(w) - 1
          BY <1>6, <3>2
        <5> QED BY <1>6, <5>1, NextPrefix
      <4>2. PICK f, y : f = SubSeq(w, 1, i) /\ y = w[i + 1]
        OBVIOUS
      <4>3. FlattenSeq(Append(f, y)) = FlattenSeq(f) \o y
        BY <4>1, <4>2, Flattened
      <4> QED BY <3>1, <3>2, <4>1, <4>2, <4>3
    <3>6. Fills(a + i, s[l], a + l) /\ Matched(ReadOff, w[l], s[l])
      <4>1. l - 1 = i
        BY <3>1
      <4> QED BY <1>4, <3>2, <4>1
    <3>7. Fills(a, u \o s[l], a + l)
      BY <3>3, <3>6, FillsJoined
    <3>8. Matched(ReadOff, v \o w[l], u \o s[l])
      BY <3>3, <3>6, MatchedJoined
    <3> QED BY <3>4, <3>5, <3>7, <3>8
  <2> QED BY <2>2, <2>3
<1>8. Right(n)
  <2> HIDE DEF Right, T
  <2>1. n \in T
    BY <1>2, <1>7, Induction
  <2> USE DEF T
  <2> QED BY <1>2, <2>1
<1>9. SubSeq(s, 1, n) = s /\ SubSeq(w, 1, n) = w
  <2>1. n \in 0 .. Len(s) /\ n \in 0 .. Len(w)
    BY <1>2, <1>6
  <2> QED BY <1>6, <2>1, Beginnings
<1>10. Fills(a, FlattenSeq(s), b) /\ Matched(ReadOff, FlattenSeq(w), FlattenSeq(s))
  BY <1>2, <1>8, <1>9
<1> QED BY <1>1, <1>3, <1>10 DEF Initials

LEMMA InitialsJoined ==
  ASSUME NEW c \in Seq(Chars), NEW d \in Seq(Chars)
  PROVE  Initials(c \o d) = Initials(c) \o Initials(d)
<1>1. PICK e, n, m : e = c \o d /\ n = Len(c) /\ m = Len(d)
  OBVIOUS
<1>2. n \in Nat /\ m \in Nat /\ \A k \in 1 .. n : c[k] \in Chars
  BY <1>1, LenProperties, ElementOfSeq
<1>3. \A k \in 1 .. m : d[k] \in Chars
  BY <1>1, ElementOfSeq
<1>4. /\ e \in Seq(Chars) /\ Len(e) = n + m
      /\ \A k \in 1 .. n : e[k] = c[k]
      /\ \A k \in 1 .. m : e[n + k] = d[k]
  <2>1. /\ c \o d \in Seq(Chars) /\ Len(c \o d) = Len(c) + Len(d)
        /\ \A k \in 1 .. Len(c) : (c \o d)[k] = c[k]
        /\ \A k \in 1 .. Len(d) : (c \o d)[Len(c) + k] = d[k]
    BY Joined
  <2> QED BY <1>1, <2>1
<1>5. PICK x, y, z : /\ x = [k \in DOMAIN c |-> Initial[c[k]]]
                     /\ y = [k \in DOMAIN d |-> Initial[d[k]]]
                     /\ z = [k \in DOMAIN e |-> Initial[e[k]]]
  OBVIOUS
<1>6. DOMAIN c = 1 .. n /\ DOMAIN d = 1 .. m /\ DOMAIN e = 1 .. n + m /\ n + m \in Nat
  BY <1>1, <1>2, <1>4, LenProperties
<1>7. x \in Seq(Seq(Token)) /\ Len(x) = n /\ \A k \in 1 .. n : x[k] = Initial[c[k]]
  <2>1. x \in [1 .. n -> Seq(Token)]
    BY <1>2, <1>5, <1>6, InitialAssumption
  <2>2. x \in Seq(Seq(Token))
    BY <1>2, <2>1, SeqDef
  <2> QED BY <1>2, <1>5, <1>6, <2>1, <2>2, LenProperties
<1>8. y \in Seq(Seq(Token)) /\ Len(y) = m /\ \A k \in 1 .. m : y[k] = Initial[d[k]]
  <2>1. y \in [1 .. m -> Seq(Token)]
    BY <1>3, <1>5, <1>6, InitialAssumption
  <2>2. y \in Seq(Seq(Token))
    BY <1>2, <2>1, SeqDef
  <2> QED BY <1>2, <1>5, <1>6, <2>1, <2>2, LenProperties
<1>9. /\ z \in Seq(Seq(Token)) /\ Len(z) = n + m
      /\ \A k \in 1 .. n + m : z[k] = Initial[e[k]]
  <2>1. \A k \in 1 .. n + m : e[k] \in Chars
    BY <1>4, ElementOfSeq
  <2>2. z \in [1 .. n + m -> Seq(Token)]
    BY <1>5, <1>6, <2>1, InitialAssumption
  <2>3. z \in Seq(Seq(Token))
    BY <1>6, <2>2, SeqDef
  <2> QED BY <1>5, <1>6, <2>2, <2>3, LenProperties
<1>10. PICK v : v = x \o y
  OBVIOUS
<1>11. /\ v \in Seq(Seq(Token)) /\ Len(v) = n + m
       /\ \A k \in 1 .. n : v[k] = x[k]
       /\ \A k \in 1 .. m : v[n + k] = y[k]
  <2>1. /\ x \o y \in Seq(Seq(Token)) /\ Len(x \o y) = Len(x) + Len(y)
        /\ \A k \in 1 .. Len(x) : (x \o y)[k] = x[k]
        /\ \A k \in 1 .. Len(y) : (x \o y)[Len(x) + k] = y[k]
    <3>1. x \in Seq(Seq(Token)) /\ y \in Seq(Seq(Token))
      BY <1>7, <1>8
    <3>2. PICK R : R = Seq(Token)
      OBVIOUS
    <3>3. x \in Seq(R) /\ y \in Seq(R)
      BY <3>1, <3>2
    <3>4. /\ x \o y \in Seq(R) /\ Len(x \o y) = Len(x) + Len(y)
          /\ \A k \in 1 .. Len(x) : (x \o y)[k] = x[k]
          /\ \A k \in 1 .. Len(y) : (x \o y)[Len(x) + k] = y[k]
      BY ONLY <3>3, Joined
    <3> QED BY <3>2, <3>4
  <2> QED BY <1>7, <1>8, <1>10, <2>1
<1>12. ASSUME NEW k \in 1 .. n + m PROVE z[k] = v[k]
  <2>1. CASE k <= n
    <3>1. k \in 1 .. n
      BY <1>2, <2>1
    <3>2. z[k] = Initial[c[k]]
      BY <1>4, <1>9, <3>1
    <3>3. v[k] = Initial[c[k]]
      BY <1>7, <1>11, <3>1
    <3> QED BY <3>2, <3>3
  <2>2. CASE ~(k <= n)
    <3>1. PICK j : j = k - n
      OBVIOUS
    <3>2. j \in 1 .. m /\ k = n + j
      BY <1>2, <2>2, <3>1
    <3>3. z[k] = Initial[d[j]]
      <4>1. e[n + j] = d[j] /\ z[n + j] = Initial[e[n + j]]
        BY <1>4, <1>9, <3>2
      <4> QED BY <3>2, <4>1
    <3>4. v[k] = Initial[d[j]]
      <4>1. v[n + j] = y[j] /\ y[j] = Initial[d[j]]
        BY <1>8, <1>11, <3>2
      <4> QED BY <3>2, <4>1
    <3> QED BY <3>3, <3>4
  <2> QED BY <2>1, <2>2
<1>13. z = v
  BY <1>9, <1>11, <1>12, SeqEqual
<1>14. FlattenSeq(v) = FlattenSeq(x) \o FlattenSeq(y)
  BY <1>7, <1>8, <1>10, FlattensJoined
<1> QED BY <1>1, <1>5, <1>13, <1>14 DEF Initials

(* What a part of the text says.                                           *)
LEMMA SaidIs ==
  ASSUME NEW Char, SpelledOut(Char), Offset!Bytes \in Seq(Chars),
         NEW a \in 0 .. Len(Offset!Bytes), NEW b \in a .. Len(Offset!Bytes)
  PROVE  Said(a, b) \in Seq(Char)
<1>1. PICK p, w : p = SubSeq(Offset!Bytes, a + 1, b) /\ w = Initials(p)
  OBVIOUS
<1>2. p \in Seq(Chars)
  BY <1>1, PartOf
<1>3. w \in Seq(Token)
  BY <1>1, <1>2, InitialsAre
<1>4. w \in Seq(Seq(Char))
  BY <1>3, Widened DEF SpelledOut
<1> QED BY <1>1, <1>4, Flattened DEF Said

LEMMA SaidJoined ==
  ASSUME NEW Char, SpelledOut(Char), Offset!Bytes \in Seq(Chars),
         NEW a \in 0 .. Len(Offset!Bytes), NEW b \in a .. Len(Offset!Bytes),
         NEW c \in b .. Len(Offset!Bytes)
  PROVE  Said(a, c) = Said(a, b) \o Said(b, c)
<1>1. PICK p, q, r : /\ p = SubSeq(Offset!Bytes, a + 1, b) /\ q = SubSeq(Offset!Bytes, b + 1, c)
                     /\ r = SubSeq(Offset!Bytes, a + 1, c)
  OBVIOUS
<1>2. b \in 0 .. Len(Offset!Bytes)
  BY LenProperties
<1>3. p \in Seq(Chars) /\ q \in Seq(Chars)
  BY <1>1, <1>2, PartOf
<1>4. r = p \o q
  BY <1>1, PartsJoined
<1>5. PICK v, w : v = Initials(p) /\ w = Initials(q)
  OBVIOUS
<1>6. v \in Seq(Token) /\ w \in Seq(Token)
  BY <1>3, <1>5, InitialsAre
<1>7. v \in Seq(Seq(Char)) /\ w \in Seq(Seq(Char))
  BY <1>6, Widened DEF SpelledOut
<1>8. FlattenSeq(v \o w) = FlattenSeq(v) \o FlattenSeq(w)
  BY <1>7, FlattensJoined
<1>9. Initials(r) = v \o w
  BY <1>3, <1>4, <1>5, InitialsJoined
<1> QED BY <1>1, <1>5, <1>8, <1>9 DEF Said

LEMMA SaidByte ==
  ASSUME Offset!Bytes \in Seq(Chars),
         NEW a \in 0 .. Len(Offset!Bytes) - 1
  PROVE  Said(a, a + 1) = FlattenSeq(Initial[Offset!Bytes[a + 1]])
<1>1. PICK z, x, p : z = a + 1 /\ x = Offset!Bytes[z] /\ p = SubSeq(Offset!Bytes, z, z)
  OBVIOUS
<1>2. /\ Len(Offset!Bytes) \in Nat /\ a \in 0 .. Len(Offset!Bytes) /\ z \in a .. Len(Offset!Bytes)
      /\ z - a = 1 /\ z \in 1 .. Len(Offset!Bytes) /\ a + 1 = z
  BY <1>1, LenProperties
<1>3. p \in Seq(Chars) /\ Len(p) = 1 /\ p[1] = x /\ x \in Chars
  <2>1. /\ SubSeq(Offset!Bytes, a + 1, z) \in Seq(Chars) /\ Len(SubSeq(Offset!Bytes, a + 1, z)) = z - a
        /\ \A i \in 1 .. z - a : SubSeq(Offset!Bytes, a + 1, z)[i] = Offset!Bytes[a + i]
    BY <1>2, PartOf
  <2>2. 1 \in 1 .. z - a
    BY <1>2
  <2>3. x \in Chars
    BY <1>1, <1>2, ElementOfSeq
  <2> QED BY <1>1, <1>2, <2>1, <2>2, <2>3
<1>4. PICK y : y = [k \in DOMAIN p |-> Initial[p[k]]]
  OBVIOUS
<1>5. Initial[x] \in Seq(Token)
  BY <1>3, InitialAssumption
<1>6. y = <<Initial[x]>>
  <2>1. DOMAIN p = {1}
    BY <1>3, LenProperties
  <2>2. y = [k \in {1} |-> Initial[x]]
    BY <1>3, <1>4, <2>1
  <2> QED BY <2>2
<1>7. FlattenSeq(y) = Initial[x]
  BY <1>5, <1>6, FlattenOne
<1> QED BY <1>1, <1>4, <1>7 DEF Said, Initials

LEMMA SaidEmpty ==
  ASSUME Offset!Bytes \in Seq(Chars), NEW a \in 0 .. Len(Offset!Bytes)
  PROVE  Said(a, a) = <<>>
<1>1. PICK p : p = SubSeq(Offset!Bytes, a + 1, a)
  OBVIOUS
<1>2. Len(Offset!Bytes) \in Nat /\ a \in a .. Len(Offset!Bytes) /\ a - a = 0
  BY LenProperties
<1>3. p \in Seq(Chars) /\ Len(p) = 0
  BY <1>1, <1>2, PartOf
<1>4. p = <<>>
  BY <1>3, EmptySeq
<1>5. FlattenSeq(<<>>) = <<>>
  BY DEF FlattenSeq
<1>6. Initials(<<>>) = <<>>
  <2>1. [k \in DOMAIN <<>> |-> Initial[<<>>[k]]] = <<>>
    OBVIOUS
  <2> QED BY <1>5, <2>1 DEF Initials
<1> QED BY <1>1, <1>4, <1>5, <1>6 DEF Said

(* Bytes without a token say nothing.                                      *)
LEMMA SaidNothing ==
  ASSUME NEW Char, SpelledOut(Char), Offset!Bytes \in Seq(Chars),
         NEW a \in 0 .. Len(Offset!Bytes), NEW b \in a .. Len(Offset!Bytes),
         Offset!Unknown(a, b)
  PROVE  Said(a, b) = <<>>
<1>1. Len(Offset!Bytes) \in Nat /\ a \in Nat /\ b \in Nat /\ a <= b /\ b <= Len(Offset!Bytes)
  BY LenProperties
<1> DEFINE T == {l \in Nat : a + l <= b => Said(a, a + l) = <<>>}
<1>2. ASSUME NEW l \in Nat, 0 .. l - 1 \subseteq T PROVE l \in T
  <2>1. SUFFICES ASSUME a + l <= b PROVE Said(a, a + l) = <<>>
    OBVIOUS
  <2>2. CASE l = 0
    <3>1. a + 0 = a
      BY <1>1
    <3> QED BY <2>2, <3>1, SaidEmpty
  <2>3. CASE l # 0
    <3>1. PICK i, e, z : i = l - 1 /\ e = a + i /\ z = a + l
      OBVIOUS
    <3>2. /\ i \in 0 .. l - 1 /\ i \in Nat /\ a + i <= b /\ z = e + 1 /\ e \in 0 .. Len(Offset!Bytes) - 1
          /\ e \in a .. Len(Offset!Bytes) /\ z \in e .. Len(Offset!Bytes) /\ z \in a + 1 .. b
      BY <1>1, <2>1, <2>3, <3>1
    <3>3. Said(a, e) = <<>>
      BY <1>2, <3>1, <3>2
    <3> HIDE DEF T
    <3>4. Said(e, z) = <<>>
      <4>1. Initial[Offset!Bytes[z]] = <<>>
        BY <3>2 DEF Offset!Unknown
      <4>2. Said(e, e + 1) = FlattenSeq(Initial[Offset!Bytes[e + 1]])
        BY <3>2, SaidByte
      <4>3. FlattenSeq(<<>>) = <<>>
        BY DEF FlattenSeq
      <4> QED BY <3>2, <4>1, <4>2, <4>3
    <3>5. Said(a, z) = Said(a, e) \o Said(e, z)
      BY <3>2, SaidJoined
    <3>6. <<>> \o <<>> = <<>>
      OBVIOUS
    <3> QED BY <3>1, <3>3, <3>4, <3>5, <3>6
  <2> QED BY <2>2, <2>3
<1>3. PICK l : l = b - a
  OBVIOUS
<1>4. l \in Nat /\ a + l = b
  BY <1>1, <1>3
<1>5. l \in T
  <2> HIDE DEF T
  <2> QED BY <1>2, <1>4, Induction
<1> QED BY <1>1, <1>4, <1>5

(* A token that its range holds.                                           *)
Held == {p \in Token \X (Nat \X Nat) : p[1] = Said(p[2][1], p[2][2])}

LEMMA ReadIsHeld ==
  ASSUME NEW Char, SpelledOut(Char), Offset!Bytes \in Seq(Chars),
         NEW a, NEW b, NEW s, Fills(a, s, b), b <= Len(Offset!Bytes),
         NEW w, Matched(ReadOff, w, s)
  PROVE  Matched(Held, w, s)
<1>1. PICK n, z : n = Len(w) /\ z = Len(Offset!Bytes)
  OBVIOUS
<1>2. /\ w \in Seq(Token) /\ s \in Seq(Nat \X Nat) /\ n = Len(s) /\ n \in Nat /\ z \in Nat
      /\ \A k \in 1 .. n : <<w[k], s[k]>> \in ReadOff
  BY <1>1, LenProperties DEF Matched
<1>3. /\ a \in Nat /\ b \in Nat
      /\ \A k \in 1 .. n : s[k][1] \in a .. b /\ s[k][2] \in a .. b
  BY <1>2 DEF Fills
<1>4. ASSUME NEW k \in 1 .. n PROVE <<w[k], s[k]>> \in Held
  <2>1. PICK t, p, e, f : t = w[k] /\ p = s[k] /\ e = s[k][1] /\ f = s[k][2]
    OBVIOUS
  <2>2. <<t, p>> \in ReadOff /\ p[1] = e /\ p[2] = f
    BY <1>2, <2>1
  <2>3. /\ t \in Token /\ p \in Nat \X Nat /\ f = e + 1
        /\ Initial[Offset!Bytes[f]] = <<t>>
    BY <2>2 DEF ReadOff
  <2>4. e \in 0 .. z - 1
    <3>1. e \in a .. b /\ f \in a .. b
      BY <1>3, <2>1
    <3>2. a \in Nat /\ b \in Nat /\ z \in Nat /\ b <= z /\ f = e + 1
      BY <1>1, <1>2, <1>3, <2>3
    <3> QED BY ONLY <3>1, <3>2
  <2>5. Said(e, e + 1) = FlattenSeq(Initial[Offset!Bytes[e + 1]])
    BY <1>1, <2>4, SaidByte
  <2>6. FlattenSeq(<<t>>) = t
    <3>1. t \in Seq(Char)
      BY <2>3 DEF SpelledOut
    <3> QED BY <3>1, FlattenOne
  <2>7. Said(e, f) = t
    BY <2>3, <2>5, <2>6
  <2> QED BY <2>1, <2>2, <2>3, <2>7 DEF Held
<1> QED BY <1>1, <1>2, <1>4 DEF Matched

(* A token of the vocabulary is the whole chunk.                           *)
LEMMA WholeIsHeld ==
  ASSUME NEW Char, SpelledOut(Char), NEW d, NEW a, NEW b, StandsAt(d, a, b),
         lookup \in Lookups, text[d] \in DOMAIN lookup
  PROVE  << lookup[text[d]], <<a, b>> >> \in Held
<1>1. PICK c, p, x, n : c = text[d] /\ p = SubSeq(Offset!Bytes, a + 1, b) /\ x = lookup[c] /\ n = Len(c)
  OBVIOUS
<1>2. /\ a \in Nat /\ b \in Nat /\ n \in Nat /\ b = a + n /\ b <= Len(Offset!Bytes)
      /\ c \in Seq(Chars) /\ Offset!Bytes \in Seq(Chars)
      /\ \A j \in 1 .. n : Offset!Bytes[a + j] = c[j]
  BY <1>1, LenProperties DEF StandsAt
<1>3. Len(Offset!Bytes) \in Nat
  BY <1>2, LenProperties
<1>4. a \in 0 .. Len(Offset!Bytes) /\ b \in a .. Len(Offset!Bytes) /\ b - a = n
  BY <1>2, <1>3
<1>5. p \in Seq(Chars) /\ Len(p) = n /\ \A i \in 1 .. n : p[i] = Offset!Bytes[a + i]
  <2>1. /\ SubSeq(Offset!Bytes, a + 1, b) \in Seq(Chars) /\ Len(SubSeq(Offset!Bytes, a + 1, b)) = b - a
        /\ \A i \in 1 .. b - a : SubSeq(Offset!Bytes, a + 1, b)[i] = Offset!Bytes[a + i]
    BY <1>2, <1>4, PartOf
  <2> QED BY <1>1, <1>4, <2>1
<1>6. p = c
  <2>1. p \in Seq(Chars) /\ c \in Seq(Chars) /\ Len(p) = Len(c)
    BY <1>1, <1>2, <1>5
  <2>2. \A i \in 1 .. Len(p) : p[i] = c[i]
    BY <1>2, <1>5
  <2> QED BY ONLY <2>1, <2>2, SeqEqual
<1>7. x = FlattenSeq(Initials(c)) /\ x \in Token
  BY <1>1, LookupsAssumption DEF SpelledOut
<1>8. Said(a, b) = x
  BY <1>1, <1>6, <1>7 DEF Said
<1>9. PICK q : q = <<a, b>>
  OBVIOUS
<1>10. q \in Nat \X Nat /\ q[1] = a /\ q[2] = b
  BY <1>2, <1>9
<1> QED BY <1>1, <1>7, <1>8, <1>9, <1>10 DEF Held

(* The range of a merged pair holds both, and the unknown bytes between.    *)
LEMMA PairIsHeld ==
  ASSUME NEW Char, SpelledOut(Char), merges \in Tables, Offset!Bytes \in Seq(Chars),
         NEW a, NEW b, Fills(a, sp, b), b <= Len(Offset!Bytes), Matched(Held, toks, sp),
         NEW i \in 1 .. Len(toks) - 1, RankAt(merges, toks, i) # NoRank
  PROVE  << Target(merges, toks[i], toks[i + 1]), <<sp[i][1], sp[i + 1][2]>> >> \in Held
<1>1. PICK n, z, j, t, u, x, r : /\ n = Len(toks) /\ z = Len(Offset!Bytes) /\ j = i + 1
                                 /\ t = toks[i] /\ u = toks[j] /\ x = Target(merges, t, u)
                                 /\ r = Rank(merges, t, u)
  OBVIOUS
<1>2. PICK e, f, g, h : e = sp[i][1] /\ f = sp[i][2] /\ g = sp[j][1] /\ h = sp[j][2]
  OBVIOUS
<1>3. /\ toks \in Seq(Token) /\ sp \in Seq(Nat \X Nat) /\ n = Len(sp) /\ n \in Nat
      /\ \A k \in 1 .. n : <<toks[k], sp[k]>> \in Held
  BY <1>1, LenProperties DEF Matched
<1>4. /\ i \in 1 .. n /\ j \in 1 .. n /\ i \in 0 .. n /\ i # 0 /\ j # n + 1 /\ i \in Nat
  <2>1. i \in 1 .. n - 1 /\ j = i + 1 /\ n \in Nat
    BY <1>1, <1>3
  <2> QED BY ONLY <2>1
<1>5. t = Said(e, f) /\ u = Said(g, h)
  <2>1. <<t, sp[i]>> \in Held /\ <<u, sp[j]>> \in Held
    BY <1>1, <1>3, <1>4
  <2> QED BY <1>2, <2>1 DEF Held
<1>6. /\ e <= f /\ f <= g /\ g <= h /\ h <= z /\ Offset!Unknown(f, g)
      /\ e \in Nat /\ f \in Nat /\ g \in Nat /\ h \in Nat /\ z \in Nat
  <2>1. /\ a \in Nat /\ b \in Nat /\ e \in a .. b /\ f \in a .. b /\ g \in a .. b /\ h \in a .. b
        /\ e < f /\ g < h
    BY <1>2, <1>3, <1>4 DEF Fills
  <2>2. Skips(EndAt(sp, i, a), StartAt(sp, i + 1, b))
    BY <1>3, <1>4 DEF Fills
  <2>3. EndAt(sp, i, a) = f /\ StartAt(sp, i + 1, b) = g
    BY <1>1, <1>2, <1>3, <1>4 DEF EndAt, StartAt
  <2>4. z \in Nat
    BY <1>1, LenProperties
  <2>5. f <= g /\ Offset!Unknown(f, g)
    BY <2>2, <2>3 DEF Skips
  <2> QED BY <1>1, <2>1, <2>4, <2>5
<1>7. /\ e \in 0 .. z /\ f \in 0 .. z /\ g \in 0 .. z /\ f \in e .. z /\ g \in f .. z /\ h \in g .. z
      /\ g \in e .. z
  BY <1>6
<1>8. Said(f, g) = <<>>
  BY <1>1, <1>6, <1>7, SaidNothing
<1>9. Said(e, h) = t \o u
  <2>1. Said(e, g) = Said(e, f) \o Said(f, g)
    BY <1>1, <1>7, SaidJoined
  <2>2. Said(e, h) = Said(e, g) \o Said(g, h)
    BY <1>1, <1>7, SaidJoined
  <2>3. Said(e, f) \in Seq(Char)
    BY <1>1, <1>7, SaidIs
  <2>4. Said(e, g) = t
    BY <1>5, <1>8, <2>1, <2>3, ConcatEmptySeq
  <2> QED BY <1>5, <2>2, <2>4
<1>10. x \in Token /\ x = t \o u
  <2>1. IsTable(merges)
    BY TablesAssumption
  <2>2. r # NoRank
    BY <1>1 DEF RankAt
  <2>3. r \in DOMAIN merges /\ merges[r][1] = t /\ merges[r][2] = u
    BY <1>1, <2>1, <2>2, RankMeans
  <2>4. merges[r][3] = merges[r][1] \o merges[r][2]
    BY <2>3 DEF SpelledOut
  <2>5. merges[r][3] \in Token
    <3>1. merges \in Seq(Merge)
      BY <2>1 DEF IsTable
    <3>2. r \in 1 .. Len(merges)
      BY <2>3, <3>1, LenProperties
    <3>3. merges[r] \in Merge
      BY <3>1, <3>2, ElementOfSeq
    <3> QED BY <3>3 DEF Merge
  <2> QED BY <1>1, <2>3, <2>4, <2>5 DEF Target
<1>11. PICK q : q = <<e, h>>
  OBVIOUS
<1>12. q \in Nat \X Nat /\ q[1] = e /\ q[2] = h
  BY <1>6, <1>11
<1>13. <<x, q>> \in Held
  BY <1>9, <1>10, <1>12 DEF Held
<1> QED BY <1>1, <1>2, <1>11, <1>13

LEMMA PassHolds ==
  ASSUME NEW Char, SpelledOut(Char), merges \in Tables, Offset!Bytes \in Seq(Chars),
         NEW a, NEW b, Fills(a, sp, b), b <= Len(Offset!Bytes), Matched(Held, toks, sp),
         NEW st, NEW m, Walked(st, m, Len(sp)),
         Offset!TokensMerged(st) \in Seq(Token)
  PROVE  Matched(Held, Offset!TokensMerged(st), Offset!SpansMerged(st))
<1>1. PICK n, v, s : n = Len(sp) /\ v = Offset!TokensMerged(st) /\ s = Offset!SpansMerged(st)
  OBVIOUS
<1>2. /\ n \in Nat /\ Len(toks) = n /\ m \in 1 .. n /\ m \in Nat /\ st \in [1 .. m -> 1 .. n]
      /\ \A i : Offset!Hit(i) => i \in 1 .. n - 1 /\ RankAt(merges, toks, i) # NoRank
  BY <1>1 DEF Walked
<1>3. s \in Seq(Nat \X Nat) /\ Len(s) = m
  <2>1. Fills(a, s, b) /\ Len(s) = m
    BY <1>1, FillsPassed
  <2> QED BY <2>1 DEF Fills
<1>4. v \in Seq(Token) /\ Len(v) = m
  <2>1. DOMAIN v = 1 .. m
    BY <1>1, <1>2 DEF Offset!TokensMerged
  <2> QED BY <1>1, <1>2, <2>1, LenProperties
<1>5. ASSUME NEW k \in 1 .. m PROVE <<v[k], s[k]>> \in Held
  <2>1. PICK i : i = st[k]
    OBVIOUS
  <2>2. i \in 1 .. n /\ k \in DOMAIN st
    BY <1>2, <2>1
  <2>3. v[k] = IF Offset!Hit(i) THEN Offset!Target(merges, toks[i], toks[i + 1]) ELSE toks[i]
    BY <1>1, <2>1, <2>2 DEF Offset!TokensMerged
  <2>4. s[k] = IF Offset!Hit(i) THEN <<sp[i][1], sp[i + 1][2]>> ELSE sp[i]
    BY <1>1, <2>1, <2>2 DEF Offset!SpansMerged
  <2>5. CASE ~Offset!Hit(i)
    <3>1. <<toks[i], sp[i]>> \in Held
      BY <1>2, <2>2 DEF Matched
    <3> QED BY <2>3, <2>4, <2>5, <3>1
  <2>6. CASE Offset!Hit(i)
    <3>1. i \in 1 .. Len(toks) - 1 /\ RankAt(merges, toks, i) # NoRank
      BY <1>2, <2>6
    <3>2. << Target(merges, toks[i], toks[i + 1]), <<sp[i][1], sp[i + 1][2]>> >> \in Held
      BY <3>1, PairIsHeld
    <3> QED BY <2>3, <2>4, <2>6, <3>2, OffsetSameTables
  <2> QED BY <2>5, <2>6
<1> QED BY <1>1, <1>3, <1>4, <1>5 DEF Matched

-----------------------------------------------------------------------------
(* What encode_with_offsets made of the text, while the encoder rests.      *)
OffsetAtWork ==
    /\ chunkNext <= Len(text) /\ ~IsWhole(text[chunkNext])
    /\ Monotonic(merges) /\ toks \in Seq(Token)
    /\ Canonical(merges, toks) = Canonical(merges, Word(chunkNext))

OffsetFollows ==
    /\ chunkNext \in 1 .. Len(text) + 1 /\ ids = Due(chunkNext - 1)
    /\ offsetEngine # "idle" => Finished
    /\ offsetEngine = "done" => chunkNext = Len(text) + 1
    /\ offsetEngine = "spans" => OffsetAtWork

LEMMA InitFollows ==
  ASSUME Core, BothInit
  PROVE  OffsetFollows
<1>1. chunkNext = 1 /\ ids = <<>> /\ offsetEngine = "idle" /\ Len(text) \in Nat
  BY LenProperties DEF BothInit, Offset!Init, Core, Kept
<1>2. Due(0) = <<>>
  BY DueGrows DEF Core
<1> QED BY <1>1, <1>2 DEF OffsetFollows

(* The encoder is through for good.                                        *)
LEMMA FinishedRests == ASSUME Finished, Next PROVE FALSE
BY DEF Finished, Next, EmitWhole, EmitNothing, StartStream, StartBatch, StartCanonical, Take,
       RunStream, RunBatch, RunSmall, RunHeap,
       Stream!Step, Stream!PushNext, Stream!FlushTop, Stream!Emit, Stream!Open, Stream!Complete,
       Stream!FallThrough, Stream!Return, Stream!Processing, Batch!Step, Batch!Pass, Batch!Return,
       Small!Step, Small!MergeBest, Small!Return, Heap!Step, Heap!PopStale, Heap!PopFold, Heap!Gather

(* The chunk that encode_with_offsets takes next.                          *)
LEMMA NextChunk ==
  ASSUME Core, OffsetFollows, chunkNext <= Len(text)
  PROVE  /\ chunkNext \in 1 .. Len(text) /\ text[chunkNext] \in Seq(Chars)
         /\ chunkNext + 1 \in 1 .. Len(text) + 1 /\ (chunkNext + 1) - 1 = chunkNext
         /\ ids \in Seq(Token) /\ IsTable(merges)
         /\ Due(chunkNext) = ids \o Expected(text[chunkNext])
<1>1. Len(text) \in Nat /\ merges \in Tables /\ Kept /\ text \in Seq(Seq(Chars))
  BY LenProperties DEF Core, Kept
<1>2. PICK k : k = chunkNext
  OBVIOUS
<1>3. k \in 1 .. Len(text) /\ k + 1 \in 1 .. Len(text) + 1 /\ (k + 1) - 1 = k
  BY <1>1, <1>2 DEF OffsetFollows
<1>4. Due(k) = Due(k - 1) \o Expected(text[k]) /\ ids = Due(k - 1)
  <2>1. ids = Due(k - 1)
    BY <1>2 DEF OffsetFollows
  <2> QED BY <1>1, <1>3, <2>1, DueGrows
<1>5. ids \in Seq(Token)
  <2>1. CASE k = 1
    <3>1. k - 1 = 0
      BY <2>1
    <3>2. ids = <<>>
      BY <1>1, <1>4, <3>1, DueGrows
    <3> QED BY <3>2, EmptySeq
  <2>2. CASE k # 1
    <3>1. k - 1 \in 1 .. Len(text)
      BY <1>1, <1>3, <2>2
    <3> QED BY <1>1, <1>4, <3>1, DueGrows
  <2> QED BY <2>1, <2>2
<1>6. text[k] \in Seq(Chars)
  BY <1>1, <1>3, ElementOfSeq
<1> QED BY <1>1, <1>2, <1>3, <1>4, <1>5, <1>6, TablesAssumption

(* A step of encode_with_offsets leaves the encoder alone.                 *)
LEMMA OffsetApart ==
  ASSUME UNCHANGED vars
  PROVE  /\ text' = text /\ merges' = merges /\ byteFallback' = byteFallback /\ lookup' = lookup
         /\ UNCHANGED <<model, text>> /\ (Finished' <=> Finished)
BY DEF vars, model, Finished

(* The chunk is through.                                                   *)
LEMMA Passes ==
  ASSUME Core, OffsetFollows, UNCHANGED vars, Finished, chunkNext <= Len(text),
         offsetEngine' = "idle", chunkNext' = chunkNext + 1,
         ids' = ids \o Expected(text[chunkNext])
  PROVE  OffsetFollows'
<1>1. text' = text /\ UNCHANGED <<model, text>>
  BY OffsetApart
<1>2. PICK k : k = chunkNext
  OBVIOUS
<1>3. k + 1 \in 1 .. Len(text) + 1 /\ (k + 1) - 1 = k /\ ids' = Due(k)
  BY <1>2, NextChunk
<1>4. Due(k) = Due(k)'
  BY <1>1, Fixed
<1>5. Due(k)' = Due(chunkNext - 1)'
  <2>1. k = chunkNext' - 1
    BY <1>2, <1>3
  <2> QED BY <2>1, Zenon DEF Due
<1> QED BY <1>1, <1>2, <1>3, <1>4, <1>5 DEF OffsetFollows

(* The chunk is worked on.                                                 *)
LEMMA StaysAtWork ==
  ASSUME Core, OffsetFollows, UNCHANGED vars, Finished, chunkNext <= Len(text),
         ~IsWhole(text[chunkNext]), Monotonic(merges),
         offsetEngine' = "spans", chunkNext' = chunkNext, ids' = ids,
         toks' \in Seq(Token), Canonical(merges, toks') = Canonical(merges, Word(chunkNext))
  PROVE  OffsetFollows'
<1>1. text' = text /\ merges' = merges /\ UNCHANGED <<model, text>> /\ Finished'
  BY OffsetApart
<1>2. PICK k : k = chunkNext
  OBVIOUS
<1>3. /\ k \in 1 .. Len(text) + 1 /\ ids = Due(k - 1) /\ k <= Len(text) /\ ~IsWhole(text[k])
      /\ chunkNext' = k
  BY <1>2 DEF OffsetFollows
<1>4. Due(k - 1) = Due(k - 1)' /\ Word(k) = Word(k)' /\ ~IsWhole(text[k])'
  BY <1>1, <1>3, Fixed DEF IsWhole
<1>5. Due(k - 1)' = Due(chunkNext - 1)' /\ Word(k)' = Word(chunkNext)'
  BY <1>3, Zenon DEF Due, Word
<1>6. IsWhole(text[chunkNext])' <=> IsWhole(text[k])'
  BY <1>3 DEF IsWhole
<1>7. OffsetAtWork'
  BY <1>1, <1>2, <1>3, <1>4, <1>5, <1>6 DEF OffsetAtWork
<1> QED BY <1>1, <1>3, <1>4, <1>5, <1>7 DEF OffsetFollows

(* Nothing is emitted.                                                     *)
LEMMA StaysPut ==
  ASSUME Core, OffsetFollows, UNCHANGED <<model, text>>, chunkNext' = chunkNext, ids' = ids,
         toks' = toks, offsetEngine' = offsetEngine, offsetEngine # "idle" => Finished'
  PROVE  OffsetFollows'
<1>1. text' = text /\ merges' = merges
  BY DEF model
<1>2. PICK k : k = chunkNext
  OBVIOUS
<1>3. Due(k - 1) = Due(k - 1)' /\ Word(k) = Word(k)' /\ (IsWhole(text[k]) <=> IsWhole(text[k])')
  BY <1>1, Fixed DEF IsWhole
<1>4. Due(k - 1)' = Due(chunkNext - 1)' /\ Word(k)' = Word(chunkNext)'
  BY <1>2, Zenon DEF Due, Word
<1>5. IsWhole(text[chunkNext])' <=> IsWhole(text[k])'
  BY <1>2 DEF IsWhole
<1>6. offsetEngine = "spans" => OffsetAtWork'
  BY <1>1, <1>2, <1>3, <1>4, <1>5 DEF OffsetFollows, OffsetAtWork
<1> QED BY <1>1, <1>2, <1>3, <1>4, <1>6 DEF OffsetFollows

LEMMA OffsetEmitsWhole ==
  ASSUME Core, OffsetFollows, UNCHANGED vars, Finished, Offset!EmitWhole
  PROVE  OffsetFollows'
<1>1. /\ chunkNext <= Len(text) /\ text[chunkNext] \in DOMAIN lookup /\ ~byteFallback
      /\ ids' = Append(ids, lookup[text[chunkNext]]) /\ chunkNext' = chunkNext + 1
      /\ offsetEngine' = "idle"
  BY DEF Offset!EmitWhole, Offset!Supported
<1>2. ids \in Seq(Token) /\ lookup \in Lookups
  BY <1>1, NextChunk DEF Core, Kept
<1>3. PICK x : x = lookup[text[chunkNext]]
  OBVIOUS
<1>4. x \in Token /\ Expected(text[chunkNext]) = <<x>>
  BY <1>1, <1>2, <1>3, LookupsAssumption DEF Expected, IsWhole
<1>5. ids' = ids \o <<x>>
  BY <1>1, <1>2, <1>3, <1>4, AppendIsConcat
<1> QED BY <1>1, <1>4, <1>5, Passes

LEMMA OffsetStarts ==
  ASSUME Core, OffsetFollows, UNCHANGED vars, Finished, Offset!StartChunk
  PROVE  OffsetFollows'
<1>1. /\ chunkNext <= Len(text) /\ text[chunkNext] \notin DOMAIN lookup
      /\ toks' = Offset!Singles(text[chunkNext]) /\ chunkNext' = chunkNext
      /\ offsetEngine' = "spans" /\ ids' = ids /\ Monotonic(merges)
  BY OffsetSameTables DEF Offset!StartChunk, Offset!Supported
<1>2. toks' = Word(chunkNext)
  BY <1>1, OffsetSameFlatten DEF Offset!Singles, Word, Initials
<1>3. toks' \in Seq(Token)
  BY <1>1, <1>2, NextChunk, InitialsAre DEF Word
<1> QED BY <1>1, <1>2, <1>3, StaysAtWork DEF IsWhole

(* The ranges so far fill the text up to the next chunk, and those of the   *)
(* chunk that is worked on fill the chunk.                                 *)
SpansFollow ==
    /\ \A d \in DOMAIN text : text[d] # <<>>
    /\ byteFallback \/ OneTokenBytes
    /\ Fills(0, spans, Offset!StartOf(chunkNext))
    /\ offsetEngine = "spans" =>
          /\ Fills(Offset!StartOf(chunkNext), sp, Offset!StartOf(chunkNext + 1))
          /\ Len(toks) = Len(sp)

(* What the text alone decides.                                            *)
LEMMA TextDecides ==
  ASSUME text' = text
  PROVE  /\ Offset!Bytes' = Offset!Bytes
         /\ \A k : Offset!StartOf(k)' = Offset!StartOf(k)
         /\ \A a, s, b : Fills(a, s, b)' <=> Fills(a, s, b)
         /\ OneTokenBytes' <=> OneTokenBytes
<1>1. Offset!Bytes' = Offset!Bytes /\ \A k : Offset!StartOf(k)' = Offset!StartOf(k)
  BY DEF Offset!Bytes, Offset!StartOf, Offset!FlattenSeq
<1>2. \A a, b : Skips(a, b)' <=> Skips(a, b)
  BY <1>1 DEF Skips, Offset!Unknown
<1>3. \A a, s, b : Fills(a, s, b)' <=> Fills(a, s, b)
  BY <1>2 DEF Fills, EndAt, StartAt
<1>4. OneTokenBytes' <=> OneTokenBytes
  BY DEF OneTokenBytes
<1> QED BY <1>1, <1>3, <1>4

(* From the ranges of a next state, written in this one.                   *)
LEMMA SpansNext ==
  ASSUME UNCHANGED <<model, text>>, SpansFollow,
         Fills(0, spans', Offset!StartOf(chunkNext')),
         offsetEngine' = "spans" =>
            /\ Fills(Offset!StartOf(chunkNext'), sp', Offset!StartOf(chunkNext' + 1))
            /\ Len(toks') = Len(sp')
  PROVE  SpansFollow'
<1>1. text' = text /\ byteFallback' = byteFallback
  BY DEF model
<1>2. PICK k, l, u, v : k = chunkNext' /\ l = k + 1 /\ u = spans' /\ v = sp'
  OBVIOUS
<1>3. PICK a, b : a = Offset!StartOf(k) /\ b = Offset!StartOf(l)
  OBVIOUS
<1>4. /\ a = Offset!StartOf(chunkNext)' /\ b = Offset!StartOf(chunkNext + 1)'
  <2>1. a = Offset!StartOf(k)' /\ b = Offset!StartOf(l)'
    BY <1>1, <1>3, TextDecides
  <2> QED BY <1>2, <2>1, Zenon DEF Offset!StartOf
<1>5. Fills(0, u, a)'
  BY <1>1, <1>2, <1>3, TextDecides
<1>6. Fills(0, spans, Offset!StartOf(chunkNext))'
  BY <1>2, <1>4, <1>5, Zenon DEF Fills
<1>7. offsetEngine' = "spans" => Fills(a, v, b)'
  BY <1>1, <1>2, <1>3, TextDecides
<1>8. offsetEngine' = "spans" => Fills(Offset!StartOf(chunkNext), sp, Offset!StartOf(chunkNext + 1))'
  BY <1>2, <1>4, <1>7, Zenon DEF Fills
<1> QED BY <1>1, <1>6, <1>8, TextDecides DEF SpansFollow

LEMMA SpansInit ==
  ASSUME Core, BothInit
  PROVE  SpansFollow
<1>1. /\ chunkNext = 1 /\ spans = <<>> /\ offsetEngine = "idle" /\ (byteFallback \/ OneTokenBytes)
      /\ \A d \in DOMAIN text : text[d] # <<>>
  BY ChunksAssumption DEF BothInit, Offset!Init, Init
<1>2. Offset!StartOf(1) = 0
  BY FirstPlace DEF Core, Kept
<1>3. Fills(0, <<>>, 0)
  <2>1. Skips(0, 0)
    BY DEF Skips, Offset!Unknown
  <2> QED BY <2>1, FillsNone
<1> QED BY <1>1, <1>2, <1>3 DEF SpansFollow

(* Where the next chunk stands.                                            *)
LEMMA NextStands ==
  ASSUME Core, OffsetFollows, chunkNext <= Len(text)
  PROVE  /\ StandsAt(chunkNext, Offset!StartOf(chunkNext), Offset!StartOf(chunkNext + 1))
         /\ chunkNext \in 1 .. Len(text)
<1>1. PICK k : k = chunkNext
  OBVIOUS
<1>2. k \in 1 .. Len(text)
  BY <1>1, NextChunk
<1>3. StandsAt(k, Offset!StartOf(k), Offset!StartOf(k + 1))
  BY <1>2, ChunkStands DEF Core, Kept
<1> QED BY <1>1, <1>2, <1>3

LEMMA SpansOfWhole ==
  ASSUME Core, OffsetFollows, SpansFollow, UNCHANGED vars, Offset!EmitWhole
  PROVE  SpansFollow'
<1>1. /\ chunkNext <= Len(text) /\ chunkNext' = chunkNext + 1 /\ offsetEngine' = "idle"
      /\ spans' = Append(spans, <<Offset!StartOf(chunkNext),
                                  Offset!StartOf(chunkNext) + Len(text[chunkNext])>>)
  BY DEF Offset!EmitWhole
<1>2. PICK k, c, a, b : /\ k = chunkNext /\ c = text[chunkNext] /\ a = Offset!StartOf(chunkNext)
                        /\ b = Offset!StartOf(chunkNext + 1)
  OBVIOUS
<1>3. StandsAt(k, a, b) /\ k \in 1 .. Len(text)
  BY <1>1, <1>2, NextStands
<1>4. a \in Nat /\ b \in Nat /\ b = a + Len(c) /\ Len(c) \in Nat /\ c \in Seq(Chars)
  BY <1>2, <1>3, LenProperties DEF StandsAt
<1>5. Len(c) # 0
  <2>1. c # <<>>
    <3>1. k \in DOMAIN text
      BY <1>3, LenProperties DEF Core, Kept
    <3> QED BY <1>2, <3>1 DEF SpansFollow
  <2> QED BY <1>4, <2>1, EmptySeq
<1>6. PICK p : p = <<a, b>>
  OBVIOUS
<1>7. Fills(a, <<p>>, b)
  BY <1>4, <1>5, <1>6, FillsOne
<1>8. spans' = spans \o <<p>>
  <2>1. PICK S : S = Nat \X Nat
    OBVIOUS
  <2>2. spans \in Seq(S) /\ p \in S
    BY <1>4, <1>6, <2>1 DEF SpansFollow, Fills
  <2>3. spans' = Append(spans, p)
    BY <1>1, <1>2, <1>4, <1>6
  <2> QED BY <2>2, <2>3, AppendIsConcat
<1>9. Fills(0, spans \o <<p>>, b)
  <2>1. Fills(0, spans, a)
    BY <1>2 DEF SpansFollow
  <2> QED BY <1>7, <2>1, FillsJoined
<1> QED BY <1>1, <1>2, <1>8, <1>9, OffsetApart, SpansNext DEF SpansFollow

(* The tokens and ranges that a chunk starts with.                         *)
LEMMA StartedRanges ==
  ASSUME Core, OffsetFollows, SpansFollow, UNCHANGED vars, Offset!StartChunk
  PROVE  /\ Fills(Offset!StartOf(chunkNext), sp', Offset!StartOf(chunkNext + 1))
         /\ Matched(ReadOff, toks', sp')
<1>1. /\ chunkNext <= Len(text) /\ chunkNext' = chunkNext /\ offsetEngine' = "spans"
      /\ spans' = spans /\ ~byteFallback
      /\ toks' = Offset!Singles(text[chunkNext]) /\ sp' = Offset!SpansOf(text[chunkNext])
  BY DEF Offset!StartChunk, Offset!Supported
<1>2. PICK k, c, a, b : /\ k = chunkNext /\ c = text[chunkNext] /\ a = Offset!StartOf(chunkNext)
                        /\ b = Offset!StartOf(chunkNext + 1)
  OBVIOUS
<1>3. StandsAt(k, a, b) /\ k \in 1 .. Len(text)
  BY <1>1, <1>2, NextStands
<1>4. toks' = Initials(c)
  BY <1>1, <1>2, OffsetSameFlatten DEF Offset!Singles, Initials
<1>5. sp' = FlattenSeq([j \in DOMAIN c |-> ByteSpans(c, a, j)])
  <2>1. PICK f, g : /\ f = [j \in DOMAIN c |-> ByteSpans(c, a, j)]
                    /\ g = [j \in DOMAIN c |-> [i \in DOMAIN Initial[c[j]] |->
                                <<Offset!StartOf(chunkNext) + j - 1, Offset!StartOf(chunkNext) + j>>]]
    OBVIOUS
  <2>2. f = g
    BY <1>2, <2>1 DEF ByteSpans
  <2>3. sp' = Offset!FlattenSeq(g)
    BY <1>1, <1>2, <2>1 DEF Offset!SpansOf
  <2> QED BY <2>1, <2>2, <2>3, OffsetSameFlatten
<1>6. \A j \in 1 .. Len(text[k]) : Len(Initial[text[k][j]]) <= 1
  <2>1. text[k] \in Seq(Chars) /\ text \in Seq(Seq(Chars)) /\ OneTokenBytes
    BY <1>1, <1>3 DEF StandsAt, SpansFollow, Core, Kept
  <2>2. k \in DOMAIN text /\ DOMAIN text[k] = 1 .. Len(text[k])
    BY <1>3, <2>1, LenProperties
  <2> QED BY <2>1, <2>2 DEF OneTokenBytes
<1>7. Fills(a, sp', b) /\ Matched(ReadOff, Initials(c), sp')
  BY <1>2, <1>3, <1>5, <1>6, ChunkFills
<1> QED BY <1>2, <1>4, <1>7

LEMMA SpansOfStart ==
  ASSUME Core, OffsetFollows, SpansFollow, UNCHANGED vars, Offset!StartChunk
  PROVE  SpansFollow'
<1>1. chunkNext' = chunkNext /\ spans' = spans
  BY DEF Offset!StartChunk
<1>2. /\ Fills(Offset!StartOf(chunkNext'), sp', Offset!StartOf(chunkNext' + 1))
      /\ Len(toks') = Len(sp')
  BY <1>1, StartedRanges DEF Matched
<1> QED BY <1>1, <1>2, OffsetApart, SpansNext DEF SpansFollow

LEMMA SpansOfEnd ==
  ASSUME Core, OffsetFollows, SpansFollow, UNCHANGED vars, Offset!EndChunk
  PROVE  SpansFollow'
<1>1. /\ offsetEngine = "spans" /\ offsetEngine' = "idle" /\ chunkNext' = chunkNext + 1
      /\ spans' = spans \o sp
  BY DEF Offset!EndChunk
<1>2. PICK a, b : a = Offset!StartOf(chunkNext) /\ b = Offset!StartOf(chunkNext + 1)
  OBVIOUS
<1>3. Fills(0, spans, a) /\ Fills(a, sp, b)
  BY <1>1, <1>2 DEF SpansFollow
<1>4. Fills(0, spans \o sp, b)
  BY <1>3, FillsJoined
<1> QED BY <1>1, <1>2, <1>4, OffsetApart, SpansNext

LEMMA SpansStay ==
  ASSUME SpansFollow, UNCHANGED <<model, text, chunkNext, spans, sp, toks>>,
         offsetEngine' = offsetEngine \/ offsetEngine' # "spans"
  PROVE  SpansFollow'
<1>1. PICK k, l : k = chunkNext /\ l = chunkNext'
  OBVIOUS
<1>2. UNCHANGED <<model, text>> /\ spans' = spans /\ sp' = sp /\ toks' = toks /\ k = l
  BY <1>1
<1>3. /\ Fills(0, spans', Offset!StartOf(l))
      /\ offsetEngine' = "spans" => Fills(Offset!StartOf(l), sp', Offset!StartOf(l + 1))
                                    /\ Len(toks') = Len(sp')
  BY <1>1, <1>2 DEF SpansFollow
<1> QED BY <1>1, <1>2, <1>3, SpansNext

(* The ranges so far hold the tokens so far.                               *)
TextFollows ==
    /\ Matched(Held, ids, spans)
    /\ offsetEngine = "spans" => Matched(Held, toks, sp)

LEMMA HeldNext ==
  ASSUME text' = text
  PROVE  \A w, s : Matched(Held, w, s)' <=> Matched(Held, w, s)
<1>1. Offset!Bytes' = Offset!Bytes
  BY TextDecides
<1>2. \A a, b : Said(a, b)' = Said(a, b)
  BY <1>1 DEF Said, Initials
<1>3. Held' = Held
  BY <1>2 DEF Held
<1> QED BY <1>3 DEF Matched

(* From the next state, written in this one.                               *)
LEMMA TextNext ==
  ASSUME text' = text, Matched(Held, ids', spans'),
         offsetEngine' = "spans" => Matched(Held, toks', sp')
  PROVE  TextFollows'
<1>1. PICK w, s, v, t : w = ids' /\ s = spans' /\ v = toks' /\ t = sp'
  OBVIOUS
<1>2. Matched(Held, w, s)' /\ (offsetEngine' = "spans" => Matched(Held, v, t)')
  BY <1>1, HeldNext
<1>3. Matched(Held, ids, spans)'
  BY <1>1, <1>2, Zenon DEF Matched
<1>4. offsetEngine' = "spans" => Matched(Held, toks, sp)'
  BY <1>1, <1>2, Zenon DEF Matched
<1> QED BY <1>3, <1>4 DEF TextFollows

LEMMA TextInit == BothInit => TextFollows
  BY MatchedNone DEF BothInit, Offset!Init, TextFollows

LEMMA TextOfWhole ==
  ASSUME NEW Char, SpelledOut(Char), Core, OffsetFollows, SpansFollow, TextFollows,
         UNCHANGED vars, Offset!EmitWhole
  PROVE  TextFollows'
<1>1. /\ chunkNext <= Len(text) /\ offsetEngine' = "idle" /\ text[chunkNext] \in DOMAIN lookup
      /\ ids' = Append(ids, lookup[text[chunkNext]])
      /\ spans' = Append(spans, <<Offset!StartOf(chunkNext),
                                  Offset!StartOf(chunkNext) + Len(text[chunkNext])>>)
  BY DEF Offset!EmitWhole
<1>2. PICK k, x, a, b, p : /\ k = chunkNext /\ x = lookup[text[chunkNext]]
                           /\ a = Offset!StartOf(chunkNext) /\ b = Offset!StartOf(chunkNext + 1)
                           /\ p = <<a, b>>
  OBVIOUS
<1>3. StandsAt(k, a, b)
  BY <1>1, <1>2, NextStands
<1>4. a \in Nat /\ b \in Nat /\ b = a + Len(text[k])
  BY <1>3 DEF StandsAt
<1>5. <<x, p>> \in Held
  <2>1. lookup \in Lookups
    BY DEF Core, Kept
  <2> QED BY <1>1, <1>2, <1>3, <2>1, WholeIsHeld
<1>6. PICK S : S = Nat \X Nat
  OBVIOUS
<1>7. x \in Token /\ p \in S
  <2>1. lookup \in Lookups
    BY DEF Core, Kept
  <2> QED BY <1>1, <1>2, <1>4, <1>6, <2>1, LookupsAssumption
<1>8. Matched(Held, <<x>>, <<p>>)
  BY <1>5, <1>6, <1>7, MatchedOne
<1>9. Matched(Held, ids \o <<x>>, spans \o <<p>>)
  BY <1>8, MatchedJoined DEF TextFollows
<1>10. ids' = ids \o <<x>> /\ spans' = spans \o <<p>>
  <2>1. ids \in Seq(Token) /\ spans \in Seq(S)
    BY <1>6 DEF TextFollows, Matched
  <2>2. ids' = Append(ids, x) /\ spans' = Append(spans, p)
    BY <1>1, <1>2, <1>4
  <2> QED BY <1>7, <2>1, <2>2, AppendIsConcat
<1> QED BY <1>1, <1>9, <1>10, OffsetApart, TextNext

LEMMA TextOfStart ==
  ASSUME NEW Char, SpelledOut(Char), Core, OffsetFollows, SpansFollow, TextFollows,
         UNCHANGED vars, Offset!StartChunk
  PROVE  TextFollows'
<1>1. /\ chunkNext <= Len(text) /\ ids' = ids /\ spans' = spans
  BY DEF Offset!StartChunk
<1>2. PICK k, a, b : /\ k = chunkNext /\ a = Offset!StartOf(chunkNext)
                     /\ b = Offset!StartOf(chunkNext + 1)
  OBVIOUS
<1>3. StandsAt(k, a, b)
  BY <1>1, <1>2, NextStands
<1>4. Fills(a, sp', b) /\ Matched(ReadOff, toks', sp')
  BY <1>2, StartedRanges
<1>5. Offset!Bytes \in Seq(Chars) /\ b <= Len(Offset!Bytes)
  BY <1>3 DEF StandsAt
<1>6. Matched(Held, toks', sp')
  BY <1>4, <1>5, ReadIsHeld
<1> QED BY <1>1, <1>6, OffsetApart, TextNext DEF TextFollows

LEMMA TextOfEnd ==
  ASSUME TextFollows, UNCHANGED vars, Offset!EndChunk
  PROVE  TextFollows'
<1>1. /\ offsetEngine = "spans" /\ offsetEngine' = "idle" /\ ids' = ids \o toks
      /\ spans' = spans \o sp
  BY DEF Offset!EndChunk
<1>2. Matched(Held, ids \o toks, spans \o sp)
  BY <1>1, MatchedJoined DEF TextFollows
<1> QED BY <1>1, <1>2, OffsetApart, TextNext

LEMMA TextStays ==
  ASSUME TextFollows, text' = text, UNCHANGED <<ids, spans, toks, sp>>,
         offsetEngine' = offsetEngine \/ offsetEngine' # "spans"
  PROVE  TextFollows'
  BY TextNext DEF TextFollows

-----------------------------------------------------------------------------
(* The engine of encode_with_offsets.  It keeps no ranks from pass to pass: *)
(* what the proofs about the batch engine say of a pass over cached ranks   *)
(* they say of the ranks that this one looks up.                            *)
OB  == INSTANCE BatchMergeProofs WITH
           Chunks <- Seq(Token), engine <- offsetEngine, tokens <- toks, chunk <- toks,
           ranks <- Offset!Pairs, min <- Offset!Best, ok <- TRUE

LEMMA OBSameTables == \A m : OB!IsTable(m) <=> IsTable(m)
BY DEF OB!IsTable, IsTable, OB!Merge, Merge

LEMMA OBSameRank == \A m, a, b : OB!Rank(m, a, b) = Rank(m, a, b)
BY DEF OB!Rank, OB!MergesOf, OB!IsFirst, Rank, MergesOf, IsFirst

LEMMA OBSameCanonical == \A m, w : OB!Canonical(m, w) = Canonical(m, w)
BY SMTT(30) DEF OB!Canonical, OB!Candidates, OB!RankAt, OB!Rank, OB!MergesOf,
           OB!IsFirst, OB!FoldAt, OB!Target, OB!Precedes, Canonical, Candidates,
           RankAt, Rank, MergesOf, IsFirst, FoldAt, Target, Precedes

LEMMA OBSameMonotonic == \A m : OB!Monotonic(m) <=> Monotonic(m)
BY DEF OB!Monotonic, Monotonic

LEMMA OBSameTargets ==
  /\ \A m, a, b : OB!Target(m, a, b) = Target(m, a, b)
  /\ \A m, w, i : OB!RankAt(m, w, i) = RankAt(m, w, i)
BY OBSameRank DEF OB!Target, Target, OB!RankAt, RankAt

LEMMA OffsetPass ==
  /\ OB!PairRanks(toks) = Offset!Pairs /\ OB!LowestOf(Offset!Pairs) = Offset!Best
  /\ \A i : (OB!Hit(i) <=> Offset!Hit(i)) /\ OB!Stride(i) = Offset!StepOf(i)
  /\ OB!Starts = Offset!Starts
  /\ \A st : OB!Applied(st) = Offset!TokensMerged(st)
<1>1. OB!PairRanks(toks) = Offset!Pairs
  BY OffsetSameTables, OBSameTargets DEF OB!PairRanks, Offset!Pairs
<1>2. OB!LowestOf(Offset!Pairs) = Offset!Best
  BY DEF OB!LowestOf, Offset!Best, OB!Min, Offset!Min, OB!ToSet, Offset!ToSet
<1>3. \A i : (OB!Hit(i) <=> Offset!Hit(i)) /\ OB!Stride(i) = Offset!StepOf(i)
  BY DEF OB!Hit, Offset!Hit, OB!Stride, Offset!StepOf
<1>4. OB!Walk = Offset!Read
  BY <1>3 DEF OB!Walk, Offset!Read
<1>5. OB!Starts = Offset!Starts
  BY <1>4 DEF OB!Starts, Offset!Starts
<1>6. \A st : OB!Applied(st) = Offset!TokensMerged(st)
  BY <1>3, OffsetSameTables, OBSameTargets DEF OB!Applied, Offset!TokensMerged
<1> QED BY <1>1, <1>2, <1>3, <1>5, <1>6

(* The ranks of a pass are those of the table, and Best the lowest.         *)
LEMMA RanksLookedUp ==
  ASSUME IsTable(merges), toks \in Seq(Token)
  PROVE  /\ DOMAIN Offset!Pairs = 1 .. Len(toks) - 1
         /\ \A k \in 1 .. Len(toks) - 1 :
               /\ Offset!Pairs[k] = RankAt(merges, toks, k) /\ Offset!Pairs[k] \in 1 .. NoRank
               /\ Offset!Best <= Offset!Pairs[k]
         /\ Offset!Best \in Nat /\ NoRank \in Nat
         /\ Offset!Best # NoRank => 1 <= Len(toks)
<1>1. PICK n, r : n = Len(toks) /\ r = Offset!Pairs
  OBVIOUS
<1>2. n \in Nat /\ NoRank \in Nat /\ \A k : RankAt(merges, toks, k) \in 1 .. NoRank
  BY <1>1, LenProperties, RankOfPair DEF RankAt, IsTable
<1>3. /\ r = [k \in 1 .. n - 1 |-> RankAt(merges, toks, k)]
  BY <1>1, OffsetSameTables, OBSameTargets DEF Offset!Pairs
<1>4. r \in [1 .. n - 1 -> Nat]
  BY <1>2, <1>3
<1>5. r \in Seq(Nat)
  <2>1. PICK l : l \in Nat /\ r \in [1 .. l -> Nat]
    <3>1. CASE n = 0
      <4>1. 1 .. n - 1 = 1 .. 0
        BY <3>1
      <4> QED BY <1>4, <4>1
    <3>2. CASE n # 0
      <4>1. n - 1 \in Nat
        BY <1>2, <3>2
      <4> QED BY <1>4, <4>1
    <3> QED BY <3>1, <3>2
  <2> QED BY ONLY <2>1, SeqDef
<1>6. PICK b : b = Offset!Best
  OBVIOUS
<1>7. /\ b \in Nat /\ \A k \in DOMAIN r : b <= r[k]
      /\ b = NoRank \/ \E k \in DOMAIN r : b = r[k]
  <2>1. OB!LowestOf(r) = b
    BY <1>1, <1>6, OffsetPass
  <2> QED BY <1>2, <1>5, <2>1, OB!LowestIs
<1>8. DOMAIN r = 1 .. n - 1 /\ \A k \in 1 .. n - 1 : r[k] = RankAt(merges, toks, k)
  BY <1>3
<1>9. b # NoRank => 1 <= n
  BY <1>2, <1>7, <1>8
<1> QED BY <1>1, <1>2, <1>6, <1>7, <1>8, <1>9

(* Without a ranked pair the word is canonical.                            *)
LEMMA NoPassIsThrough ==
  ASSUME IsTable(merges), toks \in Seq(Token), Offset!Best = NoRank
  PROVE  Canonical(merges, toks) = toks
<1>1. ASSUME NEW k \in 1 .. Len(toks) - 1 PROVE RankAt(merges, toks, k) = NoRank
  BY RanksLookedUp
<1>2. NormalForm(merges, toks)
  BY <1>1 DEF NormalForm
<1> QED BY <1>2, CanonicalUnfolds

LEMMA PassWalks ==
  ASSUME IsTable(merges), toks \in Seq(Token), Offset!Best # NoRank
  PROVE  \E m : Walked(Offset!Starts, m, Len(toks)) /\ OB!Passing(Offset!Starts, m, Len(toks))
<1>1. PICK n, st, r : n = Len(toks) /\ st = Offset!Starts /\ r = Offset!Pairs
  OBVIOUS
<1>2. n \in Nat /\ OB!IsTable(merges) /\ NoRank \in Nat
  BY <1>1, LenProperties, OBSameTables DEF IsTable
<1>4. /\ 1 <= n /\ DOMAIN r = 1 .. n - 1 /\ Offset!Best \in Nat
      /\ \A k \in 1 .. n - 1 : r[k] = RankAt(merges, toks, k) /\ r[k] \in Nat /\ Offset!Best <= r[k]
  BY <1>1, RanksLookedUp
<1>5. PICK m \in 1 .. n : OB!IsWalk(st, m, n)
  <2>1. \E m \in 1 .. n : OB!IsWalk(OB!Starts, m, n)
    BY <1>1, <1>2, <1>4, OB!StartsAre
  <2> QED BY <1>1, <2>1, OffsetPass
<1>6. OB!Passing(st, m, n)
  BY <1>1, <1>2, <1>4, <1>5, OffsetSameTables, OBSameTargets DEF OB!Passing
<1>7. Walked(st, m, n)
  <2>1. /\ n \in Nat /\ m \in 1 .. n /\ st \in [1 .. m -> 1 .. n] /\ st[1] = 1
        /\ \A k \in 1 .. m - 1 : st[k + 1] = st[k] + OB!Stride(st[k])
        /\ st[m] + OB!Stride(st[m]) = n + 1
    BY <1>5 DEF OB!IsWalk
  <2>2. ASSUME NEW i, Offset!Hit(i)
        PROVE  i \in 1 .. n - 1 /\ RankAt(merges, toks, i) # NoRank
    <3>1. i \in DOMAIN r /\ r[i] = Offset!Best
      BY <1>1, <2>2 DEF Offset!Hit
    <3>2. i \in 1 .. n - 1 /\ r[i] = RankAt(merges, toks, i)
      BY <1>4, <3>1
    <3> QED BY <3>1, <3>2
  <2> QED BY <1>1, <2>1, <2>2, OffsetPass DEF Walked
<1> QED BY <1>1, <1>6, <1>7

(* What a pass makes of the word: canonical BPE reaches it.                *)
LEMMA PassIsCanonical ==
  ASSUME IsTable(merges), Monotonic(merges), toks \in Seq(Token), Offset!Best # NoRank
  PROVE  /\ Offset!TokensMerged(Offset!Starts) \in Seq(Token)
         /\ Canonical(merges, Offset!TokensMerged(Offset!Starts)) = Canonical(merges, toks)
<1>1. PICK st, n : st = Offset!Starts /\ n = Len(toks)
  OBVIOUS
<1>2. PICK m : OB!Passing(st, m, n)
  BY <1>1, PassWalks
<1>3. OB!Writes(st, m, OB!Applied(st))
  BY <1>2, OB!Applying
<1>4. OB!Monotonic(merges)
  BY OBSameMonotonic
<1>5. OB!Canonical(merges, OB!Applied(st)) = OB!Canonical(merges, toks)
  BY <1>2, <1>4, OB!Passed
<1>6. OB!Applied(st) = Offset!TokensMerged(st)
  BY OffsetPass
<1>7. OB!Applied(st) \in Seq(Token)
  BY <1>3 DEF OB!Writes
<1> QED BY <1>1, <1>5, <1>6, <1>7, OBSameCanonical

LEMMA OffsetPasses ==
  ASSUME Core, OffsetFollows, UNCHANGED vars, Finished, Offset!Pass
  PROVE  OffsetFollows'
<1>1. /\ offsetEngine = "spans" /\ offsetEngine' = "spans" /\ chunkNext' = chunkNext /\ ids' = ids
      /\ Offset!Best # NoRank /\ toks' = Offset!TokensMerged(Offset!Starts)
  BY DEF Offset!Pass
<1>2. OffsetAtWork
  BY <1>1 DEF OffsetFollows
<1>3. IsTable(merges)
  BY <1>2, NextChunk DEF OffsetAtWork
<1>4. toks' \in Seq(Token) /\ Canonical(merges, toks') = Canonical(merges, toks)
  BY <1>1, <1>2, <1>3, PassIsCanonical DEF OffsetAtWork
<1> QED BY <1>1, <1>2, <1>4, StaysAtWork DEF OffsetAtWork

LEMMA OffsetEndsChunk ==
  ASSUME Core, OffsetFollows, UNCHANGED vars, Finished, Offset!EndChunk
  PROVE  OffsetFollows'
<1>1. /\ offsetEngine = "spans" /\ offsetEngine' = "idle" /\ chunkNext' = chunkNext + 1
      /\ ids' = ids \o toks /\ Offset!Best = NoRank
  BY DEF Offset!EndChunk
<1>2. OffsetAtWork
  BY <1>1 DEF OffsetFollows
<1>3. IsTable(merges) /\ chunkNext <= Len(text) /\ toks \in Seq(Token)
  BY <1>2, NextChunk DEF OffsetAtWork
<1>4. Canonical(merges, toks) = toks
  BY <1>1, <1>3, NoPassIsThrough
<1>5. toks = Expected(text[chunkNext])
  BY <1>2, <1>4 DEF OffsetAtWork, Expected, Word
<1> QED BY <1>1, <1>3, <1>5, Passes

LEMMA OffsetKeeps ==
  ASSUME Core, OffsetFollows, UNCHANGED vars, Finished, Offset!Next
  PROVE  OffsetFollows'
<1>1. CASE Offset!Refuse \/ Offset!Return
  <2>1. /\ chunkNext' = chunkNext /\ ids' = ids /\ toks' = toks
        /\ offsetEngine' \in {"refused", "done"}
        /\ offsetEngine' = "done" => chunkNext > Len(text)
    BY <1>1 DEF Offset!Refuse, Offset!Return
  <2>2. UNCHANGED <<model, text>> /\ text' = text /\ Finished'
    BY OffsetApart
  <2>3. PICK k : k = chunkNext
    OBVIOUS
  <2>4. Due(k - 1) = Due(k - 1)'
    BY <2>2, Fixed
  <2>5. Due(k - 1)' = Due(chunkNext - 1)'
    BY <2>1, <2>3, Zenon DEF Due
  <2>6. chunkNext' = k /\ k \in 1 .. Len(text') + 1 /\ ids' = Due(k - 1)
    BY <2>1, <2>2, <2>3 DEF OffsetFollows
  <2>7. Len(text) \in Nat
    BY LenProperties DEF Core, Kept
  <2> QED BY <2>1, <2>2, <2>3, <2>4, <2>5, <2>6, <2>7 DEF OffsetFollows
<1> QED BY <1>1, OffsetEmitsWhole, OffsetStarts, OffsetPasses, OffsetEndsChunk DEF Offset!Next

LEMMA SpansOfPass ==
  ASSUME Core, OffsetFollows, SpansFollow, UNCHANGED vars, Offset!Pass
  PROVE  SpansFollow'
<1>1. /\ offsetEngine = "spans" /\ chunkNext' = chunkNext /\ spans' = spans
      /\ Offset!Best # NoRank
      /\ toks' = Offset!TokensMerged(Offset!Starts) /\ sp' = Offset!SpansMerged(Offset!Starts)
  BY DEF Offset!Pass
<1>2. OffsetAtWork
  BY <1>1 DEF OffsetFollows
<1>3. IsTable(merges) /\ toks \in Seq(Token)
  BY <1>2, NextChunk DEF OffsetAtWork
<1>4. PICK st, a, b : /\ st = Offset!Starts /\ a = Offset!StartOf(chunkNext)
                      /\ b = Offset!StartOf(chunkNext + 1)
  OBVIOUS
<1>5. PICK m : Walked(st, m, Len(toks))
  BY <1>1, <1>3, <1>4, PassWalks
<1>6. Fills(a, sp, b) /\ Walked(st, m, Len(sp))
  BY <1>1, <1>4, <1>5 DEF SpansFollow
<1>7. Fills(a, sp', b) /\ Len(sp') = m
  BY <1>1, <1>4, <1>6, FillsPassed
<1>8. Len(toks') = m
  <2>1. toks' \in Seq(Token)
    BY <1>1, <1>2, <1>3, PassIsCanonical DEF OffsetAtWork
  <2>2. DOMAIN toks' = 1 .. m /\ m \in Nat
    BY <1>1, <1>4, <1>5 DEF Walked, Offset!TokensMerged
  <2> QED BY <2>1, <2>2, LenProperties
<1> QED BY <1>1, <1>4, <1>7, <1>8, OffsetApart, SpansNext DEF SpansFollow

LEMMA SpansKeep ==
  ASSUME Core, OffsetFollows, SpansFollow, UNCHANGED vars, Offset!Next
  PROVE  SpansFollow'
<1>1. CASE Offset!Refuse \/ Offset!Return
  BY <1>1, OffsetApart, SpansStay DEF Offset!Refuse, Offset!Return
<1> QED BY <1>1, SpansOfWhole, SpansOfStart, SpansOfPass, SpansOfEnd DEF Offset!Next

LEMMA TextOfPass ==
  ASSUME NEW Char, SpelledOut(Char), Core, OffsetFollows, SpansFollow, TextFollows,
         UNCHANGED vars, Offset!Pass
  PROVE  TextFollows'
<1>1. /\ offsetEngine = "spans" /\ ids' = ids /\ spans' = spans /\ Offset!Best # NoRank
      /\ toks' = Offset!TokensMerged(Offset!Starts) /\ sp' = Offset!SpansMerged(Offset!Starts)
  BY DEF Offset!Pass
<1>2. OffsetAtWork
  BY <1>1 DEF OffsetFollows
<1>3. IsTable(merges) /\ toks \in Seq(Token) /\ chunkNext <= Len(text) /\ merges \in Tables
  BY <1>2, NextChunk DEF OffsetAtWork, Core, Kept
<1>4. PICK st, k, a, b : /\ st = Offset!Starts /\ k = chunkNext /\ a = Offset!StartOf(chunkNext)
                         /\ b = Offset!StartOf(chunkNext + 1)
  OBVIOUS
<1>5. PICK m : Walked(st, m, Len(toks))
  BY <1>1, <1>3, <1>4, PassWalks
<1>6. Fills(a, sp, b) /\ Walked(st, m, Len(sp)) /\ Matched(Held, toks, sp)
  BY <1>1, <1>4, <1>5 DEF SpansFollow, TextFollows
<1>7. Offset!TokensMerged(st) \in Seq(Token)
  BY <1>1, <1>2, <1>3, <1>4, PassIsCanonical DEF OffsetAtWork
<1>8. Offset!Bytes \in Seq(Chars) /\ b <= Len(Offset!Bytes)
  <2>1. StandsAt(k, a, b)
    BY <1>3, <1>4, NextStands
  <2> QED BY <2>1 DEF StandsAt
<1>9. Matched(Held, Offset!TokensMerged(st), Offset!SpansMerged(st))
  BY <1>3, <1>6, <1>7, <1>8, PassHolds
<1> QED BY <1>1, <1>4, <1>9, OffsetApart, TextNext DEF TextFollows

LEMMA TextKeeps ==
  ASSUME NEW Char, SpelledOut(Char), Core, OffsetFollows, SpansFollow, TextFollows,
         UNCHANGED vars, Offset!Next
  PROVE  TextFollows'
<1>1. CASE Offset!Refuse \/ Offset!Return
  BY <1>1, OffsetApart, TextStays DEF Offset!Refuse, Offset!Return
<1> QED BY <1>1, TextOfWhole, TextOfStart, TextOfPass, TextOfEnd DEF Offset!Next

-----------------------------------------------------------------------------
(* The short canonical path.                                               *)
LP  == INSTANCE SmallMergeProofs WITH
           Chunks <- Seq(Token), ranks <- canonRanks, AnyLength <- SmallCanon,
           path <- mode, heapEngine <- engine, heapTokens <- tokens,
           MaxRun <- 0, RunMerges <- 0, MaxRunChunk <- 0,
           MaxWord <- 0, WordMerges <- 0, MaxWordChunk <- 0

(* The module's operators are those used here.                             *)
LEMMA LPSameTables == \A m : LP!IsTable(m) <=> IsTable(m)
BY DEF LP!IsTable, IsTable, LP!Merge, Merge

LEMMA LPSameCanonical == \A m, w : LP!Canonical(m, w) = Canonical(m, w)
BY SMTT(30) DEF LP!Canonical, LP!Candidates, LP!RankAt, LP!Rank, LP!MergesOf,
           LP!IsFirst, LP!FoldAt, LP!Target, LP!Precedes, Canonical, Candidates,
           RankAt, Rank, MergesOf, IsFirst, FoldAt, Target, Precedes

LEMMA LPAssumptions == Seq(Token) \subseteq Seq(Token) /\ \A m \in Tables : LP!IsTable(m)
BY TablesAssumption, LPSameTables

LEMMA SmallSteps ==
  /\ Small!Step => LP!Step
  /\ \A c : Small!Begin(c) => LP!Begin(c)
<1>1. \A m, w, i : Small!RankAt(m, w, i) = LP!RankAt(m, w, i)
  BY DEF Small!RankAt, LP!RankAt, Small!Rank, LP!Rank, Small!MergesOf, LP!MergesOf,
         Small!IsFirst, LP!IsFirst
<1>2. \A m, w, i : Small!FoldAt(m, w, i) = LP!FoldAt(m, w, i)
  BY DEF Small!FoldAt, LP!FoldAt, Small!Target, LP!Target, Small!Rank, LP!Rank,
         Small!MergesOf, LP!MergesOf, Small!IsFirst, LP!IsFirst
<1>3. \A i : Small!IsBest(i) <=> LP!IsBest(i)
  BY DEF Small!IsBest, LP!IsBest
<1>4. \A i : Small!Refresh(i) = LP!Refresh(i)
  BY DEF Small!Refresh, LP!Refresh, Small!RankAt, LP!RankAt, Small!Rank, LP!Rank,
         Small!MergesOf, LP!MergesOf, Small!IsFirst, LP!IsFirst
<1>5. Small!MergeBest => LP!MergeBest
  BY <1>2, <1>3, <1>4 DEF Small!MergeBest, LP!MergeBest
<1>6. Small!Return => LP!Return
  BY DEF Small!Return, LP!Return
<1>7. \A c : Small!Begin(c) => LP!Begin(c)
  BY <1>1 DEF Small!Begin, LP!Begin, Small!PairRanks, LP!PairRanks
<1> QED BY <1>5, <1>6, <1>7 DEF Small!Step, LP!Step

LEMMA SmallStarts ==
  ASSUME merges \in Tables, NEW w \in Seq(Token), Small!Begin(w)
  PROVE  LP!IInv' /\ merges' = merges /\ engine' = "small" /\ tokens' = w
<1>1. LP!Begin(w) /\ merges' = merges /\ engine' = "small" /\ tokens' = w
  BY SmallSteps DEF Small!Begin
<1>2. LP!IInv'
  BY <1>1, LPAssumptions, LP!Begun
<1> QED BY <1>1, <1>2

LEMMA SmallMoves ==
  ASSUME LP!IInv, Small!Step
  PROVE  /\ LP!IInv' /\ merges' = merges /\ engine' \in {"small", "idle"}
         /\ Canonical(merges, tokens') = Canonical(merges, tokens)
         /\ engine' = "idle" => tokens' = Canonical(merges, tokens)
<1>1. LP!Step
  BY SmallSteps
<1>2. /\ LP!IInv' /\ merges' = merges /\ engine' \in {"small", "idle"}
      /\ LP!Canonical(merges, tokens') = LP!Canonical(merges, tokens)
      /\ engine' = "idle" => tokens' = LP!Canonical(merges, tokens)
  BY <1>1, LPAssumptions, LP!Stepping
<1> QED BY <1>2, LPSameCanonical

InSmall ==
    engine = "small" =>
        LP!IInv /\ Canonical(merges, tokens) = Canonical(merges, Word(Done))

LEMMA SmallEngine ==
  ASSUME Core, InSmall, [Next]_vars
  PROVE  InSmall' /\ (RunSmall => Core')
<1>1. CASE StartCanonical /\ engine' = "small"
  <2>1. PICK d : Taken(d)
    BY <1>1, Takes DEF StartCanonical
  <2>2. Small!Begin(Word(d)) /\ merges \in Tables /\ Word(d) \in Seq(Token)
    BY <1>1, <2>1 DEF StartCanonical, Taken, Word, Small!Trivial, Heap!Begin
  <2>3. LP!IInv' /\ merges' = merges /\ tokens' = Word(d)
    BY <2>2, SmallStarts
  <2>4. InSmall'
    BY <2>1, <2>3, WordTaken DEF InSmall
  <2> QED BY <1>1, <2>4 DEF RunSmall, Small!Step, Small!MergeBest, Small!Return, StartCanonical, Take
<1>2. CASE RunSmall
  <2>1. Small!Step /\ Running /\ engine = "small"
    BY <1>2 DEF RunSmall, Small!Step, Small!MergeBest, Small!Return
  <2>2. PICK d : OnChunk(d)
    BY <2>1, Works
  <2>3. LP!IInv /\ Canonical(merges, tokens) = Canonical(merges, Word(Done))
    BY <2>1 DEF InSmall
  <2>4. /\ LP!IInv' /\ merges' = merges
        /\ Canonical(merges, tokens') = Canonical(merges, tokens)
        /\ engine' = "idle" => tokens' = Canonical(merges, tokens)
    BY <2>1, <2>3, SmallMoves
  <2>5. InSmall'
    BY <2>2, <2>3, <2>4, WordWorkedOn DEF InSmall
  <2> QED BY <1>2, <2>3, <2>4, <2>5, RunSmallKeeps
<1>3. CASE Still
  <2>1. LP!IInv => LP!IInv'
    <3>1. [LP!Next]_(LP!vars)
      BY <1>3 DEF Still, LP!vars
    <3> QED BY <3>1, LPAssumptions, LP!NextIInv
  <2>2. merges' = merges /\ engine' = engine /\ tokens' = tokens
    BY <1>3 DEF Still
  <2> QED BY <1>3, <2>1, <2>2, StillKeeps DEF InSmall
<1>4. CASE engine' # "small" /\ ~RunSmall
  BY <1>4 DEF InSmall
<1> QED BY <1>1, <1>2, <1>3, <1>4, WhoRuns

-----------------------------------------------------------------------------
(* The batch engine.                                                       *)
BP  == INSTANCE BatchMergeProofs WITH Chunks <- Seq(Token), chunk <- given

(* The module's operators are those used here.                             *)
LEMMA BPSameTables == \A m : BP!IsTable(m) <=> IsTable(m)
BY DEF BP!IsTable, IsTable, BP!Merge, Merge

LEMMA BPSameCanonical == \A m, w : BP!Canonical(m, w) = Canonical(m, w)
BY SMTT(30) DEF BP!Canonical, BP!Candidates, BP!RankAt, BP!Rank, BP!MergesOf,
           BP!IsFirst, BP!FoldAt, BP!Target, BP!Precedes, Canonical, Candidates,
           RankAt, Rank, MergesOf, IsFirst, FoldAt, Target, Precedes

LEMMA BPSameMonotonic == \A m : BP!Monotonic(m) <=> Monotonic(m)
BY DEF BP!Monotonic, Monotonic

LEMMA BPAssumptions == BP!Loadable
BY TablesAssumption, BPSameTables DEF BP!Loadable

LEMMA BatchSteps ==
  /\ Batch!Step => BP!Step
  /\ \A c : Batch!Begin(c) => BP!Begin(c)
<1>1. \A m, w, i : BP!RankAt(m, w, i) = Batch!RankAt(m, w, i)
  BY DEF BP!RankAt, Batch!RankAt, BP!Rank, Batch!Rank, BP!MergesOf, Batch!MergesOf,
         BP!IsFirst, Batch!IsFirst
<1>2. \A m, a, b : BP!Target(m, a, b) = Batch!Target(m, a, b)
  BY DEF BP!Target, Batch!Target, BP!Rank, Batch!Rank, BP!MergesOf, Batch!MergesOf,
         BP!IsFirst, Batch!IsFirst
<1>3. \A w : BP!PairRanks(w) = Batch!PairRanks(w)
  BY <1>1 DEF BP!PairRanks, Batch!PairRanks
<1>4. \A r : BP!LowestOf(r) = Batch!LowestOf(r)
  BY DEF BP!LowestOf, Batch!LowestOf, BP!Min, Batch!Min, BP!ToSet, Batch!ToSet
<1>5. \A i : (BP!Hit(i) <=> Batch!Hit(i)) /\ BP!Stride(i) = Batch!Stride(i)
  BY DEF BP!Hit, Batch!Hit, BP!Stride, Batch!Stride
<1>6. BP!Walk = Batch!Walk
  BY <1>5 DEF BP!Walk, Batch!Walk
<1>7. BP!Starts = Batch!Starts
  BY <1>6 DEF BP!Starts, Batch!Starts
<1>8. \A st : BP!Applied(st) = Batch!Applied(st)
  BY <1>2, <1>5 DEF BP!Applied, Batch!Applied
<1>9. \A st : BP!Rebuilt(st) = Batch!Rebuilt(st)
  BY <1>1, <1>5 DEF BP!Rebuilt, Batch!Rebuilt, BP!BothCopied, Batch!BothCopied
<1>10. Batch!Pass => BP!Pass
  BY <1>4, <1>7, <1>8, <1>9 DEF Batch!Pass, BP!Pass
<1>11. Batch!Return => BP!Return
  BY DEF Batch!Return, BP!Return
<1>12. \A c : Batch!Begin(c) => BP!Begin(c)
  BY <1>3, <1>4 DEF Batch!Begin, BP!Begin
<1> QED BY <1>10, <1>11, <1>12 DEF Batch!Step, BP!Step

LEMMA BatchStarts ==
  ASSUME merges \in Tables, ok \in BOOLEAN, Monotonic(merges) => ok,
         NEW w \in Seq(Token), Batch!Begin(w)
  PROVE  BP!IInvCanonical' /\ merges' = merges /\ engine' = "batch" /\ given' = w /\ ok' = ok
<1>1. merges' = merges /\ engine' = "batch" /\ given' = w /\ ok' = ok
  BY DEF Batch!Begin
<1>2. BP!Begin(w) /\ BP!Loadable /\ (BP!Monotonic(merges) => ok)
  BY BatchSteps, BPAssumptions, BPSameMonotonic
<1>3. BP!IInvCanonical'
  BY <1>2, BP!Begun
<1> QED BY <1>1, <1>3

LEMMA BatchMoves ==
  ASSUME BP!IInvCanonical, Monotonic(merges), Batch!Step
  PROVE  /\ BP!IInvCanonical' /\ merges' = merges /\ given' = given
         /\ engine' \in {"batch", "idle"} /\ ok' \in BOOLEAN /\ ok'
         /\ engine' = "idle" => tokens' = Canonical(merges, given)
<1>1. BP!Step /\ BP!Loadable /\ BP!Monotonic(merges)
  BY BatchSteps, BPAssumptions, BPSameMonotonic
<1>2. /\ BP!IInvCanonical' /\ merges' = merges /\ given' = given
      /\ engine' \in {"batch", "idle"} /\ ok' \in BOOLEAN /\ ok'
      /\ engine' = "idle" => tokens' = BP!Canonical(merges, given)
  BY <1>1, BP!Stepping
<1> QED BY <1>2, BPSameCanonical

InBatch == engine = "batch" => Monotonic(merges) /\ BP!IInvCanonical /\ given = Word(Done)

LEMMA BatchEngine ==
  ASSUME Core, InBatch, [Next]_vars
  PROVE  InBatch' /\ (RunBatch => Core')
<1>1. CASE StartBatch /\ engine' = "batch"
  <2>1. PICK d : Taken(d)
    BY <1>1, Takes DEF StartBatch
  <2>2. Batch!Begin(Word(d)) /\ Monotonic(merges)
    BY <1>1, <2>1 DEF StartBatch, UseBatch, Taken, Word, Batch!Trivial
  <2>3. /\ merges \in Tables /\ Word(d) \in Seq(Token)
        /\ ok \in BOOLEAN /\ (Monotonic(merges) => ok)
    BY <2>1 DEF Taken, Kept, Buffers
  <2>4. BP!IInvCanonical' /\ merges' = merges /\ given' = Word(d)
    <3>1. PICK w : w = Word(d)
      OBVIOUS
    <3>2. Batch!Begin(w) /\ w \in Seq(Token)
      BY <2>2, <2>3, <3>1
    <3>3. BP!IInvCanonical' /\ merges' = merges /\ given' = w
      BY <2>2, <2>3, <3>2, BatchStarts, Zenon
    <3> QED BY <3>1, <3>3
  <2>5. InBatch'
    BY <2>1, <2>2, <2>4, WordTaken DEF InBatch
  <2> QED BY <1>1, <2>5 DEF RunBatch, Batch!Step, Batch!Pass, Batch!Return, StartBatch, Take
<1>2. CASE RunBatch
  <2>1. Batch!Step /\ Running /\ engine = "batch"
    BY <1>2 DEF RunBatch, Batch!Step, Batch!Pass, Batch!Return
  <2>2. PICK d : OnChunk(d)
    BY <2>1, Works
  <2>3. Monotonic(merges) /\ BP!IInvCanonical /\ given = Word(Done)
    BY <2>1 DEF InBatch
  <2>4. /\ BP!IInvCanonical' /\ merges' = merges /\ given' = given
        /\ ok' \in BOOLEAN /\ ok'
        /\ engine' = "idle" => tokens' = Canonical(merges, given)
    BY <2>1, <2>3, BatchMoves
  <2>5. InBatch'
    BY <2>2, <2>3, <2>4, WordWorkedOn DEF InBatch
  <2> QED BY <1>2, <2>3, <2>4, <2>5, RunBatchKeeps
<1>3. CASE Still
  <2>1. BP!IInvCanonical => BP!IInvCanonical'
    <3>1. [BP!Next]_(BP!vars)
      BY <1>3 DEF Still, BP!vars
    <3> QED BY <3>1, BPAssumptions, BP!NextIInv
  <2>2. merges' = merges /\ engine' = engine /\ given' = given
    BY <1>3 DEF Still
  <2> QED BY <1>3, <2>1, <2>2, StillKeeps DEF InBatch
<1>4. CASE engine' # "batch" /\ ~RunBatch
  BY <1>4 DEF InBatch
<1> QED BY <1>1, <1>2, <1>3, <1>4, WhoRuns

-----------------------------------------------------------------------------
(* The long canonical path.                                                *)
HP  == INSTANCE HeapMergeProofs WITH Chunks <- Seq(Token)

(* The module's operators are those used here.                             *)
LEMMA HPSameTables == \A m : HP!IsTable(m) <=> IsTable(m)
BY DEF HP!IsTable, IsTable, HP!Merge, Merge

LEMMA HPSameCanonical == \A m, w : HP!Canonical(m, w) = Canonical(m, w)
BY SMTT(30) DEF HP!Canonical, HP!Candidates, HP!RankAt, HP!Rank, HP!MergesOf,
           HP!IsFirst, HP!FoldAt, HP!Target, HP!Precedes, Canonical, Candidates,
           RankAt, Rank, MergesOf, IsFirst, FoldAt, Target, Precedes

LEMMA HPAssumptions == HP!Loadable
BY TablesAssumption, HPSameTables DEF HP!Loadable

LEMMA HeapSteps ==
  /\ Heap!Step => HP!Step
  /\ \A c : Heap!Begin(c) => HP!Begin(c)
<1>1. \A m, a, b : HP!Rank(m, a, b) = Heap!Rank(m, a, b)
  BY DEF HP!Rank, Heap!Rank, HP!MergesOf, Heap!MergesOf, HP!IsFirst, Heap!IsFirst
<1>2. \A m, a, b : HP!Target(m, a, b) = Heap!Target(m, a, b)
  BY <1>1 DEF HP!Target, Heap!Target
<1>3. \A a, b, i : HP!Candidate(a, b, i) = Heap!Candidate(a, b, i)
  BY <1>1 DEF HP!Candidate, Heap!Candidate
<1>4. \A e : HP!IsTop(e) <=> Heap!IsTop(e)
  BY DEF HP!IsTop, Heap!IsTop, HP!Precedes, Heap!Precedes
<1>5. HP!None = Heap!None
  BY DEF HP!None, Heap!None
<1>6. \A e : HP!Current(e) <=> Heap!Current(e)
  BY <1>1, <1>5 DEF HP!Current, Heap!Current
<1>7. \A e : HP!Popped(e) = Heap!Popped(e)
  BY DEF HP!Popped, Heap!Popped, HP!BagRemove, Heap!BagRemove
<1>8. \A i, k, t : /\ HP!LeftPair(i, t) = Heap!LeftPair(i, t)
                   /\ HP!RightPair(i, k, t) = Heap!RightPair(i, k, t)
                   /\ HP!BackLink(i, k) = Heap!BackLink(i, k)
  BY <1>3, <1>5 DEF HP!LeftPair, Heap!LeftPair, HP!RightPair, Heap!RightPair,
                    HP!BackLink, Heap!BackLink
<1>9. \A e : HP!Fold(e) <=> Heap!Fold(e)
  <2>1. \A b, S : HP!(+)(b, HP!SetToBag(S)) = Heap!(+)(b, Heap!SetToBag(S))
    BY DEF HP!(+), Heap!(+), HP!SetToBag, Heap!SetToBag
  <2>2. SUFFICES ASSUME NEW e PROVE HP!Fold(e) <=> Heap!Fold(e)
    OBVIOUS
  <2>3. PICK i, j, k : i = e[2] /\ j = next[i] /\ k = next[j]
    OBVIOUS
  <2>4. PICK t : t = HP!Target(merges, tokens[i], tokens[j])
    OBVIOUS
  <2>5. PICK p, h : p = HP!BackLink(i, k)
                    /\ h = HP!(+)(HP!Popped(e), HP!SetToBag(HP!LeftPair(i, t) \cup HP!RightPair(i, k, t)))
    OBVIOUS
  <2>6. t = Heap!Target(merges, tokens[i], tokens[j])
    BY <1>2, <2>4
  <2>7. p = Heap!BackLink(i, k)
        /\ h = Heap!(+)(Heap!Popped(e), Heap!SetToBag(Heap!LeftPair(i, t) \cup Heap!RightPair(i, k, t)))
    BY <1>7, <1>8, <2>1, <2>5
  <2>8. HP!Fold(e) <=> /\ tokens' = [tokens EXCEPT ![i] = t] /\ alive' = [alive EXCEPT ![j] = FALSE]
                       /\ next' = [next EXCEPT ![i] = k] /\ prev' = p /\ heap' = h
    BY <2>3, <2>4, <2>5, Zenon DEF HP!Fold
  <2>9. Heap!Fold(e) <=> /\ tokens' = [tokens EXCEPT ![i] = t] /\ alive' = [alive EXCEPT ![j] = FALSE]
                       /\ next' = [next EXCEPT ![i] = k] /\ prev' = p /\ heap' = h
    BY <2>3, <2>6, <2>7, Zenon DEF Heap!Fold
  <2> QED BY <2>8, <2>9
<1>10. HP!Survivors = Heap!Survivors
  BY DEF HP!Survivors, Heap!Survivors, HP!None, Heap!None
<1>11. Heap!PopStale => HP!PopStale
  BY <1>4, <1>6, <1>7 DEF Heap!PopStale, HP!PopStale
<1>12. Heap!PopFold => HP!PopFold
  BY <1>4, <1>6, <1>9 DEF Heap!PopFold, HP!PopFold
<1>13. Heap!Gather => HP!Gather
  BY <1>10 DEF Heap!Gather, HP!Gather, Heap!EmptyBag, HP!EmptyBag, Heap!SetToBag, HP!SetToBag
<1>14. \A c : Heap!Begin(c) => HP!Begin(c)
  BY <1>3 DEF Heap!Begin, HP!Begin, Heap!SetToBag, HP!SetToBag
<1> QED BY <1>11, <1>12, <1>13, <1>14 DEF Heap!Step, HP!Step

LEMMA HeapStarts ==
  ASSUME merges \in Tables, HP!IsABag(heap), NEW w \in Seq(Token), Heap!Begin(w)
  PROVE  /\ HP!IInvWhole' /\ merges' = merges /\ engine' = "heap" /\ HP!Survivors' = w
         /\ HP!IsABag(heap')
<1>1. HP!Begin(w)
  BY HeapSteps
<1>2. HP!IInvWhole' /\ merges' = merges /\ engine' = "heap" /\ HP!Survivors' = w
  BY <1>1, HPAssumptions, HP!Starting
<1>3. HP!IsABag(heap')
  BY <1>2 DEF HP!IInvWhole, HP!Whole, HP!IsABag
<1> QED BY <1>2, <1>3

LEMMA HeapMoves ==
  ASSUME HP!IInvWhole, Heap!Step
  PROVE  /\ HP!IInvWhole' /\ merges' = merges /\ engine' \in {"heap", "idle"}
         /\ engine' = "heap" =>
               Canonical(merges, HP!Survivors') = Canonical(merges, HP!Survivors)
         /\ engine' = "idle" => tokens' = Canonical(merges, HP!Survivors)
         /\ HP!IsABag(heap')
<1>1. HP!Step
  BY HeapSteps
<1>2. /\ HP!IInvWhole' /\ merges' = merges /\ engine' \in {"heap", "idle"}
      /\ engine' = "heap" =>
            HP!Canonical(merges, HP!Survivors') = HP!Canonical(merges, HP!Survivors)
      /\ engine' = "idle" =>
            tokens' \in Seq(Token) /\ tokens' = HP!Canonical(merges, HP!Survivors)
  BY <1>1, HPAssumptions, HP!Stepping
<1>3. HP!IsABag(heap')
  BY <1>2 DEF HP!IInvWhole, HP!Whole, HP!IsABag
<1> QED BY <1>2, <1>3, HPSameCanonical

InHeap ==
    engine = "heap" =>
        HP!IInvWhole /\ Canonical(merges, HP!Survivors) = Canonical(merges, Word(Done))

LEMMA HeapEngine ==
  ASSUME Core, InHeap, [Next]_vars
  PROVE  InHeap' /\ (RunHeap => Core')
<1>1. CASE StartCanonical /\ engine' = "heap"
  <2>1. PICK d : Taken(d)
    BY <1>1, Takes DEF StartCanonical
  <2>2. Heap!Begin(Word(d)) /\ merges \in Tables /\ Word(d) \in Seq(Token)
    BY <1>1, <2>1 DEF StartCanonical, Taken, Word, Small!Trivial, Small!Begin
  <2>3. HP!IsABag(heap)
    BY <2>1 DEF Taken, Kept, Buffers, Heap!IsABag, HP!IsABag
  <2>4. HP!IInvWhole' /\ merges' = merges /\ HP!Survivors' = Word(d)
    BY <2>2, <2>3, HeapStarts
  <2>5. InHeap'
    BY <2>1, <2>4, WordTaken DEF InHeap
  <2> QED BY <1>1, <2>5, StartCanonicalKeeps
<1>2. CASE RunHeap
  <2>1. Heap!Step /\ Running /\ engine = "heap"
    BY <1>2 DEF RunHeap, Heap!Step, Heap!PopStale, Heap!PopFold, Heap!Gather
  <2>2. PICK d : OnChunk(d)
    BY <2>1, Works
  <2>3. HP!IInvWhole /\ Canonical(merges, HP!Survivors) = Canonical(merges, Word(Done))
    BY <2>1 DEF InHeap
  <2>4. /\ HP!IInvWhole' /\ merges' = merges
        /\ engine' = "heap" =>
              Canonical(merges, HP!Survivors') = Canonical(merges, HP!Survivors)
        /\ engine' = "idle" => tokens' = Canonical(merges, HP!Survivors)
        /\ HP!IsABag(heap')
    BY <2>1, <2>3, HeapMoves
  <2>5. InHeap'
    BY <2>2, <2>3, <2>4, WordWorkedOn DEF InHeap
  <2>6. Heap!IsABag(heap')
    BY <2>4 DEF Heap!IsABag, HP!IsABag
  <2> QED BY <1>2, <2>3, <2>4, <2>5, <2>6, RunHeapKeeps
<1>3. CASE Still
  <2>1. HP!IInvWhole => HP!IInvWhole'
    <3>1. [HP!Next]_(HP!vars)
      BY <1>3 DEF Still, HP!vars, HP!scratch
    <3> QED BY <3>1, HPAssumptions, HP!NextWhole
  <2>2. merges' = merges /\ engine' = engine
    BY <1>3 DEF Still
  <2>3. HP!Survivors' = HP!Survivors
    BY <1>3 DEF Still, HP!Survivors, HP!None
  <2> QED BY <1>3, <2>1, <2>2, <2>3, StillKeeps DEF InHeap
<1>4. CASE engine' # "heap" /\ ~RunHeap
  BY <1>4 DEF InHeap
<1> QED BY <1>1, <1>2, <1>3, <1>4, WhoRuns

-----------------------------------------------------------------------------
(* The streaming engine.                                                   *)
SP  == INSTANCE StreamMergeProofs WITH
           Chunks <- Seq(Token), MaxOut <- 0, chunk <- tokens,
           path <- mode, batchEngine <- engine, batchChunk <- given,
           MaxRun <- 0, RunMerges <- 0, MaxRunChunk <- 0,
           MaxWord <- 0, WordMerges <- 0, MaxWordChunk <- 0

(* The module's operators are those used here.                             *)
LEMMA SPSameTables == \A m : SP!IsTable(m) <=> IsTable(m)
BY DEF SP!IsTable, IsTable, SP!Merge, Merge

LEMMA SPSameCanonical == \A m, w : SP!Canonical(m, w) = Canonical(m, w)
BY SMTT(30) DEF SP!Canonical, SP!Candidates, SP!RankAt, SP!Rank, SP!MergesOf,
           SP!IsFirst, SP!FoldAt, SP!Target, SP!Precedes, Canonical, Candidates,
           RankAt, Rank, MergesOf, IsFirst, FoldAt, Target, Precedes

LEMMA SPSameMonotonic == \A m : SP!Monotonic(m) <=> Monotonic(m)
BY DEF SP!Monotonic, Monotonic

LEMMA SPAssumptions == Seq(Token) \subseteq Seq(Token) /\ \A m \in Tables : SP!IsTable(m)
BY TablesAssumption, SPSameTables

LEMMA StreamSteps ==
  /\ Stream!Step => SP!Step
  /\ \A c : Stream!Begin(c) => SP!Begin(c)
<1>1. \A t, i : Stream!FirstAfter(t, i) = SP!FirstAfter(t, i)
  BY DEF Stream!FirstAfter, SP!FirstAfter, Stream!MergesAfter, SP!MergesAfter,
         Stream!IsFirst, SP!IsFirst
<1>2. /\ \A t : Stream!InitialDest(t) = SP!InitialDest(t)
      /\ \A i : Stream!NextToken1Dest(i) = SP!NextToken1Dest(i)
      /\ \A i : Stream!NextTargetDest(i) = SP!NextTargetDest(i)
  BY <1>1 DEF Stream!InitialDest, SP!InitialDest, Stream!NextToken1Dest, SP!NextToken1Dest,
              Stream!NextTargetDest, SP!NextTargetDest
<1>3. /\ \A s : Stream!Last(s) = SP!Last(s) /\ Stream!Front(s) = SP!Front(s)
      /\ Stream!tok = SP!tok /\ Stream!dest = SP!dest
      /\ (Stream!Opens <=> SP!Opens) /\ (Stream!Processing <=> SP!Processing)
  BY DEF Stream!Last, SP!Last, Stream!Front, SP!Front, Stream!tok, SP!tok, Stream!dest, SP!dest,
         Stream!Opens, SP!Opens, Stream!Processing, SP!Processing
<1>4. Stream!PushNext => SP!PushNext
  BY <1>2 DEF Stream!PushNext, SP!PushNext
<1>5. Stream!FlushTop => SP!FlushTop
  BY <1>2, <1>3 DEF Stream!FlushTop, SP!FlushTop
<1>6. (Stream!Emit => SP!Emit) /\ (Stream!Open => SP!Open)
  BY <1>3 DEF Stream!Emit, SP!Emit, Stream!Open, SP!Open
<1>7. Stream!Complete => SP!Complete
  BY <1>2, <1>3 DEF Stream!Complete, SP!Complete
<1>8. Stream!FallThrough => SP!FallThrough
  BY <1>2, <1>3 DEF Stream!FallThrough, SP!FallThrough
<1>9. (Stream!Return => SP!Return) /\ \A c : Stream!Begin(c) => SP!Begin(c)
  BY DEF Stream!Return, SP!Return, Stream!Begin, SP!Begin
<1> QED BY <1>4, <1>5, <1>6, <1>7, <1>8, <1>9 DEF Stream!Step, SP!Step

LEMMA StreamStarts ==
  ASSUME merges \in Tables, out \in Seq(Token), todo = <<>>,
         NEW w \in Seq(Token), Stream!Begin(w)
  PROVE  /\ SP!IInvAligned' /\ merges' = merges /\ engine' = "stream" /\ tokens' = w
         /\ SP!Before' = out /\ out' = out
<1>1. SP!Begin(w) /\ out' = out
  BY StreamSteps DEF Stream!Begin
<1>2. SP!IInvAligned' /\ merges' = merges /\ engine' = "stream" /\ tokens' = w /\ SP!Before' = out
  BY <1>1, SPAssumptions, SP!Starting
<1> QED BY <1>1, <1>2

LEMMA StreamMoves ==
  ASSUME SP!IInvAligned, Monotonic(merges), Stream!Step
  PROVE  /\ SP!IInvAligned' /\ merges' = merges /\ tokens' = tokens /\ SP!Before' = SP!Before
         /\ engine' = "stream" \/ (engine' = "idle" /\ todo' = <<>>)
         /\ engine' = "idle" => out' = SP!Before \o Canonical(merges, tokens)
         /\ out' \in Seq(Token)
<1>1. SP!Step /\ SP!Monotonic(merges)
  BY StreamSteps, SPSameMonotonic
<1>2. /\ SP!IInvAligned' /\ merges' = merges /\ tokens' = tokens /\ SP!Before' = SP!Before
      /\ engine' = "stream" \/ (engine' = "idle" /\ todo' = <<>>)
      /\ engine' = "idle" => out' = SP!Before \o SP!Canonical(merges, tokens)
  BY <1>1, SPAssumptions, SP!Stepping
<1>3. out' \in Seq(Token)
  BY <1>2 DEF SP!IInvAligned, SP!IInv, SP!TypeOK
<1>4. SP!Canonical(merges, tokens) = Canonical(merges, tokens)
  BY SPSameCanonical
<1> QED BY <1>2, <1>3, <1>4

InStream == engine = "stream" => Monotonic(merges) /\ SP!IInvAligned /\ tokens = Word(Done)

LEMMA StreamEngine ==
  ASSUME Core, InStream, [Next]_vars
  PROVE  InStream' /\ (RunStream => Core')
<1>1. CASE StartStream /\ engine' = "stream"
  <2>1. PICK d : Taken(d)
    BY <1>1, Takes DEF StartStream
  <2>2. Stream!Begin(Word(d)) /\ Monotonic(merges)
    BY <1>1, <2>1 DEF StartStream, UseStream, Taken, Word
  <2>3. merges \in Tables /\ Word(d) \in Seq(Token) /\ out \in Seq(Token) /\ todo = <<>>
    BY <2>1 DEF Taken, Kept, Buffers
  <2>4. SP!IInvAligned' /\ merges' = merges /\ tokens' = Word(d)
    BY <2>2, <2>3, StreamStarts
  <2>5. InStream'
    BY <2>1, <2>2, <2>4, WordTaken DEF InStream
  <2> QED BY <1>1, <2>5, StartStreamKeeps
<1>2. CASE RunStream
  <2>1. Stream!Step /\ Running /\ engine = "stream"
    BY <1>2 DEF RunStream, Stream!Step, Stream!PushNext, Stream!FlushTop, Stream!Emit,
           Stream!Open, Stream!Complete, Stream!FallThrough, Stream!Return, Stream!Processing
  <2>2. PICK d : OnChunk(d)
    BY <2>1, Works
  <2>3. Monotonic(merges) /\ SP!IInvAligned /\ tokens = Word(Done)
    BY <2>1 DEF InStream
  <2>4. /\ SP!IInvAligned' /\ merges' = merges /\ tokens' = tokens /\ SP!Before' = SP!Before
        /\ engine' = "idle" => out' = SP!Before \o Canonical(merges, tokens)
        /\ out' \in Seq(Token)
    BY <2>1, <2>3, StreamMoves
  <2>5. InStream'
    BY <2>2, <2>3, <2>4, WordWorkedOn DEF InStream
  <2>6. Before' = Before /\ (engine' = "idle" => out' = Before \o Canonical(merges, Word(Done)))
    <3>1. Before = SP!Before
      BY DEF Before, SP!Before
    <3>2. Before' = SP!Before'
      BY DEF Before, SP!Before
    <3> QED BY <2>3, <2>4, <3>1, <3>2
  <2> QED BY <1>2, <2>4, <2>5, <2>6, RunStreamKeeps
<1>3. CASE Still
  <2>1. SP!IInvAligned => SP!IInvAligned'
    <3>1. [SP!Next]_(SP!vars)
      BY <1>3 DEF Still, SP!vars, SP!scratch
    <3> QED BY <3>1, SPAssumptions, SP!NextAligned
  <2>2. merges' = merges /\ engine' = engine /\ tokens' = tokens
    BY <1>3 DEF Still
  <2> QED BY <1>3, <2>1, <2>2, StillKeeps DEF InStream
<1>4. CASE engine' # "stream" /\ ~RunStream
  BY <1>4 DEF InStream
<1> QED BY <1>1, <1>2, <1>3, <1>4, WhoRuns

-----------------------------------------------------------------------------
(* Each engine's own invariant holds while it is at work.                  *)
IInv == Core /\ InSmall /\ InBatch /\ InHeap /\ InStream

LEMMA InitIInv == Init => IInv
BY InitCore DEF IInv, Init, EmptyScratch, InSmall, InBatch, InHeap, InStream

LEMMA NextIInv == IInv /\ [Next]_vars => IInv'
<1> SUFFICES ASSUME IInv, [Next]_vars PROVE IInv'
  OBVIOUS
<1>1. Core /\ InSmall /\ InBatch /\ InHeap /\ InStream
  BY DEF IInv
<1>2. InSmall' /\ InBatch' /\ InHeap' /\ InStream'
  BY <1>1, SmallEngine, BatchEngine, HeapEngine, StreamEngine
<1>3. CASE RunStream \/ RunBatch \/ RunSmall \/ RunHeap
  BY <1>1, <1>2, <1>3, SmallEngine, BatchEngine, HeapEngine, StreamEngine DEF IInv
<1>4. CASE EmitWhole \/ EmitNothing \/ StartStream \/ StartBatch \/ StartCanonical
  BY <1>1, <1>2, <1>4, EmitWholeKeeps, EmitNothingKeeps, StartStreamKeeps, StartBatchKeeps,
     StartCanonicalKeeps DEF IInv
<1>5. CASE UNCHANGED vars
  BY <1>1, <1>2, <1>5, StutterIsStill, StillKeeps DEF IInv
<1> QED BY <1>3, <1>4, <1>5 DEF Next

LEMMA Invariance == Spec => []IInv
  BY InitIInv, NextIInv, PTL DEF Spec

(***************************************************************************)
(* Between chunks the output is the expected tokens of the chunks emitted   *)
(* so far, in order, for every table, vocabulary, lookup, mode and text:    *)
(* whichever engines ran before on the same Scratch and with whatever they  *)
(* left in it.                                                             *)
(***************************************************************************)
THEOREM OutputStaysCanonical == Spec => []OutputIsCanonical
<1>1. IInv => OutputIsCanonical
  BY CoreIsEnough DEF IInv
<1> QED BY <1>1, Invariance, PTL

-----------------------------------------------------------------------------
(* The invariant of encode and encode_with_offsets together.               *)
IInvBoth == IInv /\ OffsetFollows /\ SpansFollow

LEMMA InitBoth == BothInit => IInvBoth
BY InitIInv, InitFollows, SpansInit DEF BothInit, IInvBoth, IInv

(* What a step of the two is.                                              *)
LEMMA BothSteps ==
  ASSUME IInvBoth, [BothNext]_bothVars
  PROVE  /\ IInv' /\ IInv /\ Core /\ OffsetFollows /\ SpansFollow
         /\ \/ Finished /\ Offset!Next /\ UNCHANGED vars
            \/ /\ UNCHANGED <<model, text, offsetVars>>
               /\ offsetEngine # "idle" => Finished'
<1>1. IInv /\ Core /\ OffsetFollows /\ SpansFollow
  BY DEF IInvBoth, IInv
<1>2. [Next]_vars
  BY DEF BothNext, bothVars
<1>3. IInv'
  BY <1>1, <1>2, NextIInv
<1>4. CASE Next /\ UNCHANGED offsetVars
  <2>1. UNCHANGED <<model, text>>
    BY <1>2 DEF Next, EmitWhole, EmitNothing, StartStream, StartBatch, StartCanonical, Take,
       RunStream, RunBatch, RunSmall, RunHeap, Running, vars
  <2>2. offsetEngine = "idle"
    BY <1>1, <1>4, FinishedRests DEF OffsetFollows
  <2> QED BY <1>1, <1>3, <1>4, <2>1, <2>2
<1>5. CASE Finished /\ Offset!Next /\ UNCHANGED vars
  BY <1>1, <1>3, <1>5
<1>6. CASE UNCHANGED bothVars
  <2>1. UNCHANGED <<model, text>> /\ (Finished' <=> Finished)
    BY <1>6, OffsetApart DEF bothVars
  <2> QED BY <1>1, <1>3, <1>6, <2>1 DEF bothVars, OffsetFollows
<1> QED BY <1>4, <1>5, <1>6 DEF BothNext

LEMMA NextBoth == IInvBoth /\ [BothNext]_bothVars => IInvBoth'
<1> SUFFICES ASSUME IInvBoth, [BothNext]_bothVars PROVE IInvBoth'
  OBVIOUS
<1>1. IInv' /\ Core /\ OffsetFollows /\ SpansFollow
  BY BothSteps
<1>2. CASE Finished /\ Offset!Next /\ UNCHANGED vars
  BY <1>1, <1>2, OffsetKeeps, SpansKeep DEF IInvBoth
<1>3. CASE UNCHANGED <<model, text, offsetVars>> /\ (offsetEngine # "idle" => Finished')
  <2>1. /\ UNCHANGED <<model, text>> /\ chunkNext' = chunkNext /\ ids' = ids /\ toks' = toks
        /\ spans' = spans /\ sp' = sp /\ offsetEngine' = offsetEngine
    BY <1>3 DEF offsetVars
  <2> QED BY <1>1, <1>3, <2>1, StaysPut, SpansStay DEF IInvBoth
<1> QED BY <1>2, <1>3, BothSteps

LEMMA BothInvariance == BothSpec => []IInvBoth
  BY InitBoth, NextBoth, PTL DEF BothSpec

(***************************************************************************)
(* "encode_with_offsets's ids matching encode_ordinary": for every table,   *)
(* vocabulary, lookup, mode and text, whichever engines encode used.        *)
(***************************************************************************)
THEOREM OffsetsGiveTheSameIds == BothSpec => []IdsMatchEncode
<1>1. IInvBoth => IdsMatchEncode
  <2>1. SUFFICES ASSUME IInvBoth, offsetEngine = "done" PROVE Finished /\ ids = out
    BY DEF IdsMatchEncode
  <2>2. Core /\ Finished /\ ids = Due(chunkNext - 1) /\ chunkNext = Len(text) + 1
    BY <2>1 DEF IInvBoth, OffsetFollows, IInv
  <2>3. out = Due(Done) /\ pending = <<>> /\ Len(text) \in Nat
    BY <2>2, LenProperties DEF Core, Kept, Finished
  <2>4. Done = Len(text) /\ chunkNext - 1 = Len(text)
    BY <2>2, <2>3 DEF Done
  <2> QED BY <2>2, <2>3, <2>4
<1> QED BY <1>1, BothInvariance, PTL

(***************************************************************************)
(* The ranges are non-empty, follow each other in the text and leave out no *)
(* byte but those without a token: for every text of chunks that have       *)
(* bytes, and however the passes merged them.                              *)
(***************************************************************************)
THEOREM OffsetsTileText == BothSpec => []SpansTileText
<1>1. IInvBoth => SpansTileText
  <2>1. CASE offsetEngine # "done"
    BY <2>1 DEF SpansTileText, Offset!SpansTileText
  <2>2. ASSUME IInvBoth, offsetEngine = "done" PROVE SpansTileText
    <3>1. Core /\ chunkNext = Len(text) + 1 /\ Fills(0, spans, Offset!StartOf(chunkNext))
      BY <2>2 DEF IInvBoth, IInv, OffsetFollows, SpansFollow
    <3>2. Offset!StartOf(Len(text) + 1) = Len(Offset!Bytes)
      BY <3>1, FirstPlace DEF Core, Kept
    <3> QED BY <3>1, <3>2, FilledIsTiled
  <2> QED BY <2>1, <2>2
<1> QED BY <1>1, BothInvariance, PTL

(***************************************************************************)
(* Where tokens are strings: every token has a range, and the range holds   *)
(* what the token says, with the unknown bytes it was merged across.        *)
(***************************************************************************)
THEOREM OffsetsHoldTokens ==
  ASSUME NEW Char, SpelledOut(Char)
  PROVE  BothSpec => []SpansHoldTokens
<1>1. BothInit => IInvBoth /\ TextFollows
  BY InitBoth, TextInit
<1>2. IInvBoth /\ TextFollows /\ [BothNext]_bothVars => (IInvBoth /\ TextFollows)'
  <2> SUFFICES ASSUME IInvBoth, TextFollows, [BothNext]_bothVars PROVE (IInvBoth /\ TextFollows)'
    OBVIOUS
  <2>1. IInvBoth' /\ Core /\ OffsetFollows /\ SpansFollow
    BY BothSteps, NextBoth
  <2>2. CASE Finished /\ Offset!Next /\ UNCHANGED vars
    BY <2>1, <2>2, TextKeeps
  <2>3. CASE UNCHANGED <<model, text, offsetVars>>
    <3>1. text' = text /\ UNCHANGED <<ids, spans, toks, sp>> /\ offsetEngine' = offsetEngine
      BY <2>3 DEF offsetVars
    <3> QED BY <2>1, <3>1, TextStays
  <2> QED BY <2>2, <2>3, BothSteps
<1>3. TextFollows => SpansHoldTokens
  <2>1. SUFFICES ASSUME TextFollows
                 PROVE  /\ Len(spans) = Len(ids)
                        /\ \A k \in DOMAIN ids : ids[k] = Said(spans[k][1], spans[k][2])
    BY DEF SpansHoldTokens
  <2>2. /\ ids \in Seq(Token) /\ Len(spans) = Len(ids)
        /\ \A k \in 1 .. Len(ids) : <<ids[k], spans[k]>> \in Held
    BY <2>1 DEF TextFollows, Matched
  <2>3. DOMAIN ids = 1 .. Len(ids)
    BY <2>2, LenProperties
  <2>4. ASSUME NEW k \in 1 .. Len(ids) PROVE ids[k] = Said(spans[k][1], spans[k][2])
    <3>1. PICK t, p : t = ids[k] /\ p = spans[k]
      OBVIOUS
    <3>2. <<t, p>> \in Held
      BY <2>2, <3>1
    <3>3. t = Said(p[1], p[2])
      BY ONLY <3>2 DEF Held
    <3> QED BY <3>1, <3>3
  <2> QED BY <2>2, <2>3, <2>4
<1> QED BY <1>1, <1>2, <1>3, PTL DEF BothSpec
=============================================================================
