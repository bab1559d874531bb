------------------------------ MODULE Encoder -------------------------------
(***************************************************************************)
(* One text through one Scratch: process_chunk / process_chunk_bf turn each *)
(* pre-token chunk into initial tokens, finish_chunk routes it to one of    *)
(* the engines, and the engines share and reuse the buffers of the Scratch. *)
(* Composes BatchMerge, StreamMerge, SmallMerge and HeapMerge.              *)
(*                                                                         *)
(* A chunk is a sequence of characters.  How the text is cut into chunks    *)
(* does not matter here: any sequence of chunks is a text.                  *)
(***************************************************************************)
EXTENDS MergeTable, SequencesExt

CONSTANTS
    Tables,
    Chars,
    Initial,            \* char -> its tokens: one, none (a byte that the
                        \*   vocabulary lacks), or those of its bytes
    Lookups,            \* possible ignore_lookup maps, chunk -> token
    Texts,              \* sequences of chunks
    StreamThreshold,    \* STREAM_THRESHOLD, 256 in the code
    SmallCanon          \* SMALL_CANON, 256 in the code

ASSUME TablesAssumption == \A m \in Tables : IsTable(m)
ASSUME InitialAssumption == Initial \in [Chars -> Seq(Token)]
ASSUME LookupsAssumption == \A l \in Lookups : \A c \in DOMAIN l : l[c] \in Token
ASSUME TextsAssumption == Texts \subseteq Seq(Seq(Chars))

VARIABLES
    merges,         \* Tokenizer: map and stream, built from one table
    byteFallback,   \* Tokenizer.byte_fallback
    lookup,         \* Tokenizer.ignore_lookup, empty when there is none
    mode,           \* the Merge argument: "Auto", "Stream" or "Scan"
    text,           \* history: the chunks of the text
    pending,        \* those not yet emitted
    engine,         \* the engine at work, or "idle"
    tokens,         \* Scratch.chunk
    out,            \* Scratch.out
    ranks, min, ok,                 \* scratch and locals of the batch engine
    at, state, todo,                \* of the streaming engine
    canonRanks,                     \* CanonScratch.ranks
    prev, next, alive, heap,        \* CanonScratch: list and heap
    given, mark                     \* history: what the engine was started on

model == <<merges, byteFallback, lookup, mode>>
batchVars == <<ranks, min, ok, given>>
streamVars == <<at, state, todo, mark>>
heapVars == <<prev, next, alive, heap>>
vars == <<model, text, pending, engine, tokens, out,
          batchVars, streamVars, canonRanks, heapVars>>

NoChunks == {<<>>}  \* the engines are started by finish_chunk, not by these

Batch  == INSTANCE BatchMerge WITH Chunks <- NoChunks, chunk <- given
Stream == INSTANCE StreamMerge WITH Chunks <- NoChunks, MaxOut <- 0, chunk <- tokens
Small  == INSTANCE SmallMerge WITH Chunks <- NoChunks, ranks <- canonRanks
Heap   == INSTANCE HeapMerge WITH Chunks <- NoChunks

EmptyScratch ==
    /\ engine = "idle" /\ tokens = <<>> /\ out = <<>>
    /\ ranks = <<>> /\ min = NoRank /\ ok = TRUE /\ given = <<>>
    /\ at = 1 /\ state = <<>> /\ todo = <<>> /\ mark = 0
    /\ canonRanks = <<>>
    /\ prev = <<>> /\ next = <<>> /\ alive = <<>> /\ heap = Heap!EmptyBag

Init ==
    /\ merges \in Tables
    /\ byteFallback \in BOOLEAN
    /\ lookup \in Lookups
    /\ mode \in {"Auto", "Stream", "Scan"}
    /\ text \in Texts /\ pending = text
    /\ EmptyScratch

-----------------------------------------------------------------------------
Initials(c) == FlattenSeq([i \in DOMAIN c |-> Initial[c[i]]])

(* Only the byte-level path consults ignore_lookup.                        *)
IsWhole(c) == ~byteFallback /\ c \in DOMAIN lookup

(* Mutant: the guard on self.monotonic dropped.                            *)
StreamAnyTable(w) ==
    /\ ~byteFallback
    /\ \/ mode = "Stream"
       \/ mode = "Auto" /\ Len(w) > StreamThreshold

UseStream(w) ==
    /\ ~byteFallback
    /\ Monotonic(merges)
    /\ \/ mode = "Stream"
       \/ mode = "Auto" /\ Len(w) > StreamThreshold

UseBatch(w) == ~UseStream(w) /\ Monotonic(merges)

UseCanonical(w) == ~UseStream(w) /\ ~Monotonic(merges)

(* s.out.extend_from_slice(&s.chunk), when the engine is through.          *)
ExtendOut == out' = IF engine' = "idle" THEN out \o tokens' ELSE out

(* The next chunk, which no entry of ignore_lookup stands for.             *)
Take ==
    /\ engine = "idle" /\ pending # <<>>
    /\ ~IsWhole(Head(pending))
    /\ pending' = Tail(pending)
    /\ UNCHANGED <<model, text>>

(* The whole chunk is one token of the vocabulary (ignore_merges).         *)
EmitWhole ==
    /\ engine = "idle" /\ pending # <<>>
    /\ IsWhole(Head(pending))
    /\ out' = Append(out, lookup[Head(pending)])
    /\ pending' = Tail(pending)
    /\ UNCHANGED <<model, text, engine, tokens,
                   batchVars, streamVars, canonRanks, heapVars>>

(* Mutant: the chunk iterator is not advanced past an empty chunk.         *)
EmitNothingAgain ==
    /\ engine = "idle" /\ pending # <<>>
    /\ ~IsWhole(Head(pending))
    /\ Initials(Head(pending)) = <<>>
    /\ tokens' = <<>>
    /\ UNCHANGED <<model, text, pending, engine, out, batchVars, streamVars, canonRanks, heapVars>>

(* No character of the chunk has a token: finish_chunk returns at once.    *)
EmitNothing ==
    /\ Take
    /\ Initials(Head(pending)) = <<>>
    /\ tokens' = <<>>
    /\ UNCHANGED <<engine, out, batchVars, streamVars, canonRanks, heapVars>>

StartStream ==
    /\ Take
    /\ \E w \in {Initials(Head(pending))} :
          /\ w # <<>> /\ UseStream(w)
          /\ Stream!Begin(w)
    /\ UNCHANGED <<batchVars, canonRanks, heapVars>>

StartBatch ==
    /\ Take
    /\ \E w \in {Initials(Head(pending))} :
          /\ w # <<>> /\ UseBatch(w)
          /\ Batch!Trivial(w) \/ Batch!Begin(w)
    /\ ExtendOut
    /\ UNCHANGED <<streamVars, canonRanks, heapVars>>

StartCanonical ==
    /\ Take
    /\ \E w \in {Initials(Head(pending))} :
          /\ w # <<>> /\ UseCanonical(w)
          /\ \/ (Small!Trivial(w) \/ Small!Begin(w)) /\ UNCHANGED heapVars
             \/ Heap!Begin(w) /\ UNCHANGED canonRanks
    /\ ExtendOut
    /\ UNCHANGED <<batchVars, streamVars>>

Running == UNCHANGED <<model, text, pending>>

RunStream == Stream!Step /\ Running /\ UNCHANGED <<batchVars, canonRanks, heapVars>>

RunBatch == Batch!Step /\ ExtendOut /\ Running /\ UNCHANGED <<streamVars, canonRanks, heapVars>>

RunSmall == Small!Step /\ ExtendOut /\ Running /\ UNCHANGED <<batchVars, streamVars, heapVars>>

RunHeap == Heap!Step /\ ExtendOut /\ Running /\ UNCHANGED <<batchVars, streamVars, canonRanks>>

Finished == engine = "idle" /\ pending = <<>>

Next ==
    \/ EmitWhole \/ EmitNothing
    \/ StartStream \/ StartBatch \/ StartCanonical
    \/ RunStream \/ RunBatch \/ RunSmall \/ RunHeap

Spec == Init /\ [][Next]_vars /\ WF_vars(Next)

-----------------------------------------------------------------------------
(* The tokens of a chunk: itself if it is in the lookup, else canonical BPE *)
(* of its initial tokens, whatever engine computes it.                      *)
Expected(c) == IF IsWhole(c) THEN <<lookup[c]>> ELSE Canonical(merges, Initials(c))

Emitted == SubSeq(text, 1, Len(text) - Len(pending))

(* Between chunks the output is the expected tokens of the chunks emitted   *)
(* so far, in order: whichever engines ran before on the same scratch, and  *)
(* with whatever they left in it.                                           *)
OutputIsCanonical ==
    engine = "idle" => out = FlattenSeq([i \in DOMAIN Emitted |-> Expected(Emitted[i])])
=============================================================================
