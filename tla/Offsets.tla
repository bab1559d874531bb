------------------------------ MODULE Offsets -------------------------------
(***************************************************************************)
(* encode_with_offsets: like Encoder, but every token carries the byte      *)
(* range <<start, end>> of the text it came from.  Each chunk goes through  *)
(* merge_with_spans, a batch engine without cached ranks: it computes all   *)
(* pair ranks anew in every pass and never bails, so a table on which the   *)
(* batch result is not canonical is refused up front.                       *)
(***************************************************************************)
EXTENDS MergeTable, SequencesExt

CONSTANTS
    Tables,
    Initial,    \* byte -> its token as a sequence, empty if it has none
    Lookups,    \* possible ignore_lookup maps, chunk -> token
    Texts       \* sequences of chunks

VARIABLES
    merges, byteFallback, lookup,   \* the tokenizer
    altered,    \* whether its normalizer would change the text
    text,       \* the chunks of the text
    next,       \* the chunk to emit next, from 1
    engine,     \* "idle", "spans" inside merge_with_spans, "refused", "done"
    toks, sp,   \* the chunk's tokens and their spans
    ids, spans  \* the result so far

model == <<merges, byteFallback, lookup, altered, text>>
vars == <<model, next, engine, toks, sp, ids, spans>>

Init ==
    /\ merges \in Tables /\ byteFallback \in BOOLEAN /\ lookup \in Lookups
    /\ altered \in BOOLEAN
    /\ text \in Texts /\ next = 1
    /\ engine = "idle"
    /\ toks = <<>> /\ sp = <<>> /\ ids = <<>> /\ spans = <<>>

SupportedAnyTable == ~byteFallback /\ ~altered \* mutant: the check of monotonic dropped

(* The errors raised before anything is encoded.                           *)
Supported == ~byteFallback /\ ~altered /\ Monotonic(merges)

Refuse ==
    /\ engine = "idle"
    /\ ~Supported
    /\ engine' = "refused"
    /\ UNCHANGED <<model, next, toks, sp, ids, spans>>

(* Where chunk k starts in the text: `cs`.                                 *)
StartOf(k) == Len(FlattenSeq(SubSeq(text, 1, k - 1)))

EmitWhole ==
    /\ engine = "idle" /\ Supported /\ next <= Len(text)
    /\ text[next] \in DOMAIN lookup
    /\ ids' = Append(ids, lookup[text[next]])
    /\ spans' = Append(spans, <<StartOf(next), StartOf(next) + Len(text[next])>>)
    /\ next' = next + 1
    /\ UNCHANGED <<model, engine, toks, sp>>

(* The tokens of a chunk's bytes; a byte without a token leaves a gap.      *)
Singles(chunk) == FlattenSeq([j \in DOMAIN chunk |-> Initial[chunk[j]]])

(* Mutant: the tokens are counted, not the bytes.                          *)
SpansOfTokens(chunk) ==
    [k \in DOMAIN Singles(chunk) |-> <<StartOf(next) + k - 1, StartOf(next) + k>>]

(* The range of a byte, for each token it has.                             *)
SpansOf(chunk) ==
    FlattenSeq([j \in DOMAIN chunk |->
        [k \in DOMAIN Initial[chunk[j]] |-> <<StartOf(next) + j - 1, StartOf(next) + j>>]])

StartChunk ==
    /\ engine = "idle" /\ Supported /\ next <= Len(text)
    /\ text[next] \notin DOMAIN lookup
    /\ toks' = Singles(text[next])
    /\ sp' = SpansOf(text[next])
    /\ engine' = "spans"
    /\ UNCHANGED <<model, next, ids, spans>>

(* `pairs` and `best`: every pass looks all adjacent pairs up.              *)
Pairs == [i \in 1 .. Len(toks) - 1 |-> RankAt(merges, toks, i)]
Best == Min({NoRank} \cup ToSet(Pairs))

Hit(i) == i \in DOMAIN Pairs /\ Pairs[i] = Best

StepOf(i) == IF Hit(i) THEN 2 ELSE 1

(* Read[k] is where `i` stands when the k-th token is written, which ends   *)
(* with the word; a token is written from there or from the pair there.     *)
Read[k \in 1 .. Len(toks)] == IF k = 1 THEN 1 ELSE Read[k - 1] + StepOf(Read[k - 1])

Starts == [k \in {j \in 1 .. Len(toks) : Read[j] <= Len(toks)} |-> Read[k]]

TokensMerged(start) ==
    [k \in DOMAIN start |->
        LET i == start[k] IN
        IF Hit(i) THEN Target(merges, toks[i], toks[i + 1]) ELSE toks[i]]

(* Mutant: a merged span ends where its left token ended.                  *)
SpansLeft(start) == [k \in DOMAIN start |-> sp[start[k]]]

SpansMerged(start) ==
    [k \in DOMAIN start |->
        LET i == start[k] IN
        IF Hit(i) THEN <<sp[i][1], sp[i + 1][2]>> ELSE sp[i]]

Pass ==
    /\ engine = "spans"
    /\ Best # NoRank
    /\ \E start \in {Starts} :
          /\ toks' = TokensMerged(start)
          /\ sp' = SpansMerged(start)
    /\ UNCHANGED <<model, next, engine, ids, spans>>

EndChunk ==
    /\ engine = "spans"
    /\ Best = NoRank
    /\ ids' = ids \o toks
    /\ spans' = spans \o sp
    /\ next' = next + 1
    /\ engine' = "idle"
    /\ UNCHANGED <<model, toks, sp>>

Return ==
    /\ engine = "idle" /\ Supported /\ next > Len(text)
    /\ engine' = "done"
    /\ UNCHANGED <<model, next, toks, sp, ids, spans>>

Next == Refuse \/ EmitWhole \/ StartChunk \/ Pass \/ EndChunk \/ Return

Spec == Init /\ [][Next]_vars /\ WF_vars(Next)

-----------------------------------------------------------------------------
(* "each output token keeps the byte range it came from": the ranges are    *)
(* non-empty, follow each other in the text without overlap, and only skip  *)
(* bytes that have no token.                                                *)
Bytes == FlattenSeq(text)
Unknown(from, to) == \A b \in from + 1 .. to : Initial[Bytes[b]] = <<>>

SpansTileText ==
    engine = "done" =>
        /\ \A k \in DOMAIN spans : spans[k][1] < spans[k][2]
        /\ \A k \in 1 .. Len(spans) - 1 :
              /\ spans[k][2] <= spans[k + 1][1]
              /\ Unknown(spans[k][2], spans[k + 1][1])
        /\ spans # <<>> => /\ Unknown(0, spans[1][1])
                           /\ Unknown(Last(spans)[2], Len(Bytes))
=============================================================================
