----------------------------- MODULE MCChunking ------------------------------
EXTENDS Chunking, FiniteSets

CONSTANTS
    MaxText,        \* longest text for a machine alone
    MaxPipeText,    \* longest text for a pipeline of several stages
    MaxMetaText,    \* longest text of a metaspace model
    Models          \* the families of configurations to run

Config(bf, normalizer, sequence, stages) ==
    [byteFallback |-> bf, normalizer |-> normalizer, sequence |-> sequence, stages |-> stages]

Pipeline(stages) == Config(FALSE, {}, TRUE, stages)
Fallback(stages) == Config(TRUE, {}, TRUE, stages)

SplitOnly(pattern) == Pipeline(<<Isolated(pattern), ByteLevel(FALSE)>>)

(* The configurations of published models, a machine each.                 *)
Machines ==
    [word    |-> {Config(FALSE, {}, FALSE, <<ByteLevel(TRUE)>>),
                  Pipeline(<<Digits(TRUE), ByteLevel(TRUE)>>)},
     generic |-> {SplitOnly("cl100k"), SplitOnly("qwen")},
     camel   |-> {SplitOnly("o200k"), SplitOnly("plain")},
     cjk     |-> {Pipeline(<<Isolated("digits"), Isolated("cjk"), Isolated("main"), ByteLevel(FALSE)>>)}]

(* Per machine, representatives of the characters its grammar tells apart. *)
Alphabets ==
    [word    |-> {"'", "s", "l", "m", "1", " ", "n"},
     generic |-> {"'", "L", "l", "m", "1", " ", "n"},
     camel   |-> {"'", "S", "s", "o", "1", " ", "/", "n"},
     cjk     |-> {"#", "s", "k", "m", "1", "n", " ", "z"}]

TextsUpTo(alphabet, n) == UNION {[1 .. k -> alphabet] : k \in 0 .. n}

MachineInputs(m) == Machines[m] \X TextsUpTo(Alphabets[m], MaxText)

(* Any pipeline of one or two cutting stages and at most one ByteLevel      *)
(* anywhere among them, with or without a stage that no machine knows.      *)
CuttingStages ==
    {Isolated(p) : p \in {"gpt2", "cl100k", "plain", "kimi", "digits", "anchored"}} \cup
    {Digits(TRUE), Digits(FALSE)}

Stagings ==
    LET cutting == {s \in UNION {[1 .. k -> CuttingStages] : k \in 1 .. 2} : Len(s) = 2 => s[1] # s[2]}
        byteLevels == {ByteLevel(TRUE), ByteLevel(FALSE)}
    IN  cutting \cup
        UNION {{InsertAt(s, i, b) : i \in 1 .. Len(s) + 1, b \in byteLevels} : s \in cutting} \cup
        {<<Stage("Punctuation"), Digits(TRUE), ByteLevel(TRUE)>>, <<ByteLevel(FALSE)>>}

(* Any behavior of one Split, also by a string, alone or beside another      *)
(* stage, before a ByteLevel.                                               *)
BehavingSplits ==
    {Split(p, b, inv) : p \in {"gpt2", "cl100k", "plain", "digits", "blank"},
                        b \in Behaviors, inv \in BOOLEAN}

BehavingStagings ==
    LET beside(s) == {<<s>>} \cup UNION {{<<s, d>>, <<d, s>>} : d \in {Digits(TRUE), Isolated("digits")}}
    IN  {Append(stages, b) : stages \in UNION {beside(s) : s \in BehavingSplits},
                             b \in {ByteLevel(TRUE), ByteLevel(FALSE)}}

Pipelines == {Pipeline(s) : s \in Stagings \cup BehavingStagings}

FallbackModels ==
    {Fallback(s) : s \in {<<Digits(TRUE), ByteLevel(FALSE)>>, <<Isolated("digits"), ByteLevel(FALSE)>>,
                          <<Stage("Punctuation")>>}} \cup {Config(TRUE, {}, FALSE, <<>>)}

PipelineTexts ==
    TextsUpTo({"s", "k", "1", " "}, MaxPipeText) \cup TextsUpTo({"s", "/", " "}, MaxPipeText - 2)

PipelineInputs == (Pipelines \cup FallbackModels) \X PipelineTexts

(* Metaspace models, whose texts are UTF-8 bytes.                          *)
MetaModels ==
    {Config(TRUE, {"Replace"}, FALSE, <<>>), Config(FALSE, {"Replace"}, FALSE, <<ByteLevel(TRUE)>>),
     Config(TRUE, {}, FALSE, <<Stage("Metaspace")>>)}

Ms == <<"E2", "96", "81">>
Utf8 == { <<"61">>, Ms, <<"E2", "96", "82">>, <<"C3", "A9">>, <<"F0", "9F", "98", "80">> }

MetaInputs == MetaModels \X {FlattenSeq(w) : w \in TextsUpTo(Utf8, MaxMetaText)}

MCInputs ==
    UNION {MachineInputs(m) : m \in Models \cap DOMAIN Machines} \cup
    (IF "pipelines" \in Models THEN PipelineInputs ELSE {}) \cup
    (IF "metaspace" \in Models THEN MetaInputs ELSE {})

-----------------------------------------------------------------------------
(* Each gap that CutsAsDeclared exempts is one: a configuration in which it   *)
(* is the only one, and a text that the loaded model cuts otherwise than is  *)
(* declared.                                                                *)
RECURSIVE ChunksFrom(_, _, _)
ChunksFrom(k, t, p) ==
    IF p > Len(t) THEN <<>>
    ELSE LET e == NextChunkEnd(k, t, p) IN << <<p, e>> >> \o ChunksFrom(k, t, e)

CutsOf(k, t) ==
    IF k.machine = "regex" THEN Regex!Cuts([i \in DOMAIN k.patterns |-> Isolated(k.patterns[i])], t)
    ELSE ChunksFrom(k, t, 1)

GapWitness ==
    [DigitsMisread    |-> <<Pipeline(<<Isolated("cl100k"), Digits(TRUE), ByteLevel(FALSE)>>), <<"1", "1">> >>,
     StringIgnored    |-> <<Pipeline(<<Digits(TRUE), Split("blank", "Isolated", FALSE), ByteLevel(TRUE)>>), <<" ", "s">> >>,
     BehaviorIgnored  |-> <<Pipeline(<<Split("cl100k", "Contiguous", FALSE), ByteLevel(FALSE)>>), <<"s", "1">> >>,
     ExtraAlternative |-> <<SplitOnly("kimi"), <<"k", "s">> >>,
     RegexUnseen      |-> <<Pipeline(<<ByteLevel(TRUE), Isolated("digits")>>), <<"s", "/">> >>]

ASSUME EveryGapMiscuts ==
    \A gap \in DOMAIN GapWitness :
        LET c == GapWitness[gap][1]
            t == GapWitness[gap][2]
            k == Chunker(c)
        IN  /\ k # Refused
            /\ \A g \in DOMAIN Gaps(c, k) : Gaps(c, k)[g] <=> g = gap
            /\ CutsOf(k, t) # Regex!Cuts(Declared(c), t)

-----------------------------------------------------------------------------
(* The merges of a metaspace model: tokens are strings of bytes in which    *)
(* U+2581 comes first, alone or in a run.                                   *)
A == <<"61">>
MsTokens == {Ms, A, Ms \o Ms, Ms \o A, A \o A, Ms \o Ms \o A, Ms \o A \o A}
MsMerges == {m \in {<<x, y, x \o y>> : x, y \in MsTokens} : m[3] \in MsTokens}
MsTables == UNION {[1 .. k -> MsMerges] : k \in 0 .. 2}

Bpe == INSTANCE MergeTable WITH Token <- MsTokens \cup Utf8, NoRank <- 9

CharAt(b, p) == SubSeq(b, p, p + Width(b[p]) - 1)

RECURSIVE CharsOf(_)
CharsOf(b) ==
    IF b = <<>> THEN <<>>
    ELSE <<CharAt(b, 1)>> \o CharsOf(SubSeq(b, Width(b[1]) + 1, Len(b)))

Merged(m, ranges) ==
    FlattenSeq([i \in DOMAIN ranges |->
        Bpe!Canonical(m, CharsOf(SubSeq(text, ranges[i][1], ranges[i][2] - 1)))])

(* Where a Metaspace pre-tokenizer cuts: before every U+2581.               *)
BeforeEveryMs ==
    LET starts == SetToSortSeq({p \in DOMAIN text : p = 1 \/ IsMs(text, p)}, LAMBDA p, q : p < q)
    IN  [i \in DOMAIN starts |->
            <<starts[i], IF i < Len(starts) THEN starts[i + 1] ELSE Len(text) + 1>>]

(* Cutting at the runs of U+2581 does not change a token: the merges of a   *)
(* model whose normalizer replaces the spaces act as on the whole text, and *)
(* those of one with a Metaspace pre-tokenizer as on its pieces, provided   *)
(* that no merge joins two U+2581.                                          *)
RunsUnmerged(m) == \A i \in DOMAIN m : ~IsPrefix(Ms \o Ms, m[i][3])

MetaspaceKeepsMerges ==
    Done /\ kind = [machine |-> "meta"] =>
        \A m \in MsTables :
            IF MetaMode(config) = 3
            THEN RunsUnmerged(m) => Merged(m, pieces) = Merged(m, BeforeEveryMs)
            ELSE Merged(m, pieces) = Bpe!Canonical(m, CharsOf(text))
=============================================================================
