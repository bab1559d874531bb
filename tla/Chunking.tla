------------------------------ MODULE Chunking -------------------------------
(***************************************************************************)
(* How a text is cut into the chunks that Encoder merges, from the          *)
(* pre_tokenizer the model declares to the ranges: the loader picks a        *)
(* machine (module Detect), which cuts the text chunk by chunk              *)
(* (encode_bytes, encode_meta) or stage by stage (cjk::chunk_ranges,        *)
(* regex_chunk_ranges).                                                     *)
(***************************************************************************)
EXTENDS Pretok, Detect

CONSTANTS
    Inputs,     \* pairs <<config, text>>
    MaxPatience \* bound: a regex that fails does so within so many matches

Regex == INSTANCE SplitRegex

VARIABLES
    config,     \* the tokenizer.json
    kind,       \* how the loaded model cuts: Chunker(config)
    text,
    pos,        \* where the next chunk starts
    stage,      \* the stage to apply next
    pieces,     \* the chunks so far, as pairs <<start, end>>
    gaveUp      \* history: whether the regex engine has failed on a piece

vars == <<config, kind, text, pos, stage, pieces, gaveUp>>

Stages == CASE kind.machine = "cjk" -> 3
            [] kind.machine = "regex" -> Len(kind.patterns)
            [] OTHER -> 0

Whole(t) == IF t = <<>> THEN <<>> ELSE << <<1, Len(t) + 1>> >>

Init ==
    /\ \E input \in Inputs : config = input[1] /\ text = input[2]
    /\ kind = Chunker(config)
    /\ pos = 1
    /\ stage = 1
    /\ pieces = IF Stages > 0 THEN Whole(text) ELSE <<>>
    /\ gaveUp = FALSE

(* One round of encode_bytes or encode_meta.                               *)
NextChunk ==
    /\ Stages = 0 /\ kind # Refused
    /\ pos <= Len(text)
    /\ pos' = NextChunkEnd(kind, text, pos)
    /\ pieces' = Append(pieces, <<pos, pos'>>)
    /\ UNCHANGED <<config, kind, text, stage, gaveUp>>

(* One round of chunk_ranges.                                              *)
NextStage ==
    /\ kind.machine = "cjk"
    /\ stage <= Stages
    /\ pieces' = ApplyStage(stage, text, pieces)
    /\ stage' = stage + 1
    /\ UNCHANGED <<config, kind, text, pos, gaveUp>>

(* One round of regex_chunk_ranges.  The engine may fail on a piece after   *)
(* some matches ("backtracking blow-up: stop refining").                    *)
Patience(failing, i, matches) == IF i = failing THEN matches ELSE Len(text) + 1

NextRegexStage ==
    /\ kind.machine = "regex"
    /\ stage <= Stages
    /\ \E failing \in 0 .. Len(pieces), matches \in 0 .. MaxPatience :
          /\ failing = 0 => matches = 0
          /\ pieces' = FlattenSeq([i \in DOMAIN pieces |->
                Regex!Pieces(Isolated(kind.patterns[stage]), text, pieces[i], Patience(failing, i, matches))])
          /\ gaveUp' = (gaveUp \/ failing # 0)
    /\ stage' = stage + 1
    /\ UNCHANGED <<config, kind, text, pos>>

Done == IF Stages > 0 THEN stage > Stages ELSE pos > Len(text) \/ kind = Refused

Next == NextChunk \/ NextStage \/ NextRegexStage

Spec == Init /\ [][Next]_vars

-----------------------------------------------------------------------------
(* What a configuration declares, stage by stage in its own order, as the    *)
(* Splits it amounts to.  A ByteLevel with use_regex is the GPT-2 pattern;    *)
(* without it, it does not cut.                                             *)
Declared(c) ==
    LET cutting == SelectSeq(c.stages, LAMBDA s : s.type = "ByteLevel" => s.regex)
    IN  [i \in DOMAIN cutting |->
            CASE cutting[i].type = "ByteLevel" -> Isolated("gpt2")
              [] cutting[i].type = "Split" -> cutting[i]
              [] cutting[i].type = "Digits" -> Isolated(IF cutting[i].individual THEN "digit" ELSE "number")]

CutAsDeclared == pieces = Regex!Cuts(Declared(config), text)

(* What the loader accepts although the machine or the regexes it picks, k,  *)
(* do not reproduce the configuration c:                                    *)
(*   a Digits stage is looked at by the word machine only, which takes it    *)
(*   to be individual_digits and to come first;                             *)
(*   a Split whose pattern is a string is taken for none, once Digits and a   *)
(*   ByteLevel make the word grammar;                                       *)
(*   a Split may drop or join its matches, unless it is left to the regexes *)
(*   (merging them with the gaps changes nothing: these patterns leave none); *)
(*   a pattern may have an alternative that the loader does not look for;    *)
(*   a ByteLevel before all other stages is not seen to split.              *)
At(c, type) == {i \in DOMAIN c.stages : c.stages[i].type = type}

DigitsMisread(c, k) ==
    \E d \in At(c, "Digits") :
        \/ k.machine \in {"generic", "camel"}
        \/ /\ k.machine = "word"
           /\ \/ ~c.stages[d].individual
              \/ \E i \in At(c, "Split") \cup At(c, "ByteLevel") : i < d

StringIgnored(c, k) ==
    k.machine = "word" /\ \E i \in At(c, "Split") : c.stages[i].pattern \in Strings

BehaviorIgnored(c, k) ==
    /\ k.machine \in {"word", "generic", "camel"}
    /\ \E i \in At(c, "Split") :
          \/ c.stages[i].behavior = "Removed" /\ ~c.stages[i].invert
          \/ c.stages[i].behavior = "Contiguous"

ExtraAlternative(c, k) ==
    k.machine = "camel" /\ \E i \in At(c, "Split") : c.stages[i].pattern = "kimi"

RegexUnseen(c, k) ==
    k.machine = "regex" /\ \E i \in At(c, "ByteLevel") : c.stages[i].regex

Gaps(c, k) ==
    [DigitsMisread    |-> DigitsMisread(c, k),
     StringIgnored    |-> StringIgnored(c, k),
     BehaviorIgnored  |-> BehaviorIgnored(c, k),
     ExtraAlternative |-> ExtraAlternative(c, k),
     RegexUnseen      |-> RegexUnseen(c, k)]

KnownGap == TRUE \in Range(Gaps(config, kind))

(* The camel-case machine takes upper-like letters as far as they go and    *)
(* never goes back; its pattern does when no lower-case letter follows.     *)
CaselessLast ==
    ~\E i \in 1 .. Len(text) - 1 : text[i] \in Caseless \cup Mark /\ text[i + 1] \in Upper

(* "Anything tuetoken can't reproduce exactly fails closed": a text is cut   *)
(* as the model declares, whichever machine or fallback was picked for it,  *)
(* except for the gaps above, for a regex that gives up half way, and for   *)
(* the camel-case machine where a letter without case precedes a capital.   *)
CutsAsDeclared ==
    /\ Done /\ kind \notin {Refused, [machine |-> "meta"]}
    /\ ~KnownGap /\ ~gaveUp
    /\ kind.machine = "camel" => CaselessLast
    => CutAsDeclared

(* The same of the camel-case patterns alone: "byte-for-byte parity with     *)
(* HF/tiktoken", also where a capital follows a letter without case.        *)
CamelCutsLikePattern == Done => CutAsDeclared

(* Chunks follow one another without gap, overlap or empty chunk, and the   *)
(* last one ends with the text: encoding loses nothing, also when the regex *)
(* gives up, and every round of a loop advances, so it ends.                *)
Tiles ==
    /\ pieces # <<>> => pieces[1][1] = 1
    /\ \A i \in DOMAIN pieces : pieces[i][1] < pieces[i][2]
    /\ \A i \in 2 .. Len(pieces) : pieces[i][1] = pieces[i - 1][2]
    /\ Done /\ kind # Refused =>
          IF text = <<>> THEN pieces = <<>> ELSE Last(pieces)[2] = Len(text) + 1
=============================================================================
