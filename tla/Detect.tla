------------------------------- MODULE Detect --------------------------------
(***************************************************************************)
(* What the loader makes of a tokenizer.json: how its texts will be cut into *)
(* chunks (Tokenizer::new with detect_pretok, is_cjk_pretok,                *)
(* extract_split_fallback and detect_meta_mode), or that it is refused.     *)
(*                                                                         *)
(* A configuration is a record of                                          *)
(*   byteFallback   model.byte_fallback                                    *)
(*   normalizer     the types among its stages that matter here            *)
(*   sequence       whether pre_tokenizer is a Sequence                    *)
(*   stages         its stages; none, and no Sequence, if it is null       *)
(* A split pattern is known by its name; the patterns are in SplitRegex.    *)
(* Most are given as a regex, {"Regex": ...}, some as a {"String": ...}.     *)
(***************************************************************************)
EXTENDS Naturals, Sequences, SequencesExt

Behaviors == {"Isolated", "Removed", "MergedWithPrevious", "MergedWithNext", "Contiguous"}
Strings == {"blank"}

Split(pattern, behavior, invert) ==
    [type |-> "Split", pattern |-> pattern, behavior |-> behavior, invert |-> invert]
Isolated(pattern)      == Split(pattern, "Isolated", FALSE)
Digits(individual)     == [type |-> "Digits", individual |-> individual]
ByteLevel(regex)       == [type |-> "ByteLevel", regex |-> regex]
Stage(type)            == [type |-> type]   \* Metaspace, Punctuation

(* The substrings the loader searches a pattern for: a class that starts    *)
(* with capitals, case-insensitive contractions, plain letter runs, letter  *)
(* runs with marks, symbols without marks, the quantifiers of the digits,   *)
(* and the anchors.                                                         *)
Substrings(pattern) ==
    CASE pattern = "gpt2"     -> {"L+", "N+"}
      [] pattern = "cl100k"   -> {"ci", "L+", "N{1,3}"}
      [] pattern = "qwen"     -> {"ci", "LM+", "^LMN"}
      [] pattern = "o200k"    -> {"Lu", "ci", "N{1,3}"}
      [] pattern = "plain"    -> {"Lu", "N+"}
      [] pattern = "kimi"     -> {"Lu", "ci", "N{1,3}"}
      [] pattern = "digits"   -> {"N{1,3}"}
      [] pattern = "main"     -> {"LM+"}
      [] pattern = "anchored" -> {"N{1,3}", "anchor"}
      [] OTHER                -> {}

Unknown == [machine |-> "unknown"]
Refused == [machine |-> "refused"]
WordMachine(indiv) == [machine |-> "word", indiv |-> indiv]

Of(stages, type) == SelectSeq(stages, LAMBDA s : s.type = type)

DigitCap(pattern) ==
    CASE "N{1,3}" \in Substrings(pattern) -> 3
      [] "N{1,3}" \notin Substrings(pattern) /\ "N+" \in Substrings(pattern) -> 0
      [] OTHER -> 1

(* The machine for a pattern, by what it contains.                         *)
MachineOf(pattern, indiv) ==
    LET has == Substrings(pattern) IN
    IF "Lu" \in has
    THEN [machine |-> "camel", contractions |-> "ci" \in has, max |-> DigitCap(pattern)]
    ELSE IF pattern = "gpt2" THEN WordMachine(indiv)
    ELSE IF {"ci", "LM+", "^LMN"} \subseteq has
    THEN [machine |-> "generic", max |-> DigitCap(pattern), marks |-> TRUE]
    ELSE IF {"ci", "L+"} \subseteq has
    THEN [machine |-> "generic", max |-> DigitCap(pattern), marks |-> FALSE]
    ELSE Unknown

(* split_pat: the regex of the last Split, if that is what its pattern is.  *)
NoPattern == "none"
SplitPat(splits) ==
    IF splits = <<>> \/ Last(splits).pattern \in Strings THEN NoPattern ELSE Last(splits).pattern

NeverTwice(pattern, regex) == FALSE  \* mutant: the check dropped

(* A ByteLevel that splits too would cut the chunks of the Split again.     *)
SplitsTwice(pattern, regex) == pattern # NoPattern /\ regex

(* One Split at most, anywhere, and a ByteLevel; of several Digits the last *)
(* one counts.  A Split by a string is counted, but then goes unnoticed      *)
(* beside Digits and a ByteLevel that make the word grammar; the behavior of *)
(* a Split is not looked at.                                                *)
DetectSequence(stages) ==
    LET splits == Of(stages, "Split")
        digits == Of(stages, "Digits")
        indiv  == digits # <<>> /\ Last(digits).individual
        regex  == Of(stages, "ByteLevel") # <<>> /\ Last(Of(stages, "ByteLevel")).regex
    IN  CASE \E i \in DOMAIN stages : stages[i].type \notin {"ByteLevel", "Digits", "Split"} -> Unknown
          [] Of(stages, "ByteLevel") = <<>> \/ Len(splits) > 1 -> Unknown
          [] SplitPat(splits) = NoPattern -> IF regex /\ indiv THEN WordMachine(TRUE) ELSE Unknown
          [] SplitsTwice(SplitPat(splits), regex) -> Unknown
          [] OTHER -> MachineOf(SplitPat(splits), indiv)

DetectPretok(config) ==
    IF config.sequence THEN DetectSequence(config.stages)
    ELSE IF config.stages = <<ByteLevel(TRUE)>> THEN WordMachine(FALSE) ELSE Unknown

IsCjkPretok(config) ==
    /\ config.sequence
    /\ config.stages = << Isolated("digits"), Isolated("cjk"), Isolated("main"), ByteLevel(FALSE) >>

Splitting(stages) == SelectSeq(stages, LAMBDA s : s.type \in {"Split", "Digits"})

(* extract_split_fallback, stage by stage: the check of use_regex comes too *)
(* early for a ByteLevel that precedes the stages it would be combined with.*)
Reproducible(stages, i) ==
    CASE stages[i].type = "ByteLevel" ->
            stages[i].regex => Splitting(SubSeq(stages, 1, i)) = <<>>
      [] stages[i].type = "Split" ->
            /\ stages[i].behavior = "Isolated" /\ ~stages[i].invert
            /\ stages[i].pattern \notin Strings
            /\ "anchor" \notin Substrings(stages[i].pattern)
      [] OTHER -> stages[i].type = "Digits"

PatternOf(stage) ==
    IF stage.type = "Split" THEN stage.pattern
    ELSE IF stage.individual THEN "digit" ELSE "number"

(* Its patterns, or none if the pipeline is not handled.                   *)
ExtractSplitFallback(config) ==
    LET stages == config.stages IN
    IF /\ config.sequence
       /\ \A i \in DOMAIN stages : Reproducible(stages, i)
       /\ Of(stages, "ByteLevel") # <<>>
    THEN [i \in DOMAIN Splitting(stages) |-> PatternOf(Splitting(stages)[i])]
    ELSE <<>>

RegexOr(config, otherwise) ==
    IF ExtractSplitFallback(config) = <<>> THEN otherwise
    ELSE [machine |-> "regex", patterns |-> ExtractSplitFallback(config)]

(* 0 none, 1 replace spaces, 2 and prepend one, 3 prepend one if there is none. *)
MetaMode(config) ==
    CASE Of(config.stages, "Metaspace") # <<>> -> 3
      [] Of(config.stages, "Metaspace") = <<>> /\ "Replace" \in config.normalizer ->
            IF "Prepend" \in config.normalizer THEN 2 ELSE 1
      [] OTHER -> 0

(* How the loaded model cuts its texts: Tokenizer::new, and the order in    *)
(* which encode_one_p asks.                                                 *)
Chunker(config) ==
    LET meta     == [machine |-> "meta"]
        detected == IF IsCjkPretok(config) THEN [machine |-> "cjk"]
                    ELSE IF DetectPretok(config) # Unknown THEN DetectPretok(config)
                    ELSE RegexOr(config, Refused)
    IN  IF config.byteFallback
        THEN IF MetaMode(config) # 0 THEN meta
             ELSE RegexOr(config, IF config.stages = <<>> /\ ~config.sequence
                                  THEN [machine |-> "whole"] ELSE Refused)
        ELSE IF detected # Refused /\ MetaMode(config) # 0 THEN meta ELSE detected
=============================================================================
