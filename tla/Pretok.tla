------------------------------- MODULE Pretok --------------------------------
(***************************************************************************)
(* The hand-written pre-tokenizers: next_chunk_end of the word, generic and *)
(* camel-case machines (src/pretok.rs), the three stages of the CJK chunker *)
(* (src/cjk.rs), and the cuts of a metaspace model (encode_meta).            *)
(* Each alternative of a grammar is an operator that returns where its match *)
(* at position p of text b ends (the position after it), or None; a machine *)
(* takes the first alternative that matches.                                *)
(* `lim` is the last position an alternative may look at.                   *)
(***************************************************************************)
EXTENDS Naturals, Sequences, CharClasses, SequencesExt

None == 0

FirstOf(alternatives) == Head(SelectSeq(alternatives, LAMBDA e : e # None))

(* The end of the run of characters of S that starts at p.                 *)
RunEnd(b, p, lim, S) == Min({q \in p .. lim + 1 : q = lim + 1 \/ b[q] \notin S})

Run(b, p, lim, S) == IF p <= lim /\ b[p] \in S THEN RunEnd(b, p, lim, S) ELSE None

(* At most max of them; 0 stands for no limit.                             *)
RunUpTo(b, p, lim, S, max) ==
    LET e == Run(b, p, lim, S) IN IF max > 0 /\ e > p + max THEN p + max ELSE e

(* ` ?S+`, where a space that ends the text is not skipped.                *)
AfterSpace(b, p, lim, S) ==
    Run(b, IF b[p] = " " /\ p < lim THEN p + 1 ELSE p, lim, S)

(* The apostrophe and s, t, m, d, or ll, ve, re.                           *)
Contraction(b, p, lim, ci) ==
    LET is(i, c) == p + i <= lim /\ Folded(b[p + i], ci) = c IN
    CASE is(0, "'") /\ is(1, "s") -> p + 2
      [] is(0, "'") /\ is(1, "l") /\ is(2, "l") -> p + 3
      [] is(0, "'") /\ is(1, "r") /\ is(2, "e") -> p + 3
      [] OTHER -> None

(* ` ?[^\s\p{L}\p{N}]+` and the characters that may trail it.              *)
SymbolRun(b, p, lim, symbols, trail) ==
    LET e == AfterSpace(b, p, lim, symbols) IN
    IF e = None THEN None ELSE RunEnd(b, e, lim, trail)

(* `\s*[\r\n]+`: to the last newline of the run of whitespace.             *)
WsNl(b, p, lim) ==
    LET newlines == {q \in p .. RunEnd(b, p, lim, White) - 1 : b[q] \in Newline} IN
    IF newlines = {} THEN None ELSE Max(newlines) + 1

(* `\s+(?!\S)|\s+`: the last of several whitespace characters is left to    *)
(* what follows, except to a digit that is cut off by an earlier stage.     *)
WsTrail(b, p, lim, indiv) ==
    LET e == Run(b, p, lim, White) IN
    IF e # None /\ e <= lim /\ e > p + 1 /\ ~(indiv /\ b[e] \in Number)
    THEN e - 1 ELSE e

NoChar(p) == p          \* mutant: the last resort does not advance
OneChar(p) == p + 1

-----------------------------------------------------------------------------
Word(b, p, indiv) ==
    LET n == Len(b) IN
    FirstOf(<< Contraction(b, p, n, FALSE),
               AfterSpace(b, p, n, Letter),
               IF indiv THEN RunUpTo(b, p, n, Number, 1) ELSE AfterSpace(b, p, n, Number),
               SymbolRun(b, p, n, Other, {}),
               WsTrail(b, p, n, indiv),
               OneChar(p) >>)

(* One character that is no letter, digit or newline may lead a letter run. *)
PrefixedRun(b, p, lim, marks) ==
    LET run == Letter \cup (IF marks THEN Mark ELSE {}) IN
    Run(b, IF b[p] \in (Other \cup White) \ Newline THEN p + 1 ELSE p, lim, run)

Generic(b, p, max, marks) ==
    LET n == Len(b) IN
    FirstOf(<< Contraction(b, p, n, TRUE),
               PrefixedRun(b, p, n, marks),
               RunUpTo(b, p, n, Number, max),
               SymbolRun(b, p, n, IF marks THEN Other \ Mark ELSE Other, Newline),
               WsNl(b, p, n),
               WsTrail(b, p, n, FALSE),
               OneChar(p) >>)

(* UpperLike* LowerLike*, at least one of them, and a contraction.         *)
CamelRun(b, p, lim, contractions) ==
    LET start == IF b[p] \in Newline \cup AnyLetter \cup Number THEN p ELSE p + 1
        upper == RunEnd(b, start, lim, UpperLike)
        e     == RunEnd(b, upper, lim, LowerLike)
    IN  IF start > lim \/ e = start THEN None
        ELSE IF contractions /\ Contraction(b, e, lim, TRUE) # None
             THEN Contraction(b, e, lim, TRUE)
             ELSE e

CamelCase(b, p, contractions, max) ==
    LET n == Len(b) IN
    FirstOf(<< CamelRun(b, p, n, contractions),
               RunUpTo(b, p, n, Number, max),
               SymbolRun(b, p, n, Other, Newline \cup {"/"}),
               WsNl(b, p, n),
               WsTrail(b, p, n, FALSE),
               OneChar(p) >>)

(***************************************************************************)
(* The metaspace chunks: a run of U+2581 and what follows it up to the next. *)
(* Here b is a sequence of bytes; the walk goes by the length that the      *)
(* first byte of a character announces, and is clamped at the end.          *)
(***************************************************************************)
IsMs(b, p) == p + 2 <= Len(b) /\ b[p] = "E2" /\ b[p + 1] = "96" /\ b[p + 2] = "81"

Width(byte) ==
    CASE byte \in {"61"} -> 1 [] byte \in {"E2"} -> 3 [] byte \in {"F0"} -> 4 [] OTHER -> 2

RECURSIVE MsRunEnd(_, _)
MsRunEnd(b, p) == IF IsMs(b, p) THEN MsRunEnd(b, p + 3) ELSE p

RECURSIVE ToNextMs(_, _)
ToNextMs(b, p) ==
    IF p > Len(b) \/ IsMs(b, p) THEN p
    ELSE ToNextMs(b, Min({p + Width(b[p]), Len(b) + 1}))

(* Mutant: a run of U+2581 is a chunk of its own.                          *)
MetaRunAlone(b, p) == IF IsMs(b, p) THEN MsRunEnd(b, p) ELSE ToNextMs(b, p)

MetaEnd(b, p) == ToNextMs(b, MsRunEnd(b, p))

NextChunkEnd(kind, b, p) ==
    CASE kind.machine = "word"    -> Word(b, p, kind.indiv)
      [] kind.machine = "generic" -> Generic(b, p, kind.max, kind.marks)
      [] kind.machine = "camel"   -> CamelCase(b, p, kind.contractions, kind.max)
      [] kind.machine = "meta"    -> MetaEnd(b, p)
      [] kind.machine = "whole"   -> Len(b) + 1

-----------------------------------------------------------------------------
(* The main stage of the CJK chunker, alternatives A to F; None at a        *)
(* character that no alternative matches.                                   *)
PunctWord(b, p, lim) == IF b[p] \in AsciiPunct THEN Run(b, p + 1, lim, AsciiLetter) ELSE None

LetterMarkRun(b, p, lim) ==
    IF b[p] \in AnyLetter THEN RunEnd(b, p, lim, AnyLetter)
    ELSE IF b[p] \notin Newline \cup PunctOrSymbol THEN Run(b, p + 1, lim, AnyLetter)
    ELSE None

PunctRun(b, p, lim) ==
    LET e == Run(b, IF b[p] = " " THEN p + 1 ELSE p, lim, PunctOrSymbol) IN
    IF e = None THEN None ELSE RunEnd(b, e, lim, Newline)

MainMatchAt(b, p, lim) ==
    FirstOf(<< PunctWord(b, p, lim), LetterMarkRun(b, p, lim), PunctRun(b, p, lim),
               WsNl(b, p, lim), WsTrail(b, p, lim, FALSE), lim + 2 >>)

MatchAt(stage, b, p, lim) ==
    CASE stage = 1 -> RunUpTo(b, p, lim, Number, 3)
      [] stage = 2 -> Run(b, p, lim, Ideograph)
      [] stage = 3 -> LET e == MainMatchAt(b, p, lim) IN IF e > lim + 1 THEN None ELSE e

(* find_next and the loop of apply_stage over one piece, which ends at pe:   *)
(* the matches, and the gaps between them.                                  *)
RECURSIVE StagePieces(_, _, _, _, _)
StagePieces(stage, b, last, p, pe) ==
    LET gap == IF last < p THEN << <<last, p>> >> ELSE <<>>
        e == IF p = pe THEN None ELSE MatchAt(stage, b, p, pe - 1)
    IN  CASE p = pe -> gap
          [] p < pe /\ e = None -> StagePieces(stage, b, last, p + 1, pe)
          [] OTHER -> gap \o << <<p, e>> >> \o StagePieces(stage, b, e, e, pe)

ApplyStage(stage, b, cur) ==
    FoldLeft(LAMBDA nxt, piece : nxt \o StagePieces(stage, b, piece[1], piece[1], piece[2]),
             <<>>, cur)
=============================================================================
