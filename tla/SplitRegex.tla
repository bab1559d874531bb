----------------------------- MODULE SplitRegex ------------------------------
(***************************************************************************)
(* The split patterns of the models, and how a pipeline of them cuts a text *)
(* (regex_chunk_ranges).  The regex engine is external.  A piece of a        *)
(* pattern maps the positions it may start from to those where it may end,  *)
(* so a pattern reads inside out.  A backtracking engine takes  *)
(* the first alternative that matches; every quantifier below is greedy,    *)
(* and within one alternative the match it finds first is the longest.      *)
(***************************************************************************)
EXTENDS Naturals, Sequences, CharClasses, SequencesExt

None == 0

(* A character of S; at most max of them, one at least.                    *)
One(t, P, S) == {p + 1 : p \in {q \in P : q <= Len(t) /\ t[q] \in S}}

UpTo(t, P, S, max) ==
    UNION {{q \in p + 1 .. Min({p + max, Len(t) + 1}) : \A i \in p .. q - 1 : t[i] \in S} : p \in P}

Plus(t, P, S) == UpTo(t, P, S, Len(t))
Star(t, P, S) == P \cup Plus(t, P, S)
Maybe(t, P, S) == P \cup One(t, P, S)

(* (?!\S)                                                                  *)
NotBeforeBlack(t, P) == {p \in P : p <= Len(t) => t[p] \in White}

(* '(?:[sdmt]|ll|ve|re), with and without case.                            *)
Contractions(t, P, ci) ==
    LET is(x) == {y \in Char : Folded(y, ci) = x}
        after == One(t, P, {"'"})
    IN  One(t, after, is("s")) \cup One(t, One(t, after, is("l")), is("l"))
                               \cup One(t, One(t, after, is("r")), is("e"))

Space(t, P) == Maybe(t, P, {" "})
Prefix(t, P) == Maybe(t, P, Char \ (Newline \cup Letter \cup Number))
Newlines(t, P) == Plus(t, Star(t, P, White), Newline)
Digits(t, P, max) == UpTo(t, P, Number, IF max = 0 THEN Len(t) ELSE max)

-----------------------------------------------------------------------------
(* The patterns, as the ends of each alternative in turn.                  *)
Blanks(t, P) == << NotBeforeBlack(t, Plus(t, P, White)), Plus(t, P, White) >>

WordPattern(t, P) ==
    << Contractions(t, P, FALSE),
       Plus(t, Space(t, P), Letter),
       Plus(t, Space(t, P), Number),
       Plus(t, Space(t, P), Other) >> \o Blanks(t, P)

GenericPattern(t, P, max, mark) ==
    << Contractions(t, P, TRUE),
       Plus(t, Prefix(t, P), Letter \cup mark),
       Digits(t, P, max),
       Star(t, Plus(t, Space(t, P), Other \ mark), Newline),
       Newlines(t, P) >> \o Blanks(t, P)

CamelPattern(t, P, contractions, max, but) ==
    LET suffix(Q) == IF contractions THEN Q \cup Contractions(t, Q, TRUE) ELSE Q
        upper == UpperLike \ but
        lower == LowerLike \ but
    IN
    << suffix(Plus(t, Star(t, Prefix(t, P), upper), lower)),
       suffix(Star(t, Plus(t, Prefix(t, P), upper), lower)),
       Digits(t, P, max),
       Star(t, Plus(t, Space(t, P), Other), Newline \cup {"/"}),
       Newlines(t, P) >> \o Blanks(t, P)

CjkPattern(t, P) ==
    << Plus(t, One(t, P, AsciiPunct), AsciiLetter),
       Plus(t, Maybe(t, P, Char \ (Newline \cup Letter \cup PunctOrSymbol)), AnyLetter),
       Star(t, Plus(t, Space(t, P), PunctOrSymbol), Newline),
       Newlines(t, P) >> \o Blanks(t, P)

(* The patterns that module Detect names.  "plain" is the camel-case pattern *)
(* without contractions, "kimi" the one that keeps ideographs apart.        *)
Pattern(name, t, P) ==
    CASE name = "gpt2"   -> WordPattern(t, P)
      [] name = "cl100k" -> GenericPattern(t, P, 3, {})
      [] name = "qwen"   -> GenericPattern(t, P, 1, Mark)
      [] name = "o200k"  -> CamelPattern(t, P, TRUE, 3, {})
      [] name = "plain"  -> CamelPattern(t, P, FALSE, 0, {})
      [] name = "kimi"   -> << Plus(t, P, Ideograph) >> \o CamelPattern(t, P, TRUE, 3, Ideograph)
      [] name = "digit"  -> << One(t, P, Number) >>
      [] name = "number" -> << Plus(t, P, Number) >>
      [] name = "digits" -> << UpTo(t, P, Number, 3) >>
      [] name = "cjk"    -> << Plus(t, P, Ideograph) >>
      [] name = "main"   -> CjkPattern(t, P)
      [] name = "blank"  -> << One(t, P, {" "}) >>

MatchEnd(name, t, p) ==
    LET found == SelectSeq(Pattern(name, t, {p}), LAMBDA ends : ends # {})
    IN  IF found = <<>> THEN None ELSE Max(Head(found))

-----------------------------------------------------------------------------
(* One stage on one piece: find_iter over the piece alone.  Its matches and *)
(* the gaps between them, in turn; from p on, `last` is the end of the      *)
(* previous match.  The engine gives up after `patience` matches; the rest  *)
(* of the piece is then one gap.                                            *)
RECURSIVE Segments(_, _, _, _, _)
Segments(name, t, patience, last, p) ==
    LET segment(from, to, match) ==
            IF from < to THEN << [from |-> from, to |-> to, match |-> match] >> ELSE <<>>
        e == IF p > Len(t) THEN None ELSE MatchEnd(name, t, p)
    IN  CASE p > Len(t) \/ patience = 0 -> segment(last, Len(t) + 1, FALSE)
          [] p <= Len(t) /\ patience > 0 /\ e = None -> Segments(name, t, patience, last, p + 1)
          [] OTHER -> segment(last, p, FALSE) \o segment(p, e, TRUE)
                          \o Segments(name, t, patience - 1, e, e)

(* What the behavior of a Split makes of them.  With invert, matches and    *)
(* gaps change places.  A match is a piece of its own (Isolated), dropped   *)
(* (Removed), joined to the gap before or after it (MergedWithPrevious,     *)
(* MergedWithNext), or to the matches beside it (Contiguous).               *)
Behave(behavior, invert, segments) ==
    LET hit(i)   == segments[i].match # invert
        joins(i) == CASE behavior = "MergedWithPrevious" -> ~hit(i - 1) /\ hit(i)
                      [] behavior = "MergedWithNext"     -> hit(i - 1) /\ ~hit(i)
                      [] behavior = "Contiguous"         -> hit(i - 1) = hit(i)
                      [] OTHER                           -> FALSE
        starts   == SelectSeq([i \in DOMAIN segments |-> i],
                        LAMBDA i : /\ i > 1 => ~joins(i)
                                   /\ behavior = "Removed" => ~hit(i))
        end(i)   == Max({j \in i .. Len(segments) : \A k \in i + 1 .. j : joins(k)})
    IN  [k \in DOMAIN starts |-> <<segments[starts[k]].from, segments[end(starts[k])].to>>]

(* A piece is cut as a text of its own; its ranges are those of the text.   *)
Shifted(ranges, by) == [i \in DOMAIN ranges |-> <<ranges[i][1] + by, ranges[i][2] + by>>]

Pieces(split, text, piece, patience) ==
    Shifted(Behave(split.behavior, split.invert,
                Segments(split.pattern, SubSeq(text, piece[1], piece[2] - 1), patience, 1, 1)),
            piece[1] - 1)

(* The splits of a pipeline one after the other, by an engine that never    *)
(* gives up.                                                                *)
Cuts(splits, text) ==
    FoldLeft(LAMBDA pieces, split :
                FlattenSeq([i \in DOMAIN pieces |-> Pieces(split, text, pieces[i], Len(text) + 1)]),
             IF text = <<>> THEN <<>> ELSE << <<1, Len(text) + 1>> >>,
             splits)
=============================================================================
