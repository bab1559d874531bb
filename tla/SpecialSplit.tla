---------------------------- MODULE SpecialSplit -----------------------------
(***************************************************************************)
(* encode_special_one: a text is split at the added tokens of the model, and *)
(* what lies between them is encoded as a fragment; with apply_metaspace,   *)
(* and decode as the way back.  The merges do not matter here: the tokens   *)
(* of a fragment are its characters.                                        *)
(*                                                                         *)
(* A text is a sequence of characters, an added token a record of its id,   *)
(* its content (a text), and lstrip and rstrip.  A tokenizer has            *)
(*   specials   its added tokens                                           *)
(*   mode       meta_mode: 0 none, 1 replace, 2 always prepend, 3 prepend  *)
(*              unless there is one                                        *)
(*   scheme     prepend_scheme: "none", "always" or "first"                *)
(*   strip      decode_strip_space                                         *)
(***************************************************************************)
EXTENDS Naturals, Sequences, SequencesExt

Blank == " "
Ms == "_"   \* U+2581

(* find_iter of the matcher: the leftmost match, of these the longest, and  *)
(* on from its end.                                                         *)
MatchesAt(specials, text, p) ==
    {s \in specials : IsPrefix(s.content, SubSeq(text, p, Len(text)))}

LongestAt(specials, text, p) ==
    CHOOSE s \in MatchesAt(specials, text, p) :
        \A t \in MatchesAt(specials, text, p) : Len(t.content) <= Len(s.content)

RECURSIVE FindIter(_, _, _)
FindIter(specials, text, p) ==
    CASE p > Len(text) -> <<>>
      [] p <= Len(text) /\ MatchesAt(specials, text, p) = {} -> FindIter(specials, text, p + 1)
      [] OTHER ->
            LET s == LongestAt(specials, text, p) IN
            << [token |-> s, start |-> p, end |-> p + Len(s.content)] >>
                \o FindIter(specials, text, p + Len(s.content))

(* Mutant: whitespace that an earlier token took is taken again.           *)
StartUnbounded(text, m, last) ==
    IF ~m.token.lstrip THEN m.start
    ELSE Min({q \in 1 .. m.start : \A i \in q .. m.start - 1 : text[i] = Blank})

(* lstrip takes the whitespace before the match, not before what is already *)
(* encoded; rstrip takes what follows.                                      *)
StartOf(text, m, last) ==
    IF ~m.token.lstrip \/ m.start <= last THEN m.start
    ELSE Min({q \in last .. m.start : \A i \in q .. m.start - 1 : text[i] = Blank})

EndOf(text, m) ==
    IF ~m.token.rstrip THEN m.end
    ELSE Max({q \in m.end .. Len(text) + 1 : \A i \in m.end .. q - 1 : text[i] = Blank})

(* encode_fragment: only the fragment that starts the text is at_start.    *)
Fragment(tok, from, to) ==
    IF from >= to THEN <<>>
    ELSE << [special |-> "no", from |-> from, to |-> to,
             prepend |-> tok.scheme # "first" \/ from = 1] >>

(* One match; a `start` before `last` makes no fragment.                   *)
Splice(tok, text, done, m) ==
    LET start == StartOf(text, m, done.last)
        end   == EndOf(text, m)
    IN  [last  |-> end,
         items |-> done.items \o Fragment(tok, done.last, start)
                   \o << [special |-> m.token.id, from |-> start, to |-> end, prepend |-> FALSE] >>]

(* The pieces of a text, in the order they are encoded.  A core without     *)
(* registered tokens encodes the text whole.                                *)
EncodeSpecialOne(tok, registered, text) ==
    IF ~registered \/ tok.specials = {}
    THEN IF text = <<>> THEN <<>>
         ELSE << [special |-> "no", from |-> 1, to |-> Len(text) + 1, prepend |-> TRUE] >>
    ELSE LET done == FoldLeft(LAMBDA acc, m : Splice(tok, text, acc, m),
                              [last |-> 1, items |-> <<>>], FindIter(tok.specials, text, 1))
         IN  done.items \o Fragment(tok, done.last, Len(text) + 1)

(* Mutant: a leading U+2581 is not looked for.                             *)
ApplyMetaspaceTwice(tok, frag, prepend) ==
    LET replaced == [i \in DOMAIN frag |-> IF frag[i] = Blank THEN Ms ELSE frag[i]] IN
    IF tok.mode = 0 THEN frag
    ELSE IF prepend /\ tok.mode \in {2, 3} THEN <<Ms>> \o replaced ELSE replaced

(* No prefix for an empty fragment, but there are none.                    *)
ApplyMetaspace(tok, frag, prepend) ==
    LET replaced == [i \in DOMAIN frag |-> IF frag[i] = Blank THEN Ms ELSE frag[i]] IN
    IF tok.mode = 0 THEN frag
    ELSE IF prepend /\ (tok.mode = 2 \/ (tok.mode = 3 /\ Head(replaced) # Ms))
         THEN <<Ms>> \o replaced
         ELSE replaced

Ids(tok, text, items) ==
    FlattenSeq([k \in DOMAIN items |->
        IF items[k].special # "no" THEN <<items[k].special>>
        ELSE ApplyMetaspace(tok, SubSeq(text, items[k].from, items[k].to - 1), items[k].prepend)])

(* decode: gather_bytes, then strip_decoded.                               *)
BytesOf(tok, id) ==
    CASE \E s \in tok.specials : s.id = id -> (CHOOSE s \in tok.specials : s.id = id).content
      [] id = Ms /\ tok.mode # 0 -> <<Blank>>
      [] OTHER -> <<id>>

Decode(tok, ids) ==
    LET bytes == FlattenSeq([k \in DOMAIN ids |-> BytesOf(tok, ids[k])]) IN
    IF tok.strip /\ bytes # <<>> /\ Head(bytes) = Blank THEN Tail(bytes) ELSE bytes
=============================================================================
