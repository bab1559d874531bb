----------------------------- MODULE MCAutoCall ------------------------------
EXTENDS AutoCall

CONSTANTS
    MaxText,        \* longest text that is split at added tokens
    MaxRow,         \* longest text of a batch
    MaxPair,        \* longest text of a pair
    MaxLength,      \* largest max_length
    Families        \* "split", "batch" and "pair": the calls to run

Tok(specials, mode, scheme, strip, template, padLeft, truncLeft) ==
    [specials |-> specials, mode |-> mode, scheme |-> scheme, strip |-> strip,
     template |-> template, padLeft |-> padLeft, truncLeft |-> truncLeft]

Special(id, content, lstrip, rstrip) ==
    [id |-> id, content |-> content, lstrip |-> lstrip, rstrip |-> rstrip]

(* Tokens that overlap one another, or begin with what another absorbs.     *)
SpecialSets ==
    {{Special("S1", <<"<">>, l, r)} : l, r \in BOOLEAN} \cup
    {{Special("S1", <<"<">>, l, r), Special("S2", <<"<", "<">>, r, l)} : l, r \in BOOLEAN} \cup
    {{Special("S1", <<"<">>, FALSE, r), Special("S2", <<" ", "a">>, FALSE, FALSE)} : r \in BOOLEAN} \cup
    {{Special("S1", <<"<">>, FALSE, r), Special("S2", <<" ">>, FALSE, FALSE)} : r \in BOOLEAN}

(* prepend_scheme follows from where the metaspace comes from; "first" can   *)
(* be asked for only by a Metaspace pre-tokenizer.                          *)
Normalizations ==
    {<<0, "none", FALSE>>} \cup
    UNION {{<<1, "none", strip>>, <<2, "always", strip>>,
            <<3, "always", strip>>, <<3, "first", strip>>} : strip \in BOOLEAN}

Splitters ==
    {Tok(s, n[1], n[2], n[3], FALSE, FALSE, FALSE) : s \in SpecialSets, n \in Normalizations}

Padders ==
    {Tok({}, 0, "none", FALSE, template, padLeft, truncLeft) :
        template, padLeft, truncLeft \in BOOLEAN}

MCTokenizers ==
    (IF "split" \in Families THEN Splitters ELSE {}) \cup
    (IF {"batch", "pair"} \cap Families # {} THEN Padders ELSE {})

Request(texts, pairs, special, truncation, padding, max) ==
    [texts |-> texts, pairs |-> pairs, special |-> special,
     truncation |-> truncation, padding |-> padding, max |-> max]

Plain(text) == Request(<<text>>, <<>>, FALSE, FALSE, "no", NoMax)

SplitRequests ==
    {Plain(text) : text \in UNION {[1 .. n -> {"a", " ", "<", Ms}] : n \in 0 .. MaxText}}

(* Texts whose characters differ, so that each side that can be cut shows.  *)
TextA(n) == SubSeq(<<"a", "c", "d", "e">>, 1, n)
TextB(n) == [i \in 1 .. n |-> "b"]

Maxima == {NoMax} \cup 0 .. MaxLength

Batches == UNION {[1 .. rows -> {TextA(n) : n \in 0 .. MaxRow}] : rows \in 1 .. 2}

BatchRequests ==
    {Request(texts, <<>>, special, truncation, padding, max) :
        texts \in Batches, special, truncation \in BOOLEAN,
        padding \in {"no", "longest", "max_length"}, max \in Maxima}

PairRequests ==
    {Request(<<TextA(m)>>, <<TextB(n)>>, special, TRUE, padding, max) :
        m, n \in 0 .. MaxPair, special \in BOOLEAN,
        padding \in {"no", "max_length"}, max \in Maxima}

MCRequests(t) ==
    IF t.specials # {} THEN SplitRequests
    ELSE (IF "batch" \in Families THEN BatchRequests ELSE {}) \cup
         (IF "pair" \in Families THEN PairRequests ELSE {})
=============================================================================
