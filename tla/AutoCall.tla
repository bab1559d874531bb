------------------------------ MODULE AutoCall -------------------------------
(***************************************************************************)
(* AutoTokenizer.__call__ (python/tuetoken/_auto.py): the texts of a call   *)
(* are encoded (module SpecialSplit), truncated, surrounded by the ids of   *)
(* the post-processor and padded.  There are two implementations: for       *)
(* tensors encode_special_padded does it in the core, row by row in one     *)
(* flat buffer; for lists, and for pairs of texts, the wrapper does it.     *)
(*                                                                         *)
(* The caller asks for tensors and then, with the same arguments, for lists. *)
(* Between calls it may set add_eos_token, and the tokenizer may be pickled *)
(* and sent to a worker process, where it goes on.                          *)
(***************************************************************************)
EXTENDS SpecialSplit, Integers

CONSTANTS
    Tokenizers,     \* those of SpecialSplit, with template, padLeft, truncLeft
    Requests(_),    \* the arguments of the calls made of a tokenizer
    NoMax           \* max_length=None

VARIABLES
    tok,            \* the tokenizer; what never changes of it
    registered,     \* whether the core knows the added tokens
    addEos,         \* the attribute add_eos_token
    psCache,        \* _ps_cache: <<prefix, suffix>>, or <<>> when not cached
    doing,          \* "idle", "fast", "rows", "tensors", "slow" or "lists"
    req,            \* the arguments of the call
    items,          \* history: the pieces of each text
    contents,       \* their ids
    row,            \* the next row to build
    ids, mask,      \* the flat buffers of the fast path
    seqs, masks,    \* the lists of the slow one
    tensors         \* history: what the fast path returned

tokenizer == <<tok, registered, addEos, psCache>>
buffers == <<ids, mask>>
lists == <<seqs, masks>>
vars == <<tokenizer, doing, req, items, contents, row, buffers, lists, tensors>>

NoTensors == [ids |-> <<>>, mask |-> <<>>, panicked |-> FALSE]

Init ==
    /\ tok \in Tokenizers
    /\ registered = TRUE    \* set_special_tokens, at the end of __init__
    /\ addEos = FALSE
    /\ psCache = <<>>
    /\ doing = "idle"
    /\ req = <<>> /\ items = <<>> /\ contents = <<>> /\ row = 1
    /\ ids = <<>> /\ mask = <<>> /\ seqs = <<>> /\ masks = <<>>
    /\ tensors = NoTensors

-----------------------------------------------------------------------------
(* What the post-processor puts around one sequence, and around and between *)
(* two: that of a template, or what the add_..._token attributes say.       *)
PostPrefix == IF tok.template THEN <<"cls">> ELSE <<>>
PostSuffix == IF tok.template THEN <<"sep">> ELSE IF addEos THEN <<"eos">> ELSE <<>>

ApplyPost(a) == PostPrefix \o a \o PostSuffix

ApplyPostPair(a, b) ==
    IF tok.template THEN <<"cls">> \o a \o <<"sep", "sep">> \o b \o <<"sep">> ELSE a \o b

(* _post_prefix_suffix: computed once.                                     *)
PrefixSuffix == IF psCache # <<>> THEN psCache ELSE <<PostPrefix, PostSuffix>>

Encoded(texts) == [r \in DOMAIN texts |-> EncodeSpecialOne(tok, registered, texts[r])]

IdsOf(texts) == [r \in DOMAIN texts |-> Ids(tok, texts[r], Encoded(texts)[r])]

Pad == "pad"

Minus(m, n) == IF m > n THEN m - n ELSE 0   \* saturating_sub, max(0, m - n)

-----------------------------------------------------------------------------
(* encode_special_padded.                                                  *)
Around == IF req.special THEN psCache ELSE << <<>>, <<>> >>
NSpecial == Len(Around[1]) + Len(Around[2])

ContentLen(c) ==
    IF req.truncation /\ req.max # NoMax THEN Min({Len(c), Minus(req.max, NSpecial)}) ELSE Len(c)

Width ==
    IF req.padding = "max_length" THEN IF req.max = NoMax THEN 0 ELSE req.max
    ELSE Max({0} \cup {NSpecial + ContentLen(contents[r]) : r \in DOMAIN contents})

CallTensors(r) ==
    /\ r.pairs = <<>>
    /\ doing' = "fast"
    /\ req' = r
    /\ psCache' = IF r.special THEN PrefixSuffix ELSE psCache
    /\ items' = Encoded(r.texts)
    /\ contents' = IdsOf(r.texts)
    /\ row' = 1
    /\ UNCHANGED <<tok, registered, addEos, buffers, lists, tensors>>

Allocate ==
    /\ doing = "fast" /\ row = 1 /\ ids = <<>>
    /\ ids' = [k \in 1 .. Len(contents) * Width |-> Pad]
    /\ mask' = [k \in 1 .. Len(contents) * Width |-> 0]
    /\ doing' = "rows"
    /\ UNCHANGED <<tokenizer, req, items, contents, row, lists, tensors>>

Kept(c, n) ==
    IF tok.truncLeft /\ n < Len(c) THEN SubSeq(c, Len(c) - n + 1, Len(c)) ELSE SubSeq(c, 1, n)

RowIds(c) ==
    Around[1] \o Kept(c, Min({ContentLen(c), Minus(Width, NSpecial)})) \o Around[2]

(* Mutant: rows are filled from the left on either side.                   *)
CellsFromLeft(r, n) == (r - 1) * Width + 1 .. (r - 1) * Width + n

(* The cells are those the index arithmetic gives; one out of the buffer is *)
(* a panic, one in another row is not.                                      *)
Cells(r, n) ==
    LET offset == (r - 1) * Width + (IF tok.padLeft THEN Width - n ELSE 0)
    IN  offset + 1 .. offset + n

BuildRow ==
    /\ doing = "rows" /\ row <= Len(contents)
    /\ \E new \in {RowIds(contents[row])} : \E cells \in {Cells(row, Len(new))} :
          IF cells \subseteq DOMAIN ids
          THEN /\ ids' = [k \in DOMAIN ids |->
                      IF k \in cells THEN new[k - Min(cells) + 1] ELSE ids[k]]
               /\ mask' = [k \in DOMAIN mask |-> IF k \in cells THEN 1 ELSE mask[k]]
               /\ row' = row + 1
               /\ UNCHANGED <<doing, tensors>>
          ELSE /\ doing' = "tensors"
               /\ tensors' = [NoTensors EXCEPT !.panicked = TRUE]
               /\ UNCHANGED <<ids, mask, row>>
    /\ UNCHANGED <<tokenizer, req, items, contents, lists>>

(* The buffers are handed to numpy as rows of the width.                   *)
ReturnTensors ==
    /\ doing = "rows" /\ row > Len(contents)
    /\ LET rowOf(b, r) == SubSeq(b, (r - 1) * Width + 1, r * Width) IN
          tensors' = [ids |-> [r \in DOMAIN contents |-> rowOf(ids, r)],
                      mask |-> [r \in DOMAIN contents |-> rowOf(mask, r)],
                      panicked |-> FALSE]
    /\ doing' = "tensors"
    /\ UNCHANGED <<tokenizer, req, items, contents, row, buffers, lists>>

-----------------------------------------------------------------------------
(* The wrapper's own path, taken by a pair of texts at once.               *)
EncodeLists(r) ==
    /\ doing' = "slow"
    /\ req' = r
    /\ items' = Encoded(r.texts)
    /\ contents' = IdsOf(r.texts)
    /\ row' = 1
    /\ ids' = <<>> /\ mask' = <<>>
    /\ UNCHANGED <<tokenizer, lists, tensors>>

CallPairs(r) == r.pairs # <<>> /\ EncodeLists(r)

CallLists == doing = "tensors" /\ EncodeLists(req)

Truncates == req.truncation /\ req.max # NoMax /\ req.max # 0

Budget(paired) ==
    LET around == IF ~req.special THEN <<>>
                  ELSE IF paired THEN ApplyPostPair(<<>>, <<>>) ELSE ApplyPost(<<>>)
    IN  Minus(req.max, Len(around))

OneLess(v) == IF tok.truncLeft THEN Tail(v) ELSE Front(v)

(* Mutant: only the first sequence is shortened.                           *)
LongestFirstA(a, b, budget) == <<Kept(a, Min({Len(a), Minus(budget, Len(b))})), b>>

(* One token at a time from the longer one, the first if they are as long.  *)
RECURSIVE LongestFirst(_, _, _)
LongestFirst(a, b, budget) ==
    CASE Len(a) + Len(b) <= budget -> <<a, b>>
      [] Len(a) + Len(b) > budget /\ Len(a) >= Len(b) -> LongestFirst(OneLess(a), b, budget)
      [] OTHER -> LongestFirst(a, OneLess(b), budget)

PairOf(r) == Ids(tok, req.pairs[r], EncodeSpecialOne(tok, registered, req.pairs[r]))

ListRow(r) ==
    IF req.pairs = <<>>
    THEN LET a == IF Truncates THEN Kept(contents[r], Min({Len(contents[r]), Budget(FALSE)}))
                  ELSE contents[r]
         IN  IF req.special THEN ApplyPost(a) ELSE a
    ELSE LET ab == IF Truncates THEN LongestFirst(contents[r], PairOf(r), Budget(TRUE))
                   ELSE <<contents[r], PairOf(r)>>
         IN  IF req.special THEN ApplyPostPair(ab[1], ab[2]) ELSE ab[1] \o ab[2]

TruncateRow ==
    /\ doing = "slow" /\ row <= Len(contents)
    /\ seqs' = Append(seqs, ListRow(row))
    /\ masks' = Append(masks, [k \in DOMAIN ListRow(row) |-> 1])
    /\ row' = row + 1
    /\ UNCHANGED <<tokenizer, doing, req, items, contents, buffers, tensors>>

ListWidth ==
    IF req.padding = "max_length" /\ req.max \notin {NoMax, 0} THEN req.max
    ELSE Max({0} \cup {Len(seqs[r]) : r \in DOMAIN seqs})

Padded(v, with) ==
    LET pad == [k \in 1 .. Minus(ListWidth, Len(v)) |-> with] IN
    IF tok.padLeft THEN pad \o v ELSE v \o pad

ReturnLists ==
    /\ doing = "slow" /\ row > Len(contents)
    /\ doing' = "lists"
    /\ IF req.padding = "no" THEN UNCHANGED lists
       ELSE /\ seqs' = [r \in DOMAIN seqs |-> Padded(seqs[r], Pad)]
            /\ masks' = [r \in DOMAIN masks |-> Padded(masks[r], 0)]
    /\ UNCHANGED <<tokenizer, req, items, contents, row, buffers, tensors>>

-----------------------------------------------------------------------------
(* The caller drops the results.                                           *)
Forget ==
    /\ doing = "lists"
    /\ doing' = "idle"
    /\ req' = <<>> /\ items' = <<>> /\ contents' = <<>> /\ row' = 1
    /\ seqs' = <<>> /\ masks' = <<>>
    /\ tensors' = NoTensors
    /\ UNCHANGED <<tokenizer, buffers>>

SetAddEos ==
    /\ doing = "idle"
    /\ addEos' = ~addEos
    /\ UNCHANGED <<tok, registered, psCache, doing, req, items, contents, row, buffers, lists, tensors>>

(* The wrapper is pickled attribute by attribute, its core by __reduce__:   *)
(* the path of its tokenizer.json.                                          *)
SendToWorker ==
    /\ doing = "idle"
    /\ registered' = FALSE
    /\ UNCHANGED <<tok, addEos, psCache, doing, req, items, contents, row, buffers, lists, tensors>>

Next ==
    \/ doing = "idle" /\ \E r \in Requests(tok) : CallTensors(r) \/ CallPairs(r)
    \/ CallLists
    \/ Allocate \/ BuildRow \/ ReturnTensors
    \/ TruncateRow \/ ReturnLists
    \/ Forget \/ SetAddEos \/ SendToWorker

Spec == Init /\ [][Next]_vars

-----------------------------------------------------------------------------
(* Where tensors and lists differ.  The core: takes a max_length of None as *)
(* 0 when it pads to max_length, and one of 0 as a bound; cuts content that *)
(* is longer than max_length without being asked to truncate; does not make *)
(* the row wide enough for the post-processor's ids; and knows these ids as *)
(* they were at the first call.                                             *)
Real(v, m) == LET at == SelectSeq([k \in DOMAIN v |-> k], LAMBDA k : m[k] = 1)
              IN  [k \in DOMAIN at |-> v[at[k]]]

WithoutMax == req.padding = "max_length" /\ req.max = NoMax
ZeroMax == req.max = 0 /\ (req.truncation \/ req.padding = "max_length")
CutUnasked ==
    /\ req.padding = "max_length" /\ req.max # NoMax /\ ~req.truncation
    /\ \E r \in DOMAIN contents : Len(contents[r]) + NSpecial > req.max
TooNarrow == req.padding = "max_length" /\ req.max # NoMax /\ req.max < NSpecial
StaleAround == req.special /\ psCache # <<PostPrefix, PostSuffix>>

(* "encode + specials + truncation + padding + mask happen in one Rust pass": *)
(* with the differences above, tensors and lists of the same arguments hold *)
(* the same rows and masks; without padding, the same real tokens.          *)
RowsAgree ==
    /\ doing = "lists" /\ req.pairs = <<>>
    /\ ~(WithoutMax \/ ZeroMax \/ CutUnasked \/ TooNarrow \/ StaleAround)
    => /\ ~tensors.panicked
       /\ \A r \in DOMAIN seqs :
             /\ Real(tensors.ids[r], tensors.mask[r]) = Real(seqs[r], masks[r])
             /\ req.padding # "no" => tensors.ids[r] = seqs[r] /\ tensors.mask[r] = masks[r]

(* "HF truncates so the post-processor specials always survive": a list row *)
(* has all of these ids and as much of the texts as max_length leaves room   *)
(* for; of a pair, a sequence is cut only where it takes more than its half. *)
KeepsWhatFits ==
    doing = "lists" /\ Truncates =>
        \A r \in DOMAIN seqs :
            LET paired == req.pairs # <<>>
                b      == IF paired THEN PairOf(r) ELSE <<>>
                room   == Budget(paired)
                around == IF ~req.special THEN 0
                          ELSE IF paired THEN Len(ApplyPostPair(<<>>, <<>>)) ELSE Len(ApplyPost(<<>>))
                uncut(v) == Len(SelectSeq(Real(seqs[r], masks[r]), LAMBDA x : Contains(v, x))) = Len(v)
            IN  /\ Len(Real(seqs[r], masks[r])) = around + Min({Len(contents[r]) + Len(b), room})
                /\ paired /\ 2 * Len(contents[r]) <= room => uncut(contents[r])
                /\ paired /\ 2 * Len(b) <= room + 1 => uncut(b)

(* Every character of a text goes into exactly one fragment or added token, *)
(* in order, as long as no added token begins with a blank that another may *)
(* take (rstrip): last never goes back.                                     *)
BlankContested ==
    \E s, t \in tok.specials : s.rstrip /\ Head(t.content) = Blank

SplitCoversText ==
    ~BlankContested =>
        \A r \in DOMAIN items :
            LET parts == items[r] IN
            /\ \A k \in DOMAIN parts : parts[k].from < parts[k].to
            /\ \A k \in 2 .. Len(parts) : parts[k].from = parts[k - 1].to
            /\ IF req.texts[r] = <<>> THEN parts = <<>>
               ELSE Head(parts).from = 1 /\ Last(parts).to = Len(req.texts[r]) + 1

(* Decoding gives the text back exactly when the blanks that were added are *)
(* those that decode strips: of a byte-level model always, of a metaspace    *)
(* model when only the first fragment got one and decode strips it, or none  *)
(* got one and decode strips none.  (Added tokens that take or hold a blank   *)
(* may lose one, and U+2581 in a text comes back as a blank.)               *)
PlainSpecials ==
    \A s \in tok.specials : ~s.lstrip /\ ~s.rstrip /\ ~Contains(s.content, Blank)

DecodesBack ==
    \A r \in DOMAIN contents :
        LET text  == req.texts[r]
            added == {k \in DOMAIN items[r] :
                        LET part == items[r][k] IN
                        /\ part.special = "no" /\ part.prepend
                        /\ \/ tok.mode = 2
                           \/ tok.mode = 3 /\ text[part.from] # Blank}
            stripped == tok.strip /\ (1 \in added \/ (text # <<>> /\ Head(text) = Blank))
        IN  PlainSpecials /\ ~Contains(text, Ms) =>
                (Decode(tok, contents[r]) = text <=> added = IF stripped THEN {1} ELSE {})

(* "Enables sending a Tokenizer to multiprocessing workers": there a text is *)
(* encoded as it would be here.                                             *)
WorkerEncodesAlike ==
    \A r \in DOMAIN contents :
        contents[r] = Ids(tok, req.texts[r], EncodeSpecialOne(tok, TRUE, req.texts[r]))
=============================================================================
