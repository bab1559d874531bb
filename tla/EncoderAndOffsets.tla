------------------------- MODULE EncoderAndOffsets --------------------------
(***************************************************************************)
(* A text is encoded, and once more with offsets: the result of the second  *)
(* engine is compared with that of the first.                               *)
(***************************************************************************)
EXTENDS Encoder

(* The pre-tokenizers cut a text into chunks that have bytes.               *)
ASSUME ChunksAssumption == \A t \in Texts : \A d \in DOMAIN t : t[d] # <<>>

VARIABLES
    altered, chunkNext, offsetEngine, toks, sp, ids, spans

Offset == INSTANCE Offsets WITH next <- chunkNext, engine <- offsetEngine

offsetVars == <<altered, chunkNext, offsetEngine, toks, sp, ids, spans>>
bothVars == <<vars, offsetVars>>

(* The bytes of a text have a token each, or none.  Only a byte_fallback    *)
(* model walks by characters, which may have several.                       *)
OneTokenBytes ==
    \A d \in DOMAIN text : \A j \in DOMAIN text[d] : Len(Initial[text[d][j]]) <= 1

BothInit == Init /\ Offset!Init /\ (byteFallback \/ OneTokenBytes)

BothNext ==
    \/ Next /\ UNCHANGED offsetVars
    \/ Finished /\ Offset!Next /\ UNCHANGED vars

BothSpec == BothInit /\ [][BothNext]_bothVars

-----------------------------------------------------------------------------
(* "encode_with_offsets's ids matching encode_ordinary": the tokens are     *)
(* those the encoder produced, although the engine is another one.          *)
IdsMatchEncode == offsetEngine = "done" => Finished /\ ids = out

SpansTileText == Offset!SpansTileText   \* see Offsets

(* Tokens that are strings: loading looks the target of a merge up as its   *)
(* operands one after the other, and ignore_lookup a token as the bytes it  *)
(* stands for.                                                             *)
SpelledOut(Char) ==
    /\ Token \subseteq Seq(Char)
    /\ \A m \in Tables : \A r \in DOMAIN m : m[r][3] = m[r][1] \o m[r][2]
    /\ \A l \in Lookups : \A c \in DOMAIN l : l[c] = FlattenSeq(Initials(c))

(* Where a token is the string it stands for: the range of a token holds    *)
(* its text, with the unknown bytes it was merged across.                   *)
Said(from, to) == FlattenSeq(Initials(SubSeq(Offset!Bytes, from + 1, to)))

SpansHoldTokens ==
    offsetEngine = "done" =>
        /\ Len(spans) = Len(ids)
        /\ \A k \in DOMAIN ids : ids[k] = Said(spans[k][1], spans[k][2])
=============================================================================
