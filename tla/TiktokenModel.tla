---------------------------- MODULE TiktokenModel ----------------------------
(***************************************************************************)
(* Models in tiktoken's own format (python/tuetoken/_tiktoken.py): a file of *)
(* tokens and ranks from which get_tiktoken_model_path builds a             *)
(* tokenizer.json, once, into a cache.  The ranks say which tokens exist;   *)
(* the merges that make them are reconstructed, token by token.             *)
(*                                                                         *)
(* A rank file is the sequence of its tokens of two bytes and more, by rank *)
(* (those of one byte take no part in a merge's rank); a token is the       *)
(* sequence of its bytes.  One process calls; how several get along is      *)
(* module TiktokenCache.                                                    *)
(***************************************************************************)
EXTENDS MergeTable, SequencesExt, FiniteSetsExt

CONSTANTS
    RankFiles,  \* the rank files a model may have
    Calls(_),   \* the calls made for a rank file: [source, pattern, specials]
    Configured, \* the special tokens of the repository's tokenizer_config.json
    NotGiven    \* special_tokens=None

VARIABLES
    rankFile,
    files,      \* the cache: source and pattern -> [merges, added]
    doing,      \* "idle", "asked", "lookup", "convert", "replace" or "loaded"
    call,
    specials,   \* the special tokens of this call
    converted,  \* tokens the loop has done
    merges,     \* the merges it has found
    loaded      \* the file the caller gets

progress == <<specials, converted, merges>>
vars == <<rankFile, files, doing, call, progress, loaded>>

Init ==
    /\ rankFile \in RankFiles
    /\ files = <<>>
    /\ doing = "idle" /\ call = <<>> /\ loaded = <<>>
    /\ specials = {} /\ converted = 0 /\ merges = <<>>

-----------------------------------------------------------------------------
(* _bpe_merge_for_token.                                                   *)
Bytes(token) == [i \in DOMAIN token |-> <<token[i]>>]

(* The adjacent parts of lowest rank, leftmost of these, or none.           *)
Joinable(ranks, parts) == {i \in 1 .. Len(parts) - 1 : Contains(ranks, parts[i] \o parts[i + 1])}

IndexOf(ranks, token) == CHOOSE r \in DOMAIN ranks : ranks[r] = token

BestIdx(ranks, parts) ==
    CHOOSE i \in Joinable(ranks, parts) :
        \A j \in Joinable(ranks, parts) :
            Precedes(<<IndexOf(ranks, parts[i] \o parts[i + 1]), i>>,
                     <<IndexOf(ranks, parts[j] \o parts[j + 1]), j>>)

JoinAt(parts, i) ==
    SubSeq(parts, 1, i - 1) \o <<parts[i] \o parts[i + 1]>> \o SubSeq(parts, i + 2, Len(parts))

RECURSIVE Simulate(_, _, _)
Simulate(ranks, parts, least) ==
    IF Len(parts) <= least \/ Joinable(ranks, parts) = {} THEN parts
    ELSE Simulate(ranks, JoinAt(parts, BestIdx(ranks, parts)), least)

(* Mutant: the bytes are taken from the left, without ranks.                *)
FirstByteOff(ranks, token) == << <<Head(token)>>, Tail(token) >>

BpeMergeForToken(ranks, token) == Simulate(ranks, Bytes(token), 2)

-----------------------------------------------------------------------------
(* get_tiktoken_model_path.                                                *)
Key(c) == <<c.source, c.pattern>>

Ask ==
    /\ doing = "idle"
    /\ call' \in Calls(rankFile)
    /\ doing' = "asked"
    /\ UNCHANGED <<rankFile, files, progress, loaded>>

(* _read_special_tokens_from_config returns {} when anything goes wrong.    *)
ReadSpecials ==
    /\ doing = "asked"
    /\ doing' = "lookup"
    /\ IF call.specials # NotGiven THEN specials' = call.specials
       ELSE IF call.source = "repo" THEN specials' \in {Configured, {}}
       ELSE specials' = {}
    /\ UNCHANGED <<rankFile, files, call, converted, merges, loaded>>

(* `if not cached.exists()`.                                               *)
LookUp ==
    /\ doing = "lookup"
    /\ IF Key(call) \in DOMAIN files
       THEN doing' = "loaded" /\ loaded' = files[Key(call)]
       ELSE doing' = "convert" /\ UNCHANGED loaded
    /\ UNCHANGED <<rankFile, files, call, progress>>

(* Mutant: the merge found last comes first.                               *)
PutFirst(list, merge) == <<merge>> \o list

Listed(list, merge) == Append(list, merge)

(* One round of build_tiktoken_model_json, by rank: a token that the        *)
(* simulation leaves in more than two parts gets no merge.                  *)
ConvertToken ==
    /\ doing = "convert" /\ converted < Len(rankFile)
    /\ converted' = converted + 1
    /\ LET parts == BpeMergeForToken(rankFile, rankFile[converted'])
       IN  merges' = IF Len(parts) = 2
                     THEN Listed(merges, <<parts[1], parts[2], parts[1] \o parts[2]>>)
                     ELSE merges
    /\ UNCHANGED <<rankFile, files, doing, call, specials, loaded>>

Replace ==
    /\ doing = "convert" /\ converted = Len(rankFile)
    /\ files' = (Key(call) :> [merges |-> merges, added |-> specials]) @@ files
    /\ loaded' = files'[Key(call)]
    /\ doing' = "loaded"
    /\ UNCHANGED <<rankFile, call, progress>>

(* The caller goes on, or was killed or failed to write on the way: the     *)
(* file in the cache is there or it is not.                                 *)
Leave ==
    /\ doing # "idle"
    /\ doing' = "idle"
    /\ call' = <<>> /\ loaded' = <<>>
    /\ specials' = {} /\ converted' = 0 /\ merges' = <<>>
    /\ UNCHANGED <<rankFile, files>>

Next == Ask \/ ReadSpecials \/ LookUp \/ ConvertToken \/ Replace \/ Leave

Spec == Init /\ [][Next]_vars

-----------------------------------------------------------------------------
(* tiktoken itself (external): a piece that is a token is that token;       *)
(* otherwise any two parts whose concatenation is a token may be joined,    *)
(* lowest rank first, leftmost on ties.                                     *)
BytePairEncode(ranks, piece) ==
    IF Contains(ranks, piece) THEN <<piece>> ELSE Simulate(ranks, Bytes(piece), 1)

CONSTANT Pieces     \* the pieces to compare on

(* Every token is reached by joining its bytes; as in training, when those  *)
(* of lower rank are enough.                                                *)
Reachable(ranks) == \A t \in ToSet(ranks) : Len(BpeMergeForToken(ranks, t)) = 2

Trained(ranks) ==
    \A r \in DOMAIN ranks : Len(BpeMergeForToken(SubSeq(ranks, 1, r - 1), ranks[r])) = 2

(* "reconstruct merges": a file from the cache, whoever built it and whoever *)
(* was killed before, encodes every piece as tiktoken would, although it    *)
(* knows one way to make a token where tiktoken knows all of them and asks   *)
(* for the piece as a whole first; provided that its tokens are reachable.   *)
ConversionExact ==
    doing = "loaded" /\ Reachable(rankFile) =>
        \A piece \in Pieces :
            Canonical(loaded.merges, Bytes(piece)) = BytePairEncode(rankFile, piece)

(* The merges of a trained rank file are monotonic, whatever their number,   *)
(* so the loader gives the model the fast engines.                          *)
ConversionMonotonic ==
    doing = "loaded" /\ Trained(rankFile) => Monotonic(loaded.merges)

(* "Specials default to the repo's tokenizer_config.json": a model from a    *)
(* repository, for which none are given, has the configured special tokens  *)
(* when this very call has read them.                                       *)
SpecialsDefault ==
    doing = "loaded" /\ call.source = "repo" /\ call.specials = NotGiven /\ specials = Configured
    => loaded.added = Configured
=============================================================================
