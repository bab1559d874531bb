# A TLA+ model of tuetoken

tuetoken is a BPE tokenizer: a Rust core (`src/`) behind a Python package
(`python/tuetoken/`). It claims token-for-token agreement with Hugging Face
`tokenizers` and with tiktoken, and gets its speed from five different ways of
applying the same merge table. This project models that claim from the
`tokenizer.json` to the tensors: how the loader decides to cut a text, how it is
cut, what each engine does with a chunk step by step, when the encoder may use
which one, the hash map and the buffers they share, byte offsets, added tokens,
truncation and padding, decoding, and the two caches on disk. Paths below are
relative to the repository.

## 1. The system

| component | state it keeps | operations | modelled |
|---|---|---|---|
| merge map (`src/bpe.rs:7`) | open-addressing table, capacity, mask | `new`, `lookup` | `MergeMap` |
| batch engine (`src/bpe.rs:229`) | chunk, cached ranks, minimum | `merge` | `BatchMerge` |
| streaming engine (`src/bpe.rs:94`) | jump tables, stack of waiting merges, `todo` | `push_token`, `flush`, `merge_into` | `StreamMerge` |
| canonical engine (`src/bpe.rs:312`) | short: chunk and ranks; long: linked list, liveness flags, heap | `merge_canonical` | `SmallMerge`, `HeapMerge`, abstractly `CanonicalBpe` |
| chunk encoder (`src/lib.rs:511,598`) | `Scratch`, reused for every chunk of a text | `process_chunk`, `process_chunk_bf`, `finish_chunk` | `Encoder` |
| offset encoder (`src/lib.rs:855,1383`) | tokens and byte spans | `encode_with_offsets`, `emit_chunk_offsets`, `merge_with_spans` | `Offsets`, `EncoderAndOffsets` |
| loader (`src/lib.rs:979`) | the immutable `Tokenizer` | `new`, `from_tiktoken`, `detect_pretok`, `is_cjk_pretok`, `extract_split_fallback`, `detect_meta_mode` | in part: `Detect`, and the `monotonic` flag in `MergeTable` |
| pre-tokenizer machines (`src/pretok.rs`, `src/cjk.rs`) | cursor, list of pieces | `next_chunk_end`, `encode_bytes`, `chunk_ranges` | `Chunking`, `Pretok`, `CharClasses` |
| regex split (`src/lib.rs:302,805`) | list of pieces | `extract_split_fallback`, `regex_chunk_ranges` | `Chunking`, `Detect`, `SplitRegex` |
| metaspace path (`src/lib.rs:729,751`) | cursor over the bytes | `apply_metaspace`, `encode_meta` | `Pretok`, `Chunking`, `SpecialSplit` |
| special-token splitter (`src/lib.rs:940`) | cursor `last` over the text, the registered tokens | `encode_special_one`, `encode_fragment`, `set_special_tokens`, pickling | `SpecialSplit`, `AutoCall` |
| decoder (`src/lib.rs:564`) | none | `gather_bytes`, `strip_decoded` | in part: `SpecialSplit` |
| padding and truncation (`src/lib.rs:1574`, `_auto.py:395`) | flat rows; lists | `encode_special_padded`, `__call__` | `AutoCall` |
| AutoTokenizer (`_auto.py`) | attributes, post-processor, `_ps_cache` | `__call__`, `_apply_post`, `_post_prefix_suffix`, chat template, look-ups | in part: `AutoCall` |
| tiktoken conversion (`_tiktoken.py:178`) | parts of a token, merge list | `_bpe_merge_for_token`, `build_tiktoken_model_json` | `TiktokenModel` |
| model cache (`_tiktoken.py:434`) | `tiktoken_model_<key>.json` | `get_tiktoken_model_path` | `TiktokenModel` |
| encoding cache (`_tiktoken.py:200,323`) | `<name>.json`, `<name>.json.tmp`, what each process is doing | `get_cached_tokenizer_path`, `_download` | `TiktokenCache` |
| thread pools, Unicode tables and normalization, benchmarks | pools by size; data | | not modelled, see section 8 |

How they interact. `from_tiktoken` asks a cache for a `tokenizer.json`; the
loader reads it, decides how texts will be cut, refuses what it cannot reproduce,
and builds the merge map, the jump tables and the `monotonic` flag from one list
of merges. An `encode` call splits the text at the added tokens, creates a fresh
`Scratch` for the fragments, cuts each fragment into chunks (a state machine,
regexes or the metaspace splitter), and gives each chunk to `process_chunk`,
which turns it into initial tokens and calls `finish_chunk`; that picks an engine
by the model, the mode of the call and the length of the chunk. The wrapper adds
the post-processor's ids, truncates and pads: in the core when tensors are asked
for, in Python for lists and for pairs of texts. The `Tokenizer` is immutable
while it encodes, so the texts of a batch are encoded independently of each
other, each on its own scratch. Processes meet only in the cache directories.

What is hard in this code:

* Four engines keep *incremental* state (cached ranks, a lazily cleaned heap, a
  stack of waiting merges) whose staleness shows as a different token here and
  there on rare inputs. Two of them are correct only on monotonic tables.
* The engines are chosen by thresholds (256 tokens) that ordinary text does not
  reach, on buffers that the previous chunk left dirty.
* Nothing bounds the loops but their own progress: termination is an argument
  about each engine.
* The pre-tokenizers imitate backtracking regexes with scans that never go back,
  and are recognized by substrings of the patterns they imitate; one boundary
  that is off by a character changes all tokens after it.
* Truncation and padding exist twice and must agree, at widths the rows hardly
  fit; one of the two remembers what the post-processor added at its first call.
* The merges of a tiktoken model are not stored but reconstructed, one way to
  make a token where tiktoken accepts every way.
* The caches are written by processes that do not know of each other, may be
  killed at any point, and are keyed by less than what went into the file.

What makes each part correct: every engine computes *canonical BPE* (merge the
adjacent pair of lowest rank, leftmost on ties, until none is left), always or on
the tables for which the encoder uses it; the map answers with the first merge
of a pair; the encoder's output is the concatenation of what the chunks encode
to, whatever ran before; a text is cut where the declared stages cut it, or the
model is refused; added tokens and fragments cover the text once and in order;
tensors and lists hold the same rows; spans are a tiling of the text; a
converted model encodes as its ranks do; a cached file that can be found is whole
and is the one asked for. `PROJECT.json` lists the hazards, each at its line, with
the properties that would catch it or a note why none does.

## 2. The modules

`MergeTable` is the vocabulary of the engines: merge tables as sequences of
`<<t1, t2, target>>` in rank order, the rank of a pair, the words a chunk
goes through, `Canonical(m, w)` (canonical BPE as a recursive function) and
`Monotonic(m)` (the loader's flag). Tokens are opaque. Ranks count from 1 and
`NoRank` stands for `u32::MAX`.

`CanonicalBpe` is the abstract specification of an engine: a word and two
actions, merge the lowest pair, and take another chunk once nothing can be
merged.

| module | variables (code) | actions (code) |
|---|---|---|
| `SmallMerge` | `tokens`, `ranks` (`s.ranks`) | `Trivial`, `Begin`, `MergeBest` (one round of the loop, with `Refresh` for the cached ranks), `Return` |
| `HeapMerge` | `tokens`, `prev`, `next`, `alive`, `heap` (`CanonScratch`) | `Begin`, `PopStale` (the three `continue`s), `PopFold`, `Gather` |
| `BatchMerge` | `tokens`, `ranks`, `min`, `ok` (the returned flag) | `Trivial`, `Begin`, `Pass` (one pass, rebuild of the ranks and the bail-out), `Return` |
| `StreamMerge` | `chunk`, `at`, `state`, `todo`, `out` | `PushNext`, `Emit`, `Open`, `Complete`, `FallThrough` (the branches of `push_token`'s loop), `FlushTop`, `Return`; `TakeOut` is the caller |
| `MergeMap` | `entries`, `cap`, `phase`, `idx`, an arbitrary `hash` | `Grow`, `Allocate` (the size), `InsertProbe`, `InsertStore`, `Built`, `Lookup`, `LookupHit`, `LookupMiss`, `LookupProbe` |
| `Encoder` | one `Scratch`: the variables of all engines, `out`, `pending` chunks | `EmitWhole` (`ignore_lookup`), `EmitNothing`, `StartStream/Batch/Canonical` (the routing of `finish_chunk`), `RunStream/Batch/Small/Heap` (a step of the engine) |
| `Offsets` | `toks`, `sp`, `ids`, `spans` | `Refuse`, `EmitWhole`, `StartChunk`, `Pass`, `EndChunk`, `Return` |
| `Chunking` | `config`, `kind` (what the loader made of it), `pos`, `pieces`, `stage` | `NextChunk` (a round of `encode_bytes` or `encode_meta`), `NextStage` (of `chunk_ranges`), `NextRegexStage` (of `regex_chunk_ranges`, whose engine may give up) |
| `AutoCall` | the tokenizer (`tok`, `registered`, `addEos`, `psCache`), the call (`req`, `contents`, `row`), the flat buffers `ids`, `mask`, the lists `seqs`, `masks` | `CallTensors`, `Allocate`, `BuildRow`, `ReturnTensors`; `CallLists`, `CallPairs`, `TruncateRow`, `ReturnLists`; `SetAddEos`, `SendToWorker`; `Forget` is the caller |
| `TiktokenModel` | `files` (the cache), `call`, `specials`, `converted`, `merges`, `loaded` | `Ask`, `ReadSpecials`, `LookUp`, `ConvertToken`, `Replace`; `Leave` is the caller, or a kill |
| `TiktokenCache` | per process `pc`, `attempt`, `body`, `file`, `offset`; on disk `tmp`, `cached`, `blocks` | `CheckExists`, `Download`, `OpenTmp`, `Write`, `Close`, `Replace`, `Load`; `WriteFails`, `Crash`, `CallAgain` are the environment |

Variables marked *history* in a module (`chunk` in `BatchMerge`, `mark` in
`StreamMerge`, `text` in `Encoder`, `gaveUp` in `Chunking`, `items` and `tensors`
in `AutoCall`, `alone` in `TiktokenCache`) remember an input or an event for a
property and are read by no guard.

`Encoder` composes the four engines by `INSTANCE`, mapping `Scratch.chunk` to
the word of each. In the code the buffers are shared: the batch engine and the
short canonical path have rank buffers of their own, all engines have the same
chunk buffer. The composition says so variable by variable. `EncoderAndOffsets` lets
`Offsets` follow on the same text, so that the two encoders are compared; `MCEncoder`
instantiates it. `Offsets` writes a pass of `merge_with_spans` as a function of the word: `Read` is
where the loop's `i` stands when it writes each token, and tokens and ranges are both read off there.

`Chunking` composes three modules without variables. `Detect` is the loader's
decision: `Chunker(config)` is the machine a configuration gets, a list of regexes,
or a refusal. `Pretok` holds the machines: each alternative of a
grammar is an operator that returns where its match ends, and a machine takes the first
that matches, in the order of the code. `SplitRegex` is the reference: the patterns the
models declare, as sets of positions a backtracking engine may reach, applied one
after another to the pieces of the one before, each with the behavior of its Split (what becomes of
matches and of the gaps between them, as in the `tokenizers` library). Machine and pattern are written
independently: greedy scans there, backtracking here. `CharClasses` has one
character for each way the code can tell characters apart; positions count
characters, since the code walks valid UTF-8 by whole ones, except in `encode_meta`,
whose texts are UTF-8 bytes because it walks by threes and by lead bytes.

`SpecialSplit` holds `encode_special_one` (matcher, `lstrip` and `rstrip`,
fragments), `apply_metaspace` and `decode` as operators over texts of single
characters, where the tokens of a fragment are its characters. `AutoCall` puts the
two implementations of `__call__` on top: the caller asks for tensors and then,
with the same arguments, for lists.

`SmallTables` builds the tables and chunks for TLC: *all* tables up to a
size, in two families. Tables of runs (`a`, `aa`, `aaa`...) make every pair
compete with its own copies, as gemma's whitespace runs do; tables of words over two
letters make different pairs overlap and destroy each other. Tables come in
every order, so trained and rank-inverted vocabularies both occur, and with
repeated merges. Operands may be produced by a later merge; an operand nothing
produces is left out, because no chunk can ever contain it. The `MC` modules
instantiate the others: `MCCanonicalMerge` runs the short or the long path, `MCFastMerge`
the streaming or the batch engine, each on variables of its own over one choice
of table and chunk.

Where a definition begins with the word "Mutant" it is a plausible mistake
in the definition that follows. No module uses it; it exists to show that the
property it is paired with in `PROJECT.json` notices the mistake.

## 3. The runs

| run | question | bounds |
|---|---|---|
| `CanonicalMerge` | do both paths of `merge_canonical` implement `CanonicalBpe` and end; is the rank cache fresh, the list linked, no pair forgotten? | tables of at most 4 run merges up to `aaaa`, and of at most 3 word merges up to length 3; chunks of at most 6 `a`, or 4 of `a`, `b`; the heap path takes every chunk of more than one token |
| `FastMerge` | are the streaming and the batch engine canonical on monotonic tables, where the batch engine must not bail; is the text kept and the end reached on any table? | the same tables and chunks |
| `MergeMap` | does `lookup` find the first merge whatever the hash; do sizing, filling and every probe end? | ids 0 and 1 of 2 bits, all tables of at most 3 merges, all hashes into 3 homes of which two meet at the wrap-around; initial capacity 2, so that the table grows |
| `Encoder` | is the output canonical whatever ran before on the same scratch; does `encode_with_offsets` return the same ids, with spans that tile the text and hold each token's text? | texts of two chunks of 1 to 6 characters, with bytes that have no token and a character of two tokens; at most 3 run merges; both thresholds at 3; offsets after mode `Auto` only |
| `Chunking` | does whatever the loader picks for a configuration cut a text where the declared stages do, and lose nothing? Do the cuts of a metaspace model change a token? | seven published pipelines on all texts of at most 5 characters over 7 or 8 classes each; every pipeline of one or two Isolated Splits or `Digits` with at most one `ByteLevel` anywhere, and every behavior of a Split by one of four regexes or a string, inverted or not, alone or beside another stage, on texts of at most 4 (2 with punctuation); metaspace models on texts of at most 4 UTF-8 characters of one to four bytes; a regex may give up after at most one match, on any one piece of each stage |
| `Chunking_camel` | also where a caseless letter precedes a capital? *No*: see section 6 | texts of at most 4 characters |
| `AutoCall` | do tensors and lists agree, does truncation keep what fits, do the added tokens split a text without loss, does decoding give it back? | texts of at most 4 characters under one or two added tokens that overlap, take or hold blanks, in every metaspace mode; batches of one or two rows of at most 3 tokens, pairs of at most 3 and 3, every way to pad and truncate on either side, `max_length` absent or 0 to 6 |
| `AutoCall_worker` | also in a worker process? *No*: see section 6 | texts of at most 2 characters |
| `TiktokenModel` | do the reconstructed merges encode as tiktoken does, and are those of a trained file monotonic? | all rank files of at most 3 tokens of 2 to 4 bytes, or 4 of 2 or 3, over two letters, in every order of rank; all pieces of at most 6 bytes |
| `TiktokenModel_stale` | is a cached file always the one asked for? *No*: see section 6 | files of one token, every sequence of calls |
| `TiktokenCache` | what do cold starts at once leave behind, and can a kill or a full disk ever publish a broken file? | three processes, one kill or failing write, a file of two writes, two attempts |
| `TiktokenCache_torn` | is the cached file always whole, as "Write atomically" says? *No*: see section 6 | two processes |

Why the bounds are enough. The thresholds are the only large constants, and
they are parameters: at 3 instead of 256 both sides, and both orders of
sides, occur within one text. An engine can go wrong
where a merge touches its neighbours: left end, right end, an overlapping copy,
a pair that a merge creates or destroys, a tie, a rank inversion. Runs of
six tokens with four merges hold several of these at once, including two
passes of the batch engine over the same rank and a stack of three waiting merges. The map's bounds
include the pair (0, 0), colliding homes, a chain that wraps around, and a pair
listed twice. Five characters hold a prefix, a run of two and its suffix on either side of a
boundary, a digit run longer than the cap of three, and three blanks before something;
two cutting stages show every order of two, and a third only cuts the pieces of the
second. With at most three ids of the post-processor, rows of 0 to 3 tokens and
widths of 0 to 6 lie on both sides of every comparison; the second row is
what a wrong offset would run into. Four tokens over two letters hold two ways to
make the same token, ranks that contradict them, and tokens no merge reaches. For the
encoding cache, three is the smallest number of processes in which a writer can
publish a file that neither it nor its first rival opened; one file of two writes
has the states empty, half and whole.

Bounds that only keep a run small: `TiktokenModel` fixes the first letter of the
first token, as swapping the letters changes nothing; every combination of calls is
made for files of one token only; in `Encoder` the normalizer alters texts of the
smallest models only, since the call is refused before anything happens.

Deadlock is checked except in `Encoder` and `Chunking`, which stop when the
text is done. Every property has a mutant that the run detects.

## 4. Properties

* `ImplementsCanonical`, `HeapImplementsCanonical`: the refinement of
  `CanonicalBpe`. The mapping for the short path is the identity; for the heap
  path the word is the list of survivors while the engine runs, so popping a
  stale entry is a stutter.
* `CacheFresh`: every cached rank is the rank of the pair that is there *now*
  (short path and batch engine). `FullyMerged`: the short path returns when
  nothing can be merged, and not before.
* `ListLinked`, `QueueComplete`: the links agree and skip exactly the dead
  positions; whatever can be merged is in the heap at its present rank.
* `MonotonicNeverBails`, `BatchIsCanonical`, `MonotonicIsCanonical`: the promise
  behind the routing in `finish_chunk`, which drops the flag that `merge` returns.
* `StackDescends`, `TextKept` (streaming): waiting merges are ever more urgent
  towards the top; output, stack, work list and rest of the chunk spell the text.
* `ChainsIntact`, `AnswerIsFirstMerge`: probe chains without holes,
  in table order; a lookup answers with the merge listed first.
* `OutputIsCanonical`: the encoder's contract between any two chunks.
* `IdsMatchEncode`: `encode_with_offsets` returns what `encode` did, although its engine is
  another one that keeps no ranks and has no canonical path. `SpansTileText`: its ranges follow each
  other in the text and leave out only bytes without a token. `SpansHoldTokens`: where tokens are
  strings, the range of a token holds what the token says.
* `Tiles`: chunks without gap, overlap or empty chunk, also when a regex gives
  up. It is also why the loops end: no round stands still.
* `CutsAsDeclared`: "anything tuetoken can't reproduce exactly fails closed". Machine
  and declared stages cut alike except where the loader accepts a configuration that
  its machine does not reproduce. These gaps are named in `Chunking` (`Gaps`) and contradict the
  README, so section 6 reports them. That each is one is not left to the reader:
  `EveryGapMiscuts` in `MCChunking`, an assumption that TLC evaluates before the run, holds a
  configuration for each gap in which it is the only one, and a text that is cut otherwise than
  declared. A Split that merges its matches with a neighbour is accepted unseen too, and is no gap: the
  patterns that have a machine match every character, so there is nothing to merge with, and
  the property covers it. Two more exceptions: a regex that gives up half way,
  which the code prefers to an error, and `CaselessLast`, the finding of `Chunking_camel`.
* `MetaspaceKeepsMerges`: `encode_meta` cuts at *runs* of U+2581, which saves
  merging across words. For a model whose normalizer replaces the spaces no token of
  the whole text changes; for one with a Metaspace pre-tokenizer, which cuts before every
  U+2581, none does as long as no merge joins two of them (`RunsUnmerged`).
* `SplitCoversText`: added tokens and fragments partition the text, in order. Exempt are
  vocabularies in which one token takes the blanks to its right and another begins
  with a blank (`BlankContested`): there `last` goes back and a blank is encoded twice (section 6).
* `DecodesBack`: decoding returns the text *exactly when* the blanks that were
  prefixed are those that decoding strips: an equivalence, so it also says which models lose
  or gain a blank (one that prefixes every fragment, once there is an added token).
* `RowsAgree`: tensors and lists of the same arguments hold the same rows. The
  exceptions are named in `AutoCall`, and the property fails without any one of them:
  padding to a `max_length` that is absent or 0 (`WithoutMax`, `ZeroMax`), content cut
  without `truncation` (`CutUnasked`), a width below the post-processor's ids, where the core
  panics or writes into the next row (`TooNarrow`), and `_ps_cache`, computed at the first call
  and kept when `add_eos_token` is set afterwards (`StaleAround`).
* `KeepsWhatFits`: a truncated list row has all ids of the post-processor and as many
  tokens as fit; of a pair, the first sequence is whole if it takes half the room or less, the second
  even if it takes the odd token more.
* `ConversionExact`: reconstructed merges encode every piece as tiktoken does, which knows
  all ways to make a token and asks for the whole piece first. It needs every token to be
  made by some merges (`Reachable`); a token that is not gets no merge and is never produced.
* `ConversionMonotonic`: the merges of a trained file (`Trained`: each token is made of
  those before it) are monotonic, so the loader gives the model the fast engines.
* `WholeWhenAlone`, `TornOnlyWhileWritten`, `NoLeftovers`: the encoding cache. `alone`
  says that no two processes had the temporary file at once; then what is published is
  whole, whoever is killed and wherever.
* `BothTerminate`, `Terminates`, `CallsEnd`: every chunk, text, lookup and call ends.

**Fairness.** The engines, the map and the encoder are loops in one thread:
weak fairness of the engine's own `Step` says that a running loop goes on and
nothing else. Which chunk comes next, or whether one comes, is not fair. The two encoders of
`MCEncoder` walk one given text, so their whole next-state relation is fair. In the
encoding cache every process that is not killed goes on (`WF` of `Proceed(p)` for each
`p`); kills, failing writes and later calls have no fairness, so liveness holds
without anyone trying again. `Chunking`, `AutoCall` and `TiktokenModel` state no
liveness: the loops of the first end by `Tiles`, and those of the others count a
number of rows or tokens up to one that is known.

## 5. Proofs

Proved for **every** set of tables, chunks, ids, hashes, processes and every bound,
from the assumptions that the modules declare (`TablesAssumption`: tables are sequences of
triples of tokens shorter than `NoRank`; `ChunksAssumption`; of the encoder `InitialAssumption`,
`LookupsAssumption` and `TextsAssumption`: characters have tokens, entries of `ignore_lookup` are tokens and a text is
a sequence of chunks of characters; of the encoder with offsets that a chunk has bytes, which is `Tiles` of `Chunking`; `IdsAssumption`, `HashAssumption`;
`ProcsAssumption`, `BoundsAssumption`), which TLC evaluates on the runs. `HeapMerge` and
`BatchMerge` share their runs with `SmallMerge` and `StreamMerge` as instances. Their own proof
modules carry the same assumption, `Loadable`, in each statement; `SmallMergeProofs` and
`StreamMergeProofs` instantiate them, discharge it, and state the results again of the
compositions `MCCanonicalMerge` and `MCFastMerge` that TLC runs.

| module | theorems | inductive invariant |
|---|---|---|
| `SmallMergeProofs` | `TypeCorrect`, `CacheStaysFresh`, `ReturnsFullyMerged`; `Implements`: the short path implements canonical BPE step by step; `HeapTyped`, `HeapListStaysLinked`, `HeapQueueStaysComplete`, `HeapRefinement`: the long path in the composition | `TypeOK`, `CacheFresh`, `FullyMerged` |
| `HeapMergeProofs` | `TypeCorrect`, `ListStaysLinked`, `QueueStaysComplete`; `FoldsInCanonicalOrder`: every fold is of the lowest, leftmost pair of the list, and the list is given up only when nothing can be merged; `Refinement`: the long path implements canonical BPE | `Typed`, `ListLinked`, `QueueComplete`, `Whole` |
| `StreamMergeProofs` | `TypeCorrect`, `StackStaysDescending`, `StreamIsCanonical`; `BothTyped`, `BatchCacheStaysFresh`, `BatchNeverBails`, `BatchStaysCanonical`: the batch engine in the composition; `TextStaysKept` | `TypeOK`, `StackDescends`, `Destined`, `Aligned`, `MonotonicIsCanonical`; `TextOfWord` |
| `BatchMergeProofs` | `Invariance`, `CacheStaysFresh`, `NeverBails`, `BatchIsCanonical` | `TypeOK`, `CacheFresh`, `OnCanonicalWay`, `MonotonicIsCanonical` |
| `EncoderProofs` | `OutputStaysCanonical`: the composition of the four engines on one scratch; `OffsetsGiveTheSameIds`, `OffsetsTileText`, `OffsetsHoldTokens`: `encode_with_offsets` after it | `Kept`, `AtWork`, and the invariant of the engine at work (`InSmall`, `InBatch`, `InHeap`, `InStream`); `OffsetFollows`, `SpansFollow`, `TextFollows` |
| `MergeMapProofs` | `TypeCorrect`, `ChainsStayIntact`; `LookupAnswers`: a lookup answers with the first merge of the pair, or `u32::MAX` exactly when there is none | `TypeOK`, `Phases`, `Genuine`, `Probed`, `ChainsIntact` |
| `TiktokenCacheProofs` | `TypeCorrect`, `AloneIsAtomic`, `TornIsTemporary`, `NothingLeftOver` | `TypeOK`, `Handles`, `Verified`, `Trying`, `LinksApart`, `OneAtATime`, `Progress`, `WholeWhenAlone`, `Repaired`, `NoLeftovers` |

`MergeTableProofs` is about words and tables. `FoldedWord` says what each position of a
folded word holds, `RankMeans` what a rank is. The provers have no induction rule for
operators, so `Induction` is proved from the least counterexample, and `Recursion` gives
functions that recurse to shorter words a value; with it `CanonicalUnfolds` shows that
`Canonical(m, w)` is what its equation says. The one fact about canonical BPE that the fast engines
rest on is `SafeFold`. On a monotonic table a merge makes no pair more urgent than itself
(`RanksRise`). A pair is *settled* when no merge that is more urgent can reach it: the ranks beside it
are higher, and stay so (`Calm`). Folding a settled pair at once, out of order, leaves the canonical
merge of the word as it was: `FoldsCommute` moves it past every fold that comes before it.

*Short path.* None of the properties is inductive alone.
`MergeBest` preserves `CacheFresh` because folding at `bi` leaves every pair that
touches neither `bi - 1` nor `bi` as it was, shifted by one to the right of the
fold (`RefreshedRanks`). `Return` establishes `FullyMerged`:
with a fresh cache, "no cached rank is a rank" says that no pair can be merged.
For the refinement,
`BestIsLowest` shows that the leftmost minimum of a fresh cache is the pair canonical
BPE merges; `StepRefines` maps each action to `MergeLowest`, `NextChunk` or a
stutter.

*Long path.* A fold changes the list at three positions and queues two pairs again.
That this is enough needs `ListLinked`: a position has one left and one right neighbour, so no other
pair is touched (`FoldPositions`). Conversely an entry that passes the three checks of the loop is a pair
of the list at its present rank (`CandidateInTable`), so the least entry of a complete
heap, once the stale ones are popped, is the pair canonical BPE merges (`FoldIsFirst`).
For the refinement the list is a *path*: the live positions in the order of the links (`Path`).
Unlinking a position takes one element out of it (`Unlinked`), so the word it spells is folded at the place
that position had (`SpelledFold`), and the loop that gathers the list returns that word, by induction along the
path (`GatherSpells`). `Whole` keeps the path, the heap as a bag and the chunk after
gathering; the refinement mapping is the one TLC uses.

*Streaming.* A merge is opened only above a later one, and taken from
the top (`StackDescends`); `Destined` says that destinations are merges of the table. The machine holds one word in four places: the output of the chunk, the operands held back on
the stack, the tokens still to process and the rest of the chunk (`Word`, `Item`, `WordReads`). Only
`Complete` changes it, by one merge of the table; every other step moves a token from one
place to the next and raises its `Level`, the first merge that it may still be the left operand of.
From the levels follows that the merge completed is settled (`Aligned`), so the word keeps its
canonical merge on monotonic tables. On any table it keeps its text: `TextStaysKept` supposes
`Spells`, that tokens are strings and each merge's target its operands one after the other,
which is how the loader looks the target up (`src/lib.rs:1159`) and how the tables of the runs are
made; it rests on `ContractedText`, what joining two neighbours does to `FlattenSeq`.

*Batch.* A pass is a walk over the word that merges every hit of the lowest rank.
`BatchMergeProofs` follows the walk position by position: behind the cursor
the merged word, before it the old one. Each hit is settled at the moment it is folded, since no rank in the
word is lower and a monotonic table makes none lower; so the canonical merge is kept through the pass, and
the next minimum is not below the last: it never bails. `CacheFresh` needs that two neighbours that
were both copied were neighbours before the pass (`BothCopied`).

*Encoder.* `OutputIsCanonical` speaks only of states in which no engine runs; in the others
what holds depends on the engine. `Core` says which chunk is worked on and what the output held before
it (`Due`), and is kept by every step on its own, provided that an engine that is through left the
canonical form of the chunk. That it did is the invariant of the engine, taken from its proof
module (`SmallEngine`, `BatchEngine`, `HeapEngine`, `StreamEngine`). What remains is what reuse of the scratch could
break: an engine starts from buffers that another left in the middle of something. `Buffers` is all
the engines rely on there: the heap is a bag, the work list is empty and, on a monotonic
table, the last batch did not bail. Every other buffer is overwritten before it is read.

*Offsets.* The two encoders share nothing but the text; what ties their results is what each is due.
`OffsetFollows` says that the ids are the expected tokens of the chunks behind `chunkNext`, and that the word in
`merge_with_spans` still has the canonical merge of its chunk. A pass of it is a pass of the batch engine whose cache
holds the ranks that are looked up (`OB`, a third instance of `BatchMergeProofs`; `PassWalks`), so
`PassIsCanonical` follows from the walk above, and needs the refusal of non-monotonic
tables. `SpansFollow` says that the ranges so far fill the text up to the chunk, those of the word
the chunk itself, but for bytes without a token (`Fills`). Passes keep it, because a merged range runs from the
start of its left part to the end of its right one (`FillsPassed`). `TextFollows` pairs tokens with ranges one
by one (`Matched`, `Held`). It supposes `SpelledOut(Char)`, that tokens are strings over `Char`: the target of a
merge is its operands one after the other, and a chunk found by `ignore_lookup` is what its bytes
spell. That is how the loader finds targets (`src/lib.rs:1159`) and how `ignore_lookup` is keyed, and it
holds in the run. What a merge joins is then what the text says from the start of
one range to the end of the other (`SaidJoined`), the bytes without a token between them saying nothing (`SaidNothing`).

*Map.* A merge that is stored must close the chain its own probe has walked (`Probed`),
and an occupied slot must hold a merge of the table (`Genuine`). Keys pack two
ids into one number; `PackIsInjective` and `KeyIsInjective` show that two pairs never
share one, and that none is the sentinel, `ProbeWalk` that the probe advances by
one slot of the chain, around the end.

*Encoding cache.* Neither property says anything of the file before it is published. Alone, the only
writer has written every block below its offset, into a file that is not the
published one (`Progress`, `LinksApart`); not alone and without kills, every block that is missing
has a writer still below it (`Repaired`).

Only model-checked: liveness (outside the prover's reach); the invariants of `Chunking`, `AutoCall` and
`TiktokenModel`, whose definitions are recursive operators (regular expressions, matches in a text, parts of a
token) that compute over data by induction, which the provers cannot do and with which they lose their arithmetic.

## 6. Findings

* `TiktokenCache_torn`, a bug. The temporary name of `get_cached_tokenizer_path` is the same
  for all processes (`_tiktoken.py:357`), so one process may rename to the
  final name the file another has just truncated by opening it. Readers see a torn
  file until that writer is done; if it is killed the file stays torn for ever, since the
  cache looks only at whether the file exists. Without kills the
  damage is temporary: `TornOnlyWhileWritten`, proved for any number of processes.
* `Chunking_camel`, a bug. The README promises that tokenization is reproduced exactly
  (`README.md:7`). The camel-case machine takes upper-like characters as far as they go,
  and letters without a case and marks are upper-like (`src/pretok.rs:323`); its pattern (`_tiktoken.py:95`)
  goes back when no lower-like letter follows, and ends before the capital. `中A` is one
  chunk for the machine and two for the pattern. Where no such letter precedes a
  capital they agree: `CutsAsDeclared`.
* `AutoCall_worker`, a bug. `__reduce__` keeps the path of the `tokenizer.json` only
  (`src/lib.rs:1263`), and `AutoTokenizer` registers its added tokens in `__init__`, which
  unpickling does not run. In a worker process, for which pickling is meant
  (`src/lib.rs:1259`), a text with an added token is encoded as ordinary text.
* `TiktokenModel_stale`, a divergence of doc and code. "Specials default to the repo's
  tokenizer_config.json. Cached by (rank-file, pattern)" (`_tiktoken.py:438`): the special
  tokens go into the file and not into its key (`_tiktoken.py:459`). Once a call has built it with
  others, or while the configuration could not be read, every later call that asks for
  the default gets the old file.

* `Chunking`, bugs. "Anything tuetoken can't reproduce exactly **fails closed** (raises at load)"
  (`README.md:105`), but five kinds of configurations are loaded and cut otherwise than they declare,
  each exhibited by `EveryGapMiscuts`:
  * `StringIgnored` (`src/lib.rs:294`): a Split by a `{"String": ...}` is counted, but only the
    `Regex` of a pattern is kept; beside `Digits` and a `ByteLevel` that make the word grammar it is
    ignored.
  * `BehaviorIgnored` (`src/lib.rs:273`): a Split that has a machine may drop its
    matches (Removed) or join those that touch (Contiguous); it is cut as if it were Isolated.
  * `DigitsMisread` (`src/lib.rs:267`): the generic and the camel-case machine ignore a `Digits`
    stage; the word machine takes it to be individual and to come first.
  * `ExtraAlternative` (`src/lib.rs:309`): a pattern is recognized by substrings, and may have an alternative
    that nobody looks for, such as one that keeps runs of ideographs apart.
  * `RegexUnseen` (`src/lib.rs:406`): a `ByteLevel` that splits and comes before the other stages
    is accepted by the regex fallback and does not split.

Exempted by name from the properties of `AutoCall`, since the code does otherwise: `TooNarrow`
(`src/lib.rs:1619`; "clamp content so prefix+content+suffix never overruns the row", says the comment
at `src/lib.rs:1610`, but a width below the number of special ids leaves the row no room even
without content), `CutUnasked` (padding to `max_length` cuts), `StaleAround` (`_auto.py:381`: the ids
around a sequence are "computed once" and stay when `add_eos_token` is set afterwards),
`BlankContested` (`src/lib.rs:960`). The properties say nothing of these
cases, and the hazards in `PROJECT.json` that are about them name no property.

## 7. Plan

Done: the abstract specification and the engines; the map; the encoder that composes the
engines, and the offsets; the pre-tokenizers, the loader's choice among them, the regex
fallback and the metaspace path; the special-token splitter with decoding; truncation, padding
and pickling; the tiktoken conversion and both caches; the proofs of section 5.

What could still be added, in this order: the matchers and cutters as
recursive functions, so that `Tiles` can be proved, and with it the assumption that chunks have bytes; several processes in
`TiktokenModel`, whose temporary file follows the same protocol as that of `TiktokenCache`.

## 8. Not modelled

* *Thread pools* (`fixed_pool`, `par_over`) hand a slice to rayon, whose `collect` keeps the order;
  the `Tokenizer` is immutable meanwhile, so no interleaving changes a result.
* *Unicode tables and normalization* are generated data and a library function: `Offsets` takes
  "the normalizer would change this text" as an input. Offsets of a byte-level model whose
  normalizer replaces spaces are left out.
* *Parsing of the vocabulary* builds tables and has no state; `Encoder` takes their
  result, `Initial`: which tokens a character starts as (one, several for its bytes, or none).
* *The chat template* is rendered by Jinja; the id and token helpers of the wrapper are dictionary
  look-ups; the decoder's batch and array entry points call the two functions that are modelled.
* *Malformed UTF-8* does not reach the machines. Case is folded for ASCII only in
  both machine and pattern, so the letter U+017F, which a regex folds to `s`, is out of the model.
* *Concurrent callers of the model cache*: `TiktokenModel` has one process at a time, and a kill
  at any point. *Power loss* (as opposed to a killed process) is left out of the caches:
  the code does not sync the files, and what a file system keeps then is its own affair.
* An exception of a download that is not on the list to retry (`_tiktoken.py:213`), such as a body cut
  short in the middle, ends the call at once; in `TiktokenCache` it is a failed attempt like the others. Nothing
  has been written then, and a call of fewer attempts is one of the model with a smaller bound.
* The capacity of vectors, unchecked indexing and the memory the buffers take are left out. Benchmarks
  and generators are not part of the program.
