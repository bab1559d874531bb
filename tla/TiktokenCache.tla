---------------------------- MODULE TiktokenCache ---------------------------
(***************************************************************************)
(* The on-disk cache of converted tiktoken encodings: processes that call   *)
(* Tokenizer.from_tiktoken of one encoding share a cache directory.  Each   *)
(* call runs get_cached_tokenizer_path (exists, download, convert, write    *)
(* <name>.json.tmp, os.replace) and then reads the file it was told of.     *)
(*                                                                         *)
(* The file system is external: names are links to files, open("w")         *)
(* truncates the file the name links to or creates one, a writer keeps its  *)
(* file and its offset whatever happens to the name, and rename moves the   *)
(* name atomically.  A file is the sequence of blocks that reached it;      *)
(* every call writes the same Blocks blocks, so one is whole or it is not.  *)
(***************************************************************************)
EXTENDS Naturals, FiniteSets

CONSTANTS
    Procs,      \* processes (or threads) that load the encoding
    Blocks,     \* write calls the JSON takes
    Retries,    \* _DOWNLOAD_RETRIES, 3 in the code
    MaxCrashes  \* bound: calls killed, or ended by a failing write

ASSUME ProcsAssumption == IsFiniteSet(Procs) /\ Procs # {}
ASSUME BoundsAssumption == Blocks \in Nat \ {0} /\ Retries \in Nat \ {0} /\ MaxCrashes \in Nat

VARIABLES
    pc,         \* where each process is
    attempt,    \* downloads it has started
    body,       \* what its last download returned
    file,       \* the file its write handle is open on
    offset,     \* blocks it has written through that handle
    tmp,        \* the file <name>.json.tmp links to, or NoFile
    cached,     \* the file <name>.json links to, or NoFile
    blocks,     \* file -> block number -> what the file holds there
    crashes,
    alone       \* history: no process has opened the temporary file while
                \* another was between opening and replacing it

local == <<pc, attempt, body, file, offset>>
disk == <<tmp, cached, blocks>>
vars == <<local, disk, crashes, alone>>

(* A file more than there can be links and handles.                        *)
Files == 1 .. Cardinality(Procs) + 2
NoFile == 0

(* Block contents: from the genuine rank file, from a truncated one, or     *)
(* nothing (never written, truncated away, or a hole).                      *)
Content == {"good", "bad", "none"}
Blank == [b \in 1 .. Blocks |-> "none"]
Whole == [b \in 1 .. Blocks |-> "good"]

TypeOK ==
    /\ pc \in [Procs -> {"idle", "download", "convert", "write", "replace",
                         "load", "loaded", "unreadable", "failed"}]
    /\ attempt \in [Procs -> 0 .. Retries]
    /\ body \in [Procs -> Content]
    /\ file \in [Procs -> Files \cup {NoFile}]
    /\ offset \in [Procs -> 0 .. Blocks]
    /\ tmp \in Files \cup {NoFile} /\ cached \in Files \cup {NoFile}
    /\ blocks \in [Files -> [1 .. Blocks -> Content]]
    /\ crashes \in 0 .. MaxCrashes /\ alone \in BOOLEAN

Init ==
    /\ pc = [p \in Procs |-> "idle"]
    /\ attempt = [p \in Procs |-> 0]
    /\ body = [p \in Procs |-> "none"]
    /\ file = [p \in Procs |-> NoFile]
    /\ offset = [p \in Procs |-> 0]
    /\ tmp = NoFile /\ cached = NoFile
    /\ blocks = [f \in Files |-> Blank]
    /\ crashes = 0 /\ alone = TRUE

Goto(p, where) == pc' = [pc EXCEPT ![p] = where]

(* `if cached_path.exists()`: the file is not looked into.                 *)
CheckExists(p) ==
    /\ pc[p] = "idle"
    /\ Goto(p, IF cached # NoFile THEN "load" ELSE "download")
    /\ attempt' = [attempt EXCEPT ![p] = 0]
    /\ UNCHANGED <<body, file, offset, disk, crashes, alone>>

(* Mutants: one attempt too many; `while True` in place of the bounded for. *)
RetryOnceMore(p) ==
    /\ Goto(p, IF attempt[p] = Retries THEN "failed" ELSE "download")
    /\ attempt' = [attempt EXCEPT ![p] = @ + 1]

RetryForever(p) == Goto(p, "download") /\ UNCHANGED attempt

(* One round of the loop in _download: a network error and a hash mismatch  *)
(* are retried, and a download that stays wrong raises.                     *)
Retry(p) ==
    /\ Goto(p, IF attempt[p] + 1 = Retries THEN "failed" ELSE "download")
    /\ attempt' = [attempt EXCEPT ![p] = @ + 1]

AnyBody(d) == d # "none"    \* mutant: the digest is not compared

HashMatches(d) == d = "good"

Download(p) ==
    /\ pc[p] = "download"
    /\ \E data \in Content :
          /\ body' = [body EXCEPT ![p] = data]      \* "none": URLError, OSError
          /\ IF HashMatches(data)
             THEN Goto(p, "convert") /\ UNCHANGED attempt
             ELSE Retry(p)
    /\ UNCHANGED <<file, offset, disk, crashes, alone>>

(* open(tmp_path, "w").                                                    *)
InUse == {tmp, cached} \cup {file[q] : q \in Procs}

OpenTmp(p) ==
    /\ pc[p] = "convert"
    /\ \E f \in Files :
          /\ f = IF tmp # NoFile THEN tmp ELSE CHOOSE g \in Files : g \notin InUse
          /\ tmp' = f
          /\ file' = [file EXCEPT ![p] = f]
          /\ blocks' = [blocks EXCEPT ![f] = Blank]
    /\ offset' = [offset EXCEPT ![p] = 0]
    /\ alone' = (alone /\ \A q \in Procs \ {p} : pc[q] \notin {"write", "replace"})
    /\ Goto(p, "write")
    /\ UNCHANGED <<attempt, body, cached, crashes>>

(* json.dump, block by block, each at the writer's own offset.             *)
Write(p) ==
    /\ pc[p] = "write" /\ offset[p] < Blocks
    /\ offset' = [offset EXCEPT ![p] = @ + 1]
    /\ blocks' = [blocks EXCEPT ![file[p]][offset[p] + 1] = body[p]]
    /\ UNCHANGED <<pc, attempt, body, file, tmp, cached, crashes, alone>>

(* Mutant: the file is replaced inside the `with`, before it is flushed.   *)
CloseUnflushed(p) ==
    /\ pc[p] = "write" /\ offset[p] > 0
    /\ file' = [file EXCEPT ![p] = NoFile]
    /\ Goto(p, "replace")
    /\ UNCHANGED <<attempt, body, offset, disk, crashes, alone>>

Close(p) ==
    /\ pc[p] = "write" /\ offset[p] = Blocks
    /\ file' = [file EXCEPT ![p] = NoFile]
    /\ Goto(p, "replace")
    /\ UNCHANGED <<attempt, body, offset, disk, crashes, alone>>

(* A write that fails (disk full) raises: the handle is closed, the partly  *)
(* written temporary file stays.                                            *)
WriteFails(p) ==
    /\ pc[p] = "write"
    /\ crashes < MaxCrashes
    /\ crashes' = crashes + 1
    /\ file' = [file EXCEPT ![p] = NoFile]
    /\ Goto(p, "failed")
    /\ UNCHANGED <<attempt, body, offset, disk, alone>>

(* Mutant: shutil.copy.                                                    *)
CopyOver(p) ==
    /\ pc[p] = "replace"
    /\ IF tmp = NoFile
       THEN Goto(p, "failed") /\ UNCHANGED cached
       ELSE Goto(p, "load") /\ cached' = tmp
    /\ UNCHANGED <<attempt, body, file, offset, tmp, blocks, crashes, alone>>

(* os.replace(tmp_path, cached_path); FileNotFoundError when the tmp file   *)
(* was renamed away by another process.                                     *)
Replace(p) ==
    /\ pc[p] = "replace"
    /\ IF tmp = NoFile
       THEN Goto(p, "failed") /\ UNCHANGED <<tmp, cached>>
       ELSE Goto(p, "load") /\ cached' = tmp /\ tmp' = NoFile
    /\ UNCHANGED <<attempt, body, file, offset, blocks, crashes, alone>>

(* Tokenizer::new on the path that was returned.                           *)
Load(p) ==
    /\ pc[p] = "load"
    /\ Goto(p, IF blocks[cached] = Whole THEN "loaded" ELSE "unreadable")
    /\ UNCHANGED <<attempt, body, file, offset, disk, crashes, alone>>

(* The caller calls again later, after success or after an exception.      *)
CallAgain(p) ==
    /\ pc[p] \in {"loaded", "unreadable", "failed"}
    /\ Goto(p, "idle")
    /\ UNCHANGED <<attempt, body, file, offset, disk, crashes, alone>>

(* The process is killed: its handle is gone, what it wrote stays, and a    *)
(* new process takes its place.                                             *)
Crash(p) ==
    /\ crashes < MaxCrashes
    /\ pc[p] \in {"download", "convert", "write", "replace", "load"}
    /\ crashes' = crashes + 1
    /\ Goto(p, "idle")
    /\ file' = [file EXCEPT ![p] = NoFile]
    /\ UNCHANGED <<attempt, body, offset, disk, alone>>

Proceed(p) ==
    \/ CheckExists(p) \/ Download(p) \/ OpenTmp(p) \/ Write(p) \/ Close(p)
    \/ Replace(p) \/ Load(p)

Next == \E p \in Procs : Proceed(p) \/ CallAgain(p) \/ WriteFails(p) \/ Crash(p)

(* A process that is not killed goes on; nothing makes the caller retry.   *)
Fairness == \A p \in Procs : WF_vars(Proceed(p))

Spec == Init /\ [][Next]_vars /\ Fairness

-----------------------------------------------------------------------------
(* "Write atomically": whoever finds the cached file finds all of it, and   *)
(* all of it from a rank file that has the pinned hash.                     *)
PublishedWhole == cached # NoFile => blocks[cached] = Whole

(* That holds as long as the processes take turns with the temporary file,  *)
(* wherever one of them is killed or fails.                                 *)
WholeWhenAlone == alone => PublishedWhole

(* A published file is torn only while the writer that truncated it still   *)
(* has it open, and will write all of it, unless a writer is killed.        *)
TornOnlyWhileWritten ==
    crashes = 0 /\ cached # NoFile =>
        blocks[cached] = Whole \/ \E p \in Procs : file[p] = cached

(* A temporary file is never lost for good: unless a process was killed     *)
(* there is one only while somebody writes it or is about to publish it.    *)
NoLeftovers ==
    crashes = 0 /\ tmp # NoFile => \E p \in Procs : pc[p] \in {"write", "replace"}

(* Every call ends with a tokenizer or an exception.                       *)
CallsEnd == \A p \in Procs :
    pc[p] = "download" ~> pc[p] \in {"idle", "loaded", "unreadable", "failed"}
=============================================================================
