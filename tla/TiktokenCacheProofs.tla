------------------------ MODULE TiktokenCacheProofs -------------------------
(***************************************************************************)
(* The cache of converted encodings, for any number of processes, kills,    *)
(* attempts and blocks: what is published is whole as long as the processes *)
(* take turns with the temporary file, and otherwise torn only while it is  *)
(* being written, unless somebody is killed.                                *)
(*                                                                         *)
(* The two say nothing of the file before it is published.  The first needs *)
(* that the only writer has written all blocks up to its offset, into a     *)
(* file that is not the published one (Progress, LinksApart); the second    *)
(* that each block that is missing has a writer whose offset is still below *)
(* it (Repaired).                                                           *)
(***************************************************************************)
EXTENDS TiktokenCache, FiniteSetTheorems, TLAPS

Busy == {"write", "replace"}

Handles  == \A p \in Procs : file[p] # NoFile <=> pc[p] = "write"
Verified == \A p \in Procs : pc[p] \in {"convert", "write"} => body[p] = "good"

Trying   == \A p \in Procs : pc[p] = "download" => attempt[p] < Retries

LinksApart == tmp # NoFile => tmp # cached

OneAtATime ==
    alone => \A p, q \in Procs : pc[p] \in Busy /\ pc[q] \in Busy => p = q

Progress ==
    alone => \A p \in Procs :
        /\ pc[p] = "write" => /\ file[p] = tmp
                              /\ \A b \in 1 .. offset[p] : blocks[tmp][b] = "good"
        /\ pc[p] = "replace" => tmp # NoFile /\ blocks[tmp] = Whole

WillWrite(p, f, b) == pc[p] = "write" /\ file[p] = f /\ offset[p] < b

Repaired ==
    crashes = 0 => \A f \in {tmp, cached} \ {NoFile}, b \in 1 .. Blocks :
        blocks[f][b] = "good" \/ \E p \in Procs : WillWrite(p, f, b)

IInv ==
    /\ TypeOK /\ Handles /\ Verified /\ Trying /\ LinksApart
    /\ OneAtATime /\ Progress /\ WholeWhenAlone
    /\ Repaired /\ NoLeftovers

-----------------------------------------------------------------------------
(* There is always a file that no name links to and nobody has open.       *)
LEMMA FreshFile ==
  ASSUME TypeOK, tmp = NoFile
  PROVE  \E g \in Files : g \notin InUse
<1> DEFINE n == Cardinality(Procs)
           handles == {file[q] : q \in Procs}
<1>1. IsFiniteSet(Procs) /\ n \in Nat
  BY ProcsAssumption, FS_CardinalityType
<1>2. file \in Surjection(Procs, handles)
  <2>1. file \in [Procs -> Files \cup {NoFile}]
    BY DEF TypeOK
  <2>2. file \in [Procs -> handles]
    BY <2>1
  <2> QED BY <2>2 DEF Surjection
<1>3. IsFiniteSet(handles) /\ Cardinality(handles) <= n
  BY <1>1, <1>2, FS_Surjection
<1>4. Cardinality(handles) \in Nat
  BY <1>3, FS_CardinalityType
<1> DEFINE used == handles \cup {cached}
<1>5. IsFiniteSet(used) /\ Cardinality(used) <= n + 1
  <2> HIDE DEF handles, n
  <2>1. /\ IsFiniteSet(handles \cup {cached})
        /\ Cardinality(handles \cup {cached}) =
              IF cached \in handles THEN Cardinality(handles) ELSE Cardinality(handles) + 1
    BY <1>3, FS_AddElement
  <2> QED BY <1>1, <1>3, <1>4, <2>1
<1>6. IsFiniteSet(Files) /\ Cardinality(Files) = n + 2
  <2>1. /\ IsFiniteSet(1 .. n + 2)
        /\ Cardinality(1 .. n + 2) = IF 1 > n + 2 THEN 0 ELSE (n + 2) - 1 + 1
    <3> HIDE DEF n
    <3>1. 1 \in Int /\ n + 2 \in Int
      BY <1>1
    <3> QED BY <3>1, FS_Interval
  <2>2. (IF 1 > n + 2 THEN 0 ELSE (n + 2) - 1 + 1) = n + 2
    <3> HIDE DEF n
    <3> QED BY <1>1
  <2> QED BY <2>1, <2>2 DEF Files
<1>7. ~(Files \subseteq used)
  <2>1. SUFFICES ASSUME Files \in SUBSET used PROVE FALSE
    OBVIOUS
  <2>2. Cardinality(Files) <= Cardinality(used)
    <3> HIDE DEF used
    <3> QED BY <1>5, <2>1, FS_Subset
  <2>3. Cardinality(used) \in Nat
    <3> HIDE DEF used
    <3> QED BY <1>5, FS_CardinalityType
  <2> HIDE DEF used, n
  <2> QED BY <1>1, <1>5, <1>6, <2>2, <2>3
<1>8. PICK g \in Files : g \notin used
  BY <1>7
<1>9. g # NoFile
  BY <1>1 DEF Files, NoFile
<1> QED BY <1>8, <1>9 DEF InUse

LEMMA InitIInv == Init => IInv
<1> SUFFICES ASSUME Init PROVE IInv
  OBVIOUS
<1> USE DEF Init
<1>1. TypeOK
  BY BoundsAssumption DEF TypeOK, Content, Blank, NoFile
<1>2. Handles /\ Verified /\ Trying /\ LinksApart
  BY DEF Handles, Verified, Trying, LinksApart
<1>3. OneAtATime /\ Progress /\ WholeWhenAlone
  BY DEF OneAtATime, Busy, Progress, WholeWhenAlone, PublishedWhole
<1>4. Repaired /\ NoLeftovers
  BY DEF Repaired, NoLeftovers
<1> QED BY <1>1, <1>2, <1>3, <1>4 DEF IInv

(* A step of a process that is not at the temporary file, leaves the disk   *)
(* alone and does not get there either.                                    *)
LEMMA Elsewhere ==
  ASSUME IInv, NEW p \in Procs, NEW to, pc' = [pc EXCEPT ![p] = to],
         pc[p] \notin Busy, to \notin Busy,
         UNCHANGED <<file, offset, disk, alone>>, crashes' = 0 => crashes = 0
  PROVE  /\ Handles' /\ LinksApart' /\ OneAtATime' /\ Progress'
         /\ WholeWhenAlone' /\ Repaired' /\ NoLeftovers'
<1>1. /\ DOMAIN pc = Procs
      /\ \A q \in Procs : pc'[q] = IF q = p THEN to ELSE pc[q]
      /\ UNCHANGED <<tmp, cached, blocks, file, offset, alone>>
  BY DEF IInv, TypeOK, disk
<1>2. Handles'
  BY <1>1 DEF IInv, Handles, Busy
<1>3. LinksApart' /\ WholeWhenAlone'
  BY <1>1 DEF IInv, LinksApart, WholeWhenAlone, PublishedWhole
<1>4. OneAtATime'
  BY <1>1 DEF IInv, OneAtATime
<1>5. Progress'
  BY <1>1 DEF IInv, Progress, Busy
<1>6. Repaired'
  BY <1>1 DEF IInv, Repaired, WillWrite, Busy
<1>7. NoLeftovers'
  BY <1>1 DEF IInv, NoLeftovers, Busy
<1> QED BY <1>2, <1>3, <1>4, <1>5, <1>6, <1>7

LEMMA OpenTmpIInv ==
  ASSUME IInv, NEW p \in Procs, OpenTmp(p)
  PROVE  IInv'
<1>1. PICK f \in Files :
        /\ f = IF tmp # NoFile THEN tmp ELSE CHOOSE g \in Files : g \notin InUse
        /\ tmp' = f
        /\ file' = [file EXCEPT ![p] = f]
        /\ blocks' = [blocks EXCEPT ![f] = Blank]
  BY DEF OpenTmp
<1>2. /\ pc[p] = "convert" /\ pc' = [pc EXCEPT ![p] = "write"]
      /\ offset' = [offset EXCEPT ![p] = 0]
      /\ alone' = (alone /\ \A q \in Procs \ {p} : pc[q] \notin {"write", "replace"})
      /\ UNCHANGED <<attempt, body, cached, crashes>>
  BY DEF OpenTmp, Goto
<1>3. TypeOK /\ f # NoFile
  BY ProcsAssumption, FS_CardinalityType DEF IInv, Files, NoFile
<1>4. f # cached
  <2>1. CASE tmp # NoFile
    BY <1>1, <2>1 DEF IInv, LinksApart
  <2>2. CASE tmp = NoFile
    <3>1. f \notin InUse
      BY <1>1, <1>3, <2>2, FreshFile
    <3> QED BY <3>1 DEF InUse
  <2> QED BY <2>1, <2>2
<1>5. /\ \A q \in Procs : pc'[q] = IF q = p THEN "write" ELSE pc[q]
      /\ \A q \in Procs : file'[q] = IF q = p THEN f ELSE file[q]
      /\ \A q \in Procs : offset'[q] = IF q = p THEN 0 ELSE offset[q]
      /\ \A g \in Files : blocks'[g] = IF g = f THEN Blank ELSE blocks[g]
  BY <1>1, <1>2, <1>3 DEF TypeOK
<1>6. TypeOK'
  <2>1. Blank \in [1 .. Blocks -> Content]
    BY DEF Blank, Content
  <2>2. blocks' \in [Files -> [1 .. Blocks -> Content]]
    BY <1>1, <1>3, <2>1 DEF TypeOK
  <2>3. pc' \in [Procs -> {"idle", "download", "convert", "write", "replace",
                           "load", "loaded", "unreadable", "failed"}]
    BY <1>2, <1>3 DEF TypeOK
  <2>4. offset' \in [Procs -> 0 .. Blocks] /\ file' \in [Procs -> Files \cup {NoFile}]
    BY <1>1, <1>2, <1>3, BoundsAssumption DEF TypeOK
  <2>5. alone' \in BOOLEAN
    BY <1>2
  <2> QED BY <1>1, <1>2, <1>3, <2>2, <2>3, <2>4, <2>5 DEF TypeOK
<1>7. Handles' /\ Verified' /\ Trying'
  BY <1>2, <1>3, <1>5 DEF IInv, Handles, Verified, Trying
<1>8. LinksApart' /\ NoLeftovers'
  BY <1>1, <1>2, <1>4, <1>5 DEF LinksApart, NoLeftovers
<1>9. OneAtATime' /\ Progress'
  <2>1. SUFFICES ASSUME alone' PROVE OneAtATime' /\ Progress'
    BY DEF OneAtATime, Progress
  <2>2. ASSUME NEW q \in Procs, q # p PROVE pc'[q] \notin Busy
    <3>1. pc[q] \notin {"write", "replace"}
      BY <1>2, <2>1, <2>2
    <3>2. pc'[q] = pc[q]
      BY <1>5, <2>2
    <3> QED BY <3>1, <3>2 DEF Busy
  <2>3. OneAtATime'
    BY <2>2 DEF OneAtATime
  <2>4. pc'[p] = "write" /\ file'[p] = tmp' /\ offset'[p] = 0
    BY <1>1, <1>5
  <2>5. Progress'
    BY <2>2, <2>4 DEF Progress, Busy
  <2> QED BY <2>3, <2>5
<1>10. WholeWhenAlone'
  <2>1. cached # NoFile => blocks'[cached] = blocks[cached]
    BY <1>3, <1>4, <1>5 DEF TypeOK
  <2> QED BY <1>2, <2>1 DEF IInv, WholeWhenAlone, PublishedWhole
<1>11. Repaired'
  <2>1. SUFFICES ASSUME crashes' = 0, NEW g \in {tmp', cached'} \ {NoFile},
                        NEW b \in 1 .. Blocks
                 PROVE  blocks'[g][b] = "good" \/ \E q \in Procs : WillWrite(q, g, b)'
    BY DEF Repaired
  <2>2. CASE g = f
    <3>1. WillWrite(p, g, b)'
      BY <1>5, <2>2 DEF WillWrite
    <3> QED BY <3>1
  <2>3. CASE g # f
    <3>1. g = cached /\ g \in Files
      BY <1>1, <1>2, <1>3, <2>1, <2>3 DEF TypeOK
    <3>2. blocks[g][b] = "good" \/ \E q \in Procs : WillWrite(q, g, b)
      BY <1>2, <2>1, <3>1 DEF IInv, Repaired
    <3>3. blocks'[g] = blocks[g]
      BY <1>5, <2>3, <3>1
    <3>4. ASSUME NEW q \in Procs, WillWrite(q, g, b) PROVE WillWrite(q, g, b)'
      BY <1>2, <1>5, <3>4 DEF WillWrite
    <3> QED BY <3>2, <3>3, <3>4
  <2> QED BY <2>2, <2>3
<1> QED BY <1>6, <1>7, <1>8, <1>9, <1>10, <1>11 DEF IInv

LEMMA WriteIInv ==
  ASSUME IInv, NEW p \in Procs, Write(p)
  PROVE  IInv'
<1> DEFINE f == file[p]
           o == offset[p] + 1
<1>1. /\ pc[p] = "write" /\ offset[p] < Blocks
      /\ offset' = [offset EXCEPT ![p] = @ + 1]
      /\ blocks' = [blocks EXCEPT ![file[p]][offset[p] + 1] = body[p]]
      /\ UNCHANGED <<pc, attempt, body, file, tmp, cached, crashes, alone>>
  BY DEF Write
<1>2. /\ f \in Files /\ f # NoFile /\ body[p] = "good"
      /\ offset[p] \in 0 .. Blocks /\ o \in 1 .. Blocks /\ Blocks \in Nat
  BY <1>1, BoundsAssumption DEF IInv, TypeOK, Handles, Verified
<1>3. /\ \A q \in Procs : offset'[q] = IF q = p THEN o ELSE offset[q]
      /\ \A g \in Files, b \in 1 .. Blocks :
            blocks'[g][b] = IF g = f /\ b = o THEN "good" ELSE blocks[g][b]
  BY <1>1, <1>2 DEF IInv, TypeOK
<1>4. TypeOK'
  <2>1. blocks' \in [Files -> [1 .. Blocks -> Content]]
    BY <1>1, <1>2 DEF IInv, TypeOK, Content
  <2>2. offset' \in [Procs -> 0 .. Blocks]
    BY <1>1, <1>2 DEF IInv, TypeOK
  <2> QED BY <1>1, <2>1, <2>2 DEF IInv, TypeOK
<1>5. Handles' /\ Verified' /\ Trying' /\ LinksApart' /\ OneAtATime' /\ NoLeftovers'
  BY <1>1 DEF IInv, Handles, Verified, Trying, LinksApart, OneAtATime, NoLeftovers
<1>6. ASSUME alone' PROVE \A q \in Procs : pc[q] \in Busy => q = p
  BY <1>1, <1>6 DEF IInv, OneAtATime, Busy
<1>7. ASSUME alone' PROVE tmp = f /\ \A b \in 1 .. offset[p] : blocks[tmp][b] = "good"
  BY <1>1, <1>7 DEF IInv, Progress
<1>8. Progress'
  <2>1. SUFFICES ASSUME alone', NEW q \in Procs, pc[q] \in Busy
                 PROVE  /\ pc[q] = "write" => /\ file[q] = tmp
                             /\ \A b \in 1 .. offset'[q] : blocks'[tmp][b] = "good"
                        /\ pc[q] = "replace" => tmp # NoFile /\ blocks'[tmp] = Whole
    BY <1>1 DEF Progress, Busy
  <2>2. q = p
    BY <1>6, <2>1
  <2>3. ASSUME NEW b \in 1 .. o PROVE blocks'[tmp][b] = "good"
    <3>1. b = o \/ b \in 1 .. offset[p]
      BY <1>2
    <3>2. b \in 1 .. Blocks
      BY <1>2
    <3> QED BY <1>2, <1>3, <1>7, <2>1, <3>1, <3>2
  <2> QED BY <1>1, <1>3, <1>7, <2>1, <2>2, <2>3
<1>9. WholeWhenAlone'
  <2>1. SUFFICES ASSUME alone', cached # NoFile PROVE blocks'[cached] = Whole
    BY <1>1 DEF WholeWhenAlone, PublishedWhole
  <2>2. cached # f /\ cached \in Files
    BY <1>2, <1>7, <2>1 DEF IInv, LinksApart, TypeOK
  <2>3. blocks'[cached] = blocks[cached]
    BY <1>1, <1>2, <2>2 DEF IInv, TypeOK
  <2> QED BY <1>1, <2>1, <2>3 DEF IInv, WholeWhenAlone, PublishedWhole
<1>10. Repaired'
  <2>1. SUFFICES ASSUME crashes = 0, NEW g \in {tmp, cached} \ {NoFile},
                        NEW b \in 1 .. Blocks
                 PROVE  blocks'[g][b] = "good" \/ \E q \in Procs : WillWrite(q, g, b)'
    BY <1>1 DEF Repaired
  <2>2. g \in Files
    BY <2>1 DEF IInv, TypeOK
  <2>3. blocks[g][b] = "good" \/ \E q \in Procs : WillWrite(q, g, b)
    BY <2>1 DEF IInv, Repaired
  <2>4. CASE blocks[g][b] = "good"
    BY <1>3, <2>2, <2>4
  <2>5. ASSUME NEW q \in Procs, WillWrite(q, g, b)
        PROVE  blocks'[g][b] = "good" \/ WillWrite(q, g, b)'
    <3>1. CASE q = p /\ b = o
      BY <1>3, <2>2, <2>5, <3>1 DEF WillWrite
    <3>2. CASE q = p /\ b # o
      BY <1>1, <1>2, <1>3, <2>5, <3>2 DEF WillWrite
    <3>3. CASE q # p
      BY <1>1, <1>3, <2>5, <3>3 DEF WillWrite
    <3> QED BY <3>1, <3>2, <3>3
  <2> QED BY <2>3, <2>4, <2>5
<1> QED BY <1>4, <1>5, <1>8, <1>9, <1>10 DEF IInv

LEMMA CloseIInv ==
  ASSUME IInv, NEW p \in Procs, Close(p)
  PROVE  IInv'
<1>1. /\ pc[p] = "write" /\ offset[p] = Blocks /\ pc' = [pc EXCEPT ![p] = "replace"]
      /\ file' = [file EXCEPT ![p] = NoFile]
      /\ UNCHANGED <<attempt, body, offset, tmp, cached, blocks, crashes, alone>>
  BY DEF Close, Goto, disk
<1>2. /\ \A q \in Procs : pc'[q] = IF q = p THEN "replace" ELSE pc[q]
      /\ \A q \in Procs : file'[q] = IF q = p THEN NoFile ELSE file[q]
  BY <1>1 DEF IInv, TypeOK
<1>3. TypeOK'
  BY <1>1 DEF IInv, TypeOK
<1>4. Handles' /\ Verified' /\ Trying' /\ LinksApart' /\ WholeWhenAlone'
  BY <1>1, <1>2 DEF IInv, Handles, Verified, Trying, LinksApart, WholeWhenAlone, PublishedWhole
<1>5. OneAtATime' /\ NoLeftovers'
  BY <1>1, <1>2 DEF IInv, OneAtATime, Busy, NoLeftovers
<1>6. Progress'
  <2>1. ASSUME alone PROVE tmp # NoFile /\ blocks[tmp] = Whole
    <3>1. file[p] = tmp /\ \A b \in 1 .. Blocks : blocks[tmp][b] = "good"
      BY <1>1, <2>1 DEF IInv, Progress
    <3>2. tmp \in Files /\ tmp # NoFile
      BY <1>1, <3>1 DEF IInv, Handles, TypeOK
    <3>3. blocks[tmp] \in [1 .. Blocks -> Content]
      BY <3>2 DEF IInv, TypeOK
    <3> QED BY <3>1, <3>2, <3>3 DEF Whole
  <2> QED BY <1>1, <1>2, <2>1 DEF IInv, Progress
<1>7. Repaired'
  <2>1. ASSUME NEW q \in Procs, NEW f, NEW b \in 1 .. Blocks, WillWrite(q, f, b)
        PROVE  WillWrite(q, f, b)'
    BY <1>1, <1>2, <2>1, BoundsAssumption DEF WillWrite
  <2> QED BY <1>1, <2>1 DEF IInv, Repaired
<1> QED BY <1>3, <1>4, <1>5, <1>6, <1>7 DEF IInv

LEMMA ReplaceIInv ==
  ASSUME IInv, NEW p \in Procs, Replace(p)
  PROVE  IInv'
<1>1. /\ pc[p] = "replace"
      /\ UNCHANGED <<attempt, body, file, offset, blocks, crashes, alone>>
  BY DEF Replace
<1>2. /\ cached' = IF tmp = NoFile THEN cached ELSE tmp
      /\ tmp' = NoFile
      /\ \E to \in {"failed", "load"} : pc' = [pc EXCEPT ![p] = to]
  BY DEF Replace, Goto
<1>3. PICK to \in {"failed", "load"} : pc' = [pc EXCEPT ![p] = to]
  BY <1>2
<1>4. \A q \in Procs : pc'[q] = IF q = p THEN to ELSE pc[q]
  BY <1>3 DEF IInv, TypeOK
<1>5. TypeOK'
  BY <1>1, <1>2, <1>3 DEF IInv, TypeOK
<1>6. Handles' /\ Verified' /\ Trying'
  BY <1>1, <1>4 DEF IInv, Handles, Verified, Trying
<1>7. LinksApart' /\ OneAtATime' /\ NoLeftovers'
  BY <1>1, <1>2, <1>4 DEF IInv, LinksApart, OneAtATime, Busy, NoLeftovers
<1>8. ASSUME alone PROVE \A q \in Procs : pc'[q] \notin Busy
  BY <1>1, <1>4, <1>8 DEF IInv, OneAtATime, Busy
<1>9. Progress'
  BY <1>1, <1>8 DEF Progress, Busy
<1>10. WholeWhenAlone'
  BY <1>1, <1>2 DEF IInv, Progress, WholeWhenAlone, PublishedWhole
<1>11. Repaired'
  <2>1. ASSUME NEW q \in Procs, NEW f, NEW b, WillWrite(q, f, b)
        PROVE  WillWrite(q, f, b)'
    BY <1>1, <1>4, <2>1 DEF WillWrite
  <2>2. {tmp', cached'} \ {NoFile} \subseteq {tmp, cached} \ {NoFile}
    BY <1>2
  <2> QED BY <1>1, <2>1, <2>2 DEF IInv, Repaired
<1> QED BY <1>5, <1>6, <1>7, <1>9, <1>10, <1>11 DEF IInv

(* A kill, or a write that fails: the handle is gone, what was written and  *)
(* the links stay.                                                         *)
LEMMA StoppedIInv ==
  ASSUME IInv, NEW p \in Procs, Crash(p) \/ WriteFails(p)
  PROVE  IInv'
<1>1. /\ crashes < MaxCrashes /\ crashes' = crashes + 1
      /\ file' = [file EXCEPT ![p] = NoFile]
      /\ \E to \in {"idle", "failed"} : pc' = [pc EXCEPT ![p] = to]
      /\ UNCHANGED <<attempt, body, offset, tmp, cached, blocks, alone>>
  BY DEF Crash, WriteFails, Goto, disk
<1>2. PICK to \in {"idle", "failed"} : pc' = [pc EXCEPT ![p] = to]
  BY <1>1
<1>3. /\ \A q \in Procs : pc'[q] = IF q = p THEN to ELSE pc[q]
      /\ \A q \in Procs : file'[q] = IF q = p THEN NoFile ELSE file[q]
  BY <1>1, <1>2 DEF IInv, TypeOK
<1>4. crashes' # 0 /\ crashes' \in 0 .. MaxCrashes
  BY <1>1, BoundsAssumption DEF IInv, TypeOK
<1>5. TypeOK'
  BY <1>1, <1>2, <1>4 DEF IInv, TypeOK
<1>6. Handles' /\ Verified' /\ Trying' /\ LinksApart' /\ WholeWhenAlone'
  BY <1>1, <1>3 DEF IInv, Handles, Verified, Trying, LinksApart, WholeWhenAlone, PublishedWhole
<1>7. OneAtATime' /\ Progress'
  BY <1>1, <1>3 DEF IInv, OneAtATime, Busy, Progress
<1>8. Repaired' /\ NoLeftovers'
  BY <1>4 DEF Repaired, NoLeftovers
<1> QED BY <1>5, <1>6, <1>7, <1>8 DEF IInv

LEMMA NextIInv == IInv /\ [Next]_vars => IInv'
<1> SUFFICES ASSUME IInv, [Next]_vars PROVE IInv'
  OBVIOUS
<1>1. ASSUME NEW p \in Procs, CheckExists(p) PROVE IInv'
  <2>1. PICK to \in {"load", "download"} : pc' = [pc EXCEPT ![p] = to]
    BY <1>1 DEF CheckExists, Goto
  <2>2. /\ pc[p] = "idle" /\ attempt' = [attempt EXCEPT ![p] = 0]
        /\ UNCHANGED <<body, file, offset, disk, crashes, alone>>
    BY <1>1 DEF CheckExists
  <2>3. TypeOK'
    BY <2>1, <2>2, BoundsAssumption DEF IInv, TypeOK, disk
  <2>4. Verified' /\ Trying'
    BY <2>1, <2>2, BoundsAssumption DEF IInv, TypeOK, Verified, Trying
  <2> QED BY <2>1, <2>2, <2>3, <2>4, Elsewhere DEF IInv, Busy
<1>2. ASSUME NEW p \in Procs, Download(p) PROVE IInv'
  <2>1. PICK data \in Content :
          /\ body' = [body EXCEPT ![p] = data]
          /\ IF HashMatches(data)
             THEN Goto(p, "convert") /\ UNCHANGED attempt
             ELSE Retry(p)
    BY <1>2 DEF Download
  <2>2. /\ pc[p] = "download"
        /\ UNCHANGED <<file, offset, disk, crashes, alone>>
    BY <1>2 DEF Download
  <2>3. attempt[p] \in 0 .. Retries /\ attempt[p] < Retries
    BY <2>2 DEF IInv, TypeOK, Trying
  <2>4. PICK to \in {"convert", "failed", "download"} :
          /\ pc' = [pc EXCEPT ![p] = to]
          /\ to = "convert" => data = "good"
          /\ to = "download" => attempt[p] + 1 # Retries
    BY <2>1 DEF Retry, Goto, HashMatches
  <2>5. \/ attempt' = attempt /\ to = "convert"
        \/ attempt' = [attempt EXCEPT ![p] = attempt[p] + 1]
    BY <2>1, <2>4 DEF Retry, Goto, IInv, TypeOK
  <2>6. attempt[p] + 1 \in 0 .. Retries
    BY <2>3, BoundsAssumption
  <2>7. TypeOK'
    <3>1. attempt' \in [Procs -> 0 .. Retries]
      BY <2>5, <2>6 DEF IInv, TypeOK
    <3>2. pc' \in [Procs -> {"idle", "download", "convert", "write", "replace",
                             "load", "loaded", "unreadable", "failed"}]
      BY <2>4 DEF IInv, TypeOK
    <3>3. body' \in [Procs -> Content]
      BY <2>1 DEF IInv, TypeOK
    <3> QED BY <2>2, <3>1, <3>2, <3>3 DEF IInv, TypeOK, disk
  <2>8. Verified'
    BY <2>1, <2>2, <2>4 DEF IInv, TypeOK, Verified
  <2>9. Trying'
    <3>1. SUFFICES ASSUME NEW q \in Procs, pc'[q] = "download"
                   PROVE  attempt'[q] < Retries
      BY DEF Trying
    <3>2. CASE q # p
      <4>1. pc[q] = "download" /\ attempt'[q] = attempt[q]
        BY <2>4, <2>5, <3>1, <3>2 DEF IInv, TypeOK
      <4> QED BY <4>1 DEF IInv, Trying
    <3>3. CASE q = p
      <4>1. to = "download"
        BY <2>4, <3>1, <3>3 DEF IInv, TypeOK
      <4>2. attempt'[p] = attempt[p] + 1 /\ attempt[p] + 1 # Retries
        BY <2>4, <2>5, <4>1 DEF IInv, TypeOK
      <4> QED BY <2>3, <3>3, <4>2, BoundsAssumption
    <3> QED BY <3>2, <3>3
  <2> QED BY <2>2, <2>4, <2>7, <2>8, <2>9, Elsewhere DEF IInv, Busy
<1>3. ASSUME NEW p \in Procs, Load(p) \/ CallAgain(p) PROVE IInv'
  <2>1. PICK to \in {"loaded", "unreadable", "idle"} : pc' = [pc EXCEPT ![p] = to]
    BY <1>3 DEF Load, CallAgain, Goto
  <2>2. /\ pc[p] \in {"load", "loaded", "unreadable", "failed"}
        /\ UNCHANGED <<attempt, body, file, offset, disk, crashes, alone>>
    BY <1>3 DEF Load, CallAgain
  <2>3. TypeOK'
    BY <2>1, <2>2 DEF IInv, TypeOK, disk
  <2>4. Verified' /\ Trying'
    BY <2>1, <2>2 DEF IInv, TypeOK, Verified, Trying
  <2> QED BY <2>1, <2>2, <2>3, <2>4, Elsewhere DEF IInv, Busy
<1>4. CASE UNCHANGED vars
  BY <1>4 DEF vars, local, disk, IInv, TypeOK, Handles, Verified, Trying, LinksApart,
     OneAtATime, Progress, WholeWhenAlone, PublishedWhole, Repaired, WillWrite, NoLeftovers
<1> QED
  BY <1>1, <1>2, <1>3, <1>4, OpenTmpIInv, WriteIInv, CloseIInv, ReplaceIInv, StoppedIInv
  DEF Next, Proceed

THEOREM Invariance == Spec => []IInv
  BY InitIInv, NextIInv, PTL DEF Spec

-----------------------------------------------------------------------------
(***************************************************************************)
(* The state of every process and of the disk keeps its type: _download     *)
(* never starts more than _DOWNLOAD_RETRIES attempts, and there are always  *)
(* enough files for the names and the handles.                              *)
(***************************************************************************)
THEOREM TypeCorrect == Spec => []TypeOK
  BY Invariance, PTL DEF IInv

(***************************************************************************)
(* "Write atomically": as long as no two processes are between opening and  *)
(* replacing the temporary file at once, what the final name links to is    *)
(* the whole genuine encoding, whoever was killed and wherever.             *)
(***************************************************************************)
THEOREM AloneIsAtomic == Spec => []WholeWhenAlone
  BY Invariance, PTL DEF IInv

(***************************************************************************)
(* With any number of processes on the temporary file at once and none of   *)
(* them killed, a torn published file has a writer that will complete it.   *)
(***************************************************************************)
THEOREM TornIsTemporary == Spec => []TornOnlyWhileWritten
<1>1. IInv => TornOnlyWhileWritten
  <2>1. SUFFICES ASSUME IInv, crashes = 0, cached # NoFile, blocks[cached] # Whole
                 PROVE  \E p \in Procs : file[p] = cached
    BY DEF TornOnlyWhileWritten
  <2>2. blocks[cached] \in [1 .. Blocks -> Content]
    BY <2>1 DEF IInv, TypeOK
  <2>3. PICK b \in 1 .. Blocks : blocks[cached][b] # "good"
    BY <2>1, <2>2 DEF Whole
  <2>4. \E p \in Procs : WillWrite(p, cached, b)
    BY <2>1, <2>3 DEF IInv, Repaired
  <2> QED BY <2>4 DEF WillWrite
<1> QED BY <1>1, Invariance, PTL

(***************************************************************************)
(* No temporary file outlives the calls that used it, unless one of them    *)
(* was killed.                                                             *)
(***************************************************************************)
THEOREM NothingLeftOver == Spec => []NoLeftovers
  BY Invariance, PTL DEF IInv
=============================================================================
