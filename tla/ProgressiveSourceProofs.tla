------------------------ MODULE ProgressiveSourceProofs ------------------------
(* Theorems about ProgressiveSource for any number of processes and chunks. *)
EXTENDS ProgressiveSource, TLAPS

(***************************************************************************)
(* The inductive invariant.  That a set bit has its bytes is kept by       *)
(* Publish only if the whole window was written before, and a read is      *)
(* whole only if every chunk it has stepped over is covered; WindowInv and *)
(* ReadInv say how far each loop of a read has come.                       *)
(***************************************************************************)
Reads == {"scan", "fetch", "write", "publish", "local"}
Acquires == {"fetch", "write", "publish"}

ReadInv ==
  \A p \in Procs :
    /\ pc[p] \in Reads => \A k \in Chunks : range[p].first <= k /\ k < chunk[p] => k \in coverage[p]
    /\ pc[p] = "local" => range[p].last < chunk[p]

WindowInv ==
  \A p \in Procs :
    /\ pc[p] \in Acquires =>
         window[p].from = chunk[p] /\ window[p].from <= window[p].next /\ window[p].next <= window[p].to
    /\ pc[p] = "fetch" => window[p].next = window[p].from
    /\ pc[p] = "write" =>
         \A k \in Chunks : window[p].from <= k /\ k < window[p].next => k \in written
    /\ pc[p] = "publish" =>
         \A k \in Chunks : window[p].from <= k /\ k <= window[p].to => k \in written
    /\ pc[p] = "publish" =>
         \A k \in Chunks : window[p].from <= k /\ k < window[p].next => k \in coverage[p]

IInv == TypeOK /\ CoveredIsWritten /\ ReadInv /\ WindowInv

-------------------------------------------------------------------------------
\* No file and no process: nothing is covered.
LEMMA InitIInv == Init => IInv
<1> SUFFICES ASSUME Init PROVE IInv
  OBVIOUS
<1> USE ProgressiveAssumption DEF Init, Chunks
<1>1. FlagsOK
  <2>1. mirror_sized \in BOOLEAN
    BY Zenon
  <2>2. NoStat \in [mirror : BOOLEAN, sidecar : {"empty", "torn", "whole"}]
    BY Zenon DEF NoStat
  <2>3. QED
    BY <2>1, <2>2 DEF FlagsOK
<1>2. DataOK
  BY DEF DataOK, PcValues, NoRange, NoWindow
<1>3. CoveredIsWritten /\ ReadInv /\ WindowInv
  BY DEF CoveredIsWritten, ReadInv, WindowInv, Reads, Acquires
<1>4. QED
  BY <1>1, <1>2, <1>3 DEF IInv, TypeOK

\* What fstat says stays a Boolean and a size.
LEMMA OpenFlags ==
  ASSUME TypeOK, NEW p \in Procs, Open(p)
  PROVE  FlagsOK'
<1> DEFINE Stats == [mirror : BOOLEAN, sidecar : {"empty", "torn", "whole"}]
<1>1. NoStat \in Stats
  BY Zenon DEF NoStat
<1>2. [mirror |-> mirror_sized, sidecar |-> "empty"] \in Stats
  BY Zenon DEF TypeOK, FlagsOK
<1>3. stat \in [Procs -> Stats]
  BY Zenon DEF TypeOK, FlagsOK
<1>4. [stat[p] EXCEPT !.sidecar = sidecar] \in Stats
  <2>1. stat[p] \in Stats /\ sidecar \in {"empty", "torn", "whole"}
    BY <1>3 DEF TypeOK, DataOK
  <2>2. QED
    BY <2>1
<1> HIDE DEF Stats
<1>5. stat' \in [Procs -> Stats]
  BY <1>1, <1>2, <1>3, <1>4 DEF Open, OpenMirror, OpenSidecar, SizeMirror, WriteHeader, WriteZeros,
     Load, Opened, memory
<1>6. mirror_sized' \in BOOLEAN
  <2>1. CASE UNCHANGED mirror_sized
    BY <2>1 DEF TypeOK, FlagsOK
  <2>2. CASE mirror_sized' = TRUE
    BY <2>2, Zenon
  <2>3. QED
    BY <2>1, <2>2 DEF Open, OpenMirror, OpenSidecar, SizeMirror, WriteHeader, WriteZeros, Load, files
<1>7. QED
  BY <1>5, <1>6, Zenon DEF FlagsOK, Stats

\* Opening the store: the process's locals are not yet in use.
LEMMA OpenIInv ==
  ASSUME IInv, NEW p \in Procs, Open(p)
  PROVE  IInv'
<1>1. /\ UNCHANGED <<written, range, chunk, window>>
      /\ pc[p] \notin Reads /\ pc'[p] \notin Reads
      /\ \A q \in Procs : q # p => pc'[q] = pc[q] /\ coverage'[q] = coverage[q]
      /\ pc' \in [Procs -> PcValues]
      /\ coverage' \in [Procs -> SUBSET Chunks] /\ coverage'[p] \subseteq written
      /\ bitmap' \subseteq written /\ bitmap' \subseteq Chunks
      /\ sidecar' \in {"empty", "torn", "whole"}
  <2> USE DEF IInv, TypeOK, DataOK, CoveredIsWritten, Reads, PcValues, GoTo, Opened, memory, files
  <2>1. CASE OpenMirror(p)
    BY <2>1 DEF OpenMirror
  <2>2. CASE OpenSidecar(p)
    BY <2>2 DEF OpenSidecar
  <2>3. CASE SizeMirror(p)
    BY <2>3 DEF SizeMirror, FlagsOK
  <2>4. CASE WriteHeader(p)
    BY <2>4 DEF WriteHeader
  <2>5. CASE WriteZeros(p)
    BY <2>5 DEF WriteZeros
  <2>6. CASE Load(p)
    BY <2>6 DEF Load
  <2>7. QED
    BY <2>1, <2>2, <2>3, <2>4, <2>5, <2>6 DEF Open
<1>2. TypeOK'
  BY <1>1, OpenFlags DEF IInv, TypeOK, DataOK
<1>3. CoveredIsWritten'
  BY <1>1 DEF IInv, CoveredIsWritten
<1>4. ReadInv'
  BY <1>1 DEF IInv, ReadInv, Reads
<1>5. WindowInv'
  BY <1>1 DEF IInv, WindowInv, Reads, Acquires
<1>6. QED
  BY <1>2, <1>3, <1>4, <1>5 DEF IInv

-------------------------------------------------------------------------------
\* What Advance does with the window of a process: its next chunk stays inside,
\* and the phase ends after the last one.
AdvanceOK(p, here, after) ==
  LET w == window[p]  v == window'[p] IN
  /\ pc' \in [Procs -> PcValues]
  /\ window' \in [Procs -> [from : Chunks, to : Chunks, next : Chunks]]
  /\ \A q \in Procs : q # p => pc'[q] = pc[q] /\ window'[q] = window[q]
  /\ v.from = w.from /\ v.to = w.to
  /\ \/ w.next = w.to /\ v.next = w.from /\ pc'[p] = after
     \/ w.next < w.to /\ v.next = w.next + 1 /\ pc'[p] = here

LEMMA AdvanceLemma ==
  ASSUME DataOK, WindowInv, NEW p \in Procs, pc[p] \in Acquires,
         NEW here \in PcValues, NEW after \in PcValues, Advance(p, here, after)
  PROVE  AdvanceOK(p, here, after)
<1> USE ProgressiveAssumption DEF Chunks
<1> DEFINE W == [from : Chunks, to : Chunks, next : Chunks]
           w == window[p]
<1>1. /\ window \in [Procs -> W] /\ pc \in [Procs -> PcValues]
      /\ w \in W /\ w.next \in Int /\ w.to \in Int /\ w.from \in Chunks /\ w.next <= w.to
  BY DEF DataOK, WindowInv
<1>2. PICK n \in Chunks, place \in PcValues :
        /\ window' = [window EXCEPT ![p].next = n] /\ pc' = [pc EXCEPT ![p] = place]
        /\ \/ w.next = w.to /\ n = w.from /\ place = after
           \/ w.next < w.to /\ n = w.next + 1 /\ place = here
  <2>1. CASE w.next = w.to
    BY <1>1, <2>1 DEF Advance, GoTo
  <2>2. CASE w.next # w.to
    <3>1. w.next < w.to /\ w.next + 1 \in Chunks
      BY <1>1, <2>2
    <3>2. QED
      BY <1>1, <2>2, <3>1 DEF Advance, GoTo
  <2>3. QED
    BY <2>1, <2>2
<1>3. [w EXCEPT !.next = n] \in W
  BY <1>1
<1>4. /\ window'[p] = [w EXCEPT !.next = n] /\ pc'[p] = place
      /\ \A q \in Procs : q # p => pc'[q] = pc[q] /\ window'[q] = window[q]
  BY <1>1, <1>2
<1>5. /\ window'[p].from = w.from /\ window'[p].to = w.to /\ window'[p].next = n
  BY <1>1, <1>4
<1>6. pc' \in [Procs -> PcValues]
  BY <1>1, <1>2
<1>7. window' \in [Procs -> W]
  <2> HIDE DEF W
  <2> QED
    BY <1>1, <1>2, <1>3
<1>8. QED
  BY <1>2, <1>4, <1>5, <1>6, <1>7 DEF AdvanceOK

\* Reading: one step of a read, or its beginning, changes only its process's
\* locals, adds bytes to the mirror, and publishes bits that have them.
LEMMA ReadIInv ==
  ASSUME IInv, NEW p \in Procs, Read(p) \/ ReadRange(p)
  PROVE  IInv'
<1> USE ProgressiveAssumption DEF GoTo, Return, memory, files, Chunks
<1> TypeOK /\ DataOK /\ CoveredIsWritten /\ ReadInv /\ WindowInv
  BY DEF IInv, TypeOK
<1>1. FlagsOK'
  <2>1. UNCHANGED <<mirror_sized, stat>>
    BY DEF Read, ReadRange, Scan, Fetch, ReadFails, WriteChunk, Publish, ReadLocal
  <2>2. QED
    BY <2>1 DEF TypeOK, FlagsOK
<1>2. CASE Read(p)
  <2> USE <1>2 DEF Read
  <2>1. DataOK'
    BY DEF DataOK, PcValues
  <2>2. CoveredIsWritten'
    BY DEF CoveredIsWritten
  <2>3. ReadInv' /\ WindowInv'
    BY DEF ReadInv, Reads, WindowInv, Acquires, DataOK
  <2>4. QED
    BY <1>1, <2>1, <2>2, <2>3 DEF IInv, TypeOK
<1>3. CASE Scan(p)
  <2> USE <1>3 DEF Scan
  <2>1. DataOK'
    <3>1. pc' \in [Procs -> PcValues]
      BY DEF DataOK, PcValues
    <3>2. chunk' \in [Procs -> 0..NChunks]
      BY DEF DataOK
    <3>3. window' \in [Procs -> [from : Chunks, to : Chunks, next : Chunks]]
      <4> DEFINE W == [from : Chunks, to : Chunks, next : Chunks]
      <4>1. CASE UNCHANGED window
        BY <4>1 DEF DataOK
      <4>2. CASE \E to \in chunk[p]..range[p].last :
                   window' = [window EXCEPT ![p] = [from |-> chunk[p], to |-> to, next |-> chunk[p]]]
        <5>1. PICK to \in chunk[p]..range[p].last :
                window' = [window EXCEPT ![p] = [from |-> chunk[p], to |-> to, next |-> chunk[p]]]
          BY <4>2
        <5> DEFINE v == [from |-> chunk[p], to |-> to, next |-> chunk[p]]
        <5>2. v \in W /\ window \in [Procs -> W]
          BY <5>1 DEF DataOK
        <5> HIDE DEF W, v
        <5>3. window' \in [Procs -> W]
          BY <5>1, <5>2 DEF v
        <5>4. QED
          BY <5>3 DEF W
      <4>3. QED
        BY <4>1, <4>2
    <3>4. QED
      BY <3>1, <3>2, <3>3 DEF DataOK
  <2>2. CoveredIsWritten'
    BY DEF CoveredIsWritten
  <2>3. ReadInv'
    <3>1. \A q \in Procs : q # p => pc'[q] = pc[q] /\ chunk'[q] = chunk[q]
      BY DEF DataOK
    <3>2. /\ pc[p] = "scan" /\ UNCHANGED <<range, coverage>>
          /\ chunk'[p] = chunk[p] \/ (chunk'[p] = chunk[p] + 1 /\ chunk[p] \in coverage[p])
          /\ pc'[p] = "local" => chunk'[p] = chunk[p] /\ range[p].last < chunk[p]
      BY DEF DataOK
    <3>3. chunk[p] \in Int
      BY DEF DataOK
    <3>4. QED
      BY <3>1, <3>2, <3>3 DEF ReadInv, Reads
  <2>4. WindowInv'
    BY DEF WindowInv, Acquires, DataOK
  <2>5. QED
    BY <1>1, <2>1, <2>2, <2>3, <2>4 DEF IInv, TypeOK
<1>4. CASE Fetch(p)
  <2> USE <1>4 DEF Fetch
  <2>1. DataOK'
    BY DEF DataOK, PcValues
  <2>2. CoveredIsWritten'
    BY DEF CoveredIsWritten
  <2>3. ReadInv' /\ WindowInv'
    BY DEF ReadInv, Reads, WindowInv, Acquires, DataOK
  <2>4. QED
    BY <1>1, <2>1, <2>2, <2>3 DEF IInv, TypeOK
<1>5. CASE ReadFails(p) \/ ReadLocal(p)
  <2> USE <1>5 DEF ReadFails, ReadLocal, NoRange, NoWindow
  <2>1. DataOK'
    <3>1. pc' \in [Procs -> PcValues]
      BY ZenonT(60) DEF DataOK, PcValues
    <3>2. UNCHANGED <<written, bitmap, sidecar, coverage>>
      OBVIOUS
    <3>3. range' \in [Procs -> [first : Chunks, last : Chunks]]
      BY SMTT(60) DEF DataOK
    <3>4. chunk' \in [Procs -> 0..NChunks]
      BY SMTT(60) DEF DataOK
    <3>5. window' \in [Procs -> [from : Chunks, to : Chunks, next : Chunks]]
      <4> DEFINE W == [from : Chunks, to : Chunks, next : Chunks]
      <4>1. window \in [Procs -> W] /\ NoWindow \in W /\ window' = [window EXCEPT ![p] = NoWindow]
        BY DEF DataOK
      <4> HIDE DEF W, NoWindow
      <4>2. window' \in [Procs -> W]
        BY <4>1
      <4>3. QED
        BY <4>2 DEF W
    <3>6. QED
      BY <3>1, <3>2, <3>3, <3>4, <3>5 DEF DataOK
  <2>2. CoveredIsWritten'
    BY DEF CoveredIsWritten
  <2>3. ReadInv' /\ WindowInv'
    BY SMTT(60) DEF ReadInv, Reads, WindowInv, Acquires, DataOK
  <2>4. QED
    BY <1>1, <2>1, <2>2, <2>3 DEF IInv, TypeOK
<1>6. CASE WriteChunk(p)
  <2> USE <1>6 DEF WriteChunk
  <2>1. AdvanceOK(p, "write", "publish")
    <3>1. /\ pc[p] \in Acquires /\ "write" \in PcValues /\ "publish" \in PcValues
          /\ Advance(p, "write", "publish")
      BY DEF Acquires, PcValues
    <3>2. QED
      BY <3>1, AdvanceLemma
  <2>2. written' = written \cup {window[p].next} /\ pc[p] = "write"
    OBVIOUS
  <2>3. DataOK'
    BY <2>1 DEF DataOK, AdvanceOK
  <2>4. CoveredIsWritten'
    BY DEF CoveredIsWritten
  <2>5. ReadInv'
    BY <2>1 DEF ReadInv, Reads, DataOK, AdvanceOK
  <2>6. WindowInv'
    <3> SUFFICES ASSUME NEW q \in Procs PROVE WindowInv!(q)'
      BY DEF WindowInv
    <3>1. CASE q # p
      BY <2>1, <2>2, <3>1 DEF WindowInv, Acquires, AdvanceOK
    <3>2. CASE q = p
      <4>1. window[p].from \in Int /\ window[p].next \in Int /\ window[p].to \in Int
        BY DEF DataOK
      <4>2. /\ window[p].from = chunk[p] /\ window[p].from <= window[p].next
            /\ window[p].next <= window[p].to
            /\ \A k \in Chunks : window[p].from <= k /\ k < window[p].next => k \in written
        BY <2>2 DEF WindowInv, Acquires
      <4>3. QED
        BY SMTT(60), <2>1, <2>2, <3>2, <4>1, <4>2 DEF Acquires, AdvanceOK
    <3>3. QED
      BY <3>1, <3>2
  <2>7. QED
    BY <1>1, <2>3, <2>4, <2>5, <2>6 DEF IInv, TypeOK
<1>7. CASE Publish(p)
  <2> USE <1>7 DEF Publish
  <2>1. AdvanceOK(p, "publish", "scan")
    <3>1. /\ pc[p] \in Acquires /\ "publish" \in PcValues /\ "scan" \in PcValues
          /\ Advance(p, "publish", "scan")
      BY DEF Acquires, PcValues
    <3>2. QED
      BY <3>1, AdvanceLemma
  <2>2. window[p].next \in written
    BY DEF WindowInv, Acquires, DataOK
  <2>3. /\ pc[p] = "publish"
        /\ coverage' = [coverage EXCEPT ![p] = @ \cup {window[p].next}]
        /\ chunk' = [chunk EXCEPT ![p] =
                      IF window[p].next = window[p].to THEN window[p].next + 1 ELSE @]
        /\ UNCHANGED <<written, sidecar, range>>
    OBVIOUS
  <2>4. bitmap' \subseteq bitmap \cup coverage[p] \cup {window[p].next}
    OBVIOUS
  <2>5. window[p].next \in Chunks /\ window[p].from \in Chunks /\ window[p].to \in Chunks
    BY DEF DataOK
  <2> HIDE DEF Publish
  <2>6. DataOK'
    <3>1. bitmap' \subseteq Chunks /\ coverage' \in [Procs -> SUBSET Chunks]
      BY <2>3, <2>4, <2>5 DEF DataOK
    <3>2. chunk' \in [Procs -> 0..NChunks]
      BY <2>3, <2>5 DEF DataOK
    <3>3. /\ written \subseteq Chunks /\ sidecar \in {"empty", "torn", "whole"}
          /\ range \in [Procs -> [first : Chunks, last : Chunks]]
      BY DEF DataOK
    <3>4. QED
      BY <2>1, <2>3, <3>1, <3>2, <3>3 DEF DataOK, AdvanceOK
  <2>7. CoveredIsWritten'
    BY <2>2, <2>3, <2>4 DEF CoveredIsWritten, DataOK
  <2>8. chunk[p] = window[p].from /\ window[p].from <= window[p].next /\ window[p].next <= window[p].to
    BY <2>3 DEF WindowInv, Acquires
  <2>9. /\ \A k \in Chunks : window[p].from <= k /\ k <= window[p].to => k \in written
        /\ \A k \in Chunks : window[p].from <= k /\ k < window[p].next => k \in coverage[p]
    BY <2>3 DEF WindowInv
  <2>10. \A q \in Procs : q # p => coverage'[q] = coverage[q] /\ chunk'[q] = chunk[q]
    BY <2>3 DEF DataOK
  <2>11. /\ coverage'[p] = coverage[p] \cup {window[p].next}
         /\ chunk'[p] = IF window[p].next = window[p].to THEN window[p].next + 1 ELSE chunk[p]
    BY <2>3 DEF DataOK
  <2>12. ReadInv'
    <3> SUFFICES ASSUME NEW q \in Procs PROVE ReadInv!(q)'
      BY DEF ReadInv
    <3>1. CASE q # p
      BY <2>1, <2>3, <2>10, <3>1 DEF ReadInv, Reads, AdvanceOK
    <3>2. CASE q = p
      <4>1. \A k \in Chunks : range[p].first <= k /\ k < chunk[p] => k \in coverage[p]
        BY <2>3 DEF ReadInv, Reads
      <4>2. \A k \in Chunks : range'[p].first <= k /\ k < chunk'[p] => k \in coverage'[p]
        BY <2>3, <2>5, <2>8, <2>9, <2>11, <4>1
      <4>3. pc'[p] # "local"
        BY <2>1 DEF AdvanceOK
      <4>4. QED
        BY <3>2, <4>2, <4>3
    <3>3. QED
      BY <3>1, <3>2
  <2>13. WindowInv'
    <3> SUFFICES ASSUME NEW q \in Procs PROVE WindowInv!(q)'
      BY DEF WindowInv
    <3>1. CASE q # p
      BY ZenonT(60), <2>1, <2>3, <2>10, <3>1 DEF WindowInv, Acquires, AdvanceOK
    <3>2. CASE q = p
      <4>1. CASE window[p].next = window[p].to
        <5>1. pc'[p] = "scan"
          BY <2>1, <2>5, <4>1 DEF AdvanceOK
        <5>2. QED
          BY <3>2, <5>1 DEF Acquires
      <4>2. CASE window[p].next # window[p].to
        <5>1. /\ pc'[p] = "publish" /\ window[p].next < window[p].to
              /\ window'[p].from = window[p].from /\ window'[p].to = window[p].to
              /\ window'[p].next = window[p].next + 1 /\ chunk'[p] = chunk[p]
          BY <2>1, <2>5, <2>8, <2>11, <4>2 DEF AdvanceOK
        <5>2. \A k \in Chunks : window'[p].from <= k /\ k < window'[p].next => k \in coverage'[p]
          BY <2>5, <2>9, <2>11, <5>1
        <5>3. \A k \in Chunks : window'[p].from <= k /\ k <= window'[p].to => k \in written'
          BY <2>3, <2>9, <5>1
        <5>4. /\ window'[p].from = chunk'[p] /\ window'[p].from <= window'[p].next
              /\ window'[p].next <= window'[p].to
          BY <2>5, <2>8, <5>1
        <5>5. QED
          BY <3>2, <5>1, <5>2, <5>3, <5>4
      <4>3. QED
        BY <4>1, <4>2
    <3>3. QED
      BY <3>1, <3>2
  <2>14. QED
    BY <1>1, <2>6, <2>7, <2>12, <2>13 DEF IInv, TypeOK
<1>8. QED
  BY <1>2, <1>3, <1>4, <1>5, <1>6, <1>7 DEF ReadRange

-------------------------------------------------------------------------------
\* Stopping: the files stay, the process forgets.
LEMMA StopIInv ==
  ASSUME IInv, NEW p \in Procs, Stop(p)
  PROVE  IInv'
<1> USE ProgressiveAssumption DEF Stop, GoTo, files, Chunks, IInv
<1>1. FlagsOK'
  <2>1. NoStat \in [mirror : BOOLEAN, sidecar : {"empty", "torn", "whole"}]
    BY Zenon DEF NoStat
  <2>2. QED
    BY <2>1 DEF TypeOK, FlagsOK
<1>2. NoRange \in [first : Chunks, last : Chunks] /\ NoWindow \in [from : Chunks, to : Chunks, next : Chunks]
  BY DEF NoRange, NoWindow
<1>3. DataOK'
  <2>1. /\ pc' \in [Procs -> PcValues] /\ coverage' \in [Procs -> SUBSET Chunks]
        /\ chunk' \in [Procs -> 0..NChunks] /\ UNCHANGED <<written, bitmap, sidecar>>
    BY DEF TypeOK, DataOK, PcValues
  <2>2. range' \in [Procs -> [first : Chunks, last : Chunks]]
    BY <1>2 DEF TypeOK, DataOK
  <2>3. window' \in [Procs -> [from : Chunks, to : Chunks, next : Chunks]]
    <3> DEFINE W == [from : Chunks, to : Chunks, next : Chunks]
    <3>1. window \in [Procs -> W] /\ NoWindow \in W
      BY <1>2 DEF TypeOK, DataOK
    <3> HIDE DEF W
    <3>2. window' \in [Procs -> W]
      BY <3>1
    <3>3. QED
      BY <3>2 DEF W
  <2>4. QED
    BY <2>1, <2>2, <2>3 DEF DataOK, TypeOK
<1>4. CoveredIsWritten'
  BY DEF CoveredIsWritten, TypeOK, DataOK
<1>5. ReadInv' /\ WindowInv'
  BY DEF ReadInv, WindowInv, Reads, Acquires, TypeOK, DataOK
<1>6. QED
  BY <1>1, <1>3, <1>4, <1>5 DEF TypeOK

\* No step of any process breaks the invariant.
LEMMA StepIInv == IInv /\ [Next]_vars => IInv'
<1> SUFFICES ASSUME IInv, [Next]_vars PROVE IInv'
  OBVIOUS
<1>1. CASE UNCHANGED vars
  BY <1>1 DEF vars, files, memory, IInv, TypeOK, FlagsOK, DataOK, CoveredIsWritten, ReadInv, WindowInv
<1>2. CASE Next
  BY <1>2, OpenIInv, ReadIInv, StopIInv DEF Next
<1>3. QED
  BY <1>1, <1>2

LEMMA Invariance == Spec => []IInv
  BY InitIInv, StepIInv, PTL DEF Spec

-------------------------------------------------------------------------------
\* Files and processes are well typed: windows and bits stay inside the file.
THEOREM TypeCorrect == Spec => []TypeOK
<1>1. IInv => TypeOK
  BY DEF IInv
<1>2. QED
  BY <1>1, Invariance, PTL

\* However many processes share a store and wherever each of them is stopped,
\* a coverage bit stands for bytes that are in the mirror.
THEOREM CoverageIsSound == Spec => []CoveredIsWritten
<1>1. IInv => CoveredIsWritten
  BY DEF IInv
<1>2. QED
  BY <1>1, Invariance, PTL

\* A successful read never returns a hole.
THEOREM NoHoleIsRead == Spec => []ReadsAreWhole
<1>1. IInv => ReadsAreWhole
  <2> SUFFICES ASSUME IInv, NEW p \in Procs, pc[p] = "local"
               PROVE  range[p].first..range[p].last \subseteq written
    BY DEF ReadsAreWhole
  <2>1. range[p].first \in Chunks /\ range[p].last \in Chunks /\ chunk[p] \in Int
    BY ProgressiveAssumption DEF IInv, TypeOK, DataOK, Chunks
  <2>2. range[p].last < chunk[p]
    BY DEF IInv, ReadInv
  <2>3. \A k \in Chunks : range[p].first <= k /\ k < chunk[p] => k \in coverage[p]
    BY DEF IInv, ReadInv, Reads
  <2>4. range[p].first..range[p].last \subseteq coverage[p]
    BY ProgressiveAssumption, <2>1, <2>2, <2>3 DEF Chunks
  <2>5. QED
    BY <2>4 DEF IInv, CoveredIsWritten
<1>2. QED
  BY <1>1, Invariance, PTL

-------------------------------------------------------------------------------
(***************************************************************************)
(* A process that has the store to itself knows every bit of the bitmap    *)
(* once the store is open, and makes a bitmap only where there was none.   *)
(***************************************************************************)
Alone == \A p, q \in Procs : p = q

IsOpen == {"ready"} \cup Reads

MissingRun(p) ==
  LET w == window[p] IN w.to - w.from < Window /\ (w.from..w.to) \cap coverage[p] = {}

AloneInv ==
  /\ sidecar # "whole" => bitmap = {}
  /\ \A p \in Procs :
       /\ pc[p] \in IsOpen \cup {"load"} => sidecar = "whole"
       /\ pc[p] \in IsOpen => bitmap \subseteq coverage[p]
       /\ pc[p] = "sizing" => stat[p].sidecar = sidecar
       /\ pc[p] \in {"header", "zeros"} => sidecar # "whole"
       /\ pc[p] = "fetch" => MissingRun(p)

LEMMA OpenAlone ==
  ASSUME Alone, IInv, AloneInv, NEW p \in Procs, Open(p)
  PROVE  AloneInv' /\ bitmap \subseteq bitmap'
<1> DEFINE Stats == [mirror : BOOLEAN, sidecar : {"empty", "torn", "whole"}]
<1>1. /\ pc \in [Procs -> PcValues] /\ coverage \in [Procs -> SUBSET Chunks] /\ stat \in [Procs -> Stats]
      /\ stat[p] \in Stats /\ sidecar \in {"empty", "torn", "whole"} /\ \A q \in Procs : q = p
  BY DEF IInv, TypeOK, DataOK, FlagsOK, Alone
<1> USE DEF AloneInv, IsOpen, Reads, GoTo, Opened, memory, files
<1>2. CASE OpenMirror(p)
  BY <1>1, <1>2 DEF OpenMirror
<1>3. CASE OpenSidecar(p)
  <2>1. stat'[p].sidecar = sidecar /\ pc'[p] \in {"failed", "sizing"} /\ UNCHANGED <<sidecar, bitmap>>
    BY <1>1, <1>3 DEF OpenSidecar
  <2>2. QED
    BY <1>1, <2>1
<1>4. CASE SizeMirror(p)
  <2>1. /\ pc[p] = "sizing" /\ UNCHANGED <<sidecar, bitmap>> /\ stat[p].sidecar = sidecar
        /\ \/ sidecar = "empty" /\ pc'[p] = "header"
           \/ sidecar = "torn" /\ pc'[p] = "failed"
           \/ sidecar = "whole" /\ pc'[p] = "load"
    BY <1>1, <1>4 DEF SizeMirror
  <2>2. QED
    BY <1>1, <2>1
<1>5. CASE WriteHeader(p)
  BY <1>1, <1>5 DEF WriteHeader
<1>6. CASE WriteZeros(p)
  BY <1>1, <1>6 DEF WriteZeros
<1>7. CASE Load(p)
  BY <1>1, <1>7 DEF Load
<1>8. QED
  BY <1>2, <1>3, <1>4, <1>5, <1>6, <1>7 DEF Open

LEMMA ReadAlone ==
  ASSUME Alone, IInv, AloneInv, NEW p \in Procs, Read(p) \/ ReadRange(p)
  PROVE  AloneInv' /\ bitmap \subseteq bitmap'
<1> DEFINE W == [from : Chunks, to : Chunks, next : Chunks]
<1>1. /\ pc \in [Procs -> PcValues] /\ coverage \in [Procs -> SUBSET Chunks] /\ \A q \in Procs : q = p
      /\ window \in [Procs -> W]
  BY DEF IInv, TypeOK, DataOK, Alone
<1>2. pc[p] \in IsOpen /\ sidecar = "whole" /\ bitmap \subseteq coverage[p]
  BY DEF AloneInv, IsOpen, Reads, Read, ReadRange, Scan, Fetch, ReadFails, WriteChunk, Publish, ReadLocal
<1>3. UNCHANGED sidecar /\ pc'[p] \in IsOpen
  BY <1>1 DEF IsOpen, Reads, GoTo, Return, Advance, files, Read, ReadRange, Scan, Fetch, ReadFails,
     WriteChunk, Publish, ReadLocal
<1>4. bitmap \subseteq bitmap' /\ bitmap' \subseteq coverage'[p]
  <2>1. CASE Publish(p)
    BY <1>1, <1>2, <2>1 DEF Publish
  <2>2. CASE Read(p) \/ Scan(p) \/ Fetch(p) \/ ReadFails(p) \/ WriteChunk(p) \/ ReadLocal(p)
    BY <1>2, <2>2 DEF Read, Scan, Fetch, ReadFails, WriteChunk, ReadLocal, Return, files, memory
  <2>3. QED
    BY <2>1, <2>2 DEF ReadRange
<1>5. pc'[p] = "fetch" => MissingRun(p)'
  <2>1. CASE Scan(p)
    <3> SUFFICES ASSUME pc'[p] = "fetch" PROVE MissingRun(p)'
      OBVIOUS
    <3>1. PICK to : /\ WindowEnds(p, chunk[p], to)
                    /\ window' = [window EXCEPT ![p] = [from |-> chunk[p], to |-> to, next |-> chunk[p]]]
                    /\ coverage' = coverage
      BY <1>1, <2>1 DEF Scan, GoTo
    <3>2. window'[p].from = chunk[p] /\ window'[p].to = to
      BY <1>1, <3>1
    <3>3. QED
      BY <3>1, <3>2 DEF MissingRun, WindowEnds
  <2>2. CASE Read(p) \/ Fetch(p) \/ ReadFails(p) \/ WriteChunk(p) \/ Publish(p) \/ ReadLocal(p)
    <3>1. pc'[p] # "fetch"
      BY <1>1, <2>2 DEF Read, Fetch, ReadFails, WriteChunk, Publish, ReadLocal, Return, Advance, GoTo
    <3>2. QED
      BY <3>1
  <2>3. QED
    BY <2>1, <2>2 DEF ReadRange
<1>6. QED
  BY <1>1, <1>2, <1>3, <1>4, <1>5 DEF AloneInv, IsOpen, Reads

\* Neither opening, reading nor stopping takes a bit out of the bitmap.
LEMMA StepAlone ==
  ASSUME Alone, IInv, AloneInv, Next
  PROVE  AloneInv' /\ bitmap \subseteq bitmap'
<1>1. PICK p \in Procs : Open(p) \/ Read(p) \/ ReadRange(p) \/ Stop(p)
  BY DEF Next
<1>2. CASE Stop(p)
  <2>1. pc \in [Procs -> PcValues] /\ \A q \in Procs : q = p
    BY DEF IInv, TypeOK, DataOK, Alone
  <2>2. pc'[p] = "closed" /\ UNCHANGED <<sidecar, bitmap>>
    BY <1>2, <2>1 DEF Stop, GoTo, files
  <2>3. QED
    BY <2>1, <2>2 DEF AloneInv, IsOpen, Reads
<1>3. QED
  BY <1>1, <1>2, OpenAlone, ReadAlone

LEMMA AloneInvariance ==
  ASSUME Alone
  PROVE  Spec => [](IInv /\ AloneInv)
<1>1. Init => AloneInv
  BY DEF Init, AloneInv, IsOpen, Reads
<1>2. IInv /\ AloneInv /\ [Next]_vars => AloneInv'
  <2>1. ASSUME AloneInv, UNCHANGED vars PROVE AloneInv'
    BY <2>1 DEF vars, files, memory, AloneInv, MissingRun
  <2>2. QED
    BY <2>1, StepAlone
<1>3. QED
  BY <1>1, <1>2, InitIInv, StepIInv, PTL DEF Spec

\* What a process that has the store to itself fetches is one missing run, no
\* longer than the window, of which nothing was published before.
THEOREM FetchesMissing ==
  ASSUME Alone
  PROVE  Spec => []FetchesAreMissingRuns
<1>1. IInv /\ AloneInv => FetchesAreMissingRuns
  BY DEF AloneInv, MissingRun, FetchesAreMissingRuns, IsOpen, Reads
<1>2. QED
  BY <1>1, AloneInvariance, PTL

\* What it has published stays published, through every stop and restart.
THEOREM PublishedRemains ==
  ASSUME Alone
  PROVE  Spec => PublishedStays
<1>1. IInv /\ AloneInv /\ [Next]_vars => [bitmap \subseteq bitmap']_bitmap
  BY StepAlone DEF vars, files
<1>2. QED
  BY <1>1, AloneInvariance, PTL DEF Spec, PublishedStays
===============================================================================
