--------------------------- MODULE ProgressiveSource ---------------------------
(***************************************************************************)
(* ProgressiveRangeSource (integrations/ggml/src/vbuf_range_source.cpp): a *)
(* local mirror of a remote file, filled chunk by chunk, with a sidecar    *)
(* file that has one coverage bit per chunk.  A process that crashes loses *)
(* its memory and keeps what it has written to the two files.  Several     *)
(* processes may open the same store; inside one, read_range holds a mutex *)
(* throughout, so a process does one read at a time.                       *)
(***************************************************************************)
EXTENDS Integers, FiniteSets

CONSTANTS
  Procs,
  NChunks,        \* chunk_count()
  ByteBits,       \* chunks whose bits share a byte of the bitmap (8 in the code)
  Window,         \* PROGRESSIVE_MAX_ACQUISITION_CHUNKS
  Faults          \* whether remote reads and local writes may fail

ASSUME ProgressiveAssumption ==
  /\ NChunks \in Nat \ {0} /\ ByteBits \in Nat \ {0} /\ Window \in Nat \ {0}
  /\ Faults \in BOOLEAN

Chunks == 0..(NChunks - 1)

VARIABLES
  \* The files.
  mirror_sized,   \* the mirror has the declared size, not 0
  written,        \* chunks of the mirror that hold the source's bytes
  sidecar,        \* size of the sidecar: "empty", "torn" or "whole"
  bitmap,         \* chunks whose bit is set in the sidecar
  \* The processes.
  pc,             \* where open_store or read_range of the process is
  stat,           \* [mirror, sidecar]: what fstat said when the store was opened
  coverage,       \* coverage_: the process's copy of the bitmap
  range,          \* [first, last]: chunks of the read in progress
  chunk,          \* chunk: the next one to look at
  window          \* [from, to, next]: acquisition window, and its next chunk to write or publish

files == <<mirror_sized, written, sidecar, bitmap>>
memory == <<stat, coverage, range, chunk, window>>
vars == <<files, pc, memory>>

PcValues == {"closed", "opening", "sizing", "header", "zeros", "load", "failed",
             "ready", "scan", "fetch", "write", "publish", "local"}

NoStat == [mirror |-> FALSE, sidecar |-> "empty"]
NoRange == [first |-> 0, last |-> 0]
NoWindow == [from |-> 0, to |-> 0, next |-> 0]

Init ==
  /\ mirror_sized = FALSE /\ written = {} /\ sidecar = "empty" /\ bitmap = {}
  /\ pc = [p \in Procs |-> "closed"]
  /\ stat = [p \in Procs |-> NoStat]
  /\ coverage = [p \in Procs |-> {}]
  /\ range = [p \in Procs |-> NoRange]
  /\ chunk = [p \in Procs |-> 0]
  /\ window = [p \in Procs |-> NoWindow]

GoTo(p, place) == pc' = [pc EXCEPT ![p] = place]

\* open_store succeeds: its locals go.
Opened(p) == GoTo(p, "ready") /\ stat' = [stat EXCEPT ![p] = NoStat]

\* read_range returns: its locals go.
Return(p) ==
  /\ GoTo(p, "ready")
  /\ range' = [range EXCEPT ![p] = NoRange]
  /\ chunk' = [chunk EXCEPT ![p] = 0]
  /\ window' = [window EXCEPT ![p] = NoWindow]
  /\ UNCHANGED <<stat, coverage>>

-------------------------------------------------------------------------------
(* open_store. *)

OpenMirror(p) ==
  /\ pc[p] = "closed"
  /\ stat' = [stat EXCEPT ![p] = [mirror |-> mirror_sized, sidecar |-> "empty"]]
  /\ GoTo(p, "opening")
  /\ UNCHANGED <<files, coverage, range, chunk, window>>

OpenSidecar(p) ==
  /\ pc[p] = "opening"
  /\ stat' = [stat EXCEPT ![p].sidecar = sidecar]
  /\ GoTo(p, IF ~stat[p].mirror /\ sidecar # "empty" THEN "failed" ELSE "sizing")
  /\ UNCHANGED <<files, coverage, range, chunk, window>>

\* An empty mirror gets its size; the sidecar is new, of the wrong size, or read.
SizeMirror(p) ==
  /\ pc[p] = "sizing"
  /\ mirror_sized' = TRUE
  /\ GoTo(p, CASE stat[p].sidecar = "empty" -> "header"
               [] stat[p].sidecar = "torn"  -> "failed"
               [] stat[p].sidecar = "whole" -> "load")
  /\ UNCHANGED <<written, sidecar, bitmap, memory>>

\* initialize_sidecar: the header, then a bitmap of zeros.
WriteHeader(p) ==
  /\ pc[p] = "header"
  /\ sidecar' = IF sidecar = "empty" THEN "torn" ELSE sidecar
  /\ coverage' = [coverage EXCEPT ![p] = {}]
  /\ GoTo(p, "zeros")
  /\ UNCHANGED <<mirror_sized, written, bitmap, stat, range, chunk, window>>

WriteZeros(p) ==
  /\ pc[p] = "zeros"
  /\ sidecar' = "whole" /\ bitmap' = {}
  /\ Opened(p)
  /\ UNCHANGED <<mirror_sized, written, coverage, range, chunk, window>>

\* Mutant: trusts the mirror, not the sidecar.
LoadAll(p) ==
  /\ pc[p] = "load"
  /\ coverage' = [coverage EXCEPT ![p] = Chunks]
  /\ Opened(p)
  /\ UNCHANGED <<files, range, chunk, window>>

\* Mutant: starts with an empty bitmap in memory.
LoadNothing(p) ==
  /\ pc[p] = "load"
  /\ coverage' = [coverage EXCEPT ![p] = {}]
  /\ Opened(p)
  /\ UNCHANGED <<files, range, chunk, window>>

Load(p) ==
  /\ pc[p] = "load"
  /\ coverage' = [coverage EXCEPT ![p] = bitmap]
  /\ Opened(p)
  /\ UNCHANGED <<files, range, chunk, window>>

-------------------------------------------------------------------------------
(* read_range. *)

Read(p) ==
  /\ pc[p] = "ready"
  /\ \E first, last \in Chunks :
       /\ first <= last
       /\ range' = [range EXCEPT ![p] = [first |-> first, last |-> last]]
       /\ chunk' = [chunk EXCEPT ![p] = first]
  /\ GoTo(p, "scan")
  /\ UNCHANGED <<files, stat, coverage, window>>

\* The missing run that starts at from ends at to, within the read and the window size.
WindowEnds(p, from, to) ==
  /\ to - from < Window /\ (from..to) \cap coverage[p] = {}
  /\ \/ to = range[p].last \/ to - from + 1 = Window
     \/ to + 1 \in coverage[p]

\* Mutant: does not step over a chunk it has.
ScanStays(p) ==
  /\ pc[p] = "scan"
  /\ \/ /\ chunk[p] > range[p].last
        /\ GoTo(p, "local")
        /\ UNCHANGED <<chunk, window>>
     \/ /\ chunk[p] \in coverage[p] /\ chunk[p] <= range[p].last
        /\ UNCHANGED <<pc, chunk, window>>
     \/ /\ chunk[p] \notin coverage[p] /\ chunk[p] <= range[p].last
        /\ \E to \in chunk[p]..range[p].last :
             /\ WindowEnds(p, chunk[p], to)
             /\ window' = [window EXCEPT ![p] =
                  [from |-> chunk[p], to |-> to, next |-> chunk[p]]]
        /\ GoTo(p, "fetch")
        /\ UNCHANGED chunk
  /\ UNCHANGED <<files, stat, coverage, range>>

Scan(p) ==
  /\ pc[p] = "scan"
  /\ \/ /\ chunk[p] > range[p].last
        /\ GoTo(p, "local")
        /\ UNCHANGED <<chunk, window>>
     \/ /\ chunk[p] \in coverage[p] /\ chunk[p] <= range[p].last
        /\ chunk' = [chunk EXCEPT ![p] = @ + 1]
        /\ UNCHANGED <<pc, window>>
     \/ /\ chunk[p] \notin coverage[p] /\ chunk[p] <= range[p].last
        /\ \E to \in chunk[p]..range[p].last :
             /\ WindowEnds(p, chunk[p], to)
             /\ window' = [window EXCEPT ![p] =
                  [from |-> chunk[p], to |-> to, next |-> chunk[p]]]
        /\ GoTo(p, "fetch")
        /\ UNCHANGED chunk
  /\ UNCHANGED <<files, stat, coverage, range>>

\* The remote source answers with exactly the window.
Fetch(p) ==
  /\ pc[p] = "fetch"
  /\ GoTo(p, "write")
  /\ UNCHANGED <<files, memory>>

\* The remote read, a write of the mirror or a write of the bitmap fails, and with it the call.
ReadFails(p) ==
  /\ Faults
  /\ pc[p] \in {"fetch", "write", "publish"}
  /\ Return(p)
  /\ UNCHANGED files

\* After the last chunk of the window the next phase starts at its first.
Advance(p, here, after) ==
  IF window[p].next = window[p].to
  THEN /\ window' = [window EXCEPT ![p].next = window[p].from]
       /\ GoTo(p, after)
  ELSE /\ window' = [window EXCEPT ![p].next = @ + 1]
       /\ GoTo(p, here)

\* Mutant: publishes as soon as the first chunk is written.
WriteFirst(p) ==
  /\ pc[p] = "write"
  /\ written' = written \cup {window[p].next}
  /\ GoTo(p, "publish")
  /\ UNCHANGED <<mirror_sized, sidecar, bitmap, memory>>

WriteChunk(p) ==
  /\ pc[p] = "write"
  /\ written' = written \cup {window[p].next}
  /\ Advance(p, "write", "publish")
  /\ UNCHANGED <<mirror_sized, sidecar, bitmap, stat, coverage, range, chunk>>

SameByte(k) == {j \in Chunks : j \div ByteBits = k \div ByteBits}

\* Mutant: writes the chunk's bit without the others of its byte.
PublishBit(p) ==
  LET k == window[p].next IN
  /\ pc[p] = "publish"
  /\ bitmap' = (bitmap \ SameByte(k)) \cup {k}
  /\ coverage' = [coverage EXCEPT ![p] = @ \cup {k}]
  /\ Advance(p, "publish", "scan")
  /\ chunk' = [chunk EXCEPT ![p] = IF k = window[p].to THEN k + 1 ELSE @]
  /\ UNCHANGED <<mirror_sized, written, sidecar, stat, range>>

\* publish_chunk writes the whole byte, as the process knows it.
Publish(p) ==
  LET k == window[p].next IN
  /\ pc[p] = "publish"
  /\ bitmap' = (bitmap \ SameByte(k)) \cup (coverage[p] \cap SameByte(k)) \cup {k}
  /\ coverage' = [coverage EXCEPT ![p] = @ \cup {k}]
  /\ Advance(p, "publish", "scan")
  /\ chunk' = [chunk EXCEPT ![p] = IF k = window[p].to THEN k + 1 ELSE @]
  /\ UNCHANGED <<mirror_sized, written, sidecar, stat, range>>

\* The caller gets the bytes of the mirror.
ReadLocal(p) ==
  /\ pc[p] = "local"
  /\ Return(p)
  /\ UNCHANGED files

\* The process ends, is killed, or its constructor has thrown.
Stop(p) ==
  /\ pc[p] # "closed"
  /\ GoTo(p, "closed")
  /\ stat' = [stat EXCEPT ![p] = NoStat]
  /\ coverage' = [coverage EXCEPT ![p] = {}]
  /\ range' = [range EXCEPT ![p] = NoRange]
  /\ chunk' = [chunk EXCEPT ![p] = 0]
  /\ window' = [window EXCEPT ![p] = NoWindow]
  /\ UNCHANGED files

-------------------------------------------------------------------------------
Open(p) == OpenMirror(p) \/ OpenSidecar(p) \/ SizeMirror(p) \/ WriteHeader(p) \/ WriteZeros(p)
           \/ Load(p)

ReadRange(p) == Scan(p) \/ Fetch(p) \/ ReadFails(p) \/ WriteChunk(p) \/ Publish(p) \/ ReadLocal(p)

Next == \E p \in Procs : Open(p) \/ Read(p) \/ ReadRange(p) \/ Stop(p)

Spec == Init /\ [][Next]_vars

\* A read that has begun goes on as long as its process lives.
FairSpec == Spec /\ \A p \in Procs : WF_vars(ReadRange(p))

-------------------------------------------------------------------------------
(* Properties. *)

FlagsOK ==
  /\ mirror_sized \in BOOLEAN
  /\ stat \in [Procs -> [mirror : BOOLEAN, sidecar : {"empty", "torn", "whole"}]]

DataOK ==
  /\ written \subseteq Chunks /\ bitmap \subseteq Chunks
  /\ sidecar \in {"empty", "torn", "whole"}
  /\ pc \in [Procs -> PcValues]
  /\ coverage \in [Procs -> SUBSET Chunks]
  /\ range \in [Procs -> [first : Chunks, last : Chunks]]
  /\ chunk \in [Procs -> 0..NChunks]
  /\ window \in [Procs -> [from : Chunks, to : Chunks, next : Chunks]]

TypeOK == FlagsOK /\ DataOK

\* A coverage bit, on disk or in memory, stands for bytes that are in the
\* mirror, wherever the processes were stopped.
CoveredIsWritten ==
  /\ bitmap \subseteq written
  /\ \A p \in Procs : coverage[p] \subseteq written

\* A read that succeeds returns bytes of the source, never a hole.
ReadsAreWhole ==
  \A p \in Procs : pc[p] = "local" => range[p].first..range[p].last \subseteq written

\* What is fetched is one missing run, no longer than the window, and was not
\* published before: a restart fetches nothing again.
FetchesAreMissingRuns ==
  \A p \in Procs : pc[p] = "fetch" =>
    LET w == window[p] IN
    w.to - w.from < Window /\ (w.from..w.to) \cap (bitmap \cup coverage[p]) = {}

\* What one process has published stays published, through every stop and restart.
PublishedStays == [][bitmap \subseteq bitmap']_bitmap

\* A read ends, with an answer or an error.
ReadReturns ==
  \A p \in Procs : pc[p] = "scan" ~> pc[p] \in {"ready", "closed"}

\* The store opens again after every stop.
StoreOpens == \A p \in Procs : pc[p] # "failed"
===============================================================================
