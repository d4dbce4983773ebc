---------------------------- MODULE FileRecorder ----------------------------
(***************************************************************************)
(* internal/recorder/recorder.go: the raw output of a port, handed over by  *)
(* readLoop through a channel to a goroutine that appends it to a file and  *)
(* cuts the head off when the file is full.                                *)
(*                                                                         *)
(* Bytes are numbered in the order they are read from the device.  A size   *)
(* is a number of bytes.  writeLoop is the only user of the file and of     *)
(* r.mu, so its steps end where a crash finds the disk in a new state: trim *)
(* is cut between os.Create, which empties the file, and wf.Write.          *)
(***************************************************************************)
EXTENDS Integers, Sequences, SequencesExt

CONSTANTS
    MaxSize,      \* r.maxSize
    TrimSize,     \* r.trimSize
    MaxChunk,     \* longest data of one Write (readLoop's buffer)
    QueueCap,     \* capacity of writeCh (256 in the code)
    MaxOld,       \* bound: longest file left by an earlier process
    MaxBytes,     \* bound: bytes read from the device
    MaxFaults,    \* bound: file operations that fail
    MaxCrashes,   \* bound: times the process dies without Shutdown
    MayShutdown   \* TRUE if PortManager.Shutdown may run, and main then exit

\* config.go sets the sizes in megabytes and replaces a zero by 1024 or 100;
\* readLoop reads at most 1024 bytes at a time.  Nothing compares the two
\* sizes: a trim may be larger than the file it cuts.
ASSUME RecorderAssumption ==
    /\ MaxChunk \in Nat \ {0} /\ TrimSize \in Nat /\ MaxChunk <= TrimSize
    /\ MaxSize \in Nat \ {0}
    /\ QueueCap \in Nat \ {0} /\ MaxOld \in Nat /\ MaxBytes \in Nat
    /\ MaxFaults \in Nat /\ MaxCrashes \in Nat /\ MayShutdown \in BOOLEAN

VARIABLES
    disk,         \* content of the file
    file,         \* r.file is open (for appending)
    fileSize,     \* r.fileSize
    writeCh,      \* r.writeCh, a sequence of chunks
    stop,         \* r.stopCh is closed
    pc, draining, \* writeLoop: where it is, and whether in drainAndClose
    cur,          \* the chunk processWrite works on
    done,         \* history: how much of stream writeLoop has dealt with
    remaining,    \* what trim has read and not yet written back
    up,           \* the process runs
    next,         \* bytes read from the device so far (and in the old file)
    faults, crashes,
    stream,       \* history: old file, then the bytes writeCh has accepted
    atStop        \* history: length of stream when Stop was called

fs   == <<disk, file, fileSize, remaining, faults>>
loop == <<pc, draining, cur, done>>
hist == <<next, crashes, stream, atStop>>
vars == <<fs, loop, hist, writeCh, stop, up>>

Run(first, n) == [i \in 1..n |-> first + i - 1]

Bytes == 1..(MaxOld + MaxBytes)

TypeOK ==
    /\ disk \in Seq(Bytes) /\ remaining \in Seq(Bytes) /\ cur \in Seq(Bytes)
    /\ file \in BOOLEAN /\ fileSize \in Nat /\ stop \in BOOLEAN /\ up \in BOOLEAN
    /\ writeCh \in Seq(Seq(Bytes)) /\ Len(writeCh) <= QueueCap
    /\ pc \in {"select", "before", "write", "after", "rewriteB", "rewriteA", "gone"}
    /\ draining \in BOOLEAN
    /\ next \in 0..(MaxOld + MaxBytes) /\ stream \in Seq(Bytes) /\ atStop \in Nat /\ done \in Nat
    /\ faults \in 0..MaxFaults /\ crashes \in 0..MaxCrashes

\* NewFileRecorder: append to the file that is there.
Init ==
    /\ \E n \in 0..MaxOld :
          disk = Run(1, n) /\ stream = Run(1, n) /\ next = n /\ fileSize = n /\ done = n
    /\ file = TRUE /\ writeCh = <<>> /\ stop = FALSE
    /\ pc = "select" /\ draining = FALSE /\ cur = <<>> /\ remaining = <<>>
    /\ up = TRUE /\ faults = 0 /\ crashes = 0 /\ atStop = 0

-----------------------------------------------------------------------------
(* The callers: readLoop, and PortManager.Shutdown.                        *)

\* A chunk that finds the channel full is dropped.
HasRoom == Len(writeCh) < QueueCap

Write(n) ==
    /\ up /\ next + n <= MaxOld + MaxBytes
    /\ next' = next + n
    /\ IF HasRoom
       THEN /\ writeCh' = Append(writeCh, Run(next + 1, n))
            /\ stream' = stream \o Run(next + 1, n)
       ELSE UNCHANGED <<writeCh, stream>>
    /\ UNCHANGED <<fs, loop, crashes, atStop, stop, up>>

Stop ==
    /\ MayShutdown /\ up /\ ~stop /\ stop' = TRUE /\ atStop' = Len(stream)
    /\ UNCHANGED <<fs, loop, writeCh, next, crashes, stream, up>>

-----------------------------------------------------------------------------
(* writeLoop                                                               *)

Go(from, to) == up /\ pc = from /\ pc' = to /\ UNCHANGED <<hist, stop, up>>

Fault == faults < MaxFaults /\ faults' = faults + 1

Take ==
    /\ writeCh # <<>> /\ Go("select", "before")
    /\ cur' = Head(writeCh) /\ writeCh' = Tail(writeCh) /\ UNCHANGED <<fs, draining, done>>

SeeStop ==
    /\ stop /\ ~draining /\ Go("select", "select") /\ draining' = TRUE
    /\ UNCHANGED <<fs, cur, done, writeCh>>

Drained_Any == TRUE                                         \* Mutant
Drained == writeCh = <<>>

DrainEnd ==
    /\ draining /\ Drained /\ Go("select", "gone") /\ file' = FALSE
    /\ UNCHANGED <<disk, fileSize, remaining, faults, draining, cur, done, writeCh>>

\* trim up to os.Create: close, open, seek, read, create.  Each may fail, and
\* leaves r.file nil.
Kept_Head == SubSeq(disk, 1, Len(disk) - TrimSize)           \* Mutant
Kept == SubSeq(disk, TrimSize + 1, Len(disk))

TrimRead(from, to, rewrite) ==
    /\ file' = FALSE /\ UNCHANGED fileSize
    /\ \/ /\ Go(from, rewrite) /\ remaining' = Kept /\ disk' = <<>> /\ UNCHANGED faults
       \/ /\ Fault /\ Go(from, to) /\ UNCHANGED <<disk, remaining>>

\* wf.Write(remaining) and the reopening; a failed Write leaves a part of it.
Rewritten_NoTruncate(s) == disk \o stream                   \* Mutant
Rewritten(s) == disk \o s

SizeAfterTrim_Zero == 0                                     \* Mutant
SizeAfterTrim == Len(remaining)

TrimWrite(from, to) ==
    /\ Go(from, to) /\ remaining' = <<>>
    /\ \/ /\ disk' = Rewritten(remaining) /\ fileSize' = SizeAfterTrim
          /\ \/ file' = TRUE /\ UNCHANGED faults
             \/ Fault /\ UNCHANGED file
       \/ /\ Fault /\ \E k \in 0..(Len(remaining) - 1) : disk' = Rewritten(SubSeq(remaining, 1, k))
          /\ UNCHANGED <<file, fileSize>>

Full == fileSize >= MaxSize

ProcessBefore ==
    /\ \/ Full /\ file /\ TrimRead("before", "write", "rewriteB")
       \/ ~(Full /\ file) /\ Go("before", "write") /\ UNCHANGED fs
    /\ UNCHANGED <<draining, cur, done, writeCh>>

\* r.file.Write(data): on an error the bytes that got through are not counted.
SizeAfterError == fileSize

ProcessWrite ==
    /\ Go("write", "after")
    /\ \/ /\ file /\ disk' = disk \o cur /\ fileSize' = fileSize + Len(cur)
          /\ UNCHANGED <<file, remaining, faults>>
       \/ /\ file /\ Fault /\ fileSize' = SizeAfterError
          /\ \E k \in 0..(Len(cur) - 1) : disk' = disk \o SubSeq(cur, 1, k)
          /\ UNCHANGED <<file, remaining>>
       \/ ~file /\ UNCHANGED fs
    /\ UNCHANGED <<draining, cur, done, writeCh>>

ProcessAfter ==
    /\ \/ Full /\ file /\ TrimRead("after", "select", "rewriteA")
       \/ ~(Full /\ file) /\ Go("after", "select") /\ UNCHANGED fs
    /\ cur' = <<>> /\ done' = done + Len(cur) /\ UNCHANGED <<draining, writeCh>>

Rewrite ==
    /\ TrimWrite("rewriteB", "write") \/ TrimWrite("rewriteA", "select")
    /\ UNCHANGED <<draining, cur, done, writeCh>>

LoopStep ==
    \/ Take \/ SeeStop \/ DrainEnd
    \/ ProcessBefore \/ ProcessWrite \/ ProcessAfter \/ Rewrite

-----------------------------------------------------------------------------
(* The process: main returns right after Shutdown, without waiting for      *)
(* writeLoop; or it dies.  The disk stays.                                  *)

Dies ==
    /\ up /\ up' = FALSE
    /\ UNCHANGED <<fs, loop, writeCh, stop, next, stream, atStop>>

Exit == stop /\ Dies /\ UNCHANGED crashes

Crash == ~stop /\ crashes < MaxCrashes /\ crashes' = crashes + 1 /\ Dies

Restart ==
    /\ ~up /\ up' = TRUE /\ stop' = FALSE /\ atStop' = 0
    /\ file' = TRUE /\ fileSize' = Len(disk) /\ stream' = disk /\ done' = Len(disk)
    /\ writeCh' = <<>> /\ cur' = <<>> /\ remaining' = <<>> /\ pc' = "select"
    /\ draining' = FALSE /\ UNCHANGED <<disk, faults, next, crashes>>

Next ==
    \/ \E n \in 1..MaxChunk : Write(n)
    \/ Stop \/ LoopStep \/ Exit \/ Crash \/ Restart

Spec == Init /\ [][Next]_vars

\* The goroutine runs as long as the process; that main exits is not assumed.
FairSpec == Spec /\ WF_vars(LoopStep)

-----------------------------------------------------------------------------
(* Properties                                                              *)

\* The file holds bytes in the order the device sent them and none of them
\* twice, through trims, failed operations, crashes and restarts.
Chronicle ==
    \A i, j \in 1..Len(disk) : i < j => disk[i] < disk[j]

(* What trim holds in memory, while there is a process to write it back;   *)
(* the number of the last byte before the next one to be written.          *)
Rewriting == pc \in {"rewriteB", "rewriteA"}
Held == IF up /\ Rewriting THEN remaining ELSE disk
Written == IF pc = "after" THEN done + Len(cur) ELSE done
Reached == IF Written < Len(stream) THEN stream[Written + 1] - 1 ELSE next
Phase == CASE ~up -> "down"
           [] up /\ Rewriting -> "cutting"
           [] up /\ ~Rewriting /\ file -> "open"
           [] up /\ ~Rewriting /\ ~file -> "closed"

File == INSTANCE Journal WITH
    MaxByte <- MaxOld + MaxBytes, content <- Held, reached <- Reached, phase <- Phase

\* The file is a Journal: it grows by unbroken pieces in the order of the
\* device, and what is missing was dropped, cut by a trim of a full file, or
\* lost in a rewrite that failed or that the end of the process cut short.
ImplementsJournal == File!Spec

\* What is left at least of a full file that a trim cuts: nothing if the trim is
\* configured as large as the file.
LeftByTrim == IF TrimSize < MaxSize THEN MaxSize - TrimSize ELSE 0

\* As long as no file operation fails, the file is the unbroken end of what
\* was accepted, also when writeLoop has ended, and trimming never leaves less
\* of it than one trim leaves of a file of MaxSize: neither the double check of
\* fileSize nor an old file that is over the limit makes it cut too deep.
Retained ==
    (faults = 0 /\ up /\ pc \in {"select", "gone"}) =>
        /\ IsSuffix(disk, SubSeq(stream, 1, done))
        /\ Len(disk) = done \/ Len(disk) >= LeftByTrim

\* As long as no file operation fails, the file outgrows its limit by less
\* than one chunk (or it was left too big by an earlier process).
SizeBound ==
    faults = 0 => Len(disk) < MaxSize + MaxChunk \/ Len(disk) <= MaxOld

\* writeLoop ends only after Stop, with the file closed and everything dealt
\* with that was accepted before Stop, however many chunks were in the channel
\* and whatever is still handed over during the drain.
FlushedWhenGone ==
    pc = "gone" => stop /\ ~file /\ done >= atStop

\* Unless the process ends, Stop leads to a closed file after everything that
\* was accepted before Stop has been dealt with.
StopFlushes ==
    stop ~> (~up \/ (pc = "gone" /\ ~file /\ done >= atStop))

-----------------------------------------------------------------------------
(* What the documents say and the code does not guarantee.                 *)

\* "trim fails: log an error, the file is reset to empty and written from the
\* start": recording goes on after a failed trim.
TrimFailureRestarts ==
    (up /\ pc = "select" /\ ~draining) => file

\* "all data submitted to the channel before Stop() was called will reach
\* disk", also when the process exits after Shutdown.
StopReachesDisk ==
    (stop /\ ~up) => done >= atStop
=============================================================================
