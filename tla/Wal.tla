--------------------------------- MODULE Wal ---------------------------------
(***************************************************************************)
(* The write-ahead log of one shard (crates/wal): the WalWriter that the   *)
(* shard's thread appends to, the segment files it leaves behind, and what *)
(* a WalReader makes of them. The process may be killed and the machine    *)
(* may lose power between any two system calls, and a call may fail.       *)
(*                                                                         *)
(* A record is framed as length, checksum and body. It reaches a file in   *)
(* two pieces, so that a file may end in the middle of one. Sizes are      *)
(* abstracted: a segment is full after SegmentSize records, and a record   *)
(* may or may not fit into the BufWriter while it holds less than BufCap.  *)
(*                                                                         *)
(* What a file holds is either in the page cache of the system, which a    *)
(* power failure may cut back, or synced.                                  *)
(***************************************************************************)
EXTENDS Integers, Sequences, FiniteSetsExt, Selection

CONSTANTS
  Policies,      \* FsyncPolicy: 0 for Off, 1 for PerRecord, n for Every(n)
  SegmentSize,   \* SEGMENT_SIZE, in records
  BufCap,        \* the capacity of the BufWriter, in records
  MaxRecords,    \* bounds: records appended, processes started,
  MaxLives,
  MaxErrors,     \* calls that fail
  MaxOutages     \* and power failures

ASSUME PolicyAssumption == Policies \subseteq Nat
ASSUME SizeAssumption == SegmentSize \in Nat \ {0} /\ BufCap \in Nat \ {0}

VARIABLES
  policy,
  files,      \* segment index -> [data, synced], what is on disk
  writer,     \* the WalWriter: seg_idx, seg_bytes, write_count, the BufWriter's
              \* buffer and the index of the file it writes to
  at,         \* where append is; "idle" between calls, "down" without a process
  life,       \* how many processes there have been
  logged,     \* every record that write_all has taken, in order
  returned,   \* those for which append has returned Ok
  errors, outages

vars == <<policy, files, writer, at, life, logged, returned, errors, outages>>

Record == [life : Nat, seq : Nat]

Pieces(rec) == <<[rec |-> rec, part |-> "frame"], [rec |-> rec, part |-> "body"]>>

EmptyFile == [data |-> <<>>, synced |-> 0]

Segments == DOMAIN files

Last(indices) == IF indices = {} THEN 0 ELSE Max(indices)

WithFile(fs, idx, file) == [i \in DOMAIN fs \cup {idx} |-> IF i = idx THEN file ELSE fs[i]]

\* OpenOptions::create(true).append(true)
Opened(fs, idx) == IF idx \in DOMAIN fs THEN fs ELSE WithFile(fs, idx, EmptyFile)

Written(data) == [files EXCEPT ![writer.file].data = @ \o data]

\* What the n-th process has logged.
Records(n) == Only(logged, {rec \in Record : rec.life = n})

Up == at # "down"

(***************************************************************************)
(* WalWriter::open                                                         *)
(***************************************************************************)

\* Mutant: the new process goes on with the segment the old one left.
SameSegment == IF Segments = {} THEN 1 ELSE Last(Segments)

NextSegment == Last(Segments) + 1

Open ==
  /\ ~Up /\ life < MaxLives
  /\ files' = Opened(files, NextSegment)
  /\ writer' = [seg_idx |-> NextSegment, file |-> NextSegment, buf |-> <<>>,
                seg_bytes |-> 0, write_count |-> 0]
  /\ at' = "idle"
  /\ life' = life + 1
  /\ UNCHANGED <<policy, logged, returned, errors, outages>>

(***************************************************************************)
(* WalWriter::append. Each step is one system call, or none.               *)
(***************************************************************************)

Newest == logged[Len(logged)]

Due(count) == policy # 0 /\ count % policy = 0

AfterSync(bytes) == IF bytes >= SegmentSize THEN "roll" ELSE "idle"

\* append goes on to `step`, and returns Ok if there is nothing left to do.
GoOn(step, rec) ==
  /\ at' = step
  /\ returned' = IF step = "idle" THEN returned \cup {rec} ELSE returned

\* write_all has taken the record.
Take(rec, buf) ==
  /\ logged' = Append(logged, rec)
  /\ writer' = [writer EXCEPT !.buf = buf, !.seg_bytes = @ + 1, !.write_count = @ + 1]
  /\ GoOn(IF Due(writer.write_count + 1) THEN "flush" ELSE AfterSync(writer.seg_bytes + 1), rec)

\* The sequencer starts from 1 in every process. A record that could not be
\* written leaves a gap in the numbers, which no property looks at.
NewRecord == [life |-> life, seq |-> Len(Records(life)) + 1]

AppendRecord ==
  /\ at = "idle" /\ Len(logged) < MaxRecords
  /\ \/ /\ Len(writer.buf) < 2 * BufCap
        /\ Take(NewRecord, writer.buf \o Pieces(NewRecord))
     \/ /\ writer.buf # <<>>
        /\ at' = "spill"
        /\ UNCHANGED <<writer, logged, returned>>
  /\ UNCHANGED <<policy, files, life, errors, outages>>

\* Mutant: a record that does not fit overtakes those in the buffer.
SpillOvertaking ==
  /\ files' = Written(Pieces(NewRecord))
  /\ Take(NewRecord, writer.buf)

\* A BufWriter that has no room for a record writes out what it holds first.
SpillInOrder ==
  /\ files' = Written(writer.buf)
  /\ Take(NewRecord, Pieces(NewRecord))

Spill ==
  /\ at = "spill"
  /\ SpillInOrder
  /\ UNCHANGED <<policy, life, errors, outages>>

\* Mutant: do_fsync syncs the file without flushing the BufWriter.
NoFlush == UNCHANGED <<files, writer>>

FlushBuffer ==
  /\ files' = Written(writer.buf)
  /\ writer' = [writer EXCEPT !.buf = <<>>]

Flush ==
  /\ at = "flush"
  /\ FlushBuffer
  /\ at' = "sync"
  /\ UNCHANGED <<policy, life, logged, returned, errors, outages>>

SyncData ==
  /\ at = "sync"
  /\ files' = [files EXCEPT ![writer.file].synced = Len(files[writer.file].data)]
  /\ GoOn(AfterSync(writer.seg_bytes), Newest)
  /\ UNCHANGED <<policy, writer, life, logged, errors, outages>>

\* roll_segment flushes the old segment, but does not sync it.
RolledTo(file) ==
  [writer EXCEPT !.buf = <<>>, !.seg_idx = @ + 1, !.seg_bytes = 0, !.file = file]

RollSegment ==
  /\ at = "roll"
  /\ files' = Opened(Written(writer.buf), writer.seg_idx + 1)
  /\ writer' = RolledTo(writer.seg_idx + 1)
  /\ GoOn("idle", Newest)
  /\ UNCHANGED <<policy, life, logged, errors, outages>>

(***************************************************************************)
(* Failing calls: append returns Err and the shard ignores it.             *)
(***************************************************************************)

Writing == at \in {"spill", "flush", "roll"}

Fail == /\ errors < MaxErrors
        /\ errors' = errors + 1
        /\ at' = "idle"
        /\ UNCHANGED <<policy, life, logged, returned, outages>>

\* What was written is gone from the buffer, what was not stays there.
WriteFails ==
  /\ Writing
  /\ \E n \in 0 .. Len(writer.buf) :
       /\ files' = Written(SubSeq(writer.buf, 1, n))
       /\ writer' = [writer EXCEPT !.buf = SubSeq(@, n + 1, Len(@))]
  /\ Fail

SyncFails ==
  /\ at = "sync"
  /\ Fail
  /\ UNCHANGED <<files, writer>>

\* The new segment cannot be opened: the writer stays with the old file, but
\* counts its bytes from zero and has used up an index.
OpenFails ==
  /\ at = "roll"
  /\ files' = Written(writer.buf)
  /\ writer' = RolledTo(writer.file)
  /\ Fail

(***************************************************************************)
(* The end of a process.                                                   *)
(***************************************************************************)

\* The shard's ring is closed: flush, without a sync.
Stop ==
  /\ at = "idle"
  /\ FlushBuffer
  /\ at' = "down"
  /\ UNCHANGED <<policy, life, logged, returned, errors, outages>>

\* The buffer is lost, but for what a write in progress has got through.
Kill ==
  /\ Up
  /\ \E n \in 0 .. Len(writer.buf) :
       /\ n > 0 => Writing
       /\ files' = Written(SubSeq(writer.buf, 1, n))
  /\ writer' = [writer EXCEPT !.buf = <<>>]
  /\ at' = "down"
  /\ UNCHANGED <<policy, life, logged, returned, errors, outages>>

\* Every file loses as much of its unsynced end as the system had not written
\* back on its own.
PowerFailure ==
  /\ outages < MaxOutages
  /\ \E length \in [Segments -> 0 .. 2 * MaxRecords] :
       /\ \A i \in Segments : length[i] \in files[i].synced .. Len(files[i].data)
       /\ files' = [i \in Segments |-> [data   |-> SubSeq(files[i].data, 1, length[i]),
                                        synced |-> length[i]]]
  /\ writer' = [writer EXCEPT !.buf = <<>>]
  /\ at' = "down"
  /\ outages' = outages + 1
  /\ UNCHANGED <<policy, life, logged, returned, errors>>

Init ==
  /\ policy \in Policies
  /\ files = << >>
  /\ writer = [seg_idx |-> 0, file |-> 0, buf |-> <<>>, seg_bytes |-> 0, write_count |-> 0]
  /\ at = "down"
  /\ life = 0 /\ logged = <<>> /\ returned = {}
  /\ errors = 0 /\ outages = 0

Next == \/ Open
        \/ AppendRecord \/ Spill \/ Flush \/ SyncData \/ RollSegment
        \/ WriteFails \/ SyncFails \/ OpenFails
        \/ Stop \/ Kill \/ PowerFailure

Spec == Init /\ [][Next]_vars

(***************************************************************************)
(* WalReader::replay. In each segment the records are read up to the first *)
(* that is not whole. If the file ends in it, the reader goes on with the  *)
(* next segment; otherwise the checksum is wrong and the replay fails.     *)
(***************************************************************************)

Framed(data) == Len(data) \div 2

Whole(data, k) == data[2 * k - 1].part = "frame" /\ data[2 * k] = [data[2 * k - 1] EXCEPT !.part = "body"]

Readable(data) == Max({n \in 0 .. Framed(data) : \A k \in 1 .. n : Whole(data, k)})

ReplayFails == \E i \in Segments : Readable(files[i].data) < Framed(files[i].data)

ReadFrom(i) ==
  IF i \in Segments
    THEN [k \in 1 .. Readable(files[i].data) |-> files[i].data[2 * k].rec]
    ELSE <<>>

Replayed ==
  LET upto[i \in 0 .. Last(Segments)] == IF i = 0 THEN <<>> ELSE upto[i - 1] \o ReadFrom(i)
  IN  upto[Last(Segments)]

Survivors == {Replayed[i] : i \in DOMAIN Replayed}

Survives(rec) == rec \in Survivors

(***************************************************************************)
(* Properties.                                                             *)
(***************************************************************************)

\* Whatever was torn, lost, failed or rolled before, a replay does not stop at
\* a bad checksum, and returns what survives once and in the order it was
\* logged, across segments and processes.
ReplayInOrder ==
  /\ ~ReplayFails
  /\ Replayed = Only(logged, Survivors)

\* Under FsyncPolicy::PerRecord a record whose append has returned Ok is never
\* lost, however often the process is killed and the power fails.
OkIsDurable == policy = 1 => \A rec \in returned : Survives(rec)

\* What survives of a process is all it logged up to some point, without a
\* gap: always under PerRecord, and under every policy unless the power fails.
NoGaps ==
  (policy = 1 \/ outages = 0) =>
    \A n \in 1 .. life : \A i, j \in DOMAIN Records(n) :
      i < j /\ Survives(Records(n)[j]) => Survives(Records(n)[i])

\* Group commit loses only the last batch: a record is safe once as many
\* records as a batch has were appended after it.
LosesOnlyLastBatch ==
  policy # 0 =>
    \A n \in 1 .. life : \A i, j \in DOMAIN Records(n) :
      (i + policy <= j /\ Records(n)[j] \in returned) => Survives(Records(n)[i])

=============================================================================
