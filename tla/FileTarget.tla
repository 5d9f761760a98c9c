---- MODULE FileTarget ----
(***************************************************************************)
(* The file-out target (src/targets/file/target.rs): batches of records    *)
(* read from a link into a buffered writer that is flushed when a second   *)
(* has passed since the last flush.  A write may fail in the middle of a   *)
(* batch; the rest of the batch is dropped.  A flush may fail too, which   *)
(* the target does not notice.  null-out (src/targets/null.rs) is the same *)
(* loop without records.                                                   *)
(***************************************************************************)
EXTENDS Naturals, Sequences

CONSTANTS BatchSizes,   \* records an update of the upstream unit may have
          MaxBatches,   \* bound: batches
          LinkCap       \* capacity of the link's queue

ASSUME FileAssumption ==
    BatchSizes \subseteq Nat /\ MaxBatches \in Nat /\ LinkCap \in Nat \ {0}

VARIABLES fpc,        \* "select", "handle" an event, or "ended"
          event,      \* the event the select returned
          inq,        \* batches in the link's queue, by their sizes
          upstream,   \* whether the gate still has the link's sender
          fcmd,       \* next command, "none" if there is none
          batches,    \* batches sent so far
          late,       \* more than a second since the last flush
          fault,      \* operations on the file fail: the disk does, or the
                      \* error of an earlier write is still to be reported
          buffered,   \* records in the writer
          flushed,    \* records in the file
          lost        \* records the writer took that will not be in the file

fileVars == <<fpc, event, inq, upstream, fcmd, batches, late, fault,
              buffered, flushed, lost>>
envVars == <<inq, upstream, fcmd, batches, fault>>
records == <<buffered, flushed, lost>>

NoEvent == [is |-> "none", n |-> 0]

FileInit ==
    /\ fpc = "select" /\ event = NoEvent
    /\ inq = <<>> /\ upstream = TRUE /\ fcmd = "none"
    /\ batches = 0 /\ late = FALSE /\ fault = FALSE
    /\ buffered = 0 /\ flushed = 0 /\ lost = 0

\* How many of n records an operation on the file may fail to write.
MayFail(n) == IF fault THEN 0 .. n ELSE {0}

\* A writer with n records hands all but some down to the file, which loses
\* those it fails to write.
HandDown(n, kept) ==
    \E l \in MayFail(n - kept) :
       /\ buffered' = kept
       /\ lost' = lost + l
       /\ flushed' = flushed + (n - kept - l)

\* The result is ignored: the next flush is due in a second also when this
\* one has failed and left records in the writer.
Flush ==
    /\ \E kept \in MayFail(buffered) : HandDown(buffered, kept)
    /\ late' = FALSE

-----------------------------------------------------------------------------

Batch(n) ==
    /\ upstream /\ batches < MaxBatches
    /\ Len(inq) < LinkCap
    /\ inq' = Append(inq, n) /\ batches' = batches + 1
    /\ UNCHANGED <<fpc, event, upstream, fcmd, late, fault, records>>
GateGone ==
    /\ upstream /\ upstream' = FALSE
    /\ UNCHANGED <<fpc, event, inq, fcmd, batches, late, fault, records>>
FileCommand(c) ==
    /\ fcmd = "none" /\ fcmd' = c
    /\ UNCHANGED <<fpc, event, inq, upstream, batches, late, fault, records>>
SecondPasses ==
    /\ ~late /\ late' = TRUE
    /\ UNCHANGED <<fpc, event, envVars, records>>
\* The disk is full, or is not any more.
DiskChanges ==
    /\ fpc # "ended" /\ fault' = ~fault
    /\ UNCHANGED <<fpc, event, inq, upstream, fcmd, batches, late, records>>

-----------------------------------------------------------------------------
(* FileRunner::run *)

\* Nothing to read for a second.
Timeout ==
    /\ fpc = "select" /\ late /\ fcmd = "none" /\ inq = <<>> /\ upstream
    /\ Flush
    /\ UNCHANGED <<fpc, event, envVars>>

\* The select returns; the writer is flushed first if that is due.
Event(e) ==
    /\ fpc = "select" /\ fpc' = "handle" /\ event' = e
    /\ IF late THEN Flush ELSE UNCHANGED <<late, records>>

GetCommand ==
    /\ fcmd # "none" /\ fcmd' = "none"
    /\ Event([is |-> fcmd, n |-> 0])
    /\ UNCHANGED <<inq, upstream, batches, fault>>
GetBatch ==
    /\ fcmd = "none" /\ inq # <<>>
    /\ inq' = Tail(inq)
    /\ Event([is |-> "batch", n |-> Head(inq)])
    /\ UNCHANGED <<upstream, fcmd, batches, fault>>
GetGone ==
    /\ fcmd = "none" /\ inq = <<>> /\ ~upstream
    /\ Event([is |-> "gone", n |-> 0])
    /\ UNCHANGED envVars

Continue == fpc' = "select" /\ event' = NoEvent

\* How many records of a batch write_record takes until one fails.
Written(n) == 0 .. n

\* The rest of a batch is dropped when a record fails.  A writer that is full
\* hands down what it holds.
WriteBatch ==
    /\ fpc = "handle" /\ event.is = "batch"
    /\ \E k \in Written(event.n) : \E kept \in 0 .. (buffered + k) :
          HandDown(buffered + k, kept)
    /\ Continue
    /\ UNCHANGED <<envVars, late>>
\* Reconfigure is not implemented, ReportLinks answers.
OtherCommand ==
    /\ fpc = "handle" /\ event.is \in {"Reconfigure", "ReportLinks"}
    /\ Continue
    /\ UNCHANGED <<envVars, late, records>>
\* Terminate or a gate that is gone: flush and return.  The writer is dropped,
\* with what the flush has left in it.
FinishUnflushed ==
    /\ fpc = "handle" /\ event.is \in {"Terminate", "gone"}
    /\ fpc' = "ended"
    /\ lost' = lost + buffered /\ buffered' = 0
    /\ UNCHANGED <<event, envVars, late, flushed>>
Finish ==
    /\ fpc = "handle" /\ event.is \in {"Terminate", "gone"}
    /\ fpc' = "ended" /\ late' = FALSE
    /\ HandDown(buffered, 0)
    /\ UNCHANGED <<event, envVars>>

FileStep ==
    \/ Timeout \/ GetCommand \/ GetBatch \/ GetGone
    \/ WriteBatch \/ OtherCommand \/ Finish

FileNext ==
    \/ FileStep \/ SecondPasses \/ GateGone \/ DiskChanges
    \/ \E n \in BatchSizes : Batch(n)
    \/ \E c \in {"Reconfigure", "ReportLinks", "Terminate"} :
          fpc # "ended" /\ FileCommand(c)

\* The target is scheduled and time passes.
FileFairness == WF_fileVars(FileStep) /\ WF_fileVars(SecondPasses)

FileSpec == FileInit /\ [][FileNext]_fileVars
FileFairSpec == FileSpec /\ FileFairness

-----------------------------------------------------------------------------
(* Properties *)

\* target.rs:87-92, 201-214 and 283: the result of a flush is ignored, so what
\* can be relied on is this.  A record the writer has taken is lost only by a
\* step that meets a failing file, not by a late flush or by the way the
\* target ends.
LostOnlyByFault == [][lost' # lost => fault]_fileVars
\* A flush that failed is not the last: once the file works again, what the
\* writer still has reaches the file, on a busy and on an idle link, and when
\* the target ends.
RecordsReachFile == <>[]~fault => (buffered > 0 ~> buffered = 0)
====
