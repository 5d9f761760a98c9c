---- MODULE MrtIn ----
(***************************************************************************)
(* The mrt-file-in unit (src/units/mrt_file_in/unit.rs): configured files  *)
(* are queued, one worker task replays them through clones of the gate,    *)
(* and the unit records the results.  A file is a sequence of records over *)
(* peers and prefixes: a peer index table, RIB entries, update messages,   *)
(* state changes, and records that cannot be parsed.                       *)
(***************************************************************************)
EXTENDS Naturals, Sequences, FiniteSets

CONSTANTS Files,      \* configured files, in their order
          Content,    \* the records of a file; a missing one has none
          Missing,    \* files that cannot be opened or decompressed
          MrtQueue    \* capacity of the queue, 1024

ASSUME MrtAssumption ==
    MrtQueue \in Nat \ {0} /\ Missing \subseteq DOMAIN Content

VARIABLES unit,       \* "enqueue", "run", "ended" or "panic"
          todo,       \* files still to be queued
          fileq,      \* the queue
          job,        \* the worker's file and the records left of it
          crashed,    \* whether the worker has panicked
          register,   \* ids: peer and file of each, in order of registration
          routes,     \* active routes, as <<id, prefix>>
          results,    \* results not yet received by the unit
          processed,  \* files the unit has hashed
          failed      \* files that were given up

mrtVars == <<unit, todo, fileq, job, crashed, register, routes, results,
             processed, failed>>

NoJob == [file |-> "none", left |-> <<>>]
Ids(p) == {i \in DOMAIN register : register[i].peer = p}

MrtInit ==
    /\ unit = "enqueue" /\ todo = Files /\ fileq = <<>> /\ job = NoJob
    /\ crashed = FALSE
    /\ register = <<>> /\ routes = {} /\ results = <<>>
    /\ processed = {} /\ failed = {}

-----------------------------------------------------------------------------

\* MrtFileIn::run queues all files before it starts the worker.
Enqueue ==
    /\ unit = "enqueue" /\ todo # <<>> /\ Len(fileq) < MrtQueue
    /\ fileq' = Append(fileq, Head(todo)) /\ todo' = Tail(todo)
    /\ UNCHANGED <<unit, job, crashed, register, routes, results, processed,
                   failed>>
StartWorker ==
    /\ unit = "enqueue" /\ todo = <<>> /\ unit' = "run"
    /\ UNCHANGED <<todo, fileq, job, crashed, register, routes, results,
                   processed, failed>>

\* The worker takes the next file; it is not stopped with the unit, which only
\* drops the sender of the queue.
OpenFile ==
    /\ unit # "enqueue" /\ ~crashed /\ job = NoJob /\ fileq # <<>>
    /\ fileq' = Tail(fileq)
    /\ \/ /\ Head(fileq) \notin Missing
          /\ job' = [file |-> Head(fileq), left |-> Content[Head(fileq)]]
          /\ UNCHANGED <<results, failed>>
       \/ /\ Head(fileq) \in Missing
          /\ failed' = failed \cup {Head(fileq)}
          /\ results' = Append(results, "error")
          /\ UNCHANGED job
    /\ UNCHANGED <<unit, todo, crashed, register, routes, processed>>

Reads(k) == job # NoJob /\ job.left # <<>> /\ Head(job.left).is = k
Rec == Head(job.left)
Read == job' = [job EXCEPT !.left = Tail(@)]

\* A new id for each peer of the table.
PeerTable ==
    /\ Reads("peers") /\ Read
    /\ register' = Append(register, [peer |-> Rec.peer, file |-> job.file])
    /\ UNCHANGED <<unit, todo, fileq, crashed, routes, results, processed,
                   failed>>

\* A RIB entry goes to the id the table of the same file gave the peer.
InTable(p) == {i \in Ids(p) : register[i].file = job.file}
RibEntry ==
    /\ Reads("rib") /\ Read
    /\ \E i \in InTable(Rec.peer) : routes' = routes \cup {<<i, Rec.prefix>>}
    /\ UNCHANGED <<unit, todo, fileq, crashed, register, results, processed,
                   failed>>
\* An index outside the table is a panic, which ends the worker: the queue is
\* dropped with it.  The unit lives on, and is told of no more results.
RibStray ==
    /\ Reads("rib") /\ InTable(Rec.peer) = {}
    /\ crashed' = TRUE /\ job' = NoJob /\ fileq' = <<>>
    /\ UNCHANGED <<unit, todo, register, routes, results, processed, failed>>

\* process_message: the id is any that the register has for the peer below this
\* unit, else a new one.
MessageTo(i) ==
    routes' = IF Rec.active THEN routes \cup {<<i, Rec.prefix>>}
              ELSE routes \ {<<i, Rec.prefix>>}
Message ==
    /\ Reads("update") /\ Read
    /\ \/ \E i \in Ids(Rec.peer) : MessageTo(i) /\ UNCHANGED register
       \/ /\ Ids(Rec.peer) = {}
          /\ register' = Append(register, [peer |-> Rec.peer, file |-> "none"])
          /\ MessageTo(Len(register) + 1)
    /\ UNCHANGED <<unit, todo, fileq, crashed, results, processed, failed>>


\* process_state_change: the query has no parent, without which
\* find_existing_peer matches nothing, so no Withdraw is sent.
StateChange ==
    /\ Reads("idle") /\ Read
    /\ UNCHANGED <<unit, todo, fileq, crashed, register, routes, results,
                   processed, failed>>

UnparsableEnds ==
    /\ Reads("bad")
    /\ job' = NoJob /\ failed' = failed \cup {job.file}
    /\ results' = Append(results, "error")
    /\ crashed' = TRUE
    /\ UNCHANGED <<unit, todo, fileq, register, routes, processed>>

\* An error leaves the file; what was sent stays sent.
Unparsable ==
    /\ Reads("bad")
    /\ job' = NoJob /\ failed' = failed \cup {job.file}
    /\ results' = Append(results, "error")
    /\ UNCHANGED <<unit, todo, fileq, crashed, register, routes, processed>>
FileDone ==
    /\ job # NoJob /\ job.left = <<>>
    /\ job' = NoJob /\ results' = Append(results, job.file)
    /\ UNCHANGED <<unit, todo, fileq, crashed, register, routes, processed,
                   failed>>

\* MrtInRunner::run: hash a file that succeeded; unwrap if it is gone by then.
Result ==
    /\ unit = "run" /\ results # <<>>
    /\ results' = Tail(results)
    /\ processed' = processed \cup ({Head(results)} \ {"error"})
    /\ UNCHANGED <<unit, todo, fileq, job, crashed, register, routes, failed>>
FileVanished ==
    /\ unit = "run" /\ results # <<>> /\ Head(results) # "error"
    /\ unit' = "panic" /\ results' = Tail(results)
    /\ UNCHANGED <<todo, fileq, job, crashed, register, routes, processed,
                   failed>>
MrtTerminate ==
    /\ unit = "run" /\ unit' = "ended"
    /\ UNCHANGED <<todo, fileq, job, crashed, register, routes, results,
                   processed, failed>>

Worker ==
    \/ OpenFile \/ PeerTable \/ RibEntry \/ RibStray \/ Message \/ StateChange
    \/ Unparsable \/ FileDone
MrtNext ==
    \/ Enqueue \/ StartWorker \/ Worker \/ Result \/ FileVanished
    \/ MrtTerminate

\* The unit and its worker are scheduled.
MrtProgress == Enqueue \/ StartWorker \/ Worker \/ Result
MrtFairness == WF_mrtVars(MrtProgress)
MrtSpec == MrtInit /\ [][MrtNext]_mrtVars
MrtFairSpec == MrtSpec /\ MrtFairness

-----------------------------------------------------------------------------
(* Properties *)

\* A RIB entry of the file refers to no peer of its table.
Stray(f) ==
    LET rec == Content[f]
    IN  \E i \in DOMAIN rec :
           /\ rec[i].is = "rib"
           /\ \A j \in 1 .. i : rec[j].is # "bad"
           /\ \A j \in 1 .. i : rec[j].is = "peers" => rec[j].peer # rec[i].peer

\* The files before the first one with a stray entry.
Reached ==
    {Files[k] : k \in {k \in DOMAIN Files : \A i \in 1 .. k : ~Stray(Files[i])}}
Worked == processed \cup failed \cup {results[i] : i \in DOMAIN results}

\* unit.rs:118-120, 377 and 469-505: as long as the files fit the queue, each
\* one is replayed to its end or given up, also behind a missing or a broken
\* one and when the unit terminates meanwhile, and its result is recorded while
\* the unit runs.  A file with a stray RIB entry takes the files behind it down
\* with it.
FilesReplayed ==
    Len(Files) <= MrtQueue =>
        <>(\/ unit = "panic"
           \/ unit = "ended" /\ Reached \subseteq Worked
           \/ Reached \subseteq processed \cup failed)
====
