------------------------------- MODULE BmpOut --------------------------------
(***************************************************************************)
(* The bmp-tcp-out unit serving one collector, together with the rib unit  *)
(* and the peer sessions that feed it.                                     *)
(*                                                                         *)
(* A collector connects at an arbitrary moment.  Its dump task sends Peer  *)
(* Up for every connected peer, walks the RIB, sends End-of-RIB, and then  *)
(* replays the updates that were buffered meanwhile until it finds the     *)
(* buffer empty and flips the client to Live.  All along the peer sessions *)
(* change the register and the RIB and push updates through the gate into  *)
(* direct_update, which buffers for a dumping client and sends to a live   *)
(* one.  A writer task drains the client's bounded queue to the socket.    *)
(*                                                                         *)
(* The queue and TCP are FIFO, so what the collector has seen is always a  *)
(* prefix of what was enqueued: the model keeps the length of the queue,   *)
(* and in up and view the state of a collector that has read all of it.    *)
(*                                                                         *)
(* Sessions are per peer and sequential, as the code's are: update_data    *)
(* awaits direct_update, so a session offers its next update only when the *)
(* previous one has passed every receiver.  Two sessions that share an     *)
(* IngressId are the subject of BmpSessions.                               *)
(*                                                                         *)
(* Bounds: MaxBuf is max_client_buffer, QueueDepth is live_queue_depth.    *)
(***************************************************************************)
EXTENDS RibStore, Naturals, Sequences

CONSTANTS BgpPeers,     \* peers of bgp-tcp-in; the others are BMP-monitored
          MaxBuf,       \* max_buffer_entries (the byte cap acts the same way)
          QueueDepth,   \* capacity of the client's mpsc channel
          HasRib,       \* whether a rib unit has published its store
          MayTerminate  \* whether the unit can be told to terminate

ASSUME BmpOutAssumption ==
    /\ BgpPeers \subseteq Peers
    /\ MaxBuf \in Nat
    /\ QueueDepth \in Nat \ {0}
    /\ HasRib \in BOOLEAN
    /\ MayTerminate \in BOOLEAN

VARIABLES
    register,    \* IngressState of every peer's register entry
    advertised,  \* what the peer's current session has announced (history)
    sess,        \* the update each session is pushing, and how far it got
    clients,     \* whether the registry of clients holds this one
    phase,       \* ClientState::phase
    dumpBuffer,  \* ClientState::dump_buffer
    known,       \* ClientState::known_peers
    cache,       \* the domain of ClientState::peer_info_cache
    pending,     \* ClientState::disconnect_pending
    permit,      \* the permit stored in disconnect_notify
    qlen,        \* messages in the client's mpsc channel
    writer,      \* the writer task
    dump,        \* the dump task: the step it is at ...
    toSend,      \* ... peers left in the Peer Up or the End-of-RIB loop
    walkKeys,    \* ... prefixes the RIB walk has still to fetch
    fetched,     \* ... records fetched, not sent: batch, aggregator, channel
    aggPeers,    \* ... peers the RouteAggregator has a header for
    batch,       \* ... buffered updates taken and not yet replayed
    partial,     \* the walk was cut short (history)
    runner,      \* the unit's accept loop
    up, view,    \* the collector, see BmpStream
    faults

clientVars == <<phase, dumpBuffer, known, cache, pending, permit, qlen>>
dumpVars == <<dump, toSend, walkKeys, fetched, aggPeers, batch, partial>>
wireVars == <<up, view, faults>>
feedVars == <<register, advertised, sess, active, withdrawn>>
vars == <<feedVars, clients, clientVars, writer, dumpVars, runner, wireVars>>

RegisterState == {"unseen", "connected", "disconnected", "removed"}

Updates ==
    [peer : Peers,
     kind : {"announce", "withdraw", "down", "reappear", "stats"},
     pfx : SUBSET Prefixes]

SessionStep == {"idle", "rib", "forward", "deliver", "send", "cleanup"}

DumpStep == {"none", "init", "enumerate", "peerup", "walk", "eor", "drain",
             "norib", "done"}

Registered(p) == register[p] \in {"connected", "disconnected"}

\* A session at a step, with the update it is pushing (any, if it is idle).
At(step, p, kind, S) ==
    [at |-> step, upd |-> [peer |-> p, kind |-> kind, pfx |-> S]]

Stream == INSTANCE BmpStream WITH up <- up, view <- view, faults <- faults

Init ==
    /\ RibInit
    /\ register = [p \in Peers |-> "unseen"]
    /\ advertised = [p \in Peers |-> {}]
    /\ sess = [p \in Peers |-> At("idle", p, "stats", {})]
    /\ clients = FALSE
    /\ phase = "Dumping"
    /\ dumpBuffer = <<>>
    /\ known = {} /\ cache = {}
    /\ pending = FALSE /\ permit = FALSE
    /\ qlen = 0
    /\ writer = "none"
    /\ dump = "none"
    /\ toSend = {} /\ walkKeys = {} /\ fetched = {}
    /\ aggPeers = {}
    /\ batch = <<>>
    /\ partial = FALSE
    /\ runner = "accepting"
    /\ Stream!StreamInit

-----------------------------------------------------------------------------
(***************************************************************************)
(* The peer sessions and the rib unit.                                     *)
(***************************************************************************)

\* A peer is seen for the first time: a register entry is made, and nothing
\* is sent downstream.
FirstPeerUp(p) ==
    /\ register[p] = "unseen"
    /\ register' = [register EXCEPT ![p] = "connected"]
    /\ UNCHANGED <<advertised, sess, ribVars, clients, clientVars, writer,
                   dumpVars, runner, wireVars>>

\* The session of p starts pushing an update into the gate.  A peer going
\* down is marked Disconnected in the register first; one that comes back
\* has claimed its old register entry, which makes it Connected.
Push(p, kind, S) ==
    /\ sess[p].at = "idle"
    /\ sess' = [sess EXCEPT ![p] = At("rib", p, kind, S)]
    /\ UNCHANGED <<ribVars, clients, clientVars, writer, dumpVars, runner,
                   wireVars>>

RouteMonitoring(p, x) ==
    /\ register[p] = "connected"
    /\ \/ /\ Push(p, "announce", {x})
          /\ advertised' = [advertised EXCEPT ![p] = @ \cup {x}]
       \/ /\ Push(p, "withdraw", {x})
          /\ advertised' = [advertised EXCEPT ![p] = @ \ {x}]
    /\ UNCHANGED register

PeerStats(p) ==
    /\ register[p] = "connected"
    /\ Push(p, "stats", {})
    /\ UNCHANGED <<register, advertised>>

PeerDown(p) ==
    /\ register[p] = "connected"
    /\ Push(p, "down", {})
    /\ register' = [register EXCEPT ![p] = "disconnected"]
    /\ advertised' = [advertised EXCEPT ![p] = {}]

PeerReappears(p) ==
    /\ p \notin BgpPeers
    /\ register[p] = "disconnected"
    /\ Push(p, "reappear", {})
    /\ register' = [register EXCEPT ![p] = "connected"]
    /\ UNCHANGED advertised

\* process_update of the rib unit changes the store (and, when it finds the
\* mui withdrawn, the register) before it forwards the update.
RibApply(p) ==
    LET u == sess[p].upd
        revives == \/ u.kind = "reappear"
                   \/ u.kind = "announce" /\ p \in withdrawn
    IN  /\ sess[p].at = "rib"
        /\ sess' = [sess EXCEPT ![p].at = "forward"]
        /\ \/ u.kind = "announce" /\ InsertActive(p, u.pfx)
           \/ u.kind = "withdraw" /\ InsertWithdrawn(p, u.pfx)
           \/ u.kind = "down"     /\ WithdrawForIngresses({p})
           \/ u.kind = "reappear" /\ MarkIngressActive(p)
           \/ u.kind = "stats"    /\ UNCHANGED ribVars
        /\ register' = IF revives THEN [register EXCEPT ![p] = "connected"]
                                  ELSE register
        /\ UNCHANGED <<advertised, clients, clientVars, writer, dumpVars,
                       runner, wireVars>>

\* The sweep of the rib unit reclaims a BMP peer that stayed Disconnected.
GcReclaims(p) ==
    /\ p \notin BgpPeers
    /\ register[p] = "disconnected"
    /\ register' = [register EXCEPT ![p] = "removed"]
    /\ RemoveForIngresses({p})
    /\ UNCHANGED <<advertised, sess, clients, clientVars, writer, dumpVars,
                   runner, wireVars>>

\* An update has passed every receiver.  bgp-tcp-in then deletes the register
\* entry of a session that is over.
Passed(p) ==
    sess' = [sess EXCEPT ![p] =
                At(IF p \in BgpPeers /\ sess[p].upd.kind = "down"
                   THEN "cleanup" ELSE "idle", p, "stats", {})]

BgpCleanup(p) ==
    /\ sess[p].at = "cleanup"
    /\ sess' = [sess EXCEPT ![p].at = "idle"]
    /\ register' = [register EXCEPT ![p] = "removed"]
    /\ UNCHANGED <<advertised, ribVars, clients, clientVars, writer, dumpVars,
                   runner, wireVars>>

-----------------------------------------------------------------------------
(***************************************************************************)
(* The client: queue, disconnect flag, and the conversion of an update to  *)
(* BMP messages.                                                           *)
(***************************************************************************)

\* The receiver is dropped when the writer task ends, and not before.
Closed == writer = "gone"
Room == ~Closed /\ qlen < QueueDepth
Full == ~Closed /\ qlen >= QueueDepth

\* Mutant: the flag is raised and the writer task is not woken.
RequestDisconnectSilently ==
    /\ pending' = TRUE
    /\ UNCHANGED permit

RequestDisconnect ==
    /\ pending' = TRUE
    /\ permit' = (permit \/ ~pending)

NotFlagged == UNCHANGED <<pending, permit>>

\* Mutant: known_peers is not consulted.
NeedsPeerUpAlways(u) ==
    u.kind \in {"announce", "withdraw"} /\ u.peer \notin cache

\* send_update_to_client goes through at most two messages: a Peer Up if the
\* client has not heard of the peer, and the message for the update itself.
NeedsPeerUp(u) ==
    /\ u.peer \notin known
    /\ \/ u.kind \in {"announce", "withdraw"} /\ u.peer \notin cache
       \/ u.kind = "stats"
       \/ u.kind = "reappear" /\ Registered(u.peer)

\* The message sent next for u.  A header is built from the register entry,
\* or taken from the cache for a route; without either it is that of no peer.
Message(u) ==
    LET p == u.peer
    IN  CASE NeedsPeerUp(u) -> IF Registered(p) THEN "peerup" ELSE "nothing"
          [] ~NeedsPeerUp(u) /\ u.kind \in {"announce", "withdraw"} ->
                IF p \in cache \/ Registered(p) THEN u.kind ELSE "anonymous"
          [] ~NeedsPeerUp(u) /\ u.kind = "stats" ->
                IF Registered(p) THEN "stats" ELSE "nothing"
          [] ~NeedsPeerUp(u) /\ u.kind = "down" ->
                IF p \notin known THEN "nothing"
                ELSE IF Registered(p) THEN "peerdown" ELSE "anonymous"
          [] ~NeedsPeerUp(u) /\ u.kind = "reappear" -> "nothing"

\* Mutant: the update counts as sent once its Peer Up is.
PeerUpIsLast(u) == TRUE

LastMessage(u) == u.kind = "reappear" \/ ~NeedsPeerUp(u)

\* Mutant: a Peer Down leaves the peer known.
KnownKeepsPeer(u, sent) ==
    known' = IF NeedsPeerUp(u) /\ sent THEN known \cup {u.peer} ELSE known

\* known_peers, whether the message went out or not: a failed Peer Up is taken
\* back, a Peer Down forgets the peer in any case.
RememberPeer(u, sent) ==
    known' = CASE NeedsPeerUp(u) -> IF sent THEN known \cup {u.peer} ELSE known
               [] ~NeedsPeerUp(u) /\ u.kind = "down" -> known \ {u.peer}
               [] OTHER -> known

\* The header cache, likewise.
RememberHeader(u, sent) ==
    cache' = CASE NeedsPeerUp(u) -> IF sent THEN cache ELSE cache \ {u.peer}
               [] ~NeedsPeerUp(u) /\ u.kind \in {"announce", "withdraw"} ->
                     IF Registered(u.peer) THEN cache \cup {u.peer} ELSE cache
               [] ~NeedsPeerUp(u) /\ u.kind = "down" -> cache \ {u.peer}
               [] OTHER -> cache

\* What the collector makes of a message.
Wire(p, msg, S) ==
    /\ up' = CASE msg = "peerup"   -> up \cup {p}
               [] msg = "peerdown" -> up \ {p}
               [] OTHER            -> up
    /\ view' = CASE msg \in {"peerup", "peerdown"} -> [view EXCEPT ![p] = {}]
                 [] msg = "announce" -> [view EXCEPT ![p] = @ \cup S]
                 [] msg = "withdraw" -> [view EXCEPT ![p] = @ \ S]
                 [] OTHER            -> view
    /\ faults' = IF \/ msg = "peerup" /\ p \in up
                    \/ /\ msg \in {"peerdown", "announce", "withdraw", "stats"}
                       /\ p \notin up
                 THEN faults \cup {p} ELSE faults

\* The next message of u is enqueued (or there was none to send).
Sent(u) ==
    /\ \/ Message(u) = "nothing" /\ UNCHANGED qlen
       \/ Message(u) # "nothing" /\ Room /\ qlen' = qlen + 1
    /\ RememberPeer(u, TRUE) /\ RememberHeader(u, TRUE)
    /\ Wire(u.peer, Message(u), u.pfx)

NotSent(u) ==
    /\ Message(u) # "nothing"
    /\ RememberPeer(u, FALSE) /\ RememberHeader(u, FALSE)
    /\ UNCHANGED <<qlen, wireVars>>

-----------------------------------------------------------------------------
(***************************************************************************)
(* direct_update, run by the session that pushes the update.               *)
(***************************************************************************)

\* The clients are snapshotted under the read lock, and one flagged for
\* disconnect is skipped.  A runner that terminates keeps that lock; once a
\* writer queues up for the write lock behind it no new reader gets in.  When
\* the unit is gone the direct link is dead.
Snapshot(p) ==
    /\ sess[p].at = "forward"
    /\ ~(runner = "holding" /\ writer = "cleanup")
    /\ \/ /\ clients /\ ~pending /\ runner # "ended"
          /\ sess' = [sess EXCEPT ![p].at = "deliver"]
       \/ /\ ~clients \/ pending \/ runner = "ended"
          /\ Passed(p)
    /\ UNCHANGED <<register, advertised, ribVars, clients, clientVars, writer,
                   dumpVars, runner, wireVars>>

BufferFull == Len(dumpBuffer) >= MaxBuf

\* Mutant: the replay without a RIB does not hold the lock.
PhaseNeverLocked == FALSE

PhaseLocked == dump = "norib"

\* buffer_update_if_dumping, under the read side of the phase lock, which the
\* dump task holds exclusively while it replays without a RIB.
Deliver(p) ==
    /\ sess[p].at = "deliver"
    /\ ~PhaseLocked
    /\ \/ /\ phase = "Dumping" /\ ~BufferFull
          /\ dumpBuffer' = Append(dumpBuffer, sess[p].upd)
          /\ NotFlagged
          /\ Passed(p)
       \/ /\ phase = "Dumping" /\ BufferFull
          /\ RequestDisconnect
          /\ Passed(p)
          /\ UNCHANGED dumpBuffer
       \/ /\ phase = "Live"
          /\ sess' = [sess EXCEPT ![p].at = "send"]
          /\ UNCHANGED dumpBuffer
          /\ NotFlagged
    /\ UNCHANGED <<register, advertised, ribVars, clients, phase, known, cache,
                   qlen, writer, dumpVars, runner, wireVars>>

\* Live: every message is a try_send.  A full queue flags the client, a closed
\* one does not; either ends the update.
LiveSend(p) ==
    LET u == sess[p].upd
    IN  /\ sess[p].at = "send"
        /\ \/ Sent(u) /\ ~LastMessage(u) /\ UNCHANGED sess /\ NotFlagged
           \/ Sent(u) /\ LastMessage(u) /\ Passed(p) /\ NotFlagged
           \/ Full /\ NotSent(u) /\ Passed(p) /\ RequestDisconnect
           \/ Closed /\ NotSent(u) /\ Passed(p) /\ NotFlagged
        /\ UNCHANGED <<register, advertised, ribVars, clients, phase,
                       dumpBuffer, writer, dumpVars, runner>>

-----------------------------------------------------------------------------
(***************************************************************************)
(* The writer task.                                                        *)
(***************************************************************************)

\* A message reaches the socket; the select is biased to the disconnect signal.
WriterWrites ==
    /\ writer = "running" /\ ~permit /\ qlen > 0
    /\ qlen' = qlen - 1
    /\ UNCHANGED <<feedVars, clients, phase, dumpBuffer, known, cache, pending,
                   permit, writer, dumpVars, runner, wireVars>>

\* The loop ends on the signal, on a write error or on a stalled write.
WriterBreaks ==
    /\ writer = "running"
    /\ \/ permit /\ permit' = FALSE /\ UNCHANGED qlen
       \/ ~permit /\ qlen > 0 /\ qlen' = qlen - 1 /\ UNCHANGED permit
    /\ writer' = "cleanup"
    /\ UNCHANGED <<feedVars, clients, phase, dumpBuffer, known, cache, pending,
                   dumpVars, runner, wireVars>>

\* The client leaves the registry under the write lock; the task ends and the
\* receiving side of the queue is dropped with it.
WriterCleansUp ==
    /\ writer = "cleanup"
    /\ runner # "holding"
    /\ writer' = "gone"
    /\ clients' = FALSE
    /\ UNCHANGED <<feedVars, clientVars, dumpVars, runner, wireVars>>

-----------------------------------------------------------------------------
(***************************************************************************)
(* The dump task.  Its sends wait for room in the queue.                   *)
(***************************************************************************)

\* The client is put in the registry before its two tasks are spawned.
Connect ==
    /\ runner = "accepting"
    /\ dump = "none"
    /\ clients' = TRUE
    /\ writer' = "running"
    /\ dump' = "init"
    /\ UNCHANGED <<feedVars, clientVars, toSend, walkKeys, fetched, aggPeers,
                   batch, partial, runner, wireVars>>

Enqueue == Room /\ qlen' = qlen + 1

\* Without a RIB the Initiation is all there is (its failure is ignored); the
\* task takes the phase lock and keeps it until the client is Live.
SendInitiation ==
    /\ dump = "init"
    /\ \/ /\ HasRib
          /\ Enqueue
          /\ dump' = "enumerate"
          /\ UNCHANGED <<batch, dumpBuffer>>
       \/ /\ ~HasRib
          /\ Enqueue \/ (Closed /\ UNCHANGED qlen)
          /\ dump' = "norib"
          /\ batch' = dumpBuffer
          /\ dumpBuffer' = <<>>
    /\ UNCHANGED <<feedVars, clients, phase, known, cache, pending, permit,
                   writer, toSend, walkKeys, fetched, aggPeers, partial, runner,
                   wireVars>>

\* The peers the register calls Connected.
Enumerate ==
    /\ dump = "enumerate"
    /\ toSend' = {p \in Peers : register[p] = "connected"}
    /\ aggPeers' = {p \in Peers : register[p] = "connected"}
    /\ dump' = "peerup"
    /\ UNCHANGED <<feedVars, clients, clientVars, writer, walkKeys, fetched,
                   batch, partial, runner, wireVars>>

DumpPeerUp(p) ==
    /\ dump = "peerup"
    /\ p \in toSend
    /\ Enqueue
    /\ toSend' = toSend \ {p}
    /\ known' = known \cup {p}
    /\ Wire(p, "peerup", {})
    /\ UNCHANGED <<feedVars, clients, phase, dumpBuffer, cache, pending, permit,
                   writer, dump, walkKeys, fetched, aggPeers, batch, partial,
                   runner>>

\* stream_prefix_records lists the keys of the store first.  A key whose
\* records are all withdrawn is listed too.
StartWalk ==
    /\ dump = "peerup"
    /\ toSend = {}
    /\ dump' = "walk"
    /\ walkKeys' \in {K \in SUBSET Prefixes :
                         UNION {active[p] : p \in Peers} \subseteq K}
    /\ UNCHANGED <<feedVars, clients, clientVars, writer, toSend, fetched,
                   aggPeers, batch, partial, runner, wireVars>>

\* It then fetches the records of one key after the other.
WalkFetch(x) ==
    /\ dump = "walk"
    /\ x \in walkKeys
    /\ walkKeys' = walkKeys \ {x}
    /\ fetched' = fetched \cup {r \in Peers \X {x} : x \in Visible(r[1])}
    /\ UNCHANGED <<feedVars, clients, clientVars, writer, dump, toSend,
                   aggPeers, batch, partial, runner, wireVars>>

\* Its deadline, or a store that is not ready, ends it early; what it fetched
\* is still flushed.
WalkCutShort ==
    /\ dump = "walk"
    /\ walkKeys # {}
    /\ walkKeys' = {}
    /\ partial' = TRUE
    /\ UNCHANGED <<feedVars, clients, clientVars, writer, dump, toSend, fetched,
                   aggPeers, batch, runner, wireVars>>

\* Mutant: a record of an unregistered peer is kept.
WalkDiscoverNeverSkips(r) ==
    /\ dump = "walk"
    /\ r \in fetched
    /\ r[1] \notin aggPeers
    /\ Registered(r[1])
    /\ Enqueue
    /\ Wire(r[1], "peerup", {})
    /\ aggPeers' = aggPeers \cup {r[1]}
    /\ UNCHANGED <<feedVars, clients, phase, dumpBuffer, known, cache, pending,
                   permit, writer, dump, toSend, walkKeys, fetched, batch,
                   partial, runner>>

\* A record of a peer that was not enumerated: the register decides between a
\* Peer Up ahead of the peer's routes and skipping the record.
WalkDiscover(r) ==
    /\ dump = "walk"
    /\ r \in fetched
    /\ r[1] \notin aggPeers
    /\ \/ /\ Registered(r[1])
          /\ Enqueue
          /\ Wire(r[1], "peerup", {})
          /\ aggPeers' = aggPeers \cup {r[1]}
          /\ UNCHANGED fetched
       \/ /\ ~Registered(r[1])
          /\ fetched' = fetched \ {r}
          /\ UNCHANGED <<qlen, wireVars, aggPeers>>
    /\ UNCHANGED <<feedVars, clients, phase, dumpBuffer, known, cache, pending,
                   permit, writer, dump, toSend, walkKeys, batch, partial,
                   runner>>

\* The aggregator packs routes of one peer in one message.
WalkEmit(p, S) ==
    /\ dump = "walk"
    /\ p \in aggPeers
    /\ S # {} /\ {p} \X S \subseteq fetched
    /\ Enqueue
    /\ fetched' = fetched \ ({p} \X S)
    /\ Wire(p, "announce", S)
    /\ UNCHANGED <<feedVars, clients, phase, dumpBuffer, known, cache, pending,
                   permit, writer, dump, toSend, walkKeys, aggPeers, batch,
                   partial, runner>>

WalkDone ==
    /\ dump = "walk"
    /\ walkKeys = {} /\ fetched = {}
    /\ dump' = "eor"
    /\ toSend' = aggPeers
    /\ aggPeers' = {}
    /\ UNCHANGED <<feedVars, clients, clientVars, writer, walkKeys, fetched,
                   batch, partial, runner, wireVars>>

\* Mutant: peers discovered by the walk never become known.
DumpEndOfRibForgets(p) ==
    /\ dump = "eor"
    /\ p \in toSend
    /\ Enqueue
    /\ toSend' = toSend \ {p}
    /\ faults' = IF p \in up THEN faults ELSE faults \cup {p}
    /\ UNCHANGED <<feedVars, clients, phase, dumpBuffer, known, cache, pending,
                   permit, writer, dump, walkKeys, fetched, aggPeers, batch,
                   partial, runner, up, view>>

\* End-of-RIB for every peer of the aggregator; those found by the walk become
\* known here.  One message stands for the two address families.
DumpEndOfRib(p) ==
    /\ dump = "eor"
    /\ p \in toSend
    /\ Enqueue
    /\ toSend' = toSend \ {p}
    /\ faults' = IF p \in up THEN faults ELSE faults \cup {p}
    /\ known' = known \cup {p}
    /\ UNCHANGED <<feedVars, clients, phase, dumpBuffer, cache, pending, permit,
                   writer, dump, walkKeys, fetched, aggPeers, batch, partial,
                   runner, up, view>>

\* Mutant: the client is Live after one batch, without a second look.
DrainOnce ==
    /\ \/ dump = "eor" /\ toSend = {} /\ dumpBuffer # <<>>
          /\ batch' = dumpBuffer /\ dumpBuffer' = <<>>
          /\ dump' = "drain" /\ UNCHANGED phase
       \/ /\ \/ dump = "eor" /\ toSend = {} /\ dumpBuffer = <<>>
             \/ dump = "drain" /\ batch = <<>>
          /\ phase' = "Live"
          /\ dump' = "done"
          /\ UNCHANGED <<dumpBuffer, batch>>
    /\ UNCHANGED <<feedVars, clients, known, cache, pending, permit, qlen,
                   writer, toSend, walkKeys, fetched, aggPeers, partial, runner,
                   wireVars>>

\* Under the phase lock: either the buffer is empty and the client is Live, or
\* what it holds becomes the next batch.
Drain ==
    /\ \/ dump = "eor" /\ toSend = {}
       \/ dump = "drain" /\ batch = <<>>
    /\ \/ /\ dumpBuffer = <<>>
          /\ phase' = "Live"
          /\ dump' = "done"
          /\ UNCHANGED <<dumpBuffer, batch>>
       \/ /\ dumpBuffer # <<>>
          /\ batch' = dumpBuffer
          /\ dumpBuffer' = <<>>
          /\ dump' = "drain"
          /\ UNCHANGED phase
    /\ UNCHANGED <<feedVars, clients, known, cache, pending, permit, qlen,
                   writer, toSend, walkKeys, fetched, aggPeers, partial, runner,
                   wireVars>>

\* One message of the batch.
Replay ==
    /\ dump \in {"drain", "norib"}
    /\ batch # <<>>
    /\ Sent(Head(batch))
    /\ batch' = IF LastMessage(Head(batch)) THEN Tail(batch) ELSE batch
    /\ UNCHANGED <<feedVars, clients, phase, dumpBuffer, pending, permit, writer,
                   dump, toSend, walkKeys, fetched, aggPeers, partial, runner>>

\* Mutant: a failed replay does not end the loop, and the lock is kept.
NoRibNeedsAll ==
    /\ dump = "norib"
    /\ batch = <<>>
    /\ phase' = "Live"
    /\ dump' = "done"
    /\ UNCHANGED <<feedVars, clients, dumpBuffer, known, cache, pending, permit,
                   qlen, writer, toSend, walkKeys, fetched, aggPeers, batch,
                   partial, runner, wireVars>>

\* Without a RIB the client goes Live after one batch, or at the first failure.
NoRibGoesLive ==
    /\ dump = "norib"
    /\ \/ batch = <<>> /\ UNCHANGED <<known, cache, qlen, wireVars>>
       \/ batch # <<>> /\ Closed /\ NotSent(Head(batch))
    /\ phase' = "Live"
    /\ dump' = "done"
    /\ batch' = <<>>
    /\ UNCHANGED <<feedVars, clients, dumpBuffer, pending, permit, writer,
                   toSend, walkKeys, fetched, aggPeers, partial, runner>>

\* A send of the dump finds the channel closed, or the walk notices the flag;
\* the walk also discards the buffer.
DumpFails ==
    /\ HasRib
    /\ \/ /\ Closed
          /\ \/ dump = "init"
             \/ dump \in {"peerup", "eor"} /\ toSend # {}
          /\ UNCHANGED <<dumpBuffer, known, cache, qlen, wireVars>>
       \/ /\ dump = "walk"
          /\ \/ pending
             \/ Closed /\ \E r \in fetched : r[1] \in aggPeers \/ Registered(r[1])
          /\ dumpBuffer' = <<>>
          /\ UNCHANGED <<known, cache, qlen, wireVars>>
       \/ /\ Closed
          /\ dump = "drain" /\ batch # <<>>
          /\ NotSent(Head(batch))
          /\ UNCHANGED dumpBuffer
    /\ RequestDisconnect
    /\ dump' = "done"
    /\ batch' = <<>>
    /\ toSend' = {} /\ walkKeys' = {} /\ fetched' = {} /\ aggPeers' = {}
    /\ UNCHANGED <<feedVars, clients, phase, writer, partial, runner>>

-----------------------------------------------------------------------------
(***************************************************************************)
(* Termination of the unit: the read lock on the registry is kept while    *)
(* every client is sent a Termination message, which waits for room.       *)
(***************************************************************************)

Terminate ==
    /\ MayTerminate
    /\ runner = "accepting"
    /\ runner' = "holding"
    /\ UNCHANGED <<feedVars, clients, clientVars, writer, dumpVars, wireVars>>

SendTermination ==
    /\ runner = "holding"
    /\ \/ clients /\ Enqueue
       \/ ~clients /\ UNCHANGED qlen
    /\ runner' = "ended"
    /\ UNCHANGED <<feedVars, clients, phase, dumpBuffer, known, cache, pending,
                   permit, writer, dumpVars, wireVars>>

-----------------------------------------------------------------------------

SessionStepOf(p) ==
    RibApply(p) \/ Snapshot(p) \/ Deliver(p) \/ LiveSend(p) \/ BgpCleanup(p)

PeerEvent(p) ==
    \/ FirstPeerUp(p) \/ PeerStats(p) \/ PeerDown(p) \/ PeerReappears(p)
    \/ \E x \in Prefixes : RouteMonitoring(p, x)
    \/ GcReclaims(p)

DumpTask ==
    \/ SendInitiation \/ Enumerate \/ StartWalk \/ WalkCutShort \/ WalkDone
    \/ Drain \/ Replay \/ NoRibGoesLive \/ DumpFails
    \/ \E p \in Peers : DumpPeerUp(p) \/ DumpEndOfRib(p)
    \/ \E x \in Prefixes : WalkFetch(x)
    \/ \E r \in Peers \X Prefixes : WalkDiscover(r)
    \/ \E p \in Peers, S \in SUBSET Prefixes : WalkEmit(p, S)

WriterTask == WriterWrites \/ WriterBreaks \/ WriterCleansUp

Next ==
    \/ \E p \in Peers : PeerEvent(p) \/ SessionStepOf(p)
    \/ Connect \/ DumpTask \/ WriterTask \/ Terminate \/ SendTermination

Spec == Init /\ [][Next]_vars

\* tokio runs every task that can go on, and its locks and channels serve
\* waiters first come first served.  Nothing forces a peer to send, a collector
\* to connect, the sweep to run or the unit to terminate.
Fairness ==
    /\ \A p \in Peers : WF_vars(SessionStepOf(p))
    /\ WF_vars(DumpTask)
    /\ WF_vars(WriterTask)
    /\ SF_vars(SendTermination)

FairSpec == Spec /\ Fairness

-----------------------------------------------------------------------------
(***************************************************************************)
(* Properties.                                                             *)
(***************************************************************************)

FlagsOK ==
    /\ clients \in BOOLEAN
    /\ pending \in BOOLEAN
    /\ permit \in BOOLEAN
    /\ partial \in BOOLEAN

SessionsOK ==
    /\ RibTypeOK
    /\ register \in [Peers -> RegisterState]
    /\ advertised \in [Peers -> SUBSET Prefixes]
    /\ sess \in [Peers -> [at : SessionStep, upd : Updates]]

TasksOK ==
    /\ phase \in {"Dumping", "Live"}
    /\ writer \in {"none", "running", "cleanup", "gone"}
    /\ dump \in DumpStep
    /\ toSend \in SUBSET Peers /\ aggPeers \in SUBSET Peers
    /\ walkKeys \in SUBSET Prefixes
    /\ fetched \in SUBSET (Peers \X Prefixes)
    /\ runner \in {"accepting", "holding", "ended"}

QueuesOK ==
    /\ dumpBuffer \in Seq(Updates) /\ Len(dumpBuffer) <= MaxBuf
    /\ batch \in Seq(Updates)
    /\ qlen \in 0..QueueDepth

CollectorOK ==
    /\ known \in SUBSET Peers /\ cache \in SUBSET Peers
    /\ up \in SUBSET Peers /\ faults \in SUBSET Peers
    /\ view \in [Peers -> SUBSET Prefixes]

\* Every variable has its type, and the buffer and the queue stay within the
\* limits max_client_buffer and live_queue_depth.
TypeOK == FlagsOK /\ SessionsOK /\ TasksOK /\ QueuesOK /\ CollectorOK

\* A client that is being served: Live, and nothing has condemned it.
Serving ==
    /\ phase = "Live"
    /\ writer = "running" /\ ~pending
    /\ runner = "accepting"
    /\ ~partial

\* Once a client is Live, a peer with no update on its way has at the collector
\* exactly the routes the RIB shows for it, and is up there if it has any: the
\* dump, the updates buffered meanwhile and the live updates together neither
\* lose, reorder nor duplicate anything (perform_initial_dump, direct_update).
ClientConverges ==
    \A p \in Peers :
        Serving /\ sess[p].at = "idle" /\ Registered(p) =>
            /\ view[p] = Visible(p)
            /\ Visible(p) # {} => p \in up

\* While the client is not condemned, known_peers says exactly which peers of
\* the register the collector holds up, except that peers discovered by the
\* walk become known only in the End-of-RIB loop.
KnownMatchesWire ==
    \A p \in Peers :
        /\ Registered(p) /\ ~pending /\ writer = "running"
        /\ dump \notin {"walk", "eor"}
        => (p \in known <=> p \in up)

\* A cached header is that of a peer whose Peer Up the collector has seen and
\* whose Peer Down it has not (the fast path of send_payload_to_client sends
\* under a cached header without looking anything up).
CachedPeersAreUp == cache \subseteq known \cap up

\* No update is left behind in the buffer when the client turns Live.
NothingStranded == phase = "Live" => dumpBuffer = <<>> /\ batch = <<>>

\* On the wire there is no second Peer Up for a peer that is up, and no route
\* or Peer Down for one that is not (the unit implements BmpStream).
LegalStream == Stream!StreamSpec

\* The RIB never shows a route that the current session of a peer has not
\* announced: nothing of an earlier session comes back when the peer does.
NothingResurrected ==
    \A p \in Peers :
        sess[p].at = "idle" /\ Registered(p) => Visible(p) = advertised[p]

\* A client flagged for disconnect leaves the registry.
FlaggedClientLeaves == pending ~> ~clients

\* Every update gets past the unit: no session is held up for good.
IngestProgresses ==
    \A p \in Peers : sess[p].at # "idle" ~> sess[p].at = "idle"

\* If the peers fall silent, a client that connects ends up Live or gone.
DumpEnds ==
    <>[](\A p \in Peers : sess[p].at = "idle")
        => (dump = "init" ~> phase = "Live" \/ ~clients)

\* A unit that is told to terminate does.
TerminationEnds == runner = "holding" ~> runner = "ended"

-----------------------------------------------------------------------------
(***************************************************************************)
(* The inductive invariant behind KnownMatchesWire, CachedPeersAreUp,      *)
(* NothingStranded and LegalStream.                                        *)
(***************************************************************************)

\* How far the tasks of the client have got.
Stages ==
    /\ writer = "none" <=> dump = "none"
    /\ clients => writer \in {"running", "cleanup"}
    /\ phase = "Live" => dump = "done"
    /\ phase = "Live" \/ dump = "norib" => dumpBuffer = <<>>
    /\ dump \notin {"drain", "norib"} => batch = <<>>
    /\ dump = "done" /\ phase = "Dumping" => pending
    /\ \A p \in Peers : sess[p].at = "send" => phase = "Live"
    /\ \A p \in Peers : sess[p].upd.peer = p

\* A session pushes for a peer that is registered, save for the last update.
Feeding ==
    \A p \in Peers :
        /\ register[p] = "unseen" => sess[p].at = "idle"
        /\ sess[p].at \notin {"idle", "cleanup"} /\ sess[p].upd.kind # "down"
              => register[p] = "connected"

\* Nobody has heard of a peer before it is registered for the first time.
Heard(s) == \A i \in DOMAIN s : register[s[i].peer] # "unseen"
NothingUnseen ==
    /\ \A p \in known \cup up \cup aggPeers \cup toSend : register[p] # "unseen"
    /\ Heard(dumpBuffer)
    /\ Heard(batch)

\* The peers on the wire before the replay starts.
DumpedPeers ==
    /\ dump \in {"none", "init", "enumerate"} => known = {} /\ up = {}
    /\ dump = "peerup" => /\ toSend \subseteq aggPeers
                          /\ known = aggPeers \ toSend
                          /\ up = known
    /\ dump = "walk" => known \subseteq up /\ up = aggPeers
    /\ dump = "eor" => up = known \cup toSend
    /\ dump \notin {"drain", "norib", "done"} => cache = {}

\* A known peer is up.  The converse fails for a client that is lost: its
\* receiver is gone, its dump was given up, or a Peer Down of the peer did not
\* fit in the queue, after which the session of that peer sends nothing more.
Lost(p) ==
    \/ Closed
    \/ dump = "done" /\ phase = "Dumping"
    \/ phase = "Live" /\ pending /\ sess[p].at \notin {"deliver", "send"}

Mirrored ==
    \A p \in Peers :
        Registered(p) =>
            /\ p \in known => p \in up
            /\ p \in up /\ dump \notin {"walk", "eor"} /\ ~Lost(p) => p \in known

\* All of it.
WireInv ==
    TypeOK /\ Stages /\ Feeding /\ NothingUnseen /\ DumpedPeers /\ Mirrored
        /\ CachedPeersAreUp
=============================================================================
