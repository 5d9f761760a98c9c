----------------------------- MODULE BmpOutProofs ----------------------------
(***************************************************************************)
(* Proofs about BmpOut, for any number of peers and prefixes, any buffer   *)
(* and queue size, with and without a RIB.                                 *)
(***************************************************************************)
EXTENDS BmpOut, TLAPS

Kinds == {"announce", "withdraw", "down", "reappear", "stats"}

LEMMA AtType ==
    ASSUME NEW p \in Peers, NEW S \in SUBSET Prefixes, NEW kind \in Kinds,
           NEW step \in SessionStep
    PROVE  At(step, p, kind, S) \in [at : SessionStep, upd : Updates]
BY DEF At, Updates, Kinds

LEMMA PassedType ==
    ASSUME NEW p \in Peers, SessionsOK, Passed(p)
    PROVE  sess' \in [Peers -> [at : SessionStep, upd : Updates]]
<1> DEFINE step == IF p \in BgpPeers /\ sess[p].upd.kind = "down"
                   THEN "cleanup" ELSE "idle"
<1>1. At(step, p, "stats", {}) \in [at : SessionStep, upd : Updates]
    BY AtType, Zenon DEF SessionStep, Kinds
<1> QED
    BY <1>1 DEF Passed, SessionsOK

LEMMA TypeInit == Init => TypeOK
<1> SUFFICES ASSUME Init PROVE TypeOK
    OBVIOUS
<1>1. FlagsOK
    BY Zenon DEF Init, FlagsOK
<1>2. SessionsOK
    <2>1. sess \in [Peers -> [at : SessionStep, upd : Updates]]
        BY AtType, Zenon DEF Init, SessionStep, Kinds
    <2> QED
        BY <2>1 DEF Init, RibInit, SessionsOK, RibTypeOK, RegisterState
<1>3. TasksOK
    BY DEF Init, TasksOK, DumpStep
<1>4. QueuesOK
    <2>1. dumpBuffer = <<>> /\ batch = <<>> /\ qlen = 0
        BY DEF Init
    <2> QED
        BY <2>1, BmpOutAssumption DEF QueuesOK
<1>5. CollectorOK
    BY DEF Init, Stream!StreamInit, CollectorOK
<1> QED
    BY <1>1, <1>2, <1>3, <1>4, <1>5 DEF TypeOK

\* A step that leaves the client and the unit alone.
LEMMA TypeClientUnchanged ==
    ASSUME TypeOK, SessionsOK',
           UNCHANGED <<clients, clientVars, writer, dumpVars, runner, wireVars>>
    PROVE  TypeOK'
<1>1. FlagsOK'
    BY Zenon DEF TypeOK, FlagsOK, clientVars, dumpVars, wireVars
<1>2. TasksOK'
    BY DEF TypeOK, TasksOK, clientVars, dumpVars
<1>3. QueuesOK'
    BY DEF TypeOK, QueuesOK, clientVars, dumpVars
<1>4. CollectorOK'
    BY DEF TypeOK, CollectorOK, clientVars, wireVars
<1> QED
    BY <1>1, <1>2, <1>3, <1>4 DEF TypeOK

LEMMA TypePeerEvent ==
    ASSUME TypeOK, NEW p \in Peers, PeerEvent(p)
    PROVE  TypeOK'
<1> USE DEF SessionsOK, RibTypeOK, RegisterState, ribVars
<1>0. SessionsOK
    BY DEF TypeOK
<1>1. CASE FirstPeerUp(p)
    BY <1>0, <1>1, TypeClientUnchanged DEF FirstPeerUp
<1>2. ASSUME NEW kind \in Kinds, NEW S \in SUBSET Prefixes, Push(p, kind, S),
             register' \in [Peers -> RegisterState],
             advertised' \in [Peers -> SUBSET Prefixes]
      PROVE  TypeOK'
    <2>1. At("rib", p, kind, S) \in [at : SessionStep, upd : Updates]
        BY AtType DEF SessionStep
    <2> QED
        BY <1>0, <1>2, <2>1, TypeClientUnchanged, Zenon DEF Push
<1>3. CASE PeerStats(p)
    BY <1>0, <1>2, <1>3 DEF PeerStats, Kinds
<1>4. CASE PeerDown(p)
    BY <1>0, <1>2, <1>4 DEF PeerDown, Kinds
<1>5. CASE PeerReappears(p)
    BY <1>0, <1>2, <1>5 DEF PeerReappears, Kinds
<1>6. ASSUME NEW x \in Prefixes, RouteMonitoring(p, x)
      PROVE  TypeOK'
    <2>1. {x} \in SUBSET Prefixes
        OBVIOUS
    <2>2. register' = register /\ advertised' \in [Peers -> SUBSET Prefixes]
        BY <1>0, <1>6 DEF RouteMonitoring
    <2>3. Push(p, "announce", {x}) \/ Push(p, "withdraw", {x})
        BY <1>6 DEF RouteMonitoring
    <2> QED
        BY <1>0, <1>2, <2>1, <2>2, <2>3, SMT, Z3 DEF Kinds
<1>7. CASE GcReclaims(p)
    BY <1>0, <1>7, TypeClientUnchanged DEF GcReclaims, RemoveForIngresses
<1> QED
    BY <1>1, <1>3, <1>4, <1>5, <1>6, <1>7 DEF PeerEvent

\* What sending a message, or failing to, does to the types.
LEMMA TypeRemember ==
    ASSUME TypeOK, NEW u \in Updates, NEW sent \in BOOLEAN,
           RememberPeer(u, sent), RememberHeader(u, sent)
    PROVE  known' \in SUBSET Peers /\ cache' \in SUBSET Peers
BY DEF TypeOK, CollectorOK, RememberPeer, RememberHeader, Updates

LEMMA TypeWire ==
    ASSUME TypeOK, NEW p \in Peers, NEW S \in SUBSET Prefixes, NEW msg,
           Wire(p, msg, S)
    PROVE  /\ up' \in SUBSET Peers /\ faults' \in SUBSET Peers
           /\ view' \in [Peers -> SUBSET Prefixes]
BY DEF TypeOK, CollectorOK, Wire

LEMMA TypeSent ==
    ASSUME TypeOK, NEW u \in Updates, Sent(u)
    PROVE  qlen' \in 0..QueueDepth /\ CollectorOK'
<1>1. qlen' \in 0..QueueDepth
    BY BmpOutAssumption DEF TypeOK, QueuesOK, Sent, Room
<1>2. known' \in SUBSET Peers /\ cache' \in SUBSET Peers
    BY TypeRemember, Zenon DEF Sent
<1>3. /\ up' \in SUBSET Peers /\ faults' \in SUBSET Peers
      /\ view' \in [Peers -> SUBSET Prefixes]
    BY TypeWire DEF Sent, Updates
<1> QED
    BY <1>1, <1>2, <1>3 DEF CollectorOK

LEMMA TypeNotSent ==
    ASSUME TypeOK, NEW u \in Updates, NotSent(u)
    PROVE  qlen' \in 0..QueueDepth /\ CollectorOK'
<1>1. known' \in SUBSET Peers /\ cache' \in SUBSET Peers
    BY TypeRemember, Zenon DEF NotSent
<1>2. qlen' = qlen /\ up' = up /\ view' = view /\ faults' = faults
    BY DEF NotSent, wireVars
<1> QED
    BY <1>1, <1>2 DEF TypeOK, CollectorOK, QueuesOK

LEMMA TypeRequestDisconnect ==
    ASSUME TypeOK, RequestDisconnect \/ NotFlagged
    PROVE  pending' \in BOOLEAN /\ permit' \in BOOLEAN
BY Zenon DEF TypeOK, FlagsOK, RequestDisconnect, NotFlagged

LEMMA TypeSession ==
    ASSUME TypeOK, NEW p \in Peers, SessionStepOf(p)
    PROVE  TypeOK'
<1> USE DEF ribVars
<1>0. SessionsOK /\ sess[p] \in [at : SessionStep, upd : Updates]
    BY DEF TypeOK, SessionsOK
<1>1. CASE RibApply(p)
    <2>1. sess' \in [Peers -> [at : SessionStep, upd : Updates]]
        BY <1>0, <1>1, Zenon DEF RibApply, SessionsOK, SessionStep
    <2>2. register' \in [Peers -> RegisterState] /\ advertised' = advertised
        BY <1>0, <1>1, Zenon DEF RibApply, SessionsOK, RegisterState
    <2>3. RibTypeOK'
        BY <1>0, <1>1
        DEF RibApply, SessionsOK, RibTypeOK, InsertActive, InsertWithdrawn,
            WithdrawForIngresses, MarkIngressActive, Updates
    <2> QED
        BY <1>0, <1>1, <2>1, <2>2, <2>3, TypeClientUnchanged, Zenon
        DEF RibApply, SessionsOK
<1>2. CASE Snapshot(p)
    <2>1. sess' \in [Peers -> [at : SessionStep, upd : Updates]]
        BY <1>0, <1>2, PassedType DEF Snapshot, SessionsOK, SessionStep
    <2> QED
        BY <1>0, <1>2, <2>1, TypeClientUnchanged, Zenon
        DEF Snapshot, SessionsOK, RibTypeOK
<1>3. CASE Deliver(p)
    <2>1. sess' \in [Peers -> [at : SessionStep, upd : Updates]]
        BY <1>0, <1>3, PassedType DEF Deliver, BufferFull, PhaseLocked,
                              SessionsOK, SessionStep
    <2>2. SessionsOK'
        BY <1>0, <1>3, <2>1 DEF Deliver, BufferFull, PhaseLocked, SessionsOK,
                              RibTypeOK
    <2>3. FlagsOK'
        <3>1. pending' \in BOOLEAN /\ permit' \in BOOLEAN
            BY <1>3, TypeRequestDisconnect DEF Deliver, BufferFull, PhaseLocked
        <3>2. clients' = clients /\ partial' = partial
            BY <1>3 DEF Deliver, BufferFull, PhaseLocked, dumpVars, wireVars
        <3> QED
            BY <3>1, <3>2, Zenon DEF TypeOK, FlagsOK
    <2>4. TasksOK'
        BY <1>3 DEF Deliver, BufferFull, PhaseLocked, TypeOK, TasksOK, dumpVars
    <2>5. QueuesOK'
        <3>1. sess[p].upd \in Updates
            BY <1>0
        <3> QED
            BY <1>3, <3>1, BmpOutAssumption, SMTT(30)
            DEF Deliver, BufferFull, PhaseLocked, TypeOK, QueuesOK, dumpVars
    <2>6. CollectorOK'
        BY <1>3 DEF Deliver, BufferFull, PhaseLocked, TypeOK, CollectorOK,
                    wireVars
    <2> QED
        BY <2>2, <2>3, <2>4, <2>5, <2>6 DEF TypeOK
<1>4. CASE LiveSend(p)
    <2>1. sess' \in [Peers -> [at : SessionStep, upd : Updates]]
        BY <1>0, <1>4, PassedType, Zenon DEF LiveSend, SessionsOK
    <2>2. SessionsOK'
        BY <1>0, <1>4, <2>1, Zenon DEF LiveSend, SessionsOK, RibTypeOK
    <2>3. sess[p].upd \in Updates
        BY <1>0
    <2>4. qlen' \in 0..QueueDepth /\ CollectorOK'
        BY <1>4, <2>3, TypeSent, TypeNotSent, Zenon DEF LiveSend
    <2>5. FlagsOK'
        <3>1. pending' \in BOOLEAN /\ permit' \in BOOLEAN
            BY <1>4, TypeRequestDisconnect DEF LiveSend
        <3>2. clients' = clients /\ partial' = partial
            BY <1>4 DEF LiveSend, dumpVars
        <3> QED
            BY <2>4, <3>1, <3>2, Zenon DEF TypeOK, FlagsOK
    <2>6. TasksOK' /\ QueuesOK'
        BY <1>4, <2>4, Zenon DEF LiveSend, TypeOK, TasksOK, QueuesOK, dumpVars
    <2> QED
        BY <2>2, <2>4, <2>5, <2>6 DEF TypeOK
<1>5. CASE BgpCleanup(p)
    <2>1. sess' \in [Peers -> [at : SessionStep, upd : Updates]]
        BY <1>0, <1>5 DEF BgpCleanup, SessionsOK, SessionStep
    <2> QED
        BY <1>0, <1>5, <2>1, TypeClientUnchanged, Zenon
        DEF BgpCleanup, SessionsOK, RibTypeOK, RegisterState
<1> QED
    BY <1>1, <1>2, <1>3, <1>4, <1>5 DEF SessionStepOf

\* A step of the client's own tasks or of the unit leaves the sessions alone.
LEMMA TypeSessionsUnchanged ==
    ASSUME TypeOK, UNCHANGED feedVars
    PROVE  SessionsOK'
BY DEF TypeOK, SessionsOK, RibTypeOK, feedVars

LEMMA TypeEnqueue ==
    ASSUME TypeOK, Enqueue
    PROVE  qlen' \in 0..QueueDepth
BY BmpOutAssumption DEF TypeOK, QueuesOK, Enqueue, Room

\* The steps of the dump task that send no route and no Peer Up.
DumpControl ==
    \/ SendInitiation \/ Enumerate \/ StartWalk \/ WalkCutShort \/ WalkDone
    \/ Drain
    \/ \E x \in Prefixes : WalkFetch(x)
    \/ \E p \in Peers : DumpEndOfRib(p)

LEMMA TypeDumpControl ==
    ASSUME TypeOK, DumpControl
    PROVE  TypeOK'
<1> USE DEF TypeOK, DumpControl, SendInitiation, Enumerate, StartWalk,
            WalkCutShort, WalkDone, Drain, WalkFetch, DumpEndOfRib, clientVars,
            dumpVars, wireVars
<1>1. SessionsOK'
    BY TypeSessionsUnchanged, Zenon
<1>2. FlagsOK'
    <2>1. \/ partial' = partial
          \/ partial' = TRUE
        BY Zenon
    <2>2. /\ clients' = clients /\ pending' = pending /\ permit' = permit
        BY Zenon
    <2> QED
        BY <2>1, <2>2, Zenon DEF FlagsOK
<1>3. TasksOK'
    BY Zenon DEF TasksOK, DumpStep
<1>4. QueuesOK'
    <2>1. qlen' \in 0..QueueDepth
        BY TypeEnqueue, Zenon DEF QueuesOK
    <2>2. \/ dumpBuffer' = dumpBuffer /\ batch' = batch
          \/ dumpBuffer' = <<>> /\ batch' = dumpBuffer
        BY Zenon
    <2>3. <<>> \in Seq(Updates) /\ Len(<<>>) <= MaxBuf
        BY BmpOutAssumption
    <2> QED
        BY <2>1, <2>2, <2>3, Zenon DEF QueuesOK
<1>5. CollectorOK'
    BY Zenon DEF CollectorOK
<1> QED
    BY <1>1, <1>2, <1>3, <1>4, <1>5, Zenon

LEMMA TypeUnit ==
    ASSUME TypeOK, Connect \/ WriterTask \/ Terminate \/ SendTermination
    PROVE  TypeOK'
<1> USE DEF TypeOK, Connect, WriterTask, WriterWrites, WriterBreaks,
            WriterCleansUp, Terminate, SendTermination, clientVars, dumpVars,
            wireVars
<1>1. SessionsOK'
    BY TypeSessionsUnchanged, Zenon
<1>2. FlagsOK'
    <2>1. \/ clients' = clients
          \/ clients' = TRUE
          \/ clients' = FALSE
        BY Zenon
    <2>2. \/ permit' = permit
          \/ permit' = FALSE
        BY Zenon
    <2>3. pending' = pending /\ partial' = partial
        BY Zenon
    <2> QED
        BY <2>1, <2>2, <2>3, Zenon DEF FlagsOK
<1>3. TasksOK'
    BY Zenon DEF TasksOK, DumpStep
<1>4. QueuesOK'
    <2>1. qlen' = qlen \/ (qlen > 0 /\ qlen' = qlen - 1) \/ Enqueue
        BY Zenon
    <2>2. qlen' \in 0..QueueDepth
        BY <2>1, TypeEnqueue, BmpOutAssumption DEF QueuesOK
    <2> QED
        BY <2>2, Zenon DEF QueuesOK
<1>5. CollectorOK'
    BY Zenon DEF CollectorOK
<1> QED
    BY <1>1, <1>2, <1>3, <1>4, <1>5, Zenon

\* The steps of the dump task that send a Peer Up or routes of the RIB.
DumpSend ==
    \/ \E p \in Peers : DumpPeerUp(p)
    \/ \E r \in Peers \X Prefixes : WalkDiscover(r)
    \/ \E p \in Peers, S \in SUBSET Prefixes : WalkEmit(p, S)

LEMMA TypeDumpSend ==
    ASSUME TypeOK, DumpSend
    PROVE  TypeOK'
<1> USE DEF DumpSend, DumpPeerUp, WalkDiscover, WalkEmit, dumpVars
<1>1. SessionsOK'
    BY TypeSessionsUnchanged, Zenon
<1>2. /\ up' \in SUBSET Peers /\ faults' \in SUBSET Peers
      /\ view' \in [Peers -> SUBSET Prefixes]
    <2>1. \/ \E p \in Peers, S \in SUBSET Prefixes, msg \in {"peerup", "announce"} :
                Wire(p, msg, S)
          \/ UNCHANGED wireVars
        <3>1. ASSUME NEW r \in Peers \X Prefixes, WalkDiscover(r)
              PROVE  \/ \E p \in Peers : Wire(p, "peerup", {})
                     \/ UNCHANGED wireVars
            BY <3>1, Zenon
        <3> QED
            BY <3>1, Zenon
    <2>2. ASSUME UNCHANGED wireVars
          PROVE  /\ up' \in SUBSET Peers /\ faults' \in SUBSET Peers
                 /\ view' \in [Peers -> SUBSET Prefixes]
        <3>1. up' = up /\ view' = view /\ faults' = faults
            BY <2>2, Zenon DEF wireVars
        <3> QED
            BY <3>1, Zenon DEF TypeOK, CollectorOK
    <2> QED
        BY <2>1, <2>2, TypeWire, Zenon
<1>3. FlagsOK'
    <2>1. /\ clients' = clients /\ pending' = pending /\ permit' = permit
          /\ partial' = partial
        BY Zenon
    <2> QED
        BY <1>2, <2>1, Zenon DEF TypeOK, FlagsOK
<1>4. TasksOK'
    BY DEF TypeOK, TasksOK
<1>5. QueuesOK'
    <2>1. qlen' \in 0..QueueDepth
        BY TypeEnqueue, Zenon DEF TypeOK, QueuesOK
    <2> QED
        BY <2>1, Zenon DEF TypeOK, QueuesOK
<1>6. CollectorOK'
    BY <1>2, Zenon DEF TypeOK, CollectorOK
<1> QED
    BY <1>1, <1>3, <1>4, <1>5, <1>6, Zenon DEF TypeOK

LEMMA TypeReplay ==
    ASSUME TypeOK, Replay \/ NoRibGoesLive \/ DumpFails
    PROVE  TypeOK'
<1> USE DEF Replay, NoRibGoesLive, DumpFails
<1>1. SessionsOK'
    BY TypeSessionsUnchanged, Zenon
<1>2. batch # <<>> => Head(batch) \in Updates /\ Tail(batch) \in Seq(Updates)
    BY DEF TypeOK, QueuesOK
<1>3. qlen' \in 0..QueueDepth /\ CollectorOK'
    <2>1. \/ batch # <<>> /\ (Sent(Head(batch)) \/ NotSent(Head(batch)))
          \/ UNCHANGED <<known, cache, qlen, wireVars>>
        BY Zenon
    <2>2. ASSUME UNCHANGED <<known, cache, qlen, wireVars>>
          PROVE  qlen' \in 0..QueueDepth /\ CollectorOK'
        BY <2>2, Zenon DEF TypeOK, CollectorOK, QueuesOK, wireVars
    <2> QED
        BY <1>2, <2>1, <2>2, TypeSent, TypeNotSent, Zenon
<1>4. FlagsOK'
    <2>1. pending' \in BOOLEAN /\ permit' \in BOOLEAN
        <3>1. RequestDisconnect \/ NotFlagged
            BY Zenon DEF NotFlagged
        <3> QED
            BY <3>1, TypeRequestDisconnect, Zenon
    <2>2. clients' = clients /\ partial' = partial
        BY Zenon
    <2> QED
        BY <1>3, <2>1, <2>2, Zenon DEF TypeOK, FlagsOK
<1>5. TasksOK'
    BY Zenon DEF TypeOK, TasksOK, DumpStep
<1>6. QueuesOK'
    <2>1. <<>> \in Seq(Updates) /\ Len(<<>>) <= MaxBuf
        BY BmpOutAssumption
    <2>2. dumpBuffer' = dumpBuffer \/ dumpBuffer' = <<>>
        BY Zenon
    <2>3. batch' = batch \/ batch' = <<>> \/ (batch # <<>> /\ batch' = Tail(batch))
        BY Zenon
    <2> QED
        BY <1>2, <1>3, <2>1, <2>2, <2>3, Zenon DEF TypeOK, QueuesOK
<1> QED
    BY <1>1, <1>3, <1>4, <1>5, <1>6, Zenon DEF TypeOK

\* Next, with the steps of the dump task grouped the way the proofs split them.
LEMMA NextSplit ==
    Next <=> \/ \E p \in Peers : PeerEvent(p) \/ SessionStepOf(p)
             \/ Connect \/ WriterTask \/ Terminate \/ SendTermination
             \/ DumpControl \/ DumpSend
             \/ Replay \/ NoRibGoesLive \/ DumpFails
BY DEF Next, DumpTask, DumpControl, DumpSend

LEMMA TypeNext == TypeOK /\ [Next]_vars => TypeOK'
<1> SUFFICES ASSUME TypeOK, [Next]_vars PROVE TypeOK'
    OBVIOUS
<1>1. CASE UNCHANGED vars
    BY <1>1, TypeClientUnchanged, TypeSessionsUnchanged DEF vars
<1>2. CASE Next
    BY <1>2, NextSplit, TypePeerEvent, TypeSession, TypeUnit, TypeDumpControl,
       TypeDumpSend, TypeReplay
<1> QED
    BY <1>1, <1>2

\* TypeOK is an invariant: in particular the buffer of a dumping client never
\* holds more than max_client_buffer updates and its queue never more than
\* live_queue_depth messages (buffer_update_if_dumping, send_message_mode).
THEOREM TypeCorrect == Spec => []TypeOK
BY TypeInit, TypeNext, PTL DEF Spec

-----------------------------------------------------------------------------
(***************************************************************************)
(* What BmpOut puts on the wire is a legal BMP stream, and known_peers and *)
(* the header cache of the client agree with it.                           *)
(***************************************************************************)

\* A message about a peer changes nothing for another peer.
LEMMA OthersUnchanged ==
    ASSUME NEW u, Sent(u) \/ NotSent(u), NEW q, q # u.peer
    PROVE  /\ q \in known' <=> q \in known
           /\ q \in cache' <=> q \in cache
           /\ q \in up' <=> q \in up
<1>1. CASE Sent(u)
    BY <1>1, Zenon DEF Sent, RememberPeer, RememberHeader, Wire
<1>2. CASE NotSent(u)
    BY <1>2 DEF NotSent, RememberPeer, RememberHeader, wireVars
<1> QED
    BY <1>1, <1>2

\* A message that goes out keeps known_peers and the collector in agreement
\* about a registered peer.
LEMMA SentMirrored ==
    ASSUME TypeOK, NEW u \in Updates, Sent(u), CachedPeersAreUp,
           Registered(u.peer) => (u.peer \in known <=> u.peer \in up)
    PROVE  /\ Registered(u.peer) => (u.peer \in known' <=> u.peer \in up')
           /\ u.peer \in cache' => u.peer \in known' /\ u.peer \in up'
<1> DEFINE p == u.peer
<1>1. u.kind \in Kinds
    BY DEF Updates, Kinds
<1>2. CASE NeedsPeerUp(u)
    BY <1>1, <1>2, Zenon DEF Sent, RememberPeer, RememberHeader, Wire, Message,
       NeedsPeerUp, CachedPeersAreUp, Kinds
<1>3. CASE ~NeedsPeerUp(u) /\ u.kind \in {"announce", "withdraw"}
    BY <1>3, Zenon DEF Sent, RememberPeer, RememberHeader, Wire, Message, NeedsPeerUp,
       CachedPeersAreUp
<1>4. CASE ~NeedsPeerUp(u) /\ u.kind \in {"stats", "reappear"}
    BY <1>4, Zenon
    DEF Sent, RememberPeer, RememberHeader, Wire, Message, NeedsPeerUp,
        CachedPeersAreUp
<1>5. CASE ~NeedsPeerUp(u) /\ u.kind = "down"
    BY <1>5, Zenon
    DEF Sent, RememberPeer, RememberHeader, Wire, Message, NeedsPeerUp,
        CachedPeersAreUp
<1> QED
    BY <1>1, <1>2, <1>3, <1>4, <1>5, Zenon DEF Kinds

\* One that does not go out still leaves known peers up.
LEMMA NotSentMirrored ==
    ASSUME TypeOK, NEW u \in Updates, NotSent(u), CachedPeersAreUp,
           Registered(u.peer) => (u.peer \in known => u.peer \in up)
    PROVE  /\ Registered(u.peer) => (u.peer \in known' => u.peer \in up')
           /\ u.peer \in cache' => u.peer \in known' /\ u.peer \in up'
<1>1. u.kind \in Kinds
    BY DEF Updates, Kinds
<1> QED
    BY <1>1, Zenon
    DEF NotSent, RememberPeer, RememberHeader, NeedsPeerUp, CachedPeersAreUp,
        wireVars, Kinds

\* When there is nothing to send for an update, what is known of a registered
\* peer does not change.
LEMMA NothingSent ==
    ASSUME TypeOK, NEW u \in Updates, Sent(u), Message(u) = "nothing"
    PROVE  /\ up' = up /\ view' = view /\ faults' = faults
           /\ Registered(u.peer) => known' = known
           /\ known \subseteq known'
           /\ cache' \subseteq cache
BY Zenon DEF Sent, RememberPeer, RememberHeader, Wire, Message, NeedsPeerUp,
       Updates, TypeOK, CollectorOK

\* A message that goes out is one the collector may see next.
LEMMA SentLegal ==
    ASSUME TypeOK, NEW u \in Updates, Sent(u), CachedPeersAreUp,
           Registered(u.peer) => (u.peer \in known <=> u.peer \in up)
    PROVE  [Stream!StreamNext]_(Stream!streamVars)
<1> DEFINE p == u.peer
<1>0. p \in Peers /\ u.pfx \in SUBSET Prefixes /\ Wire(p, Message(u), u.pfx)
    BY DEF Updates, Sent
<1>1. CASE Message(u) = "peerup"
    <2>1. p \notin up
        BY <1>1, Zenon DEF Message, NeedsPeerUp, Updates
    <2> QED
        BY <1>0, <1>1, <2>1, Zenon DEF Wire, Stream!StreamNext, Stream!PeerUp
<1>2. CASE Message(u) = "peerdown"
    <2>1. p \in up
        BY <1>2, Zenon DEF Message, NeedsPeerUp, Updates
    <2> QED
        BY <1>0, <1>2, <2>1, Zenon DEF Wire, Stream!StreamNext, Stream!PeerDown
<1>3. CASE Message(u) \in {"announce", "withdraw"}
    <2>1. p \in up
        BY <1>3, Zenon DEF Message, NeedsPeerUp, Updates, CachedPeersAreUp
    <2> QED
        BY <1>0, <1>3, <2>1, Zenon
        DEF Wire, Stream!StreamNext, Stream!Announce, Stream!Withdraw
<1>4. CASE Message(u) \in {"stats", "nothing", "anonymous"}
    <2>1. Message(u) = "stats" => p \in up
        BY <1>4, Zenon DEF Message, NeedsPeerUp, Updates
    <2> QED
        BY <1>0, <1>4, <2>1, Zenon DEF Wire, Stream!streamVars
<1> QED
    BY <1>1, <1>2, <1>3, <1>4, Zenon DEF Message, Updates

LEMMA WireInit == Init => WireInv
<1> SUFFICES ASSUME Init PROVE WireInv
    OBVIOUS
<1>1. TypeOK
    BY TypeInit
<1>2. Stages
    <2>1. ~clients /\ phase = "Dumping" /\ dump = "none" /\ writer = "none"
        BY DEF Init
    <2>2. dumpBuffer = <<>> /\ batch = <<>>
        BY DEF Init
    <2>3. \A p \in Peers : sess[p].at = "idle" /\ sess[p].upd.peer = p
        BY Zenon DEF Init, At
    <2> QED
        BY <2>1, <2>2, <2>3 DEF Stages
<1>3. Feeding
    BY Zenon DEF Init, Feeding, At
<1>4. NothingUnseen
    BY DEF Init, NothingUnseen, Heard, Stream!StreamInit
<1>5. DumpedPeers /\ Mirrored /\ CachedPeersAreUp
    BY DEF Init, DumpedPeers, Mirrored, CachedPeersAreUp, Stream!StreamInit
<1> QED
    BY <1>1, <1>2, <1>3, <1>4, <1>5 DEF WireInv

\* The peers' events and the rib unit's part of a session change neither the
\* client nor the collector; a peer that was never seen becomes registered
\* only by FirstPeerUp, when nobody has heard of it.
LEMMA WirePeerEvent ==
    ASSUME WireInv, NEW p \in Peers, PeerEvent(p) \/ RibApply(p) \/ BgpCleanup(p)
    PROVE  WireInv'
<1> USE DEF WireInv
<1>0. TypeOK'
    BY TypePeerEvent, TypeSession, SMT, Z3 DEF SessionStepOf
<1>1. /\ UNCHANGED <<clients, clientVars, writer, dumpVars, runner, wireVars>>
      /\ \A q \in Peers \ {p} : sess'[q] = sess[q] /\ register'[q] = register[q]
    <2>1. CASE PeerEvent(p)
        BY <2>1, Zenon
        DEF PeerEvent, FirstPeerUp, PeerStats, PeerDown, PeerReappears,
            RouteMonitoring, GcReclaims, Push, TypeOK, SessionsOK
    <2>2. CASE RibApply(p) \/ BgpCleanup(p)
        BY <2>2, Zenon DEF RibApply, BgpCleanup, TypeOK, SessionsOK
    <2> QED
        BY <2>1, <2>2
<1>2. /\ sess'[p].at \in {"idle", "rib", "forward", "cleanup"} \/ sess'[p] = sess[p]
      /\ sess[p].at \in {"idle", "rib", "forward", "cleanup"} \/ sess'[p] = sess[p]
      /\ sess'[p].upd.peer = p
      /\ register'[p] # "unseen"
      /\ sess'[p].at \notin {"idle", "cleanup"} /\ sess'[p].upd.kind # "down"
              => register'[p] = "connected"
      /\ Registered(p)' => Registered(p) \/ register[p] = "unseen"
    <2>1. CASE PeerEvent(p)
        <3>1. CASE FirstPeerUp(p) \/ GcReclaims(p)
            BY <3>1, ZenonT(30) DEF FirstPeerUp, GcReclaims, TypeOK, SessionsOK, Stages,
               Feeding, Registered
        <3>2. CASE PeerStats(p) \/ \E x \in Prefixes : RouteMonitoring(p, x)
            <4>1. /\ sess[p].at = "idle" /\ register[p] = "connected"
                  /\ register' = register
                  /\ sess'[p].at = "rib" /\ sess'[p].upd.peer = p
                BY <3>2, SMT, Z3 DEF PeerStats, RouteMonitoring, Push, At, TypeOK,
                   SessionsOK
            <4> QED
                BY <4>1 DEF Registered
        <3>3. CASE PeerDown(p)
            <4>1. /\ sess[p].at = "idle" /\ register[p] = "connected"
                  /\ register'[p] = "disconnected" /\ sess'[p].at = "rib"
                  /\ sess'[p].upd.peer = p /\ sess'[p].upd.kind = "down"
                BY <3>3, Zenon DEF PeerDown, Push, At, TypeOK, SessionsOK
            <4> QED
                BY <4>1 DEF Registered
        <3>4. CASE PeerReappears(p)
            <4>1. /\ sess[p].at = "idle" /\ register[p] = "disconnected"
                  /\ register'[p] = "connected" /\ sess'[p].at = "rib"
                  /\ sess'[p].upd.peer = p
                BY <3>4, Zenon DEF PeerReappears, Push, At, TypeOK, SessionsOK
            <4> QED
                BY <4>1 DEF Registered
        <3> QED
            BY <2>1, <3>1, <3>2, <3>3, <3>4, Zenon DEF PeerEvent
    <2>2. CASE RibApply(p) \/ BgpCleanup(p)
        BY <2>2, SMT, Z3 DEF RibApply, BgpCleanup, TypeOK, SessionsOK, Stages, Feeding,
           Registered
    <2> QED
        BY <2>1, <2>2, Zenon
<1>3. Stages'
    BY <1>1, <1>2 DEF Stages, clientVars, dumpVars
<1>4. Feeding'
    BY <1>1, <1>2, ZenonT(30) DEF Feeding
<1>5. NothingUnseen'
    <2>1. \A q \in Peers : register[q] # "unseen" => register'[q] # "unseen"
        BY <1>1, <1>2, Zenon
    <2>2. ASSUME NEW s \in Seq(Updates), Heard(s), NEW i \in DOMAIN s
          PROVE  register'[s[i].peer] # "unseen"
        <3>1. s[i] \in Updates
            OBVIOUS
        <3> QED
            BY <2>1, <2>2, <3>1 DEF Heard, Updates
    <2>3. /\ \A i \in DOMAIN dumpBuffer : register'[dumpBuffer[i].peer] # "unseen"
          /\ \A i \in DOMAIN batch : register'[batch[i].peer] # "unseen"
        BY <2>2 DEF NothingUnseen, TypeOK, QueuesOK
    <2>4. Heard(dumpBuffer)' /\ Heard(batch)'
        BY <1>1, <2>3, Zenon DEF Heard, clientVars, dumpVars
    <2>5. \A q \in (known \cup up \cup aggPeers \cup toSend)' :
                register'[q] # "unseen"
        BY <1>1, <2>1, Zenon DEF NothingUnseen, TypeOK, CollectorOK, TasksOK,
           clientVars, dumpVars, wireVars
    <2> QED
        BY <2>4, <2>5 DEF NothingUnseen
<1>6. DumpedPeers'
    BY <1>1, Zenon DEF DumpedPeers, clientVars, dumpVars, wireVars
<1>7. Mirrored'
    BY <1>1, <1>2, Zenon DEF Mirrored, Lost, Closed, NothingUnseen, Registered,
       clientVars, dumpVars, wireVars
<1>8. CachedPeersAreUp'
    BY <1>1 DEF CachedPeersAreUp, clientVars, wireVars
<1> QED
    BY <1>0, <1>3, <1>4, <1>5, <1>6, <1>7, <1>8, Zenon

\* What Passed leaves behind.
LEMMA PassedSession ==
    ASSUME TypeOK, NEW p \in Peers, Passed(p)
    PROVE  /\ sess'[p].at \in {"idle", "cleanup"} /\ sess'[p].upd.peer = p
           /\ \A q \in Peers \ {p} : sess'[q] = sess[q]
BY DEF TypeOK, SessionsOK, Passed, At

LEMMA WireSnapshot ==
    ASSUME WireInv, NEW p \in Peers, Snapshot(p)
    PROVE  WireInv'
<1> USE DEF WireInv
<1>0. TypeOK'
    BY TypeSession DEF SessionStepOf
<1>1. UNCHANGED <<register, clients, clientVars, writer, dumpVars, wireVars>>
    BY DEF Snapshot
<1>2. /\ \A q \in Peers \ {p} : sess'[q] = sess[q]
      /\ sess[p].at = "forward"
      /\ sess'[p].upd.peer = p
      /\ \/ sess'[p].at \in {"idle", "cleanup"}
         \/ ~pending /\ sess'[p].at = "deliver" /\ sess'[p].upd = sess[p].upd
    BY PassedSession DEF Snapshot, TypeOK, SessionsOK, Stages
<1>3. Stages'
    BY <1>1, <1>2, ZenonT(30) DEF Stages, clientVars, dumpVars
<1>4. Feeding'
    BY <1>1, <1>2, Zenon DEF Feeding
<1>5. NothingUnseen'
    BY <1>1, Zenon DEF NothingUnseen, Heard, clientVars, dumpVars, wireVars
<1>6. DumpedPeers'
    BY <1>1 DEF DumpedPeers, clientVars, dumpVars, wireVars
<1>7. Mirrored'
    BY <1>1, <1>2, Zenon DEF Mirrored, Lost, Closed, Registered, clientVars, dumpVars,
       wireVars
<1>8. CachedPeersAreUp'
    BY <1>1 DEF CachedPeersAreUp, clientVars, wireVars
<1> QED
    BY <1>0, <1>3, <1>4, <1>5, <1>6, <1>7, <1>8, Zenon

LEMMA WireDeliver ==
    ASSUME WireInv, NEW p \in Peers, Deliver(p)
    PROVE  WireInv'
<1> USE DEF WireInv
<1>0. TypeOK'
    BY TypeSession DEF SessionStepOf
<1>1. /\ UNCHANGED <<register, clients, phase, known, cache, writer, dumpVars,
                     wireVars>>
      /\ pending => pending'
    BY DEF Deliver, BufferFull, PhaseLocked, RequestDisconnect, NotFlagged
<1>2. /\ \A q \in Peers \ {p} : sess'[q] = sess[q]
      /\ sess[p].at = "deliver"
      /\ sess'[p].upd.peer = p
      /\ \/ phase = "Dumping" /\ sess'[p].at \in {"idle", "cleanup"}
         \/ /\ phase = "Live" /\ pending' = pending
            /\ sess'[p].at = "send" /\ sess'[p].upd = sess[p].upd
    BY PassedSession DEF Deliver, BufferFull, PhaseLocked, NotFlagged, TypeOK,
                         SessionsOK, Stages
<1>3. \/ dumpBuffer' = dumpBuffer
      \/ /\ dumpBuffer' = Append(dumpBuffer, sess[p].upd)
         /\ phase = "Dumping" /\ dump # "norib"
    BY DEF Deliver, BufferFull, PhaseLocked
<1>4. Stages'
    BY <1>1, <1>2, <1>3 DEF Stages, dumpVars
<1>5. Feeding'
    BY <1>1, <1>2, ZenonT(30) DEF Feeding
<1>6. NothingUnseen'
    <2>1. register[p] # "unseen" /\ sess[p].upd.peer = p
        BY <1>2, Zenon DEF Feeding, Stages
    <2>2. sess[p].upd \in Updates
        BY DEF TypeOK, SessionsOK
    <2>3. Heard(dumpBuffer)'
        <3>1. /\ dumpBuffer \in Seq(Updates) /\ register' = register
              /\ \A i \in DOMAIN dumpBuffer :
                    register[dumpBuffer[i].peer] # "unseen"
            BY <1>1 DEF NothingUnseen, Heard, TypeOK, QueuesOK
        <3>2. CASE dumpBuffer' = dumpBuffer
            BY <3>1, <3>2 DEF Heard
        <3>3. CASE dumpBuffer' = Append(dumpBuffer, sess[p].upd)
            <4>1. ASSUME NEW i \in DOMAIN dumpBuffer'
                  PROVE  \/ i \in DOMAIN dumpBuffer /\ dumpBuffer'[i] = dumpBuffer[i]
                         \/ dumpBuffer'[i] = sess[p].upd
                BY <2>2, <3>1, <3>3
            <4> QED
                BY <2>1, <3>1, <4>1 DEF Heard
        <3> QED
            BY <1>3, <3>2, <3>3
    <2> QED
        BY <1>1, <2>3, Zenon DEF NothingUnseen, Heard, dumpVars, wireVars
<1>7. DumpedPeers'
    BY <1>1 DEF DumpedPeers, dumpVars, wireVars
<1>8. Mirrored'
    BY <1>1, <1>2, Zenon DEF Mirrored, Lost, Closed, Registered, dumpVars, wireVars
<1>9. CachedPeersAreUp'
    BY <1>1 DEF CachedPeersAreUp, wireVars
<1> QED
    BY <1>0, <1>4, <1>5, <1>6, <1>7, <1>8, <1>9, Zenon

LEMMA WireLiveSend ==
    ASSUME WireInv, NEW p \in Peers, LiveSend(p)
    PROVE  WireInv' /\ [Stream!StreamNext]_(Stream!streamVars)
<1> USE DEF WireInv
<1> DEFINE u == sess[p].upd
<1>0. TypeOK'
    BY TypeSession, SMT, Z3 DEF SessionStepOf
<1>1. /\ UNCHANGED <<register, clients, phase, dumpBuffer, writer, dumpVars>>
      /\ pending => pending'
    BY DEF LiveSend, RequestDisconnect, NotFlagged
<1>2. /\ sess[p].at = "send" /\ phase = "Live" /\ dump = "done"
      /\ u \in Updates /\ u.peer = p
      /\ register[p] # "unseen"
    BY Zenon DEF LiveSend, Stages, Feeding, TypeOK, SessionsOK
<1>3. /\ \A q \in Peers \ {p} : sess'[q] = sess[q]
      /\ sess'[p].upd.peer = p
      /\ sess'[p] = sess[p] \/ sess'[p].at \in {"idle", "cleanup"}
    BY <1>2, PassedSession, Zenon DEF LiveSend
<1>4. \/ Sent(u) /\ NotFlagged
      \/ NotSent(u) /\ Closed
      \/ NotSent(u) /\ pending' /\ sess'[p].at \in {"idle", "cleanup"}
    BY PassedSession, Zenon DEF LiveSend, RequestDisconnect
<1>5. /\ Registered(p) => (p \in known' => p \in up')
      /\ Registered(p) /\ p \in up' /\ ~Lost(p)' => p \in known'
      /\ p \in cache' => p \in known' /\ p \in up'
      /\ [Stream!StreamNext]_(Stream!streamVars)
    <2>1. Registered(p) => (p \in known => p \in up)
        BY DEF Mirrored
    <2>2. CASE Sent(u) /\ Message(u) # "nothing"
        <3>1. ~Lost(p)
            BY <1>2, <2>2, Zenon DEF Sent, Room, Lost
        <3>2. Registered(p) => (p \in known <=> p \in up)
            BY <1>2, <3>1 DEF Mirrored
        <3> QED
            BY <1>2, <2>2, <3>2, SentMirrored, SentLegal, Zenon
    <2>3. CASE Sent(u) /\ Message(u) = "nothing"
        <3>1. Lost(p) => Lost(p)'
            BY <1>1, <1>2 DEF Lost, Closed, dumpVars
        <3>2. [Stream!StreamNext]_(Stream!streamVars)
            BY <1>2, <2>3, NothingSent, Zenon DEF Stream!streamVars
        <3> QED
            BY <1>2, <2>1, <2>3, <3>1, <3>2, NothingSent, Zenon
            DEF Mirrored, CachedPeersAreUp
    <2>4. CASE NotSent(u)
        <3>1. CASE Sent(u)
            BY <2>2, <2>3, <3>1, Zenon
        <3>2. CASE ~Sent(u)
            <4>1. Lost(p)'
                BY <1>1, <1>2, <1>4, <3>2, Zenon DEF Lost, Closed
            <4> QED
                BY <1>2, <2>1, <2>4, <4>1, NotSentMirrored, Zenon
                DEF NotSent, wireVars, Stream!streamVars
        <3> QED
            BY <3>1, <3>2
    <2> QED
        BY <1>4, <2>2, <2>3, <2>4, Zenon
<1>6. \A q \in Peers \ {p} : /\ q \in known' <=> q \in known
                             /\ q \in cache' <=> q \in cache
                             /\ q \in up' <=> q \in up
    BY <1>2, <1>4, OthersUnchanged, Zenon
<1>7. Stages'
    BY <1>1, <1>2, <1>3, ZenonT(30) DEF Stages, dumpVars
<1>8. Feeding'
    BY <1>1, <1>2, <1>3, ZenonT(30) DEF Feeding
<1>9. NothingUnseen'
    BY <1>0, <1>1, <1>2, <1>6, Zenon
    DEF NothingUnseen, Heard, dumpVars, TypeOK, CollectorOK, TasksOK
<1>10. DumpedPeers'
    BY <1>1, <1>2, Zenon DEF DumpedPeers, dumpVars
<1>11. Mirrored'
    BY <1>1, <1>2, <1>3, <1>5, <1>6, Zenon
    DEF Mirrored, Lost, Closed, Registered, dumpVars
<1>12. CachedPeersAreUp'
    BY <1>0, <1>5, <1>6, Zenon DEF CachedPeersAreUp, TypeOK, CollectorOK
<1> QED
    BY <1>0, <1>5, <1>7, <1>8, <1>9, <1>10, <1>11, <1>12, Zenon

LEMMA WireUnit ==
    ASSUME WireInv, Connect \/ WriterTask \/ Terminate \/ SendTermination
    PROVE  WireInv'
<1> USE DEF WireInv
<1>0. TypeOK'
    BY TypeUnit
<1>1. /\ UNCHANGED <<register, sess, phase, dumpBuffer, known, cache, pending,
                     toSend, aggPeers, batch, up>>
      /\ \/ dump' = dump /\ writer' = writer /\ clients' = clients
         \/ dump' = "init" /\ writer' = "running" /\ dump = "none"
         \/ /\ dump' = dump /\ clients' = clients
            /\ writer = "running" /\ writer' = "cleanup"
         \/ dump' = dump /\ ~clients' /\ writer = "cleanup" /\ writer' = "gone"
    BY Zenon DEF Connect, WriterTask, WriterWrites, WriterBreaks, WriterCleansUp,
       Terminate, SendTermination, feedVars, clientVars, dumpVars, wireVars
<1>2. Stages'
    <2>1. Stages
        OBVIOUS
    <2>2. /\ \A p \in Peers : sess'[p].at = "send" => phase' = "Live"
          /\ \A p \in Peers : sess'[p].upd.peer = p
        BY <1>1, <2>1, Zenon DEF Stages
    <2>3. /\ (writer' = "none") <=> (dump' = "none")
          /\ clients' => writer' \in {"running", "cleanup"}
        BY <1>1, <2>1 DEF Stages
    <2>4. /\ phase' = "Live" => dump' = "done"
          /\ phase' = "Live" \/ dump' = "norib" => dumpBuffer' = <<>>
          /\ dump' \notin {"drain", "norib"} => batch' = <<>>
          /\ dump' = "done" /\ phase' = "Dumping" => pending'
        BY <1>1, <2>1, Zenon DEF Stages
    <2> QED
        BY <2>2, <2>3, <2>4, Zenon DEF Stages
<1>3. Feeding' /\ NothingUnseen' /\ CachedPeersAreUp'
    BY <1>1, Zenon DEF Feeding, NothingUnseen, Heard, CachedPeersAreUp
<1>4. DumpedPeers'
    BY <1>1, Zenon DEF DumpedPeers
<1>5. Mirrored'
    BY <1>1, Zenon DEF Mirrored, Lost, Closed, Registered, Stages
<1> QED
    BY <1>0, <1>2, <1>3, <1>4, <1>5

LEMMA WireDumpControl ==
    ASSUME WireInv, DumpControl
    PROVE  WireInv'
<1> USE DEF WireInv
<1>0. TypeOK'
    BY TypeDumpControl
<1>1. UNCHANGED <<register, sess, clients, pending, writer, cache, up>>
    BY Zenon DEF DumpControl, SendInitiation, Enumerate, StartWalk, WalkCutShort,
           WalkDone, Drain, WalkFetch, DumpEndOfRib, feedVars, clientVars,
           dumpVars, wireVars
<1>2. /\ dump \in {"init", "enumerate", "peerup", "walk", "eor", "drain"}
      /\ dump' # "none"
      /\ \/ phase' = phase
         \/ phase' = "Live" /\ dump' = "done" /\ dumpBuffer = <<>>
      /\ dump' = "done" => phase' = "Live"
      /\ \/ UNCHANGED <<dumpBuffer, batch>> /\ dump' # "norib"
         \/ /\ batch' = dumpBuffer /\ dumpBuffer' = <<>>
            /\ dump' \in {"norib", "drain"}
      /\ dump' \notin {"drain", "norib"} => batch' = <<>>
    <2>1. CASE SendInitiation
        BY <2>1, Zenon DEF SendInitiation, Stages
    <2>2. CASE Enumerate \/ StartWalk \/ WalkCutShort \/ WalkDone
        BY <2>2, Zenon DEF Enumerate, StartWalk, WalkCutShort, WalkDone, clientVars,
           dumpVars, Stages
    <2>3. CASE Drain
        BY <2>3, Zenon DEF Drain, Stages
    <2>4. CASE \/ \E x \in Prefixes : WalkFetch(x)
               \/ \E p \in Peers : DumpEndOfRib(p)
        BY <2>4, Zenon DEF WalkFetch, DumpEndOfRib, clientVars, dumpVars, Stages
    <2> QED
        BY <2>1, <2>2, <2>3, <2>4, Zenon DEF DumpControl
<1>3. Stages'
    BY <1>1, <1>2, Zenon DEF Stages
<1>4. Feeding'
    BY <1>1 DEF Feeding
<1>5. NothingUnseen'
    <2>1. \A p \in (known \cup up \cup aggPeers \cup toSend)' :
                register[p] # "unseen"
        BY Zenon DEF DumpControl, SendInitiation, Enumerate, StartWalk, WalkCutShort,
               WalkDone, Drain, WalkFetch, DumpEndOfRib, clientVars, dumpVars,
               wireVars, NothingUnseen
    <2>2. Heard(dumpBuffer)' /\ Heard(batch)'
        BY <1>1, <1>2 DEF NothingUnseen, Heard
    <2> QED
        BY <1>1, <2>1, <2>2 DEF NothingUnseen
<1>6. DumpedPeers' /\ CachedPeersAreUp'
    <2>1. CASE SendInitiation \/ Enumerate
        BY <1>1, <2>1, Zenon DEF SendInitiation, Enumerate, clientVars, DumpedPeers,
           CachedPeersAreUp
    <2>2. CASE StartWalk \/ WalkCutShort
        BY <1>1, <2>2, Zenon DEF StartWalk, WalkCutShort, clientVars, DumpedPeers,
           CachedPeersAreUp
    <2>3. CASE WalkDone \/ Drain
        BY <1>1, <2>3, Zenon DEF WalkDone, Drain, clientVars, DumpedPeers,
           CachedPeersAreUp
    <2>4. ASSUME NEW x \in Prefixes, WalkFetch(x)
          PROVE  DumpedPeers' /\ CachedPeersAreUp'
        BY <1>1, <2>4, Zenon DEF WalkFetch, clientVars, DumpedPeers, CachedPeersAreUp
    <2>5. ASSUME NEW p \in Peers, DumpEndOfRib(p)
          PROVE  DumpedPeers' /\ CachedPeersAreUp'
        BY <1>1, <2>5, Zenon DEF DumpEndOfRib, DumpedPeers, CachedPeersAreUp
    <2> QED
        BY <2>1, <2>2, <2>3, <2>4, <2>5, Zenon DEF DumpControl
<1>7. Mirrored'
    <2>1. /\ dump' \in {"init", "enumerate", "peerup"} => known' = up'
          /\ dump' \in {"walk", "eor"} => known' \subseteq up'
          /\ dump \in {"init", "eor"} /\ dump' \in {"drain", "norib", "done"}
                => known' = up'
          /\ dump = "drain" => known' = known
          /\ dump' \notin {"init", "enumerate", "peerup", "walk", "eor"}
                => dump \in {"init", "eor", "drain"}
        BY <1>1, <1>6, Zenon
        DEF DumpControl, SendInitiation, Enumerate, StartWalk, WalkCutShort,
            WalkDone, Drain, WalkFetch, DumpEndOfRib, clientVars, dumpVars,
            wireVars, DumpedPeers, TypeOK, CollectorOK
    <2>2. CASE dump = "drain"
        <3>1. \A p \in Peers : Lost(p) => Closed
            BY <2>2 DEF Stages, Lost
        <3> QED
            BY <1>1, <2>1, <2>2, <3>1, Zenon DEF Mirrored, Lost, Closed, Registered
    <2>3. CASE dump # "drain"
        BY <1>0, <1>1, <1>2, <2>1, <2>3, Zenon DEF Mirrored, Registered, TypeOK,
           TasksOK, DumpStep
    <2> QED
        BY <2>2, <2>3
<1> QED
    BY <1>0, <1>3, <1>4, <1>5, <1>6, <1>7, Zenon

LEMMA WireDumpSend ==
    ASSUME WireInv, DumpSend
    PROVE  WireInv' /\ [Stream!StreamNext]_(Stream!streamVars)
<1> USE DEF WireInv, DumpSend, DumpPeerUp, WalkDiscover, WalkEmit
<1>0. TypeOK'
    BY TypeDumpSend, Zenon
<1>1. /\ UNCHANGED <<register, sess, clients, phase, dumpBuffer, cache, pending,
                     writer, dump, batch>>
      /\ dump \in {"peerup", "walk"}
    BY Zenon DEF feedVars
<1>2. Stages' /\ Feeding'
    BY <1>1, Zenon DEF Stages, Feeding
<1>3. DumpedPeers'
    <2>1. ASSUME NEW p \in Peers, DumpPeerUp(p)
          PROVE  DumpedPeers'
        BY <1>1, <2>1 DEF DumpedPeers, Wire
    <2>2. ASSUME NEW r \in Peers \X Prefixes, WalkDiscover(r)
          PROVE  DumpedPeers'
        BY <1>1, <2>2, ZenonT(30) DEF DumpedPeers, Wire, wireVars
    <2>3. ASSUME NEW p \in Peers, NEW S \in SUBSET Prefixes, WalkEmit(p, S)
          PROVE  DumpedPeers'
        BY <1>1, <2>3, Zenon DEF DumpedPeers, Wire
    <2> QED
        BY <2>1, <2>2, <2>3, Zenon
<1>4. NothingUnseen'
    <2>1. \A p \in (known \cup up \cup aggPeers \cup toSend)' :
                register[p] # "unseen"
        BY DEF NothingUnseen, Wire, Registered, wireVars
    <2> QED
        BY <1>1, <2>1, Zenon DEF NothingUnseen, Heard
<1>5. Mirrored'
    BY <1>1, <1>3, Zenon DEF Mirrored, DumpedPeers, Registered
<1>6. CachedPeersAreUp'
    BY <1>1, Zenon DEF CachedPeersAreUp, DumpedPeers
<1>7. [Stream!StreamNext]_(Stream!streamVars)
    <2>1. ASSUME NEW p \in Peers, Wire(p, "peerup", {}), p \notin up
          PROVE  Stream!StreamNext
        BY <2>1, Zenon DEF Wire, Stream!StreamNext, Stream!PeerUp
    <2>2. ASSUME NEW p \in Peers, DumpPeerUp(p)
          PROVE  Stream!StreamNext
        BY <2>1, <2>2, Zenon DEF DumpedPeers
    <2>3. ASSUME NEW r \in Peers \X Prefixes, WalkDiscover(r)
          PROVE  [Stream!StreamNext]_(Stream!streamVars)
        <3>1. r[1] \in Peers
            BY Zenon
        <3> QED
            BY <2>1, <2>3, <3>1, Zenon DEF DumpedPeers, wireVars, Stream!streamVars
    <2>4. ASSUME NEW p \in Peers, NEW S \in SUBSET Prefixes, WalkEmit(p, S)
          PROVE  Stream!StreamNext
        <3>1. p \in up /\ Wire(p, "announce", S)
            BY <2>4, Zenon DEF DumpedPeers
        <3>2. Stream!Announce(p, S)
            BY <3>1, Zenon DEF Wire, Stream!Announce
        <3> QED
            BY <3>2, Zenon DEF Stream!StreamNext
    <2> QED
        BY <2>2, <2>3, <2>4, Zenon
<1> QED
    BY <1>0, <1>2, <1>3, <1>4, <1>5, <1>6, <1>7, Zenon

\* The head of a batch is an update of a peer somebody has heard of, and so is
\* everything behind it.
LEMMA BatchHead ==
    ASSUME WireInv, batch # <<>>
    PROVE  /\ Head(batch) \in Updates
           /\ Head(batch).peer \in Peers
           /\ register[Head(batch).peer] # "unseen"
           /\ Heard(Tail(batch))
<1> USE DEF WireInv
<1>1. batch \in Seq(Updates) /\ Heard(batch)
    BY DEF TypeOK, QueuesOK, NothingUnseen
<1>2. 1 \in DOMAIN batch /\ Head(batch) = batch[1] /\ batch[1] \in Updates
    BY <1>1
<1>3. Heard(Tail(batch))
    <2>1. ASSUME NEW i \in DOMAIN Tail(batch)
          PROVE  i + 1 \in DOMAIN batch /\ Tail(batch)[i] = batch[i + 1]
        BY <1>1
    <2> QED
        BY <1>1, <2>1, Zenon DEF Heard
<1> QED
    BY <1>1, <1>2, <1>3, Zenon DEF Heard, Updates

\* A step of the dump task that sends, or fails to send, for the head of the
\* batch disturbs only what is known of its peer.
LEMMA WireReplay ==
    ASSUME WireInv, Replay
    PROVE  WireInv' /\ [Stream!StreamNext]_(Stream!streamVars)
<1> USE DEF WireInv
<1> DEFINE u == Head(batch)
           p == Head(batch).peer
<1>0. TypeOK'
    BY TypeReplay
<1>1. /\ UNCHANGED <<register, sess, clients, phase, dumpBuffer, pending,
                     writer, dump, toSend, aggPeers>>
      /\ dump \in {"drain", "norib"} /\ batch # <<>> /\ phase = "Dumping"
      /\ batch' = batch \/ batch' = Tail(batch)
      /\ Sent(u)
    BY Zenon DEF Replay, feedVars, Stages, TypeOK, TasksOK
<1>2. u \in Updates /\ p \in Peers /\ register[p] # "unseen" /\ Heard(Tail(batch))
    BY <1>1, BatchHead, Zenon
<1>3. /\ Registered(p) => (p \in known' => p \in up')
      /\ Registered(p) /\ p \in up' /\ ~Closed => p \in known'
      /\ p \in cache' => p \in known' /\ p \in up'
      /\ [Stream!StreamNext]_(Stream!streamVars)
    <2>1. /\ Registered(p) => (p \in known => p \in up)
          /\ Registered(p) /\ p \in up /\ ~Closed => p \in known
        BY <1>1, <1>2, Zenon DEF Mirrored, Lost
    <2>2. CASE Message(u) # "nothing"
        BY <1>1, <1>2, <2>1, <2>2, SentMirrored, SentLegal, Zenon DEF Sent, Room
    <2>3. CASE Message(u) = "nothing"
        <3>1. [Stream!StreamNext]_(Stream!streamVars)
            BY <1>1, <1>2, <2>3, NothingSent, Zenon DEF Stream!streamVars
        <3> QED
            BY <1>1, <1>2, <2>1, <2>3, <3>1, NothingSent, Zenon DEF CachedPeersAreUp
    <2> QED
        BY <2>2, <2>3, Zenon
<1>4. \A q \in Peers \ {p} : /\ q \in known' <=> q \in known
                             /\ q \in cache' <=> q \in cache
                             /\ q \in up' <=> q \in up
    BY <1>1, OthersUnchanged
<1>5. Stages' /\ Feeding'
    BY <1>1, Zenon DEF Stages, Feeding
<1>6. NothingUnseen'
    BY <1>0, <1>1, <1>2, <1>4, Zenon DEF NothingUnseen, Heard, TypeOK, CollectorOK,
       TasksOK
<1>7. DumpedPeers'
    BY <1>1 DEF DumpedPeers
<1>8. Mirrored'
    BY <1>1, <1>3, <1>4, Zenon DEF Mirrored, Lost, Closed, Registered
<1>9. CachedPeersAreUp'
    BY <1>0, <1>2, <1>3, <1>4, Zenon DEF CachedPeersAreUp, TypeOK, CollectorOK
<1> QED
    BY <1>0, <1>3, <1>5, <1>6, <1>7, <1>8, <1>9, Zenon

LEMMA WireDumpEnds ==
    ASSUME WireInv, NoRibGoesLive \/ DumpFails
    PROVE  WireInv' /\ [Stream!StreamNext]_(Stream!streamVars)
<1> USE DEF WireInv
<1> DEFINE u == Head(batch)
           p == Head(batch).peer
<1>0. TypeOK'
    BY TypeReplay
<1>1. /\ UNCHANGED <<register, sess, clients, writer, up, view, faults>>
      /\ dump' = "done" /\ batch' = <<>>
      /\ dump # "done" /\ dump # "none" /\ phase = "Dumping"
      /\ toSend' \subseteq toSend /\ aggPeers' \subseteq aggPeers
    BY Zenon DEF NoRibGoesLive, DumpFails, NotSent, feedVars, wireVars, Stages,
           TypeOK, TasksOK
<1>2. \/ dump = "norib" /\ phase' = "Live" /\ dumpBuffer' = dumpBuffer
      \/ phase' = "Dumping" /\ pending'
    BY <1>1, Zenon DEF NoRibGoesLive, DumpFails, RequestDisconnect
<1>3. \/ UNCHANGED <<known, cache>>
      \/ batch # <<>> /\ NotSent(u) /\ Closed
    BY Zenon DEF NoRibGoesLive, DumpFails
<1>4. /\ \A q \in Peers : Registered(q) => (q \in known' => q \in up)
      /\ CachedPeersAreUp'
      /\ \A q \in known' : register[q] # "unseen"
    <2>1. \A q \in Peers : Registered(q) => (q \in known => q \in up)
        BY DEF Mirrored
    <2>2. CASE UNCHANGED <<known, cache>>
        BY <1>1, <2>1, <2>2, Zenon DEF CachedPeersAreUp, NothingUnseen
    <2>3. CASE batch # <<>> /\ NotSent(u)
        <3>1. u \in Updates /\ p \in Peers /\ register[p] # "unseen"
            BY <2>3, BatchHead
        <3>2. \A q \in Peers \ {p} : /\ q \in known' <=> q \in known
                                     /\ q \in cache' <=> q \in cache
            BY <2>3, OthersUnchanged
        <3>3. /\ Registered(p) => (p \in known' => p \in up)
              /\ p \in cache' => p \in known' /\ p \in up
            BY <1>1, <2>1, <2>3, <3>1, NotSentMirrored, Zenon
        <3> QED
            BY <1>0, <1>1, <2>1, <3>1, <3>2, <3>3, Zenon
            DEF CachedPeersAreUp, NothingUnseen, TypeOK, CollectorOK
    <2> QED
        BY <1>3, <2>2, <2>3
<1>5. Stages'
    BY <1>1, <1>2, Zenon DEF Stages
<1>6. Feeding' /\ DumpedPeers'
    BY <1>1, Zenon DEF Feeding, DumpedPeers
<1>7. NothingUnseen'
    <2>1. dumpBuffer' = dumpBuffer \/ dumpBuffer' = <<>>
        BY Zenon DEF NoRibGoesLive, DumpFails
    <2>2. \A q \in (known \cup up \cup aggPeers \cup toSend)' :
             register'[q] # "unseen"
        BY <1>1, <1>4 DEF NothingUnseen
    <2>3. Heard(batch)'
        BY <1>1 DEF Heard
    <2>4. Heard(dumpBuffer)'
        <3>1. CASE dumpBuffer' = dumpBuffer
            BY <1>1, <3>1, Zenon DEF NothingUnseen, Heard
        <3>2. CASE dumpBuffer' = <<>>
            BY <3>2 DEF Heard
        <3> QED
            BY <2>1, <3>1, <3>2
    <2> QED
        BY <2>2, <2>3, <2>4 DEF NothingUnseen
<1>8. Mirrored'
    <2>1. CASE phase' = "Dumping"
        BY <1>1, <1>4, <2>1, Zenon DEF Mirrored, Lost, Registered
    <2>2. CASE dump = "norib" /\ known' = known
        BY <1>1, <1>4, <2>2, Zenon DEF Mirrored, Lost, Closed, Registered
    <2>3. CASE Closed
        BY <1>1, <1>4, <2>3, Zenon DEF Mirrored, Lost, Closed, Registered
    <2> QED
        BY <1>2, <1>3, <2>1, <2>2, <2>3, Zenon
<1>9. [Stream!StreamNext]_(Stream!streamVars)
    BY <1>1 DEF Stream!streamVars
<1> QED
    BY <1>0, <1>4, <1>5, <1>6, <1>7, <1>8, <1>9, Zenon

\* Every step keeps the invariant, and is on the wire a legal step or none.
LEMMA WireNext ==
    WireInv /\ [Next]_vars
        => WireInv' /\ [Stream!StreamNext]_(Stream!streamVars)
<1> SUFFICES ASSUME WireInv, [Next]_vars
             PROVE  WireInv' /\ [Stream!StreamNext]_(Stream!streamVars)
    OBVIOUS
<1>1. CASE UNCHANGED vars
    <2>1. TypeOK'
        BY <1>1, TypeNext DEF WireInv
    <2>2. UNCHANGED <<up, view, faults>>
        BY <1>1 DEF vars, wireVars
    <2>3. Stages' /\ Feeding' /\ NothingUnseen'
        BY <1>1, Zenon DEF WireInv, vars, feedVars, clientVars, dumpVars, wireVars,
           Stages, Feeding, NothingUnseen, Heard
    <2>4. DumpedPeers' /\ Mirrored' /\ CachedPeersAreUp'
        BY <1>1, Zenon DEF WireInv, vars, feedVars, clientVars, dumpVars, wireVars,
           DumpedPeers, Mirrored, Lost, Closed, Registered, CachedPeersAreUp
    <2> QED
        BY <2>1, <2>2, <2>3, <2>4 DEF WireInv, Stream!streamVars
<1>2. ASSUME NEW p \in Peers, PeerEvent(p) \/ SessionStepOf(p)
      PROVE  WireInv' /\ [Stream!StreamNext]_(Stream!streamVars)
    <2>1. CASE LiveSend(p)
        BY <2>1, WireLiveSend
    <2>2. CASE ~LiveSend(p)
        <3>1. WireInv'
            BY <1>2, <2>2, WirePeerEvent, WireSnapshot, WireDeliver
            DEF SessionStepOf
        <3>2. UNCHANGED <<up, view, faults>>
            BY <1>2, <2>2, Zenon
            DEF SessionStepOf, RibApply, Snapshot, Deliver, BufferFull,
                PhaseLocked, BgpCleanup,
                PeerEvent, FirstPeerUp, PeerStats, PeerDown, PeerReappears,
                RouteMonitoring, GcReclaims, Push, wireVars
        <3> QED
            BY <3>1, <3>2 DEF Stream!streamVars
    <2> QED
        BY <2>1, <2>2
<1>3. CASE Connect \/ WriterTask \/ Terminate \/ SendTermination
    <2>1. UNCHANGED <<up, view, faults>>
        BY <1>3, Zenon DEF Connect, WriterTask, WriterWrites, WriterBreaks,
           WriterCleansUp, Terminate, SendTermination, wireVars
    <2> QED
        BY <1>3, <2>1, WireUnit DEF Stream!streamVars
<1>4. CASE DumpControl
    <2>1. UNCHANGED <<up, view>>
        BY <1>4, Zenon DEF DumpControl, SendInitiation, Enumerate, StartWalk,
           WalkCutShort, WalkDone, Drain, WalkFetch, DumpEndOfRib, wireVars
    <2>2. ASSUME NEW p \in Peers, DumpEndOfRib(p)
          PROVE  UNCHANGED faults
        BY <2>2, Zenon DEF WireInv, DumpedPeers, DumpEndOfRib
    <2>3. UNCHANGED faults
        BY <1>4, <2>2, Zenon DEF DumpControl, SendInitiation, Enumerate, StartWalk,
           WalkCutShort, WalkDone, Drain, WalkFetch, wireVars
    <2> QED
        BY <1>4, <2>1, <2>3, WireDumpControl DEF Stream!streamVars
<1>5. CASE DumpSend \/ Replay \/ NoRibGoesLive \/ DumpFails
    BY <1>5, WireDumpSend, WireReplay, WireDumpEnds
<1> QED
    BY <1>1, <1>2, <1>3, <1>4, <1>5, NextSplit, Zenon

\* The inductive invariant holds throughout.
THEOREM WireInvariant == Spec => []WireInv
BY WireInit, WireNext, PTL DEF Spec

\* For any number of peers, prefixes and any queue and buffer size: while a
\* client is not condemned, known_peers (client_state.rs) and the collector
\* agree on which registered peers are up.
THEOREM KnownPeersCorrect == Spec => []KnownMatchesWire
<1>1. WireInv => KnownMatchesWire
    BY Zenon DEF WireInv, KnownMatchesWire, Mirrored, Lost, Closed, Stages, TypeOK,
           TasksOK
<1> QED
    BY <1>1, WireInvariant, PTL

\* The fast path of send_payload_to_client, which sends under a cached header
\* and looks nothing up, never sends for a peer that is not up.
THEOREM CacheCorrect == Spec => []CachedPeersAreUp
<1>1. WireInv => CachedPeersAreUp
    BY DEF WireInv
<1> QED
    BY <1>1, WireInvariant, PTL

\* No buffered update is left behind by the change to Live, whatever sessions
\* were in the middle of delivering one (phase lock of perform_initial_dump).
THEOREM DrainCorrect == Spec => []NothingStranded
<1>1. WireInv => NothingStranded
    BY DEF WireInv, Stages, NothingStranded
<1> QED
    BY <1>1, WireInvariant, PTL

\* The unit implements BmpStream: no Peer Up for a peer that is up, no route
\* and no Peer Down for one that is not, in any interleaving of the sessions,
\* the dump, the writer and the termination of the unit.
THEOREM StreamRefinement == Spec => LegalStream
<1>1. Init => Stream!StreamInit
    BY SMT, Z3 DEF Init
<1> QED
    BY <1>1, WireInvariant, WireNext, PTL DEF Spec, LegalStream,
                                              Stream!StreamSpec

-----------------------------------------------------------------------------
(***************************************************************************)
(* The routes a collector holds are those of the RIB, and the RIB shows    *)
(* what the sessions have announced.                                       *)
(*                                                                         *)
(* The argument for the collector goes prefix by prefix.  What the client  *)
(* has not had yet waits in three places, one behind the other: the batch  *)
(* being replayed, the buffer, and the session that has passed the rib     *)
(* unit.  The last update in them that concerns a prefix agrees with the   *)
(* RIB; where none does, the collector (with the records the walk has      *)
(* fetched) agrees with it, or the walk has still to read the prefix.      *)
(***************************************************************************)
\* With retain_withdrawn_attributes the records of a peer that goes down stay
\* in the store under its withdrawn flag.  A peer that comes back under the
\* same id would show them again; a BGP session never does.
NoneRetained == RetainAttrs => Peers \subseteq BgpPeers

\* The flag hides nothing that a later update brings back, and the store shows
\* what the session has announced, up to the update it is about to apply.
StoreOK(p) ==
    /\ p \in withdrawn =>
          \/ active[p] = {}
          \/ p \in BgpPeers /\ register[p] \in {"disconnected", "removed"}
    /\ register[p] # "connected" => advertised[p] = {}
    /\ sess[p].at = "cleanup" => register[p] # "connected"
    /\ sess[p].at # "idle" /\ sess[p].upd.kind = "down"
          => register[p] # "connected"
    /\ sess[p].at # "rib" => Visible(p) = advertised[p]
    /\ sess[p].at = "rib" =>
          LET u == sess[p].upd
          IN  /\ u.kind = "announce" => advertised[p] = Visible(p) \cup u.pfx
              /\ u.kind = "withdraw" => advertised[p] = Visible(p) \ u.pfx
              /\ u.kind \in {"reappear", "stats"} => advertised[p] = Visible(p)

StoreInv == \A p \in Peers : StoreOK(p)

\* An update has a say on the prefix x of peer p, and it agrees with the routes
\* V that the RIB shows for p.
Concerns(u, p, x) ==
    /\ u.peer = p
    /\ \/ u.kind = "down"
       \/ u.kind \in {"announce", "withdraw"} /\ x \in u.pfx

Agrees(u, x, V) == u.kind = "announce" <=> x \in V

\* A queue of updates says nothing on x, or its last word on x agrees with V.
Silent(s, p, x) == \A i \in DOMAIN s : ~Concerns(s[i], p, x)

LastWord(s, p, x, V) ==
    \E i \in DOMAIN s :
        /\ Concerns(s[i], p, x)
        /\ Agrees(s[i], x, V)
        /\ \A j \in DOMAIN s : j > i => ~Concerns(s[j], p, x)

\* The update of p that the rib unit has applied and the client has not had.
InFlight(p) == sess[p].at \in {"forward", "deliver", "send"}
Coming(p, x) == InFlight(p) /\ Concerns(sess[p].upd, p, x)

\* The walk has still to read x.
Unread(x) == dump \in {"none", "init", "enumerate", "peerup"} \/ x \in walkKeys

\* The collector has x, or will have what the walk has fetched.
Had(p, x) == x \in view[p] \/ <<p, x>> \in fetched

Told(p, x) == Unread(x) \/ (Had(p, x) <=> x \in Visible(p))

Owed(p, x) ==
    \/ Coming(p, x) /\ Agrees(sess[p].upd, x, Visible(p))
    \/ /\ ~Coming(p, x)
       /\ \/ LastWord(dumpBuffer, p, x, Visible(p))
          \/ /\ Silent(dumpBuffer, p, x)
             /\ \/ LastWord(batch, p, x, Visible(p))
                \/ Silent(batch, p, x) /\ Told(p, x)

\* A client nothing has condemned.
Sound ==
    /\ writer \in {"none", "running"} /\ ~pending
    /\ runner = "accepting"
    /\ ~partial

OwedInv ==
    Sound => \A p \in Peers, x \in Prefixes : Registered(p) => Owed(p, x)

\* How far the dump has got.
Walked ==
    /\ dump = "norib" => ~HasRib
    /\ dump = "none" => dumpBuffer = <<>> /\ \A p \in Peers : sess[p].at # "deliver"
    /\ dump # "walk" => walkKeys = {} /\ fetched = {}
    /\ writer \in {"running", "cleanup"} => clients

\* The collector has no routes of a peer that is not up.
RoutesOfUp == \A p \in Peers : p \notin up => view[p] = {}

\* Nothing of a prefix has been sent before it is read, and nothing is fetched
\* of a peer that is not registered yet.
ReadFirst ==
    \A p \in Peers, x \in Prefixes :
        /\ Unread(x) => ~Had(p, x)
        /\ <<p, x>> \in fetched => register[p] # "unseen"

DumpInv == Walked /\ RoutesOfUp /\ ReadFirst

ConvergeInv == WireInv /\ StoreInv /\ DumpInv /\ OwedInv

-----------------------------------------------------------------------------
(***************************************************************************)
(* The store and the sessions.                                             *)
(***************************************************************************)

LEMMA StoreInit == Init => StoreInv
<1> SUFFICES ASSUME Init, NEW p \in Peers PROVE StoreOK(p)
    BY Zenon DEF StoreInv
<1>1. /\ active[p] = {} /\ withdrawn = {} /\ advertised[p] = {}
      /\ sess[p].at = "idle"
    BY DEF Init, RibInit, At
<1> QED
    BY <1>1 DEF StoreOK, Visible

\* A peer whose session, entry and records do not change.
LEMMA StoreSame ==
    ASSUME NEW q, StoreOK(q), sess'[q] = sess[q], register'[q] = register[q],
           advertised'[q] = advertised[q], active'[q] = active[q],
           q \in withdrawn' <=> q \in withdrawn
    PROVE  StoreOK(q)' /\ Visible(q)' = Visible(q)
BY Zenon DEF StoreOK, Visible

\* The steps of the client and of the unit, and those of a session past the rib
\* unit.
LEMMA StoreUntouched ==
    ASSUME StoreInv, UNCHANGED <<register, advertised, active, withdrawn>>,
           \A q \in Peers :
              \/ sess'[q] = sess[q]
              \/ /\ sess[q].at \notin {"idle", "rib", "cleanup"}
                 /\ sess'[q].at # "rib"
                 /\ \/ sess'[q].upd = sess[q].upd /\ sess'[q].at # "cleanup"
                    \/ sess'[q].upd.kind = "stats" /\ sess'[q].at = "idle"
                    \/ /\ sess[q].upd.kind = "down"
                       /\ sess'[q].at = "cleanup"
    PROVE  StoreInv'
<1> SUFFICES ASSUME NEW q \in Peers PROVE StoreOK(q)'
    BY SMT, Z3 DEF StoreInv
<1>0. StoreOK(q) /\ Visible(q)' = Visible(q)
    BY DEF StoreInv, Visible
<1>1. CASE sess'[q] = sess[q]
    BY <1>0, <1>1, StoreSame, Zenon
<1>2. CASE /\ sess[q].at \notin {"idle", "rib", "cleanup"}
           /\ sess'[q].at # "rib"
           /\ \/ sess'[q].upd = sess[q].upd /\ sess'[q].at # "cleanup"
              \/ sess'[q].upd.kind = "stats" /\ sess'[q].at = "idle"
              \/ sess[q].upd.kind = "down" /\ sess'[q].at = "cleanup"
    BY <1>0, <1>2, Zenon DEF StoreOK
<1> QED
    BY <1>1, <1>2, Zenon

LEMMA StorePeerEvent ==
    ASSUME WireInv, StoreInv, NEW p \in Peers, PeerEvent(p)
    PROVE  StoreInv'
<1>0. SessionsOK /\ RibTypeOK /\ StoreOK(p)
    BY SMT, Z3 DEF WireInv, TypeOK, SessionsOK, StoreInv
<1>1. \A q \in Peers \ {p} : StoreOK(q)'
    <2> SUFFICES ASSUME NEW q \in Peers \ {p} PROVE StoreOK(q)'
        OBVIOUS
    <2>1. /\ sess'[q] = sess[q] /\ register'[q] = register[q]
          /\ advertised'[q] = advertised[q] /\ active'[q] = active[q]
          /\ q \in withdrawn' <=> q \in withdrawn
        BY <1>0, Zenon
        DEF PeerEvent, FirstPeerUp, PeerStats, PeerDown, PeerReappears,
            RouteMonitoring, GcReclaims, Push, SessionsOK, RibTypeOK,
            RemoveForIngresses, ribVars
    <2> QED
        BY <2>1, StoreSame DEF StoreInv
<1>2. StoreOK(p)'
    <2>1. CASE FirstPeerUp(p)
        <3>1. /\ register[p] = "unseen" /\ register'[p] = "connected"
              /\ UNCHANGED <<advertised, sess, active, withdrawn>>
              /\ sess[p].at = "idle"
            BY <1>0, <2>1, Zenon DEF FirstPeerUp, SessionsOK, ribVars, WireInv, Feeding
        <3> QED
            BY <1>0, <3>1, Zenon DEF StoreOK, Visible
    <2>2. CASE GcReclaims(p)
        <3>1. /\ register[p] = "disconnected" /\ register'[p] = "removed"
              /\ UNCHANGED <<advertised, sess>>
              /\ active'[p] = {} /\ p \notin withdrawn'
            BY <1>0, <2>2, Zenon DEF GcReclaims, SessionsOK, RemoveForIngresses
        <3>2. sess[p].at = "rib" => sess[p].upd.kind = "down"
            BY <3>1, Zenon DEF WireInv, Feeding
        <3> QED
            BY <1>0, <3>1, <3>2, Zenon DEF StoreOK, Visible
    <2>3. ASSUME NEW kind, NEW S, Push(p, kind, S)
          PROVE  /\ sess[p].at = "idle" /\ sess'[p].at = "rib"
                 /\ sess'[p].upd.kind = kind /\ sess'[p].upd.pfx = S
                 /\ UNCHANGED <<active, withdrawn>> /\ Visible(p)' = Visible(p)
        BY <1>0, <2>3, Zenon DEF Push, SessionsOK, At, ribVars, Visible
    <2>s. StoreOK(p)
        BY <1>0, ZenonT(30)
    <2>4. CASE PeerStats(p)
        <3>1. UNCHANGED <<register, advertised>> /\ register[p] = "connected"
            BY <2>4, Zenon DEF PeerStats
        <3>2. /\ sess[p].at = "idle" /\ sess'[p].at = "rib"
              /\ sess'[p].upd.kind = "stats" /\ sess'[p].upd.pfx = {}
              /\ UNCHANGED <<active, withdrawn>> /\ Visible(p)' = Visible(p)
            BY <2>3, <2>4, Zenon DEF PeerStats
        <3> QED
            BY <2>s, <3>1, <3>2, SMT, Z3 DEF StoreOK
    <2>5. CASE PeerDown(p)
        <3>1. register'[p] = "disconnected" /\ advertised'[p] = {}
              /\ register[p] = "connected"
            BY <1>0, <2>5, Zenon DEF PeerDown, SessionsOK
        <3>2. /\ sess[p].at = "idle" /\ sess'[p].at = "rib"
              /\ sess'[p].upd.kind = "down" /\ sess'[p].upd.pfx = {}
              /\ UNCHANGED <<active, withdrawn>> /\ Visible(p)' = Visible(p)
            BY <2>3, <2>5, Zenon DEF PeerDown
        <3> QED
            BY <2>s, <3>1, <3>2, SMT, Z3 DEF StoreOK
    <2>6. CASE PeerReappears(p)
        <3>1. /\ register'[p] = "connected" /\ register[p] = "disconnected"
              /\ p \notin BgpPeers /\ advertised' = advertised
            BY <1>0, <2>6, Zenon DEF PeerReappears, SessionsOK
        <3>2. /\ sess[p].at = "idle" /\ sess'[p].at = "rib"
              /\ sess'[p].upd.kind = "reappear" /\ sess'[p].upd.pfx = {}
              /\ UNCHANGED <<active, withdrawn>> /\ Visible(p)' = Visible(p)
            BY <2>3, <2>6, Zenon DEF PeerReappears
        <3> QED
            BY <2>s, <3>1, <3>2, SMT, Z3 DEF StoreOK
    <2>7. ASSUME NEW x \in Prefixes, RouteMonitoring(p, x)
          PROVE  StoreOK(p)'
        <3>1. /\ register' = register /\ register[p] = "connected"
              /\ \/ Push(p, "announce", {x}) /\ advertised'[p] = advertised[p] \cup {x}
                 \/ Push(p, "withdraw", {x}) /\ advertised'[p] = advertised[p] \ {x}
            BY <1>0, <2>7, ZenonT(30) DEF RouteMonitoring, SessionsOK
        <3>2. CASE Push(p, "announce", {x}) /\ advertised'[p] = advertised[p] \cup {x}
            <4>1. /\ sess[p].at = "idle" /\ sess'[p].at = "rib"
                  /\ sess'[p].upd.kind = "announce" /\ sess'[p].upd.pfx = {x}
                  /\ UNCHANGED <<active, withdrawn>> /\ Visible(p)' = Visible(p)
                BY <2>3, <3>2, Zenon
            <4>2. register' = register /\ register[p] = "connected"
                BY <3>1, ZenonT(30)
            <4> QED
                BY <2>s, <3>2, <4>1, <4>2, SMT, Z3 DEF StoreOK
        <3>3. CASE Push(p, "withdraw", {x}) /\ advertised'[p] = advertised[p] \ {x}
            <4>1. /\ sess[p].at = "idle" /\ sess'[p].at = "rib"
                  /\ sess'[p].upd.kind = "withdraw" /\ sess'[p].upd.pfx = {x}
                  /\ UNCHANGED <<active, withdrawn>> /\ Visible(p)' = Visible(p)
                BY <2>3, <3>3, Zenon
            <4>2. register' = register /\ register[p] = "connected"
                BY <3>1, Zenon
            <4> QED
                BY <2>s, <3>3, <4>1, <4>2, SMT, Z3 DEF StoreOK
        <3> QED
            BY <3>1, <3>2, <3>3, Zenon
    <2> QED
        BY <2>1, <2>2, <2>4, <2>5, <2>6, <2>7, Zenon DEF PeerEvent
<1> QED
    BY <1>1, <1>2 DEF StoreInv

LEMMA StoreRibApply ==
    ASSUME NoneRetained, WireInv, StoreInv, NEW p \in Peers, RibApply(p)
    PROVE  StoreInv'
<1> DEFINE u == sess[p].upd
<1>0. SessionsOK /\ RibTypeOK /\ StoreOK(p) /\ sess[p].at = "rib"
    BY Zenon DEF WireInv, TypeOK, SessionsOK, StoreInv, RibApply
<1>1. \A q \in Peers \ {p} : StoreOK(q)'
    <2> SUFFICES ASSUME NEW q \in Peers \ {p} PROVE StoreOK(q)'
        OBVIOUS
    <2>1. /\ sess'[q] = sess[q] /\ register'[q] = register[q]
          /\ advertised'[q] = advertised[q]
        BY <1>0, Zenon DEF RibApply, SessionsOK
    <2>2. /\ active'[q] = active[q]
          /\ q \in withdrawn' <=> q \in withdrawn
        BY <1>0, Zenon DEF RibApply, SessionsOK, RibTypeOK, InsertActive,
           InsertWithdrawn, WithdrawForIngresses, MarkIngressActive, ribVars
    <2> QED
        BY <2>1, <2>2, StoreSame, Zenon DEF StoreInv
<1> SUFFICES StoreOK(p)'
    BY <1>1 DEF StoreInv
<1>2. /\ sess'[p].at = "forward" /\ sess'[p].upd = u /\ advertised' = advertised
      /\ u.kind \in Kinds
    BY <1>0 DEF RibApply, SessionsOK, Updates, Kinds
<1>3. u.kind # "down" => register[p] = "connected"
    BY <1>0, Zenon DEF WireInv, Feeding
<1>4. u.kind # "down" => register'[p] = "connected"
    BY <1>0, <1>3, Zenon DEF RibApply, SessionsOK
<1>5. u.kind = "down" => register' = register
    BY DEF RibApply
<1>6. CASE u.kind = "announce"
    <2>1. p \notin withdrawn' /\ active'[p] = active[p] \cup u.pfx
        BY <1>0, <1>6, Zenon DEF RibApply, InsertActive, RibTypeOK
    <2>2. Visible(p) = active[p]
        BY <1>0, <1>3, <1>6, Zenon DEF StoreOK, Visible
    <2> QED
        BY <1>0, <1>2, <1>4, <1>6, <2>1, <2>2, Zenon DEF StoreOK, Visible
<1>7. CASE u.kind = "withdraw"
    <2>1. withdrawn' = withdrawn /\ active'[p] = active[p] \ u.pfx
        BY <1>0, <1>7, Zenon DEF RibApply, InsertWithdrawn, RibTypeOK
    <2> QED
        BY <1>0, <1>2, <1>3, <1>4, <1>7, <2>1, Zenon DEF StoreOK, Visible
<1>8. CASE u.kind = "down"
    <2>1. p \in withdrawn' /\ (active'[p] = {} \/ RetainAttrs)
        BY <1>0, <1>8, Zenon DEF RibApply, WithdrawForIngresses, RibTypeOK
    <2>2. register[p] \in {"disconnected", "removed"}
        BY <1>0, <1>8, Zenon DEF StoreOK, WireInv, Feeding, SessionsOK, RegisterState
    <2> QED
        BY <1>0, <1>2, <1>5, <1>8, <2>1, <2>2, Zenon DEF StoreOK, Visible, NoneRetained
<1>9. CASE u.kind = "reappear"
    <2>1. p \notin withdrawn' /\ active' = active
        BY <1>0, <1>9, Zenon DEF RibApply, MarkIngressActive
    <2> QED
        BY <1>0, <1>2, <1>3, <1>4, <1>9, <2>1, Zenon DEF StoreOK, Visible
<1>10. CASE u.kind = "stats"
    <2>1. withdrawn' = withdrawn /\ active' = active
        BY <1>0, <1>10, Zenon DEF RibApply, ribVars
    <2> QED
        BY <1>0, <1>2, <1>3, <1>4, <1>10, <2>1, Zenon DEF StoreOK, Visible
<1> QED
    BY <1>2, <1>6, <1>7, <1>8, <1>9, <1>10, Zenon DEF Kinds


LEMMA StoreNext ==
    NoneRetained /\ WireInv /\ StoreInv /\ [Next]_vars => StoreInv'
<1> SUFFICES ASSUME NoneRetained, WireInv, StoreInv, [Next]_vars
             PROVE  StoreInv'
    OBVIOUS
<1>0. SessionsOK
    BY SMT, Z3 DEF WireInv, TypeOK
<1>1. CASE UNCHANGED feedVars
    BY <1>1, StoreUntouched DEF feedVars
<1>2. ASSUME NEW p \in Peers, PeerEvent(p) PROVE StoreInv'
    BY <1>2, StorePeerEvent
<1>3. ASSUME NEW p \in Peers, RibApply(p) PROVE StoreInv'
    BY <1>3, StoreRibApply
<1>4. ASSUME NEW p \in Peers, BgpCleanup(p) PROVE StoreInv'
    <2>1. \A q \in Peers \ {p} :
              /\ sess'[q] = sess[q] /\ register'[q] = register[q]
              /\ advertised'[q] = advertised[q] /\ active'[q] = active[q]
              /\ q \in withdrawn' <=> q \in withdrawn
        BY <1>0, <1>4 DEF BgpCleanup, SessionsOK, ribVars
    <2>2. \A q \in Peers \ {p} : StoreOK(q)'
        BY <2>1, StoreSame, Zenon DEF StoreInv
    <2>3. /\ sess[p].at = "cleanup" /\ sess'[p].at = "idle"
          /\ register'[p] = "removed"
          /\ UNCHANGED <<advertised, active, withdrawn>>
        BY <1>0, <1>4 DEF BgpCleanup, SessionsOK, ribVars
    <2>4. StoreOK(p)'
        <3>1. StoreOK(p) /\ Visible(p)' = Visible(p)
            BY <2>3 DEF StoreInv, Visible
        <3>2. Visible(p) = advertised[p] /\ advertised[p] = {}
            BY <2>3, <3>1, Zenon DEF StoreOK
        <3> QED
            BY <2>3, <3>1, <3>2, Zenon DEF StoreOK
    <2> QED
        BY <2>2, <2>4 DEF StoreInv
<1>5. ASSUME NEW p \in Peers, Snapshot(p) \/ Deliver(p) \/ LiveSend(p)
      PROVE  StoreInv'
    <2>1. UNCHANGED <<register, advertised, active, withdrawn>>
        BY <1>5, Zenon DEF Snapshot, Deliver, LiveSend, ribVars
    <2>2. \A q \in Peers \ {p} : sess'[q] = sess[q]
        BY <1>0, <1>5, Zenon DEF Snapshot, Deliver, LiveSend, Passed, SessionsOK
    <2>3. sess[p].at \in {"forward", "deliver", "send"}
        BY <1>5, Zenon DEF Snapshot, Deliver, LiveSend
    <2>4. \/ sess'[p] = sess[p]
          \/ sess'[p].upd = sess[p].upd /\ sess'[p].at \in {"deliver", "send"}
          \/ Passed(p)
        BY <1>0, <1>5, SMT, Z3 DEF Snapshot, Deliver, LiveSend, SessionsOK
    <2>5. Passed(p) => \/ sess'[p].upd.kind = "stats" /\ sess'[p].at = "idle"
                       \/ sess[p].upd.kind = "down" /\ sess'[p].at = "cleanup"
        BY <1>0 DEF Passed, At, SessionsOK
    <2>6. \/ sess'[p] = sess[p]
          \/ /\ sess[p].at \notin {"idle", "rib", "cleanup"}
             /\ sess'[p].at # "rib"
             /\ \/ sess'[p].upd = sess[p].upd /\ sess'[p].at # "cleanup"
                \/ sess'[p].upd.kind = "stats" /\ sess'[p].at = "idle"
                \/ sess[p].upd.kind = "down" /\ sess'[p].at = "cleanup"
        BY <2>3, <2>4, <2>5, Zenon
    <2> QED
        BY <2>1, <2>2, <2>6, StoreUntouched, Zenon
<1>6. CASE Connect \/ WriterTask \/ Terminate \/ SendTermination \/ DumpTask
    <2>1. UNCHANGED feedVars
        BY <1>6, Zenon
        DEF Connect, WriterTask, WriterWrites, WriterBreaks, WriterCleansUp,
            Terminate, SendTermination, DumpTask, SendInitiation, Enumerate,
            StartWalk, WalkCutShort, WalkDone, Drain, Replay, NoRibGoesLive,
            DumpFails, DumpPeerUp, DumpEndOfRib, WalkFetch, WalkDiscover,
            WalkEmit
    <2> QED
        BY <1>1, <2>1
<1>7. CASE UNCHANGED vars
    BY <1>1, <1>7 DEF vars
<1> QED
    BY <1>2, <1>3, <1>4, <1>5, <1>6, <1>7, Zenon DEF Next, SessionStepOf

\* Whatever the number of peers and prefixes, and however sessions, sweeps and
\* updates interleave: the store never shows a route that the current session
\* of a peer has not announced.  With retain_withdrawn_attributes this is only
\* so for BGP sessions (process_update and insert_prefix of the rib unit).
THEOREM NothingComesBack ==
    ASSUME NoneRetained
    PROVE  Spec => []NothingResurrected
<1>1. StoreInv => NothingResurrected
    BY Zenon DEF StoreInv, StoreOK, NothingResurrected
<1> QED
    BY <1>1, NoneRetained, StoreInit, StoreNext, WireInvariant, PTL DEF Spec

-----------------------------------------------------------------------------
(***************************************************************************)
(* How far the dump has got.                                               *)
(***************************************************************************)

LEMMA DumpInit == Init => DumpInv
<1> SUFFICES ASSUME Init PROVE DumpInv
    OBVIOUS
<1>1. /\ dump = "none" /\ dumpBuffer = <<>> /\ walkKeys = {} /\ fetched = {}
      /\ writer = "none" /\ \A p \in Peers : sess[p].at = "idle" /\ view[p] = {}
    BY DEF Init, At, Stream!StreamInit
<1> QED
    BY <1>1, SMT, Z3 DEF DumpInv, Walked, RoutesOfUp, ReadFirst, Had

\* A legal stream leaves no routes behind a Peer Down.
LEMMA StreamRoutes ==
    ASSUME TypeOK, RoutesOfUp, [Stream!StreamNext]_(Stream!streamVars)
    PROVE  RoutesOfUp'
<1>1. view \in [Peers -> SUBSET Prefixes]
    BY DEF TypeOK, CollectorOK
<1>2. CASE UNCHANGED <<up, view, faults>>
    BY <1>2 DEF RoutesOfUp
<1>3. ASSUME NEW p \in Peers, Stream!PeerUp(p) PROVE RoutesOfUp'
    BY <1>1, <1>3 DEF Stream!PeerUp, RoutesOfUp
<1>4. ASSUME NEW p \in Peers, Stream!PeerDown(p) PROVE RoutesOfUp'
    BY <1>1, <1>4 DEF Stream!PeerDown, RoutesOfUp
<1>5. ASSUME NEW p \in Peers, NEW S \in SUBSET Prefixes, Stream!Announce(p, S)
      PROVE  RoutesOfUp'
    BY <1>1, <1>5 DEF Stream!Announce, RoutesOfUp
<1>6. ASSUME NEW p \in Peers, NEW S \in SUBSET Prefixes, Stream!Withdraw(p, S)
      PROVE  RoutesOfUp'
    BY <1>1, <1>6, SMT, Z3 DEF Stream!Withdraw, RoutesOfUp
<1> QED
    BY <1>2, <1>3, <1>4, <1>5, <1>6, Zenon DEF Stream!StreamNext, Stream!streamVars

\* The steps that leave the dump and the collector alone.
LEMMA DumpSame ==
    ASSUME Walked, ReadFirst,
           UNCHANGED <<dump, walkKeys, fetched, view>>,
           writer' \in {"running", "cleanup"} => clients' \/ ~clients,
           writer' \in {"running", "cleanup"} => writer \in {"running", "cleanup"},
           dump = "none" => dumpBuffer' = dumpBuffer,
           \A q \in Peers : sess'[q].at = "deliver" => sess[q].at = "deliver" \/ dump # "none",
           \A q \in Peers : register[q] # "unseen" => register'[q] # "unseen"
    PROVE  Walked' /\ ReadFirst'
<1>1. Walked'
    BY DEF Walked
<1>2. ReadFirst'
    BY Zenon DEF ReadFirst, Unread, Had
<1> QED
    BY <1>1, <1>2, SMT, Z3

LEMMA DumpPeers ==
    ASSUME WireInv, DumpInv, NEW p \in Peers, PeerEvent(p) \/ SessionStepOf(p)
    PROVE  Walked' /\ ReadFirst'
<1>0. SessionsOK /\ Walked /\ ReadFirst /\ Stages
    BY DEF WireInv, TypeOK, DumpInv
<1>1. UNCHANGED <<dump, walkKeys, fetched, writer, clients>>
    BY Zenon DEF PeerEvent, SessionStepOf, FirstPeerUp, PeerStats, PeerDown,
           PeerReappears, RouteMonitoring, GcReclaims, Push, RibApply, Snapshot,
           Deliver, LiveSend, BgpCleanup, dumpVars
<1>2. \A q \in Peers : register[q] # "unseen" => register'[q] # "unseen"
    BY <1>0, Zenon
    DEF PeerEvent, SessionStepOf, FirstPeerUp, PeerStats, PeerDown,
        PeerReappears, RouteMonitoring, GcReclaims, Push, RibApply, Snapshot,
        Deliver, LiveSend, BgpCleanup, SessionsOK
<1>3. CASE PeerEvent(p) \/ RibApply(p) \/ BgpCleanup(p)
    <2>1. UNCHANGED <<dumpBuffer, view>>
        BY <1>3, Zenon
        DEF PeerEvent, FirstPeerUp, PeerStats, PeerDown, PeerReappears,
            RouteMonitoring, GcReclaims, Push, RibApply, BgpCleanup, clientVars,
            wireVars
    <2>2. \A q \in Peers : sess'[q].at = "deliver" => sess[q].at = "deliver"
        BY <1>0, <1>3
        DEF PeerEvent, FirstPeerUp, PeerStats, PeerDown, PeerReappears,
            RouteMonitoring, GcReclaims, Push, RibApply, BgpCleanup, At,
            SessionsOK
    <2> QED
        BY <1>0, <1>1, <1>2, <2>1, <2>2, DumpSame, Zenon
<1>4. CASE Snapshot(p)
    <2>1. UNCHANGED <<dumpBuffer, view>>
        BY <1>4 DEF Snapshot, clientVars, wireVars
    <2>2. \A q \in Peers : sess'[q].at = "deliver" => sess[q].at = "deliver" \/ clients
        BY <1>0, <1>4, SMT, Z3 DEF Snapshot, Passed, At, SessionsOK
    <2>3. clients => dump # "none"
        BY <1>0 DEF Stages
    <2> QED
        BY <1>0, <1>1, <1>2, <2>1, <2>2, <2>3, DumpSame, Zenon
<1>5. CASE Deliver(p)
    <2>1. view' = view /\ sess[p].at = "deliver"
        BY <1>5 DEF Deliver, wireVars
    <2>2. \A q \in Peers : sess'[q].at = "deliver" => sess[q].at = "deliver"
        BY <1>0, <1>5, Zenon DEF Deliver, Passed, At, SessionsOK
    <2>3. dump # "none"
        BY <1>0, <2>1 DEF Walked
    <2> QED
        BY <1>0, <1>1, <1>2, <2>1, <2>2, <2>3, DumpSame, Zenon
<1>6. CASE LiveSend(p)
    <2>1. dump = "done" /\ fetched = {} /\ walkKeys = {}
        BY <1>0, <1>6, Zenon DEF Stages, LiveSend, Walked
    <2>2. ReadFirst'
        BY <1>1, <2>1 DEF ReadFirst, Unread
    <2>3. Walked'
        BY <1>0, <1>1, <2>1, Zenon DEF Walked
    <2> QED
        BY <2>2, <2>3
<1> QED
    BY <1>3, <1>4, <1>5, <1>6, Zenon DEF SessionStepOf

LEMMA DumpUnit ==
    ASSUME WireInv, DumpInv, Connect \/ WriterTask \/ Terminate \/ SendTermination
    PROVE  Walked' /\ ReadFirst'
<1>0. Walked /\ ReadFirst
    BY DEF DumpInv
<1>1. UNCHANGED <<walkKeys, fetched, view, register, sess, dumpBuffer>>
    BY Zenon DEF Connect, WriterTask, WriterWrites, WriterBreaks, WriterCleansUp,
           Terminate, SendTermination, clientVars, dumpVars, wireVars, feedVars
<1>2. CASE Connect
    <2>1. dump = "none" /\ dump' = "init" /\ clients'
        BY <1>2 DEF Connect
    <2>2. ReadFirst'
        BY <1>0, <1>1, <2>1, Zenon DEF ReadFirst, Unread, Had
    <2>3. Walked'
        BY <1>0, <1>1, <2>1, Zenon DEF Walked
    <2> QED
        BY <2>2, <2>3
<1>3. CASE WriterTask \/ Terminate \/ SendTermination
    <2>1. /\ dump' = dump
          /\ writer' \in {"running", "cleanup"} =>
                writer \in {"running", "cleanup"} /\ clients' = clients
        BY <1>3, Zenon
        DEF WriterTask, WriterWrites, WriterBreaks, WriterCleansUp, Terminate,
            SendTermination, clientVars, dumpVars
    <2> QED
        BY <1>0, <1>1, <2>1, DumpSame
<1> QED
    BY <1>2, <1>3

LEMMA DumpTaskSteps ==
    ASSUME WireInv, StoreInv, DumpInv, DumpTask
    PROVE  Walked' /\ ReadFirst'
<1>0. Walked /\ ReadFirst /\ TypeOK /\ Stages /\ DumpedPeers
    BY DEF DumpInv, WireInv
<1>1. /\ UNCHANGED <<register, sess, clients, writer>>
      /\ dump # "none" /\ dump' # "none"
    BY Zenon DEF DumpTask, SendInitiation, Enumerate, StartWalk, WalkCutShort,
           WalkDone, Drain, Replay, NoRibGoesLive, DumpFails, DumpPeerUp,
           DumpEndOfRib, WalkFetch, WalkDiscover, WalkEmit, feedVars
<1> USE <1>0, <1>1
<1>2. CASE SendInitiation \/ Enumerate
    <2>1. /\ UNCHANGED <<walkKeys, fetched, view>>
          /\ dump \in {"init", "enumerate"}
          /\ dump' \in {"enumerate", "peerup", "norib"}
          /\ dump' = "norib" => ~HasRib
        BY <1>2, Zenon DEF SendInitiation, Enumerate, dumpVars, wireVars
    <2>2. Walked'
        BY <2>1, Zenon DEF Walked
    <2>3. ReadFirst'
        BY <2>1, Zenon DEF ReadFirst, Unread, Had
    <2> QED
        BY <2>2, <2>3
<1>3. CASE StartWalk
    <2>1. UNCHANGED <<fetched, view>> /\ dump = "peerup" /\ dump' = "walk"
        BY <1>3, SMT, Z3 DEF StartWalk, dumpVars, wireVars
    <2>2. Walked'
        BY <2>1 DEF Walked
    <2>3. ReadFirst'
        BY <2>1, Zenon DEF ReadFirst, Unread, Had
    <2> QED
        BY <2>2, <2>3
<1>4. ASSUME NEW x \in Prefixes, WalkFetch(x)
      PROVE  Walked' /\ ReadFirst'
    <2>1. /\ view' = view /\ dump = "walk" /\ dump' = "walk"
          /\ x \in walkKeys /\ walkKeys' = walkKeys \ {x}
          /\ fetched' = fetched \cup {r \in Peers \X {x} : x \in Visible(r[1])}
        BY <1>4, SMT, Z3 DEF WalkFetch, wireVars
    <2>2. Walked'
        BY <2>1 DEF Walked
    <2>3. ASSUME NEW q \in Peers, NEW y \in Prefixes
          PROVE  /\ Unread(y)' => ~Had(q, y)'
                 /\ <<q, y>> \in fetched' => register'[q] # "unseen"
        <3>1. y # x => (<<q, y>> \in fetched' <=> <<q, y>> \in fetched)
            BY <2>1
        <3>2. <<q, y>> \in fetched' => <<q, y>> \in fetched \/ y \in Visible(q)
            BY <2>1
        <3>3. Unread(y)' => y # x /\ Unread(y)
            BY <2>1 DEF Unread
        <3>4. y \in Visible(q) => register[q] # "unseen"
            BY ZenonT(30) DEF StoreInv, StoreOK, WireInv, Feeding
        <3> QED
            BY <2>1, <3>1, <3>2, <3>3, <3>4, Zenon DEF ReadFirst, Had
    <2> QED
        BY <2>2, <2>3, Zenon DEF ReadFirst
<1>5. CASE WalkCutShort \/ WalkDone
    <2>1. /\ UNCHANGED <<fetched, view>> /\ dump = "walk" /\ walkKeys' = {}
          /\ \/ dump' = "walk"
             \/ dump' = "eor" /\ fetched = {}
        BY <1>5, Zenon DEF WalkCutShort, WalkDone, wireVars
    <2>2. Walked'
        BY <2>1 DEF Walked
    <2>3. ReadFirst'
        BY <2>1, Zenon DEF ReadFirst, Unread, Had
    <2> QED
        BY <2>2, <2>3
<1>6. ASSUME NEW p \in Peers, DumpPeerUp(p)
      PROVE  Walked' /\ ReadFirst'
    <2>1. /\ UNCHANGED <<walkKeys, fetched, dump>> /\ dump = "peerup"
          /\ view' = [view EXCEPT ![p] = {}]
        BY <1>6, Zenon DEF DumpPeerUp, Wire
    <2>2. Walked'
        BY <2>1 DEF Walked
    <2>3. \A q \in Peers : view'[q] \subseteq view[q]
        BY <2>1 DEF TypeOK, CollectorOK
    <2>4. ReadFirst'
        BY <2>1, <2>3, Zenon DEF ReadFirst, Unread, Had
    <2> QED
        BY <2>2, <2>4
<1>7. ASSUME NEW r \in Peers \X Prefixes, WalkDiscover(r)
      PROVE  Walked' /\ ReadFirst'
    <2>1. /\ UNCHANGED <<walkKeys, dump>> /\ dump = "walk"
          /\ fetched' \subseteq fetched
        BY <1>7, Zenon DEF WalkDiscover
    <2>2. view' = view \/ view' = [view EXCEPT ![r[1]] = {}]
        BY <1>7, Zenon DEF WalkDiscover, Wire, wireVars
    <2>3. Walked'
        BY <2>1, SMT, Z3 DEF Walked
    <2>4. \A q \in Peers : view'[q] \subseteq view[q]
        BY <2>2 DEF TypeOK, CollectorOK
    <2>5. ReadFirst'
        BY <2>1, <2>4, Zenon DEF ReadFirst, Unread, Had
    <2> QED
        BY <2>3, <2>5
<1>8. ASSUME NEW p \in Peers, NEW S \in SUBSET Prefixes, WalkEmit(p, S)
      PROVE  Walked' /\ ReadFirst'
    <2>1. /\ UNCHANGED <<walkKeys, dump>> /\ dump = "walk"
          /\ fetched' \subseteq fetched /\ {p} \X S \subseteq fetched
          /\ view' = [view EXCEPT ![p] = @ \cup S]
        BY <1>8, Zenon DEF WalkEmit, Wire
    <2>2. Walked'
        BY <2>1 DEF Walked
    <2>3. \A q \in Peers, x \in Prefixes : Had(q, x)' => Had(q, x)
        BY <2>1, Zenon DEF TypeOK, CollectorOK, Had
    <2>4. ReadFirst'
        BY <2>1, <2>3, Zenon DEF ReadFirst, Unread
    <2> QED
        BY <2>2, <2>4
<1>9. CASE \/ Drain \/ Replay \/ NoRibGoesLive \/ DumpFails
           \/ \E p \in Peers : DumpEndOfRib(p)
    <2>1. /\ dump' \in {"eor", "drain", "done", "norib"}
          /\ dump' = "norib" => dump = "norib"
          /\ \/ walkKeys' = {} /\ fetched' = {}
             \/ dump # "walk" /\ walkKeys' = walkKeys /\ fetched' = fetched
        BY <1>9, Zenon DEF Drain, Replay, NoRibGoesLive, DumpFails, DumpEndOfRib
    <2>2. walkKeys' = {} /\ fetched' = {}
        BY <2>1 DEF Walked
    <2>3. Walked'
        BY <2>1, <2>2, Zenon DEF Walked
    <2>4. ReadFirst'
        BY <2>1, <2>2, Zenon DEF ReadFirst, Unread
    <2> QED
        BY <2>3, <2>4
<1> QED
    BY <1>2, <1>3, <1>4, <1>5, <1>6, <1>7, <1>8, <1>9, Zenon DEF DumpTask

LEMMA DumpNext == WireInv /\ StoreInv /\ DumpInv /\ [Next]_vars => DumpInv'
<1> SUFFICES ASSUME WireInv, StoreInv, DumpInv, [Next]_vars PROVE DumpInv'
    OBVIOUS
<1>1. RoutesOfUp'
    BY WireNext, StreamRoutes, Zenon DEF WireInv, DumpInv
<1>2. CASE UNCHANGED vars
    BY <1>2, DumpSame, Zenon DEF DumpInv, RoutesOfUp, vars, feedVars, clientVars,
       dumpVars, wireVars
<1>3. CASE Next
    <2>1. Walked' /\ ReadFirst'
        BY <1>3, DumpPeers, DumpUnit, DumpTaskSteps, Zenon DEF Next
    <2> QED
        BY <1>1, <2>1 DEF DumpInv
<1> QED
    BY <1>2, <1>3

-----------------------------------------------------------------------------
(***************************************************************************)
(* Queues of updates.                                                      *)
(***************************************************************************)

LEMMA EmptyQueue ==
    ASSUME NEW p, NEW x, NEW V
    PROVE  Silent(<<>>, p, x) /\ ~LastWord(<<>>, p, x, V)
BY DEF Silent, LastWord

\* An update is put behind the others.
LEMMA AppendWord ==
    ASSUME NEW s \in Seq(Updates), NEW u \in Updates, NEW p, NEW x, NEW V
    PROVE  /\ Concerns(u, p, x) /\ Agrees(u, x, V)
                  => LastWord(Append(s, u), p, x, V)
           /\ ~Concerns(u, p, x) /\ LastWord(s, p, x, V)
                  => LastWord(Append(s, u), p, x, V)
           /\ ~Concerns(u, p, x) /\ Silent(s, p, x) => Silent(Append(s, u), p, x)
<1> DEFINE t == Append(s, u)
<1>1. /\ Len(s) \in Nat /\ DOMAIN s = 1..Len(s) /\ DOMAIN t = 1..(Len(s) + 1)
      /\ t[Len(s) + 1] = u /\ \A i \in 1..Len(s) : t[i] = s[i]
    BY SMT, Z3
<1> HIDE DEF t
<1>2. Concerns(u, p, x) /\ Agrees(u, x, V) => LastWord(t, p, x, V)
    <2>1. /\ Len(s) + 1 \in DOMAIN t
          /\ \A j \in DOMAIN t : ~(j > Len(s) + 1)
        BY <1>1
    <2> QED
        BY <1>1, <2>1, SMT, Z3 DEF LastWord
<1>3. ASSUME ~Concerns(u, p, x), LastWord(s, p, x, V)
      PROVE  LastWord(t, p, x, V)
    <2>1. PICK i \in DOMAIN s : /\ Concerns(s[i], p, x) /\ Agrees(s[i], x, V)
                                /\ \A j \in DOMAIN s : j > i => ~Concerns(s[j], p, x)
        BY <1>3, SMT, Z3 DEF LastWord
    <2>2. i \in DOMAIN t /\ t[i] = s[i]
        BY <1>1, SMT, Z3
    <2>3. ASSUME NEW j \in DOMAIN t, j > i PROVE ~Concerns(t[j], p, x)
        <3>1. CASE j = Len(s) + 1
            BY <1>1, <1>3, <3>1, Zenon
        <3>2. CASE j # Len(s) + 1
            <4>1. j \in DOMAIN s /\ t[j] = s[j]
                BY <1>1, <3>2, SMT, Z3
            <4> QED
                BY <2>1, <2>3, <4>1, Zenon
        <3> QED
            BY <3>1, <3>2
    <2> QED
        BY <2>1, <2>2, <2>3, Zenon DEF LastWord
<1>4. ASSUME ~Concerns(u, p, x), Silent(s, p, x)
      PROVE  Silent(t, p, x)
    <2> SUFFICES ASSUME NEW j \in DOMAIN t PROVE ~Concerns(t[j], p, x)
        BY DEF Silent
    <2>1. CASE j = Len(s) + 1
        BY <1>1, <1>4, <2>1, Zenon
    <2>2. CASE j # Len(s) + 1
        <3>1. j \in DOMAIN s /\ t[j] = s[j]
            BY <1>1, <2>2
        <3> QED
            BY <1>4, <3>1, SMT, Z3 DEF Silent
    <2> QED
        BY <2>1, <2>2
<1> QED
    BY <1>2, <1>3, <1>4, Zenon DEF t

\* The first update is taken away.
LEMMA TailWord ==
    ASSUME NEW s \in Seq(Updates), s # <<>>, NEW p, NEW x, NEW V
    PROVE  /\ Silent(s, p, x) => ~Concerns(Head(s), p, x) /\ Silent(Tail(s), p, x)
           /\ LastWord(s, p, x, V) =>
                 \/ LastWord(Tail(s), p, x, V)
                 \/ /\ Concerns(Head(s), p, x) /\ Agrees(Head(s), x, V)
                    /\ Silent(Tail(s), p, x)
<1> DEFINE t == Tail(s)
<1>1. /\ Len(s) \in Nat \ {0} /\ DOMAIN s = 1..Len(s) /\ DOMAIN t = 1..(Len(s) - 1)
      /\ Head(s) = s[1] /\ \A i \in 1..(Len(s) - 1) : t[i] = s[i + 1]
    OBVIOUS
<1> HIDE DEF t
<1>2. ASSUME Silent(s, p, x)
      PROVE  ~Concerns(Head(s), p, x) /\ Silent(t, p, x)
    <2>1. 1 \in DOMAIN s /\ \A i \in DOMAIN t : i + 1 \in DOMAIN s /\ t[i] = s[i + 1]
        BY <1>1
    <2> QED
        BY <1>1, <1>2, <2>1, Zenon DEF Silent
<1>3. ASSUME LastWord(s, p, x, V)
      PROVE  \/ LastWord(t, p, x, V)
             \/ /\ Concerns(Head(s), p, x) /\ Agrees(Head(s), x, V)
                /\ Silent(t, p, x)
    <2>1. PICK i \in DOMAIN s : /\ Concerns(s[i], p, x) /\ Agrees(s[i], x, V)
                                /\ \A j \in DOMAIN s : j > i => ~Concerns(s[j], p, x)
        BY <1>3 DEF LastWord
    <2>2. \A j \in DOMAIN t : j + 1 \in DOMAIN s /\ t[j] = s[j + 1]
        BY <1>1
    <2>3. CASE i = 1
        <3>1. \A j \in DOMAIN t : ~Concerns(t[j], p, x)
            BY <1>1, <2>1, <2>2, <2>3
        <3> QED
            BY <1>1, <2>1, <2>3, <3>1, Zenon DEF Silent
    <2>4. CASE i # 1
        <3>1. i - 1 \in DOMAIN t /\ t[i - 1] = s[i]
            BY <1>1, <2>4
        <3>2. ASSUME NEW j \in DOMAIN t, j > i - 1 PROVE ~Concerns(t[j], p, x)
            <4>1. j + 1 > i
                BY <1>1, <3>2, SMT, Z3
            <4> QED
                BY <2>1, <2>2, <4>1, Zenon
        <3> QED
            BY <2>1, <3>1, <3>2, Zenon DEF LastWord
    <2> QED
        BY <2>3, <2>4, Zenon
<1> QED
    BY <1>2, <1>3, Zenon DEF t

-----------------------------------------------------------------------------
(***************************************************************************)
(* What the collector is owed.                                             *)
(***************************************************************************)

LEMMA OwedInit == Init => OwedInv
<1> SUFFICES ASSUME Init, NEW p \in Peers, NEW x \in Prefixes
             PROVE  ~Registered(p)
    BY DEF OwedInv
<1> QED
    BY DEF Init, Registered

\* Nothing becomes sound again.
LEMMA SoundBefore ==
    ASSUME WireInv, [Next]_vars, Sound'
    PROVE  Sound
<1>0. writer = "none" <=> dump = "none"
    BY DEF WireInv, Stages
<1>1. pending \in BOOLEAN /\ partial \in BOOLEAN
    BY DEF WireInv, TypeOK, FlagsOK
<1>2. CASE UNCHANGED <<writer, pending, runner, partial>>
    BY <1>2 DEF Sound
<1>3. ASSUME NEW p \in Peers, PeerEvent(p) \/ SessionStepOf(p) PROVE Sound
    <2>1. UNCHANGED <<writer, runner, partial>> /\ (pending' = pending \/ pending')
        BY <1>3, Zenon
        DEF PeerEvent, SessionStepOf, FirstPeerUp, PeerStats, PeerDown,
            PeerReappears, RouteMonitoring, GcReclaims, Push, RibApply,
            Snapshot, Deliver, LiveSend, BgpCleanup, dumpVars, clientVars,
            NotFlagged, RequestDisconnect
    <2> QED
        BY <2>1 DEF Sound
<1>4. CASE Connect \/ WriterTask \/ Terminate \/ SendTermination
    <2>1. /\ UNCHANGED <<pending, partial>>
          /\ writer' \in {"none", "running"} => writer \in {"none", "running"}
          /\ runner' = "accepting" => runner = "accepting"
        BY <1>0, <1>4, Zenon
        DEF Connect, WriterTask, WriterWrites, WriterBreaks, WriterCleansUp,
            Terminate, SendTermination, clientVars, dumpVars
    <2> QED
        BY <2>1 DEF Sound
<1>5. CASE DumpTask
    <2>1. /\ UNCHANGED <<writer, runner>>
          /\ pending' = pending \/ pending'
          /\ partial' = partial \/ partial'
        BY <1>5, Zenon
        DEF DumpTask, SendInitiation, Enumerate, StartWalk, WalkCutShort,
            WalkDone, Drain, Replay, NoRibGoesLive, DumpFails, DumpPeerUp,
            DumpEndOfRib, WalkFetch, WalkDiscover, WalkEmit, clientVars,
            dumpVars, RequestDisconnect
    <2> QED
        BY <2>1 DEF Sound
<1> QED
    BY <1>2, <1>3, <1>4, <1>5, Zenon DEF Next, vars, clientVars, dumpVars

\* Nothing moves in the queues.
LEMMA OwedSame ==
    ASSUME NEW p, NEW x, Owed(p, x),
           dumpBuffer' = dumpBuffer, batch' = batch, Visible(p)' = Visible(p),
           Coming(p, x)' <=> Coming(p, x),
           Coming(p, x) => sess'[p].upd = sess[p].upd,
           Told(p, x) => Told(p, x)'
    PROVE  Owed(p, x)'
BY Zenon DEF Owed

\* The collector and the dump stay as they are.
LEMMA ToldSame ==
    ASSUME NEW p, NEW x, UNCHANGED <<view, fetched, dump, walkKeys>>,
           Visible(p)' = Visible(p)
    PROVE  Told(p, x)' <=> Told(p, x)
BY DEF Told, Had, Unread

\* A step of the session of another peer.
LEMMA OwedOthers ==
    ASSUME WireInv, NEW p \in Peers, NEW q \in Peers \ {p}, NEW x \in Prefixes,
           PeerEvent(p) \/ RibApply(p) \/ BgpCleanup(p) \/ Snapshot(p), Owed(q, x)
    PROVE  Owed(q, x)' /\ (Registered(q)' <=> Registered(q))
<1>0. SessionsOK /\ RibTypeOK
    BY DEF WireInv, TypeOK, SessionsOK
<1>1. UNCHANGED <<dumpBuffer, batch, view, fetched, dump, walkKeys>>
    BY Zenon DEF PeerEvent, FirstPeerUp, PeerStats, PeerDown, PeerReappears,
           RouteMonitoring, GcReclaims, Push, RibApply, Snapshot, BgpCleanup,
           clientVars, dumpVars, wireVars
<1>2. sess'[q] = sess[q] /\ register'[q] = register[q]
    BY <1>0, Zenon
    DEF PeerEvent, FirstPeerUp, PeerStats, PeerDown, PeerReappears,
        RouteMonitoring, GcReclaims, Push, RibApply, Snapshot, BgpCleanup,
        Passed, SessionsOK
<1>3. active'[q] = active[q] /\ (q \in withdrawn' <=> q \in withdrawn)
    BY <1>0, Zenon
    DEF PeerEvent, FirstPeerUp, PeerStats, PeerDown, PeerReappears,
        RouteMonitoring, GcReclaims, Push, RibApply, Snapshot, BgpCleanup,
        RibTypeOK, RemoveForIngresses, InsertActive, InsertWithdrawn,
        WithdrawForIngresses, MarkIngressActive, ribVars
<1>4. Visible(q)' = Visible(q)
    BY <1>3, Zenon DEF Visible
<1>5. Told(q, x) => Told(q, x)'
    BY <1>1, <1>4, ToldSame, Zenon
<1>6. Coming(q, x)' <=> Coming(q, x)
    BY <1>2, Zenon DEF Coming, InFlight
<1> QED
    BY <1>1, <1>2, <1>4, <1>5, <1>6, OwedSame, Zenon DEF Registered

LEMMA OwedPeerEvent ==
    ASSUME WireInv, StoreInv, DumpInv, NEW p \in Peers, NEW x \in Prefixes,
           PeerEvent(p), Registered(p)', Registered(p) => Owed(p, x)
    PROVE  Owed(p, x)'
<1>0. SessionsOK
    BY DEF WireInv, TypeOK
<1>1. UNCHANGED <<dumpBuffer, batch, view, fetched, dump, walkKeys>>
    BY Zenon DEF PeerEvent, FirstPeerUp, PeerStats, PeerDown, PeerReappears,
           RouteMonitoring, GcReclaims, Push, clientVars, dumpVars, wireVars
<1>2. CASE FirstPeerUp(p)
    <2>1. /\ register[p] = "unseen" /\ sess'[p].at = "idle"
          /\ UNCHANGED <<active, withdrawn>> /\ sess[p].at = "idle"
        BY <1>2, Zenon DEF FirstPeerUp, WireInv, Feeding, ribVars
    <2>2. Visible(p) = {} /\ Visible(p)' = Visible(p)
        BY <2>1, Zenon DEF StoreInv, StoreOK, Visible
    <2>3. ASSUME NEW s \in Seq(Updates), Heard(s) PROVE Silent(s, p, x)
        BY <2>1, <2>3, Zenon DEF Heard, Silent, Concerns
    <2>4. Silent(dumpBuffer, p, x) /\ Silent(batch, p, x)
        BY <2>3, Zenon DEF WireInv, NothingUnseen, TypeOK, QueuesOK
    <2>5. ~Had(p, x)
        BY <2>1, Zenon DEF WireInv, NothingUnseen, DumpInv, RoutesOfUp, ReadFirst, Had
    <2>6. Told(p, x)'
        BY <1>1, <2>2, <2>5, Zenon DEF Told, Had
    <2> QED
        BY <1>1, <2>1, <2>4, <2>6, Zenon DEF Owed, Coming, InFlight
<1>3. CASE ~FirstPeerUp(p)
    <2>1. /\ Registered(p)
          /\ sess[p].at = "idle" /\ sess'[p].at = "rib"
          /\ UNCHANGED <<active, withdrawn>>
        <3>1. ~GcReclaims(p)
            BY <1>0, Zenon DEF GcReclaims, SessionsOK, Registered
        <3>2. Registered(p) /\ \E k \in Kinds, S \in SUBSET Prefixes : Push(p, k, S)
            <4>1. \A y \in Prefixes : {y} \in SUBSET Prefixes
                OBVIOUS
            <4>2. /\ {} \in SUBSET Prefixes
                  /\ {"announce", "withdraw", "stats", "down", "reappear"} \subseteq Kinds
                BY Zenon DEF Kinds
            <4>3. CASE PeerStats(p) \/ PeerDown(p) \/ PeerReappears(p)
                BY <4>2, <4>3, Zenon DEF PeerStats, PeerDown, PeerReappears, Registered
            <4>4. CASE \E y \in Prefixes : RouteMonitoring(p, y)
                BY <4>1, <4>2, <4>4, Zenon DEF RouteMonitoring, Registered
            <4> QED
                BY <1>3, <3>1, <4>3, <4>4, Zenon DEF PeerEvent
        <3>3. sess \in [Peers -> [at : SessionStep, upd : Updates]]
            BY <1>0, Zenon DEF SessionsOK
        <3>4. PICK k \in Kinds, S \in SUBSET Prefixes : Push(p, k, S)
            BY <3>2, Zenon
        <3>5. /\ sess[p].at = "idle" /\ UNCHANGED <<active, withdrawn>>
              /\ sess' = [sess EXCEPT ![p] = At("rib", p, k, S)]
            BY <3>4, ZenonT(30) DEF Push, ribVars
        <3>6. sess'[p].at = "rib"
            BY <3>3, <3>5, SMT, Z3 DEF At
        <3> QED
            BY <3>2, <3>5, <3>6, Zenon
    <2>2. Visible(p)' = Visible(p)
        BY <2>1 DEF Visible
    <2>3. Told(p, x) => Told(p, x)'
        BY <1>1, <2>2, ToldSame, Zenon
    <2>4. ~Coming(p, x) /\ ~Coming(p, x)'
        BY <2>1, Zenon DEF Coming, InFlight
    <2> QED
        BY <1>1, <2>1, <2>2, <2>3, <2>4, OwedSame, Zenon
<1> QED
    BY <1>2, <1>3

\* The rib unit applies the update: from here on the update speaks for the RIB.
LEMMA OwedRibApply ==
    ASSUME WireInv, StoreInv, NEW p \in Peers, NEW x \in Prefixes, RibApply(p),
           Owed(p, x)
    PROVE  Owed(p, x)'
<1> DEFINE u == sess[p].upd
<1>0. /\ SessionsOK /\ RibTypeOK /\ StoreOK(p) /\ sess[p].at = "rib"
      /\ u.peer = p /\ u.kind \in Kinds
      /\ u.kind # "down" => register[p] = "connected"
    BY Zenon DEF WireInv, TypeOK, SessionsOK, StoreInv, RibApply, Stages, Feeding,
           Updates, Kinds
<1>1. UNCHANGED <<dumpBuffer, batch, view, fetched, dump, walkKeys>>
    BY Zenon DEF RibApply, clientVars, dumpVars, wireVars
<1>2. sess'[p].at = "forward" /\ sess'[p].upd = u
    BY <1>0, Zenon DEF RibApply, SessionsOK
<1>3. /\ ~Coming(p, x)
      /\ Coming(p, x)' <=> Concerns(u, p, x)
    BY <1>0, <1>2, Zenon DEF Coming, InFlight
<1>4. register[p] = "connected" => Visible(p) = active[p]
    BY <1>0, Zenon DEF StoreOK, Visible
<1>5. CASE Concerns(u, p, x)
    <2>1. u.kind = "announce" => x \in Visible(p)'
        BY <1>0, <1>5, Zenon DEF Concerns, RibApply, InsertActive, RibTypeOK, Visible
    <2>2. u.kind = "withdraw" => x \notin Visible(p)'
        BY <1>0, <1>5, Zenon DEF Concerns, RibApply, InsertWithdrawn, RibTypeOK, Visible
    <2>3. u.kind = "down" => x \notin Visible(p)'
        BY <1>0, <1>5, Zenon DEF RibApply, WithdrawForIngresses, Visible
    <2>4. Agrees(u, x, Visible(p)')
        BY <1>5, <2>1, <2>2, <2>3, Zenon DEF Agrees, Concerns
    <2> QED
        BY <1>2, <1>3, <1>5, <2>4, Zenon DEF Owed
<1>6. CASE ~Concerns(u, p, x)
    <2>0. u.kind # "down"
        BY <1>0, <1>6, Zenon DEF Concerns
    <2>1. u.kind = "announce" => (x \in Visible(p)' <=> x \in Visible(p))
        BY <1>0, <1>4, <1>6, Zenon
        DEF Concerns, RibApply, InsertActive, RibTypeOK, Visible
    <2>2. u.kind = "withdraw" => (x \in Visible(p)' <=> x \in Visible(p))
        BY <1>0, <1>6, Zenon
        DEF Concerns, RibApply, InsertWithdrawn, RibTypeOK, Visible
    <2>3. u.kind = "reappear" => (x \in Visible(p)' <=> x \in Visible(p))
        BY <1>0, <1>4, Zenon DEF RibApply, MarkIngressActive, Visible
    <2>4. u.kind = "stats" => (x \in Visible(p)' <=> x \in Visible(p))
        BY <1>0, Zenon DEF RibApply, ribVars, Visible
    <2>5. x \in Visible(p)' <=> x \in Visible(p)
        BY <1>0, <2>0, <2>1, <2>2, <2>3, <2>4, Zenon DEF Kinds
    <2>6. Told(p, x) => Told(p, x)'
        BY <1>1, <2>5, Zenon DEF Told, Had, Unread
    <2>7. ASSUME NEW s, LastWord(s, p, x, Visible(p))
          PROVE  LastWord(s, p, x, Visible(p)')
        BY <2>5, <2>7, Zenon DEF LastWord, Agrees
    <2>8. /\ LastWord(dumpBuffer, p, x, Visible(p)) => LastWord(dumpBuffer, p, x, Visible(p))'
          /\ LastWord(batch, p, x, Visible(p)) => LastWord(batch, p, x, Visible(p))'
        BY <1>1, <2>7, Zenon
    <2> QED
        BY <1>1, <1>3, <1>6, <2>6, <2>8, Zenon DEF Owed
<1> QED
    BY <1>5, <1>6

LEMMA OwedSnapshot ==
    ASSUME WireInv, DumpInv, Sound, NEW p \in Peers, NEW x \in Prefixes,
           Snapshot(p), Owed(p, x)
    PROVE  Owed(p, x)'
<1>0. SessionsOK /\ Stages /\ Walked
    BY DEF WireInv, TypeOK, DumpInv
<1>1. /\ UNCHANGED <<dumpBuffer, batch, view, fetched, dump, walkKeys>>
      /\ Visible(p)' = Visible(p)
    BY SMT, Z3 DEF Snapshot, clientVars, dumpVars, wireVars, ribVars, Visible
<1>2. Told(p, x) => Told(p, x)'
    BY <1>1, ToldSame
<1>3. CASE sess' = [sess EXCEPT ![p].at = "deliver"]
    <2>1. sess[p].at = "forward" /\ sess'[p].at = "deliver" /\ sess'[p].upd = sess[p].upd
        BY <1>0, <1>3, ZenonT(30) DEF Snapshot, SessionsOK
    <2>2. Coming(p, x)' <=> Coming(p, x)
        BY <2>1, Zenon DEF Coming, InFlight
    <2> QED
        BY <1>1, <1>2, <2>1, <2>2, OwedSame, Zenon
<1>4. CASE Passed(p) /\ ~clients
    <2>1. dump = "none" /\ dumpBuffer = <<>> /\ batch = <<>>
        BY <1>0, <1>4, Zenon DEF Sound, Walked, Stages
    <2>2. sess'[p].at \in {"idle", "cleanup"}
        BY <1>4, PassedSession, ZenonT(30) DEF WireInv
    <2>3. ~Coming(p, x)'
        BY <2>2, SMT, Z3 DEF Coming, InFlight
    <2>4. Told(p, x)'
        BY <1>1, <2>1 DEF Told, Unread
    <2>5. Silent(dumpBuffer, p, x)' /\ Silent(batch, p, x)'
        BY <1>1, <2>1, EmptyQueue, Zenon
    <2> QED
        BY <2>3, <2>4, <2>5, Zenon DEF Owed
<1> QED
    BY <1>3, <1>4, Zenon DEF Snapshot, Sound

\* The update joins the buffer, or the client is Live.
LEMMA OwedDeliver ==
    ASSUME WireInv, NEW p \in Peers, NEW q \in Peers, NEW x \in Prefixes,
           Deliver(p), Sound', Owed(q, x)
    PROVE  Owed(q, x)'
<1> DEFINE u == sess[p].upd
<1>0. /\ SessionsOK /\ TypeOK /\ sess[p].at = "deliver"
      /\ u \in Updates /\ u.peer = p /\ dumpBuffer \in Seq(Updates)
    BY Zenon DEF WireInv, TypeOK, SessionsOK, QueuesOK, Deliver, Stages
<1>1. /\ UNCHANGED <<batch, view, fetched, dump, walkKeys>>
      /\ Visible(q)' = Visible(q)
    BY SMT, Z3 DEF Deliver, dumpVars, wireVars, ribVars, Visible
<1>2. Told(q, x) => Told(q, x)'
    BY <1>1, ToldSame, SMT, Z3
<1>3. CASE dumpBuffer' = Append(dumpBuffer, u) /\ Passed(p)
    <2>1. /\ sess'[p].at \in {"idle", "cleanup"}
          /\ q # p => sess'[q] = sess[q]
        BY <1>0, <1>3, PassedSession, ZenonT(30)
    <2>2. CASE Concerns(u, q, x)
        <3>1. q = p /\ Coming(q, x) /\ ~Coming(q, x)'
            BY <1>0, <2>1, <2>2, Zenon DEF Concerns, Coming, InFlight
        <3>2. Agrees(u, x, Visible(q))
            BY <3>1 DEF Owed
        <3>3. LastWord(Append(dumpBuffer, u), q, x, Visible(q))
            BY <1>0, <2>2, <3>2, AppendWord, Zenon
        <3> QED
            BY <1>1, <1>3, <3>1, <3>3, Zenon DEF Owed
    <2>3. CASE ~Concerns(u, q, x)
        <3>1. Coming(q, x)' <=> Coming(q, x)
            BY <1>0, <2>1, <2>3, Zenon DEF Coming, InFlight
        <3>2. Coming(q, x) => sess'[q].upd = sess[q].upd
            BY <2>1, <2>3, Zenon DEF Coming
        <3>3. /\ LastWord(dumpBuffer, q, x, Visible(q))
                    => LastWord(Append(dumpBuffer, u), q, x, Visible(q))
              /\ Silent(dumpBuffer, q, x) => Silent(Append(dumpBuffer, u), q, x)
            BY <1>0, <2>3, AppendWord, Zenon
        <3> QED
            BY <1>1, <1>2, <1>3, <3>1, <3>2, <3>3, Zenon DEF Owed
    <2> QED
        BY <2>2, <2>3
<1>4. CASE dumpBuffer' = dumpBuffer /\ sess' = [sess EXCEPT ![p].at = "send"]
    <2>1. /\ sess'[q].upd = sess[q].upd
          /\ q # p => sess'[q] = sess[q]
          /\ sess'[p].at = "send"
        BY <1>0, <1>4, Zenon DEF SessionsOK
    <2>2. Coming(q, x)' <=> Coming(q, x)
        BY <1>0, <2>1, Zenon DEF Coming, InFlight
    <2> QED
        BY <1>1, <1>2, <1>4, <2>1, <2>2, OwedSame, Zenon
<1> QED
    BY <1>3, <1>4, Zenon DEF Deliver, RequestDisconnect, Sound

\* What sending (a message of) an update does to the routes of its peer: a Peer
\* Up goes out only for a peer the collector has nothing of, and the message of
\* the update makes the collector agree with it.
LEMMA SentRoutes ==
    ASSUME TypeOK, NEW u \in Updates, Sent(u), NEW q \in Peers, NEW x \in Prefixes,
           Registered(q), q \in known <=> q \in up,
           q \notin up => view[q] = {}
    PROVE  /\ ~LastMessage(u) \/ ~Concerns(u, q, x)
                 => (x \in view'[q] <=> x \in view[q])
           /\ LastMessage(u) /\ Concerns(u, q, x)
                 => (x \in view'[q] <=> u.kind = "announce")
<1>0. /\ view \in [Peers -> SUBSET Prefixes] /\ u.kind \in Kinds
      /\ u.peer \in Peers /\ u.pfx \in SUBSET Prefixes
      /\ Wire(u.peer, Message(u), u.pfx)
    BY DEF TypeOK, CollectorOK, Updates, Kinds, Sent
<1>1. CASE q # u.peer
    <2>1. view'[q] = view[q]
        BY <1>0, <1>1, Zenon DEF Wire
    <2> QED
        BY <1>1, <2>1, Zenon DEF Concerns
<1>2. CASE q = u.peer /\ NeedsPeerUp(u)
    <2>1. Message(u) = "peerup"
        BY <1>2 DEF Message
    <2>2. view'[q] = {} /\ view[q] = {}
        BY <1>0, <1>2, <2>1, Zenon DEF Wire, NeedsPeerUp
    <2>3. LastMessage(u) => ~Concerns(u, q, x)
        BY <1>2 DEF LastMessage, Concerns
    <2> QED
        BY <2>2, <2>3, Zenon
<1>3. CASE q = u.peer /\ ~NeedsPeerUp(u)
    <2>0. LastMessage(u)
        BY <1>3 DEF LastMessage
    <2>1. CASE u.kind = "announce"
        <3>1. Message(u) = "announce"
            BY <1>3, <2>1 DEF Message
        <3>2. view'[q] = view[q] \cup u.pfx
            BY <1>0, <1>3, <3>1, Zenon DEF Wire
        <3> QED
            BY <1>3, <2>0, <2>1, <3>2, Zenon DEF Concerns
    <2>2. CASE u.kind = "withdraw"
        <3>1. Message(u) = "withdraw"
            BY <1>3, <2>2 DEF Message
        <3>2. view'[q] = view[q] \ u.pfx
            BY <1>0, <1>3, <3>1, Zenon DEF Wire
        <3> QED
            BY <1>3, <2>0, <2>2, <3>2, Zenon DEF Concerns
    <2>3. CASE u.kind = "down"
        <3>1. Message(u) = IF q \in known THEN "peerdown" ELSE "nothing"
            BY <1>3, <2>3 DEF Message
        <3>2. view'[q] = {}
            BY <1>0, <1>3, <3>1, Zenon DEF Wire
        <3> QED
            BY <1>3, <2>0, <2>3, <3>2, Zenon DEF Concerns
    <2>4. CASE u.kind \in {"stats", "reappear"}
        <3>1. Message(u) \in {"stats", "nothing"}
            BY <1>3, <2>4, Zenon DEF Message
        <3>2. view' = view
            BY <1>0, <3>1, Zenon DEF Wire
        <3> QED
            BY <2>4, <3>2, Zenon DEF Concerns
    <2> QED
        BY <1>0, <2>1, <2>2, <2>3, <2>4, ZenonT(30) DEF Kinds
<1> QED
    BY <1>1, <1>2, <1>3, ZenonT(30)

\* A sound client agrees with the collector on which registered peers are up,
\* once the dump is over.
LEMMA SoundMirror ==
    ASSUME WireInv, Sound, NEW q \in Peers, Registered(q),
           dump \notin {"walk", "eor"}
    PROVE  q \in known <=> q \in up
BY Zenon DEF WireInv, Mirrored, Lost, Closed, Stages, Sound

LEMMA OwedLiveSend ==
    ASSUME WireInv, DumpInv, Sound', Sound, NEW p \in Peers, NEW q \in Peers,
           NEW x \in Prefixes, LiveSend(p), Registered(q), Owed(q, x)
    PROVE  Owed(q, x)'
<1> DEFINE u == sess[p].upd
<1>0. /\ SessionsOK /\ TypeOK /\ sess[p].at = "send"
      /\ u \in Updates /\ u.peer = p
      /\ phase = "Live" /\ dump = "done" /\ dumpBuffer = <<>> /\ batch = <<>>
      /\ walkKeys = {} /\ fetched = {}
    BY Zenon DEF WireInv, TypeOK, SessionsOK, LiveSend, Stages, DumpInv, Walked
<1>1. /\ UNCHANGED <<dumpBuffer, batch, fetched, dump, walkKeys>>
      /\ Visible(q)' = Visible(q)
    BY Zenon DEF LiveSend, dumpVars, ribVars, Visible
<1>2. /\ Sent(u)
      /\ \/ ~LastMessage(u) /\ sess' = sess
         \/ LastMessage(u) /\ Passed(p)
    BY Zenon DEF LiveSend, Sound, RequestDisconnect, Closed, Full
<1>3. /\ q \in known <=> q \in up
      /\ q \notin up => view[q] = {}
    BY <1>0, SoundMirror, Zenon DEF DumpInv, RoutesOfUp
<1>4. /\ ~LastMessage(u) \/ ~Concerns(u, q, x) => (x \in view'[q] <=> x \in view[q])
      /\ LastMessage(u) /\ Concerns(u, q, x)
             => (x \in view'[q] <=> u.kind = "announce")
    BY <1>0, <1>2, <1>3, SentRoutes, Zenon
<1>5. CASE ~LastMessage(u) /\ sess' = sess
    <2>1. Told(q, x) => Told(q, x)'
        BY <1>1, <1>4, <1>5, ZenonT(30) DEF Told, Had, Unread
    <2>2. Coming(q, x)' <=> Coming(q, x)
        BY <1>5 DEF Coming, InFlight
    <2> QED
        BY <1>1, <1>5, <2>1, <2>2, OwedSame, Zenon
<1>6. CASE LastMessage(u) /\ Passed(p)
    <2>1. /\ sess'[p].at \in {"idle", "cleanup"}
          /\ q # p => sess'[q] = sess[q]
        BY <1>0, <1>6, PassedSession, ZenonT(30)
    <2>2. CASE Concerns(u, q, x)
        <3>1. q = p /\ Coming(q, x) /\ ~Coming(q, x)'
            BY <1>0, <2>1, <2>2, Zenon DEF Concerns, Coming, InFlight
        <3>2. Agrees(u, x, Visible(q))
            BY <3>1, Zenon DEF Owed
        <3>3. Told(q, x)'
            BY <1>0, <1>1, <1>4, <1>6, <2>2, <3>2, Zenon DEF Told, Had, Agrees
        <3>4. Silent(dumpBuffer, q, x)' /\ Silent(batch, q, x)'
            BY <1>0, <1>1, EmptyQueue, Zenon
        <3> QED
            BY <3>1, <3>3, <3>4, Zenon DEF Owed
    <2>3. CASE ~Concerns(u, q, x)
        <3>1. Coming(q, x)' <=> Coming(q, x)
            BY <1>0, <2>1, <2>3, Zenon DEF Coming, InFlight
        <3>2. Coming(q, x) => sess'[q].upd = sess[q].upd
            BY <2>1, <2>3, Zenon DEF Coming
        <3>3. Told(q, x) => Told(q, x)'
            BY <1>1, <1>4, <2>3, Zenon DEF Told, Had, Unread
        <3> QED
            BY <1>1, <3>1, <3>2, <3>3, OwedSame, Zenon
    <2> QED
        BY <2>2, <2>3, Zenon
<1> QED
    BY <1>2, <1>5, <1>6, Zenon

LEMMA OwedReplay ==
    ASSUME HasRib, WireInv, DumpInv, Sound, NEW q \in Peers, NEW x \in Prefixes,
           Replay, Registered(q), Owed(q, x)
    PROVE  Owed(q, x)'
<1> DEFINE u == Head(batch)
<1>0. /\ TypeOK /\ batch \in Seq(Updates) /\ batch # <<>> /\ u \in Updates
      /\ dump = "drain" /\ walkKeys = {} /\ fetched = {} /\ Sent(u)
    BY BatchHead, Zenon DEF WireInv, TypeOK, QueuesOK, Replay, DumpInv, Walked
<1>1. /\ UNCHANGED <<sess, dumpBuffer, fetched, dump, walkKeys>>
      /\ Visible(q)' = Visible(q)
      /\ batch' = IF LastMessage(u) THEN Tail(batch) ELSE batch
    BY Zenon DEF Replay, feedVars, Visible
<1>2. /\ q \in known <=> q \in up
      /\ q \notin up => view[q] = {}
    BY <1>0, SoundMirror, Zenon DEF DumpInv, RoutesOfUp
<1>3. /\ ~LastMessage(u) \/ ~Concerns(u, q, x) => (x \in view'[q] <=> x \in view[q])
      /\ LastMessage(u) /\ Concerns(u, q, x)
             => (x \in view'[q] <=> u.kind = "announce")
    BY <1>0, <1>2, SentRoutes, Zenon
<1>4. Coming(q, x)' <=> Coming(q, x)
    BY <1>1, Zenon DEF Coming, InFlight
<1>5. CASE ~LastMessage(u)
    <2>1. Told(q, x) => Told(q, x)'
        BY <1>1, <1>3, <1>5, Zenon DEF Told, Had, Unread
    <2> QED
        BY <1>1, <1>4, <1>5, <2>1, OwedSame, Zenon
<1>6. CASE LastMessage(u)
    <2>1. /\ Silent(batch, q, x) => ~Concerns(u, q, x) /\ Silent(Tail(batch), q, x)
          /\ LastWord(batch, q, x, Visible(q)) =>
                 \/ LastWord(Tail(batch), q, x, Visible(q))
                 \/ /\ Concerns(u, q, x) /\ Agrees(u, x, Visible(q))
                    /\ Silent(Tail(batch), q, x)
        BY <1>0, TailWord, Zenon
    <2>2. Concerns(u, q, x) /\ Agrees(u, x, Visible(q)) => Told(q, x)'
        BY <1>0, <1>1, <1>3, <1>6, Zenon DEF Told, Had, Agrees
    <2>3. ~Concerns(u, q, x) /\ Told(q, x) => Told(q, x)'
        BY <1>1, <1>3, Zenon DEF Told, Had, Unread
    <2> QED
        BY <1>1, <1>4, <1>6, <2>1, <2>2, <2>3, Zenon DEF Owed
<1> QED
    BY <1>5, <1>6

LEMMA OwedUnit ==
    ASSUME Connect \/ WriterTask \/ Terminate \/ SendTermination,
           NEW q \in Peers, NEW x \in Prefixes, Owed(q, x)
    PROVE  Owed(q, x)'
<1>1. /\ UNCHANGED <<walkKeys, fetched, view, sess, dumpBuffer, batch>>
      /\ Visible(q)' = Visible(q)
      /\ dump' = dump \/ dump' = "init"
    BY Zenon DEF Connect, WriterTask, WriterWrites, WriterBreaks, WriterCleansUp,
           Terminate, SendTermination, clientVars, dumpVars, wireVars, feedVars,
           Visible
<1>2. Told(q, x) => Told(q, x)'
    BY <1>1, Zenon DEF Told, Had, Unread
<1>3. Coming(q, x)' <=> Coming(q, x)
    BY <1>1, Zenon DEF Coming, InFlight
<1> QED
    BY <1>1, <1>2, <1>3, OwedSame, Zenon

\* The steps of the dump before the replay touch no queue.
LEMMA OwedDump ==
    ASSUME HasRib, WireInv, StoreInv, DumpInv, Sound, Sound', NEW q \in Peers,
           NEW x \in Prefixes, DumpTask, ~Replay, Registered(q), Owed(q, x)
    PROVE  Owed(q, x)'
<1>0. TypeOK /\ Stages /\ DumpedPeers /\ Walked /\ ReadFirst /\ RoutesOfUp
    BY DEF WireInv, DumpInv
<1>1. UNCHANGED <<sess, register>> /\ Visible(q)' = Visible(q)
    BY ZenonT(30) DEF DumpTask, SendInitiation, Enumerate, StartWalk, WalkCutShort,
           WalkDone, Drain, Replay, NoRibGoesLive, DumpFails, DumpPeerUp,
           DumpEndOfRib, WalkFetch, WalkDiscover, WalkEmit, feedVars, Visible
<1>2. Coming(q, x)' <=> Coming(q, x)
    BY <1>1 DEF Coming, InFlight
<1>3. ASSUME UNCHANGED <<dumpBuffer, batch>>, Told(q, x) => Told(q, x)'
      PROVE  Owed(q, x)'
    BY <1>1, <1>2, <1>3, OwedSame, Zenon
<1>4. CASE SendInitiation \/ Enumerate
    <2>1. /\ UNCHANGED <<dumpBuffer, batch>> /\ dump' \in {"enumerate", "peerup"}
        BY <1>4, Zenon DEF SendInitiation, Enumerate, clientVars
    <2> QED
        BY <1>3, <2>1, Zenon DEF Told, Unread
<1>5. CASE StartWalk
    <2>1. /\ UNCHANGED <<dumpBuffer, batch, view, fetched>> /\ dump = "peerup"
          /\ UNION {active[p] : p \in Peers} \subseteq walkKeys'
        BY <1>5, Zenon DEF StartWalk, clientVars, wireVars
    <2>2. ~Had(q, x) /\ ~Had(q, x)'
        BY <1>0, <2>1, Zenon DEF ReadFirst, Unread, Had
    <2>3. x \in Visible(q) => x \in walkKeys'
        BY <2>1 DEF Visible
    <2> QED
        BY <1>1, <1>3, <2>1, <2>2, <2>3, Zenon DEF Told, Unread
<1>6. ASSUME NEW y \in Prefixes, WalkFetch(y)
      PROVE  Owed(q, x)'
    <2>1. /\ UNCHANGED <<dumpBuffer, batch, view, dump>> /\ dump = "walk"
          /\ y \in walkKeys /\ walkKeys' = walkKeys \ {y}
          /\ fetched' = fetched \cup {r \in Peers \X {y} : y \in Visible(r[1])}
        BY <1>6, Zenon DEF WalkFetch, wireVars, clientVars
    <2>2. CASE x = y
        <3>1. ~Had(q, x)
            BY <1>0, <2>1, <2>2, Zenon DEF ReadFirst, Unread
        <3>2. Had(q, x)' <=> x \in Visible(q)
            BY <2>1, <2>2, <3>1, Zenon DEF Had
        <3> QED
            BY <1>1, <1>3, <2>1, <3>2, Zenon DEF Told
    <2>3. CASE x # y
        <3>1. Had(q, x)' <=> Had(q, x)
            BY <2>1, <2>3, Zenon DEF Had
        <3>2. Unread(x)' <=> Unread(x)
            BY <2>1, <2>3, Zenon DEF Unread
        <3> QED
            BY <1>1, <1>3, <2>1, <3>1, <3>2, Zenon DEF Told
    <2> QED
        BY <2>2, <2>3
<1>7. CASE WalkDone
    <2>1. /\ UNCHANGED <<dumpBuffer, batch, view, fetched, walkKeys>>
          /\ dump = "walk" /\ dump' = "eor"
        BY <1>7, Zenon DEF WalkDone, wireVars, clientVars
    <2> QED
        BY <1>1, <1>3, <2>1, Zenon DEF Told, Had, Unread
<1>8. ASSUME NEW p \in Peers, DumpPeerUp(p)
      PROVE  Owed(q, x)'
    <2>1. UNCHANGED <<dumpBuffer, batch, dump>> /\ dump = "peerup"
        BY <1>8, Zenon DEF DumpPeerUp
    <2> QED
        BY <1>3, <2>1, Zenon DEF Told, Unread
<1>9. ASSUME NEW p \in Peers, DumpEndOfRib(p)
      PROVE  Owed(q, x)'
    <2>1. UNCHANGED <<dumpBuffer, batch, dump, view, fetched, walkKeys>>
        BY <1>9, Zenon DEF DumpEndOfRib
    <2> QED
        BY <1>1, <1>3, <2>1, ToldSame, Zenon
<1>10. ASSUME NEW r \in Peers \X Prefixes, WalkDiscover(r)
       PROVE  Owed(q, x)'
    <2>1. UNCHANGED <<dumpBuffer, batch, dump, walkKeys>> /\ dump = "walk"
        BY <1>10, Zenon DEF WalkDiscover
    <2>2. CASE /\ Registered(r[1]) /\ Wire(r[1], "peerup", {})
               /\ fetched' = fetched /\ r[1] \notin aggPeers
        <3>1. view[r[1]] = {}
            BY <1>0, <2>1, <2>2, Zenon DEF DumpedPeers, RoutesOfUp
        <3>2. view' = [view EXCEPT ![r[1]] = {}]
            BY <2>2 DEF Wire
        <3>3. view'[q] = view[q]
            BY <1>0, <3>1, <3>2, Zenon DEF TypeOK, CollectorOK
        <3> QED
            BY <1>1, <1>3, <2>1, <2>2, <3>3, Zenon DEF Told, Had, Unread
    <2>3. CASE ~Registered(r[1]) /\ view' = view /\ fetched' = fetched \ {r}
        <3>1. <<q, x>> # r
            BY <2>3
        <3>2. Had(q, x)' <=> Had(q, x)
            BY <2>3, <3>1, Zenon DEF Had
        <3> QED
            BY <1>1, <1>3, <2>1, <3>2, Zenon DEF Told, Unread
    <2> QED
        BY <1>10, <2>2, <2>3, Zenon DEF WalkDiscover, wireVars
<1>11. ASSUME NEW p \in Peers, NEW S \in SUBSET Prefixes, WalkEmit(p, S)
       PROVE  Owed(q, x)'
    <2>1. /\ UNCHANGED <<dumpBuffer, batch, dump, walkKeys>>
          /\ {p} \X S \subseteq fetched /\ fetched' = fetched \ ({p} \X S)
          /\ view' = [view EXCEPT ![p] = @ \cup S]
        BY <1>11, Zenon DEF WalkEmit, Wire
    <2>2. view'[q] = IF q = p THEN view[q] \cup S ELSE view[q]
        BY <1>0, <2>1, Zenon DEF TypeOK, CollectorOK
    <2>3. <<q, x>> \in {p} \X S <=> q = p /\ x \in S
        BY SMT, Z3
    <2>4. Had(q, x)' <=> Had(q, x)
        BY <2>1, <2>2, <2>3 DEF Had
    <2> QED
        BY <1>1, <1>3, <2>1, <2>4, Zenon DEF Told, Unread
<1>12. CASE Drain
    <2>1. /\ UNCHANGED <<view, fetched, walkKeys>>
          /\ dump \in {"eor", "drain"} /\ dump' \in {"drain", "done"}
        BY <1>12, Zenon DEF Drain, wireVars
    <2>2. Told(q, x) => Told(q, x)'
        BY <1>1, <2>1, Zenon DEF Told, Had, Unread
    <2>3. CASE UNCHANGED <<dumpBuffer, batch>>
        BY <1>3, <2>2, <2>3, Zenon
    <2>4. CASE batch' = dumpBuffer /\ dumpBuffer' = <<>>
        <3>1. batch = <<>>
            BY <1>0, <1>12, Zenon DEF Drain, Stages
        <3>2. /\ ~LastWord(batch, q, x, Visible(q))
              /\ Silent(dumpBuffer, q, x)'
            BY <2>4, <3>1, EmptyQueue, Zenon
        <3> QED
            BY <1>1, <1>2, <2>2, <2>4, <3>2, Zenon DEF Owed
    <2> QED
        BY <1>12, <2>3, <2>4, Zenon DEF Drain
<1>13. ~(WalkCutShort \/ DumpFails \/ NoRibGoesLive)
    BY <1>0, Zenon DEF WalkCutShort, DumpFails, NoRibGoesLive, Walked, Sound,
                RequestDisconnect
<1> QED
    BY <1>4, <1>5, <1>6, <1>7, <1>8, <1>9, <1>10, <1>11, <1>12, <1>13, Zenon
    DEF DumpTask

LEMMA OwedNext ==
    ASSUME HasRib, WireInv, StoreInv, DumpInv, OwedInv, [Next]_vars
    PROVE  OwedInv'
<1> SUFFICES ASSUME Sound', NEW q \in Peers, NEW x \in Prefixes, Registered(q)'
             PROVE  Owed(q, x)'
    BY DEF OwedInv
<1>1. Sound /\ (Registered(q) => Owed(q, x))
    BY SoundBefore DEF OwedInv
<1>2. ASSUME NEW p \in Peers, PeerEvent(p) \/ SessionStepOf(p)
      PROVE  Owed(q, x)'
    <2>1. CASE Deliver(p) \/ LiveSend(p)
        <3>1. Registered(q)
            BY <2>1, Zenon DEF Deliver, LiveSend, Registered
        <3> QED
            BY <1>1, <2>1, <3>1, OwedDeliver, OwedLiveSend, Zenon
    <2>2. CASE Snapshot(p) /\ q = p
        <3>1. Registered(q)
            BY <2>2, Zenon DEF Snapshot, Registered
        <3> QED
            BY <1>1, <2>2, <3>1, OwedSnapshot, Zenon
    <2>3. CASE PeerEvent(p) /\ q = p
        BY <1>1, <2>3, OwedPeerEvent, Zenon
    <2>4. CASE RibApply(p) /\ q = p
        <3>1. Registered(p)
            <4>1. /\ sess[p].at = "rib"
                  /\ register' = register \/ sess[p].upd.kind # "down"
                BY <2>4, Zenon DEF RibApply
            <4> QED
                BY <2>4, <4>1, Zenon DEF WireInv, Feeding, Registered
        <3> QED
            BY <1>1, <2>4, <3>1, OwedRibApply, Zenon
    <2>5. CASE BgpCleanup(p) /\ q = p
        BY <2>5, Zenon DEF BgpCleanup, Registered, WireInv, TypeOK, SessionsOK
    <2>6. CASE /\ q # p
               /\ PeerEvent(p) \/ RibApply(p) \/ BgpCleanup(p) \/ Snapshot(p)
        <3>1. register'[q] = register[q]
            BY <2>6, Zenon
            DEF PeerEvent, FirstPeerUp, PeerStats, PeerDown, PeerReappears,
                RouteMonitoring, GcReclaims, RibApply, Snapshot, BgpCleanup,
                WireInv, TypeOK, SessionsOK
        <3> QED
            BY <1>1, <2>6, <3>1, OwedOthers, Zenon DEF Registered
    <2> QED
        BY <1>2, <2>1, <2>2, <2>3, <2>4, <2>5, <2>6, Zenon DEF SessionStepOf
<1>3. CASE Connect \/ WriterTask \/ Terminate \/ SendTermination
    <2>1. register' = register
        BY <1>3, Zenon
        DEF Connect, WriterTask, WriterWrites, WriterBreaks, WriterCleansUp,
            Terminate, SendTermination, feedVars
    <2> QED
        BY <1>1, <1>3, <2>1, OwedUnit, Zenon DEF Registered
<1>4. CASE DumpTask
    <2>1. register' = register
        BY <1>4, Zenon
        DEF DumpTask, SendInitiation, Enumerate, StartWalk, WalkCutShort,
            WalkDone, Drain, Replay, NoRibGoesLive, DumpFails, DumpPeerUp,
            DumpEndOfRib, WalkFetch, WalkDiscover, WalkEmit, feedVars
    <2> QED
        BY <1>1, <1>4, <2>1, OwedDump, OwedReplay, Zenon DEF Registered
<1>5. CASE UNCHANGED vars
    <2>1. /\ UNCHANGED <<register, sess, dumpBuffer, batch, view, fetched, dump,
                         walkKeys>>
          /\ Visible(q)' = Visible(q)
        BY <1>5, Zenon DEF vars, feedVars, clientVars, dumpVars, wireVars, Visible
    <2>2. Told(q, x) => Told(q, x)'
        BY <2>1, ToldSame, Zenon
    <2>3. Coming(q, x)' <=> Coming(q, x)
        BY <2>1, Zenon DEF Coming, InFlight
    <2> QED
        BY <1>1, <2>1, <2>2, <2>3, OwedSame, Zenon DEF Registered
<1> QED
    BY <1>2, <1>3, <1>4, <1>5, Zenon DEF Next

\* With a rib unit, for any number of peers and prefixes and any queue and
\* buffer size: whenever the client is Live and nothing has condemned it, the
\* collector has of every peer at rest exactly the routes the RIB shows.  The
\* dump, the buffer and the live updates lose, reorder and duplicate nothing
\* (perform_initial_dump, buffer_update_if_dumping, send_update_to_client).
THEOREM CollectorsConverge ==
    ASSUME HasRib, NoneRetained
    PROVE  Spec => []ClientConverges
<1>1. Init => ConvergeInv
    BY WireInit, StoreInit, DumpInit, OwedInit DEF ConvergeInv
<1>2. ConvergeInv /\ [Next]_vars => ConvergeInv'
    BY HasRib, NoneRetained, WireNext, StoreNext, DumpNext, OwedNext, ZenonT(30) DEF
       ConvergeInv
<1>3. ConvergeInv => ClientConverges
    <2> SUFFICES ASSUME ConvergeInv, NEW p \in Peers, Serving,
                        sess[p].at = "idle", Registered(p)
                 PROVE  view[p] = Visible(p) /\ (Visible(p) # {} => p \in up)
        BY SMT, Z3 DEF ClientConverges
    <2>0. /\ view[p] \in SUBSET Prefixes /\ Visible(p) \in SUBSET Prefixes
          /\ dump = "done" /\ dumpBuffer = <<>> /\ batch = <<>>
          /\ walkKeys = {} /\ fetched = {}
        BY Zenon DEF ConvergeInv, WireInv, TypeOK, CollectorOK, SessionsOK,
           RibTypeOK, Visible, Stages, Serving, DumpInv, Walked
    <2>1. ASSUME NEW x \in Prefixes PROVE x \in view[p] <=> x \in Visible(p)
        <3>1. Owed(p, x) /\ ~Coming(p, x)
            BY Zenon DEF ConvergeInv, OwedInv, Sound, Serving, Coming, InFlight
        <3>2. Told(p, x)
            BY <2>0, <3>1, EmptyQueue, Zenon DEF Owed
        <3> QED
            BY <2>0, <3>2, Zenon DEF Told, Unread, Had
    <2>2. view[p] = Visible(p)
        BY <2>0, <2>1, Zenon
    <2> QED
        BY <2>2, SMT, Z3 DEF ConvergeInv, DumpInv, RoutesOfUp
<1> QED
    BY <1>1, <1>2, <1>3, PTL DEF Spec
=============================================================================
