----------------------------- MODULE BmpMachine -----------------------------
(***************************************************************************)
(* The state machine of one BMP router's connections: the listener that    *)
(* accepts them, the stream its messages are read from, the four states of *)
(* RFC 7854, and the peer states with the width of AS numbers each peer's  *)
(* updates are parsed with and the End-of-RIB markers it still owes.       *)
(* BmpSessions models the ids, the register and the routes of these        *)
(* connections.                                                            *)
(*                                                                         *)
(* A header names a peer and a view of it ("pre" has all policy flags      *)
(* clear).  The other view of a peer is its sibling.                       *)
(***************************************************************************)
EXTENDS Integers, FiniteSets

CONSTANTS MonPeers,    \* BGP peers the router monitors
          Views,       \* "pre", and other settings of the policy flags
          Fams,        \* address families
          MaxConns,    \* bound: connections of the router
          MaxMsgs      \* bound: messages over all connections

Headers == [peer : MonPeers, view : Views]
NoPeer == [four |-> TRUE, eor |-> FALSE, owes |-> {}, up |-> FALSE]

VARIABLES
    lsn,     \* the listener
    fsm,     \* the state of the connection, "none" between connections
    conn,    \* the number of the connection
    ignore,  \* ignore_post_policy_routes, as configured when it was accepted
    table,   \* peer_states
    msgs,    \* messages received
    due,     \* families a header has announced and not ended (history)
    behind   \* those it has only announced behind another one (history)

history == <<due, behind>>
fsmVars == <<lsn, fsm, conn, ignore, table, msgs, due, behind>>

FsmInit ==
    /\ lsn = "binding"
    /\ fsm = "none"
    /\ conn = 0 /\ ignore = FALSE
    /\ table = [h \in Headers |-> NoPeer]
    /\ msgs = 0
    /\ due = [h \in Headers |-> {}]
    /\ behind = due

-----------------------------------------------------------------------------
(***************************************************************************)
(* The listener and the stream.                                            *)
(***************************************************************************)

\* The address is bound, after as many attempts as it takes.
Bind ==
    /\ lsn = "binding"
    /\ lsn' = "listening"
    /\ UNCHANGED <<fsm, conn, ignore, table, msgs, history>>

\* accept fails, or a new configuration has another address: bind again.
Rebind ==
    /\ lsn = "listening"
    /\ lsn' = "binding"
    /\ UNCHANGED <<fsm, conn, ignore, table, msgs, history>>

\* The unit is told to terminate.
UnitEnds ==
    /\ lsn' = "ended"
    /\ UNCHANGED <<fsm, conn, ignore, table, msgs, history>>

\* A connection gets a handler with a state machine of its own.
Connected ==
    /\ lsn = "listening"
    /\ fsm = "none"
    /\ conn < MaxConns
    /\ conn' = conn + 1
    /\ fsm' = "initiating"
    /\ ignore' \in BOOLEAN
    /\ UNCHANGED <<lsn, table, msgs, history>>

\* A fatal error of the stream, or the end of the gate: the connection is torn
\* down.
StreamEnds ==
    /\ fsm # "none"
    /\ fsm' = "none"
    /\ table' = [h \in Headers |-> NoPeer]
    /\ due' = [h \in Headers |-> {}]
    /\ behind' = due'
    /\ UNCHANGED <<lsn, conn, ignore, msgs>>

\* The next message, which the stream has read whole.
Received ==
    /\ fsm # "none"
    /\ msgs < MaxMsgs
    /\ msgs' = msgs + 1

\* A message the machine is not changed by.
Unaffected ==
    /\ Received
    /\ UNCHANGED <<lsn, fsm, conn, ignore, table, history>>

-----------------------------------------------------------------------------
(***************************************************************************)
(* Messages.                                                               *)
(***************************************************************************)

Peering == fsm \in {"dumping", "updating"}
Up == {h \in Headers : table[h].up}
Siblings(h) == {k \in Up : k.peer = h.peer}

\* The handler drops Route Monitoring of a view it is configured to ignore
\* before the script and the machine see it.
Ignored(h) ==
    /\ Unaffected
    /\ ignore /\ h.view # "pre"

\* The script rejects a message; what the script puts out is still sent on.
RejectedByScript == Unaffected

\* Any message but Initiation is invalid at first, and is survived.
NotInitiation ==
    /\ Unaffected
    /\ fsm = "initiating"

\* Nothing is expected after Termination, and the connection stays open.
AfterTermination ==
    /\ Unaffected
    /\ fsm = "terminated"

\* Another Initiation message only replaces the router's name.
InitiationAgain ==
    /\ Unaffected
    /\ Peering

\* A report of a known peer is passed on, another is dropped.
StatisticsReport ==
    /\ Unaffected
    /\ Peering

\* Peer Up for a header that is up, Peer Down or Route Monitoring for a peer
\* that is not: reported as invalid.
InvalidMessage(h) ==
    /\ Unaffected
    /\ Peering
    /\ h \in Up \/ Siblings(h) = {}

\* The first message must be Initiation.
InitiationFirst ==
    /\ Received
    /\ fsm = "initiating"
    /\ fsm' = "dumping"
    /\ UNCHANGED <<lsn, conn, ignore, table, history>>

\* A peer whose header is not up yet.
UpNotification(h, four, eor) ==
    /\ Received
    /\ Peering
    /\ h \notin Up
    /\ table' = [table EXCEPT ![h] = [four |-> four, eor |-> eor, owes |-> {},
                                      up |-> TRUE]]
    /\ UNCHANGED <<lsn, fsm, conn, ignore, history>>

\* Every view of the peer goes.
DownNotification(h) ==
    /\ Received
    /\ Peering
    /\ Siblings(h) # {}
    /\ table' = [k \in Headers |-> IF k.peer = h.peer THEN NoPeer ELSE table[k]]
    /\ due' = [k \in Headers |-> IF k.peer = h.peer THEN {} ELSE due[k]]
    /\ behind' = [k \in Headers |-> IF k.peer = h.peer THEN {} ELSE behind[k]]
    /\ UNCHANGED <<lsn, fsm, conn, ignore>>

TerminationMessage ==
    /\ Received
    /\ Peering
    /\ fsm' = "terminated"
    /\ table' = [h \in Headers |-> NoPeer]
    /\ due' = [h \in Headers |-> {}]
    /\ behind' = due'
    /\ UNCHANGED <<lsn, conn, ignore>>

-----------------------------------------------------------------------------
(***************************************************************************)
(* Route Monitoring.                                                       *)
(***************************************************************************)

\* What a BGP UPDATE is to the machine: what it carries, and the widths of AS
\* numbers it can be parsed with.  Announcements are of the family of the first
\* one and of others.
Updates ==
    {u \in [kind : {"announce"}, fam : Fams, also : SUBSET Fams,
            parses : {{TRUE}, {FALSE}}] : u.fam \notin u.also}
        \cup [kind : {"withdraw", "eor"}, fam : Fams, also : {{}}, parses : {BOOLEAN}]
        \cup [kind : {"garbled"}, fam : Fams, also : {{}}, parses : {{}, {TRUE}}]

\* The peer state of a header that is up.  Otherwise one is synthesized: from
\* the header with its policy flags clear, or else from any sibling, with the
\* End-of-RIB markers that one owes.
Source(h) ==
    LET clear == [h EXCEPT !.view = "pre"]
    IN  IF h \in Up THEN {h}
        ELSE IF clear \in Up THEN {clear} ELSE Siblings(h)

\* The configuration that parses the update: the peer's, or the one with the
\* other width, which is then kept.
ParsedAs(ps, u) ==
    {w \in u.parses : w = ps.four \/ ps.four \notin u.parses}

\* Mutant: only the peer at hand is asked.
NoneLeftOf(t, h) == t[h].owes = {}

\* remove_pending_eor is true if no peer owes a marker any more.
NoneLeft(t, h) == \A k \in Headers : t[k].owes = {}

Marker(h, u) == <<u.fam, h.view>>

\* The update's effect on the peer state.  A marker is owed for the family of
\* the first announcement, if the peer said it would send markers.
Processed(ps, h, u) ==
    CASE u.kind = "eor" -> [ps EXCEPT !.owes = @ \ {Marker(h, u)}]
      [] u.kind = "announce" /\ ps.eor ->
            [ps EXCEPT !.owes = @ \cup {Marker(h, u)}]
      [] OTHER -> ps

Due(h, u) ==
    CASE u.kind = "eor" -> due[h] \ {u.fam}
      [] u.kind = "announce" /\ table'[h].eor -> due[h] \cup {u.fam} \cup u.also
      [] OTHER -> due[h]
Behind(h, u) ==
    CASE u.kind = "announce" /\ table'[h].eor ->
            (behind[h] \cup (u.also \ due[h])) \ {u.fam}
      [] OTHER -> behind[h] \cap Due(h, u)

\* The last marker ends the dump.  Everything else that parses is passed on.
MonitoringMessage(h, u) ==
    /\ Received
    /\ Peering
    /\ ~(ignore /\ h.view # "pre")
    /\ \E k \in Source(h) :
         LET ps == table[k]
         IN  \/ /\ ParsedAs(ps, u) = {}
                /\ table' = [table EXCEPT ![h] = ps]
             \/ \E w \in ParsedAs(ps, u) :
                  table' = [table EXCEPT ![h] =
                               Processed([ps EXCEPT !.four = w], h, u)]
    /\ due' = [due EXCEPT ![h] = Due(h, u)]
    /\ behind' = [behind EXCEPT ![h] = Behind(h, u)]
    /\ IF fsm = "dumping" /\ u.kind = "eor" /\ NoneLeft(table', h)
       THEN fsm' = "updating"
       ELSE UNCHANGED fsm
    /\ UNCHANGED <<lsn, conn, ignore>>

-----------------------------------------------------------------------------

FsmNext ==
    \/ Bind \/ Rebind \/ UnitEnds \/ Connected \/ StreamEnds
    \/ RejectedByScript \/ NotInitiation \/ AfterTermination
    \/ InitiationAgain \/ StatisticsReport
    \/ InitiationFirst \/ TerminationMessage
    \/ \E h \in Headers :
         \/ Ignored(h) \/ InvalidMessage(h)
         \/ \E four, eor \in BOOLEAN : UpNotification(h, four, eor)
         \/ DownNotification(h)
         \/ \E u \in Updates : MonitoringMessage(h, u)

FsmSpec == FsmInit /\ [][FsmNext]_fsmVars

-----------------------------------------------------------------------------
(***************************************************************************)
(* Properties.                                                             *)
(***************************************************************************)

\* The machine takes the initial dump for finished (the transition in
\* Dumping::route_monitoring_preprocessing) only when every peer that sends
\* End-of-RIB has sent it, since it last announced it first in an UPDATE, for
\* every family.  machine.rs:1050 asks for the first announcement's family
\* only: of the others there is no knowing, and a peer that has announced
\* nothing or sends no End-of-RIB is not waited for, whatever the comment on
\* Dumping says (dumping.rs:39-46).
DumpFinished ==
    [][fsm = "dumping" /\ fsm' = "updating" =>
           \A h \in Headers : due'[h] \subseteq behind'[h]]_fsmVars
=============================================================================
