----------------------------- MODULE BgpConfig -----------------------------
(***************************************************************************)
(* The configuration of bgp-tcp-in: the listener that accepts connections  *)
(* under it, and what its reloads do to the connections there are.  The    *)
(* sessions' ids, register entries and routes are those of BgpSessions.    *)
(*                                                                         *)
(* Every connection is handled by a task with a clone of the unit's gate,  *)
(* through which it hears of reloads.  As Gate shows, a clone that is not  *)
(* attached when the gate is reconfigured never gets another command: its  *)
(* process() ends at once.                                                 *)
(***************************************************************************)
EXTENDS Naturals, Sequences, FiniteSets

CONSTANTS Addrs,      \* addresses of BGP speakers
          Remotes,    \* the keys of PeerConfigs in their order: sets of Addrs
          RemoteAsns,
          UnitConfigs, \* [listen, main, peers]: an entry or NoCfg per key
          Conns,
          CloneQueueLen,  \* COMMAND_QUEUE_LEN of comms.rs
          MaxUnitReloads  \* bound: reloads

NoCfg == [asns |-> {}, hold |-> 0, md5 |-> "absent", rest |-> 0]
Keys1 == 1 .. Len(Remotes)

VARIABLES bgp,      \* the configuration
          sock,      \* the listener: binding, listening or ended
          secrets,   \* the MD5 keys set on it, per entry of Remotes
          unitLoads, \* reloads so far
          peer       \* the connections

configVars == <<bgp, sock, secrets, unitLoads, peer>>

NoConn == [pc |-> "none", addr |-> 0, key |-> 1, asn |-> 0, own |-> bgp,
           attached |-> FALSE, mail |-> <<>>, missed |-> FALSE,
           told |-> FALSE, cut |-> FALSE]

ConfigInit ==
    /\ bgp \in UnitConfigs
    /\ sock = "binding"
    /\ secrets = [k \in Keys1 |-> ""]
    /\ unitLoads = 0
    /\ peer = [c \in Conns |-> NoConn]

-----------------------------------------------------------------------------
(* peer_config.rs *)

Configured(cfg, k) == cfg.peers[k] # NoCfg

\* PrefixOrExact::contains.
Contains(k, a) == a \in Remotes[k]

\* PeerConfigs::get: the first entry that contains the address.
Get(cfg, a) ==
    {k \in Keys1 : /\ Configured(cfg, k) /\ Contains(k, a)
                   /\ \A l \in 1 .. k - 1 :
                         ~(Configured(cfg, l) /\ Contains(l, a))}

\* accept_remote_asn: an empty list allows every AS.
AsnAllowed(p, n) == p.asns = {} \/ n \in p.asns

\* (Mutant) The AS numbers are not compared.
SamePeerOtherAsns(p, q) == p.hold = q.hold /\ p.md5 = q.md5

\* The PartialEq of PeerConfig and of BgpTcpIn.
SamePeer(p, q) == p.asns = q.asns /\ p.hold = q.hold /\ p.md5 = q.md5
SameUnit(c, d) == c.listen = d.listen /\ c.main = d.main

-----------------------------------------------------------------------------
(* The listener *)

\* The keys of the peers that have one are set on the new socket.
ConfigureListenerMd5 ==
    secrets' = [k \in Keys1 |-> IF Configured(bgp, k)
                                THEN bgp.peers[k].md5 ELSE ""]

\* The address is bound, after as many attempts as it takes.
BindListener ==
    /\ sock = "binding"
    /\ sock' = "listening"
    /\ ConfigureListenerMd5
    /\ UNCHANGED <<bgp, unitLoads, peer>>

\* The kernel's part: a speaker gets through if it uses the key that the first
\* entry for its address has.
KeyFor(a) ==
    LET with == {k \in Keys1 : Contains(k, a) /\ secrets[k] # ""}
    IN  IF with = {} THEN ""
        ELSE secrets[CHOOSE k \in with : \A l \in with : k <= l]

\* handle_connection: the session and its task, with the configuration as it
\* is.  The clone of the gate can no longer attach if the gate has been
\* reconfigured.
HandleConnection(a, k) ==
    [NoConn EXCEPT !.pc = "open", !.addr = a, !.key = k, !.own = bgp,
                   !.cut = unitLoads > 0]

\* The configuration for its address is looked up; none, and the connection is
\* dropped.  The key is set on the connection as well.
AcceptConn(c, a, secret) ==
    /\ sock = "listening"
    /\ peer[c].pc = "none"
    /\ secret = KeyFor(a)
    /\ \E k \in Get(bgp, a) :
         peer' = [peer EXCEPT ![c] = HandleConnection(a, k)]
    /\ UNCHANGED <<bgp, sock, secrets, unitLoads>>

\* accept fails: the address is bound anew.
AcceptFails ==
    /\ sock = "listening"
    /\ sock' = "binding"
    /\ UNCHANGED <<bgp, secrets, unitLoads, peer>>

\* The root gate has handled the clone's AttachClone.
AttachConn(c) ==
    /\ peer[c].pc \in {"open", "up"}
    /\ ~peer[c].attached /\ ~peer[c].cut
    /\ sock # "ended"
    /\ peer' = [peer EXCEPT ![c].attached = TRUE]
    /\ UNCHANGED <<bgp, sock, secrets, unitLoads>>

\* notify_clones: a clone whose queue is full does not get the command.  That
\* the latest one was dropped is remembered.
Notified(me, new) ==
    IF Len(me.mail) < CloneQueueLen
    THEN [me EXCEPT !.mail = Append(@, new), !.missed = FALSE]
    ELSE [me EXCEPT !.missed = TRUE]

\* The gate passes the configuration on to its clones, and then the unit stores
\* it.  Another address to listen on ends the wait for connections.
ReloadUnit(new) ==
    /\ sock # "ended"
    /\ unitLoads < MaxUnitReloads /\ unitLoads' = unitLoads + 1
    /\ bgp' = new
    /\ sock' = IF bgp.listen # new.listen THEN "binding" ELSE sock
    /\ peer' = [c \in Conns |->
                  IF peer[c].attached
                  THEN Notified(peer[c], new)
                  ELSE [peer[c] EXCEPT !.cut = peer[c].pc \in {"open", "up"}]]
    /\ UNCHANGED secrets

\* Terminate goes to the clones too, and the others lose the root.
TerminateUnit ==
    /\ sock # "ended"
    /\ sock' = "ended"
    /\ peer' = [c \in Conns |->
                  [peer[c] EXCEPT !.cut = peer[c].pc \in {"open", "up"}]]
    /\ UNCHANGED <<bgp, secrets, unitLoads>>

-----------------------------------------------------------------------------
(* The task of a connection *)

Handled(c) == peer[c].pc \in {"open", "up"}

\* The session's OPEN: an AS that is not allowed ends it.
OpenMessage(c, n) ==
    /\ peer[c].pc = "open"
    /\ peer' = [peer EXCEPT
           ![c].pc = IF AsnAllowed(peer[c].own.peers[peer[c].key], n)
                     THEN "up" ELSE "gone",
           ![c].asn = n]
    /\ UNCHANGED <<bgp, sock, secrets, unitLoads>>

\* An error of the session, the connection lost, a NOTIFICATION after which it
\* is closed, or the session has carried out a Disconnect.
SessionEnds(c) ==
    /\ Handled(c)
    /\ peer' = [peer EXCEPT ![c].pc = "gone"]
    /\ UNCHANGED <<bgp, sock, secrets, unitLoads>>

\* (Mutant) A peer that has been taken out of the configuration is only told.
HeardStays(c) ==
    LET me == peer[c]
        new == Head(me.mail)
        over == ~SameUnit(new, me.own)
        changed == /\ Configured(new, me.key)
                   /\ ~SamePeer(new.peers[me.key], me.own.peers[me.key])
    IN  /\ Handled(c)
        /\ me.mail # <<>>
        /\ peer' = [peer EXCEPT ![c].mail = Tail(@),
                                ![c].pc = IF over THEN "gone" ELSE @,
                                ![c].told = @ \/ over \/ changed
                                                \/ ~Configured(new, me.key)]
        /\ UNCHANGED <<bgp, sock, secrets, unitLoads>>

\* A new configuration.  If the unit's part differs or the peer has been taken
\* out the task ends; if the peer's part differs the session is told to
\* disconnect.  It is compared with the one of the connection, always.
Heard(c) ==
    LET me == peer[c]
        new == Head(me.mail)
        over == ~SameUnit(new, me.own) \/ ~Configured(new, me.key)
        changed == /\ Configured(new, me.key)
                   /\ ~SamePeer(new.peers[me.key], me.own.peers[me.key])
    IN  /\ Handled(c)
        /\ me.mail # <<>>
        /\ peer' = [peer EXCEPT ![c].mail = Tail(@),
                                ![c].pc = IF over THEN "gone" ELSE @,
                                ![c].told = @ \/ over \/ changed]
        /\ UNCHANGED <<bgp, sock, secrets, unitLoads>>

\* process() returns Terminated, after what was queued.
HeardEnd(c) ==
    /\ Handled(c)
    /\ peer[c].cut /\ peer[c].mail = <<>>
    /\ peer' = [peer EXCEPT ![c].pc = "gone", ![c].told = TRUE]
    /\ UNCHANGED <<bgp, sock, secrets, unitLoads>>

Listens(c) == Heard(c) \/ HeardEnd(c)

ConfigNext ==
    \/ BindListener \/ AcceptFails \/ TerminateUnit
    \/ \E new \in UnitConfigs : ReloadUnit(new)
    \/ \E c \in Conns :
         \/ \E a \in Addrs, s \in {"", "secret"} : AcceptConn(c, a, s)
         \/ AttachConn(c) \/ SessionEnds(c) \/ Listens(c)
         \/ \E n \in RemoteAsns : OpenMessage(c, n)

ConfigProgress == \E c \in Conns : Listens(c)

ConfigSpec == ConfigInit /\ [][ConfigNext]_configVars

-----------------------------------------------------------------------------
(* Properties *)

\* router_handler.rs:237-300: a session that has handled the reloads it was
\* told of and goes on is one that the present configuration has an entry for,
\* with its AS allowed and the timers and key it was set up with, unless the
\* last of them was dropped at its full queue (comms.rs:598).
SessionsConfigured ==
    \A c \in Conns :
        LET me == peer[c]
            now == bgp.peers[me.key]
        IN  me.pc = "up" /\ me.mail = <<>> /\ ~me.missed /\ ~me.told /\ ~me.cut =>
               /\ Contains(me.key, me.addr)
               /\ Configured(bgp, me.key)
               /\ AsnAllowed(now, me.asn)
               /\ now.hold = me.own.peers[me.key].hold
               /\ now.md5 = me.own.peers[me.key].md5
               /\ SameUnit(bgp, me.own)

\* The task of a connection whose peer is taken out of the configuration, or
\* whose unit gets another address, AS or id, ends, whatever is configured
\* later, if it has been told of that change.
DroppedPeersLeave ==
    \A c \in Conns :
        (Handled(c) /\ ~peer[c].missed /\ (~Configured(bgp, peer[c].key)
                                               \/ ~SameUnit(bgp, peer[c].own)))
            ~> ~Handled(c)
=============================================================================
