----------------------------- MODULE BmpSessions -----------------------------
(***************************************************************************)
(* The connections of BMP routers to bmp-tcp-in, the ingress register they *)
(* share, the RIB records kept under the ids it hands out, and the garbage *)
(* collection of ids whose session is gone.                                *)
(*                                                                         *)
(* A connection registers a provisional id when it is accepted.  Its       *)
(* Initiation message names the router; an entry of that name which is     *)
(* Disconnected is claimed and the connection re-keyed to it.  Peers claim *)
(* or register ids of their own under the router's.  When the connection   *)
(* ends its ids are marked Disconnected, first the router's and then the   *)
(* peers', and only then are the routes withdrawn: from the first mark on  *)
(* the next connection of the router may already claim them.               *)
(*                                                                         *)
(* Peers, the parameter of RibStore, is here the set of ids the register   *)
(* can hand out; the bound on them is a bound on the length of a run.  All *)
(* headers belong to one monitored peer: they differ in the policy and RIB *)
(* flags only, so that each is a sibling of every other.                   *)
(***************************************************************************)
EXTENDS RibStore, Naturals

CONSTANTS Conns,     \* TCP connections, each used once
          Headers,   \* per-peer headers
          Names,     \* sysNames
          Overlap    \* whether a router may reconnect before its previous
                     \* connection has been torn down

ASSUME SessionsAssumption ==
    /\ Peers \subseteq Nat \ {0}
    /\ Overlap \in BOOLEAN
    /\ "unset" \notin Headers \cup Names

VARIABLES
    register,   \* the register's entries
    serial,     \* the next id
    at,         \* how far each connection is
    rid,        \* the id a connection's state machine has for its router
    prov,       \* the id its handler has
    tab,        \* the ids of its peer states, 0 where there is none
    push,       \* the update it is pushing into the rib unit
    toFlip,     \* the peers its teardown has still to mark
    states,     \* router_states: the connection filed under an id
    announced,  \* the routes each connection's peers have now (history)
    gc          \* the sweep of the rib unit

connVars == <<at, rid, prov, tab, push, toFlip, announced>>
vars == <<register, serial, connVars, states, ribVars, gc>>

Ids == Peers \cup {0}

Entries ==
    [kind : {"unset", "router", "peer"},
     state : {"absent", "unset", "connected", "disconnected"},
     parent : Ids,
     key : Headers \cup Names \cup {"unset"}]

Absent == [kind |-> "unset", state |-> "absent", parent |-> 0, key |-> "unset"]

\* A router that has not yet named itself.
Nameless ==
    [kind |-> "router", state |-> "unset", parent |-> 0, key |-> "unset"]

Idle == [kind |-> "none", ids |-> {}, pfx |-> {}]
Pushing(kind, S, X) == [kind |-> kind, ids |-> S, pfx |-> X]

Steps == {"new", "init", "rekey", "up", "terminated", "closing", "unmap",
          "gone"}

Init ==
    /\ RibInit
    /\ register = [i \in Peers |-> Absent]
    /\ serial = 1
    /\ at = [c \in Conns |-> "new"]
    /\ rid = [c \in Conns |-> 0]
    /\ prov = [c \in Conns |-> 0]
    /\ tab = [c \in Conns |-> [h \in Headers |-> 0]]
    /\ push = [c \in Conns |-> Idle]
    /\ toFlip = [c \in Conns |-> {}]
    /\ states = [i \in Peers |-> "none"]
    /\ announced = [c \in Conns |-> [h \in Headers |-> {}]]
    /\ gc = [at |-> "idle", prev |-> {}, peers |-> {}, routers |-> {}]

-----------------------------------------------------------------------------
(***************************************************************************)
(* The register.                                                           *)
(***************************************************************************)

\* update_info merges the fields that are set; on an id without an entry it
\* makes one.
WithState(i, s) ==
    IF register[i].state = "absent" THEN [Absent EXCEPT !.state = s]
                                    ELSE [register[i] EXCEPT !.state = s]

Mark(S, s) ==
    [i \in Peers |-> IF i \in S THEN WithState(i, s) ELSE register[i]]

\* Mutant: an entry in use may be claimed.
ClaimableInUse(kind, parent, key) ==
    {i \in Peers :
        /\ register[i].state # "absent"
        /\ register[i].kind = kind
        /\ register[i].parent = parent
        /\ register[i].key = key}

\* Mutant: only an entry that never had a state may be claimed.
ClaimableUnused(kind, parent, key) ==
    {i \in Peers :
        /\ register[i].state = "unset"
        /\ register[i].kind = kind
        /\ register[i].parent = parent
        /\ register[i].key = key}

\* The entries find_existing_bmp_router_and_claim and
\* find_existing_peer_and_claim choose from, in the order of a hash map.
Claimable(kind, parent, key) ==
    {i \in Peers :
        /\ register[i].state \notin {"absent", "connected"}
        /\ register[i].kind = kind
        /\ register[i].parent = parent
        /\ register[i].key = key}

\* A claimed id, or one from the counter if there is none to claim.  Finding
\* and marking are one step, under the write lock.
ClaimOrRegister(i, kind, parent, key) ==
    /\ \/ i \in Claimable(kind, parent, key) /\ UNCHANGED serial
       \/ /\ Claimable(kind, parent, key) = {}
          /\ i = serial /\ i \in Peers
          /\ serial' = serial + 1
    /\ register' = [register EXCEPT ![i] =
           [kind |-> kind, state |-> "connected", parent |-> parent,
            key |-> key]]

-----------------------------------------------------------------------------
(***************************************************************************)
(* A connection.                                                           *)
(***************************************************************************)

\* The connection of the router is accepted under a provisional id.
Accept(c) ==
    /\ at[c] = "new"
    /\ Overlap \/ \A d \in Conns : at[d] \in {"new", "gone"}
    /\ serial \in Peers
    /\ serial' = serial + 1
    /\ register' = [register EXCEPT ![serial] = Nameless]
    /\ at' = [at EXCEPT ![c] = "init"]
    /\ rid' = [rid EXCEPT ![c] = serial]
    /\ prov' = [prov EXCEPT ![c] = serial]
    /\ states' = [states EXCEPT ![serial] = c]
    /\ UNCHANGED <<tab, push, toFlip, announced, ribVars, gc>>

\* The Initiation message: a router of that name is claimed, or the provisional
\* entry is given the name.
Initiate(c, n) ==
    /\ at[c] = "init"
    /\ \/ \E i \in Claimable("router", 0, n) :
            /\ register' = Mark({i}, "connected")
            /\ rid' = [rid EXCEPT ![c] = i]
            /\ at' = [at EXCEPT ![c] = "rekey"]
       \/ /\ Claimable("router", 0, n) = {}
          /\ register' = [register EXCEPT ![rid[c]].state = "connected",
                                          ![rid[c]].key = n]
          /\ at' = [at EXCEPT ![c] = "up"]
          /\ UNCHANGED rid
    /\ UNCHANGED <<serial, prov, tab, push, toFlip, states, announced, ribVars,
                   gc>>

\* Mutant: the handler keeps its provisional id.
RekeyForgetsId(c) ==
    /\ at[c] = "rekey"
    /\ at' = [at EXCEPT ![c] = "up"]
    /\ states' = [states EXCEPT ![prov[c]] = "none", ![rid[c]] = c]
    /\ register' = [register EXCEPT ![prov[c]] = Absent]
    /\ push' = [push EXCEPT ![c] = Pushing("reappear", {rid[c]}, {})]
    /\ UNCHANGED <<serial, rid, prov, tab, toFlip, announced, ribVars, gc>>

\* The handler sees that the state machine has another id than it: it files the
\* connection under that id and frees the provisional one.
Rekey(c) ==
    /\ at[c] = "rekey"
    /\ at' = [at EXCEPT ![c] = "up"]
    /\ states' = [states EXCEPT ![prov[c]] = "none", ![rid[c]] = c]
    /\ register' = [register EXCEPT ![prov[c]] = Absent]
    /\ prov' = [prov EXCEPT ![c] = rid[c]]
    /\ push' = [push EXCEPT ![c] = Pushing("reappear", {rid[c]}, {})]
    /\ UNCHANGED <<serial, rid, tab, toFlip, announced, ribVars, gc>>

\* The next message is read when the previous update has been passed on.
Reads(c) == at[c] = "up" /\ push[c] = Idle

Known(c) == {h \in Headers : tab[c][h] # 0}
IdsOf(c, H) == {tab[c][h] : h \in H}

\* A second Peer Up for a header is rejected.
PeerUp(c, h) ==
    /\ Reads(c)
    /\ h \notin Known(c)
    /\ \E i \in Peers :
         /\ ClaimOrRegister(i, "peer", rid[c], h)
         /\ tab' = [tab EXCEPT ![c][h] = i]
         /\ push' = IF register[i].state = "absent" THEN push
                    ELSE [push EXCEPT ![c] = Pushing("reappear", {i}, {})]
    /\ UNCHANGED <<at, rid, prov, toFlip, states, announced, ribVars, gc>>

\* Routes for a header that had no Peer Up, when a sibling had one: a peer
\* state is synthesized.
Synthesize(c, h) ==
    /\ Known(c) # {}
    /\ h \notin Known(c)
    /\ \E i \in Peers :
         /\ ClaimOrRegister(i, "peer", rid[c], h)
         /\ tab' = [tab EXCEPT ![c][h] = i]

RouteMonitoring(c, h, x) ==
    /\ Reads(c)
    /\ \/ h \in Known(c) /\ UNCHANGED <<register, serial, tab>>
       \/ Synthesize(c, h)
    /\ \/ /\ push' = [push EXCEPT ![c] = Pushing("announce", {tab'[c][h]}, {x})]
          /\ announced' = [announced EXCEPT ![c][h] = @ \cup {x}]
       \/ /\ push' = [push EXCEPT ![c] = Pushing("withdraw", {tab'[c][h]}, {x})]
          /\ announced' = [announced EXCEPT ![c][h] = @ \ {x}]
    /\ UNCHANGED <<at, rid, prov, toFlip, states, ribVars, gc>>

\* Peer Down and Termination: every peer state is dropped and its id marked,
\* then the routes are withdrawn.  The ids are marked one by one, which nobody
\* can tell: as long as the router's is Connected no one else may claim them.
DropPeers(c) ==
    /\ Reads(c)
    /\ register' = Mark(IdsOf(c, Known(c)), "disconnected")
    /\ push' = [push EXCEPT ![c] =
                   IF Known(c) = {} THEN Idle
                   ELSE Pushing("down", IdsOf(c, Known(c)), {})]
    /\ tab' = [tab EXCEPT ![c] = [h \in Headers |-> 0]]
    /\ announced' = [announced EXCEPT ![c] = [h \in Headers |-> {}]]
    /\ UNCHANGED <<serial, rid, prov, toFlip, states, ribVars, gc>>

PeerDown(c) ==
    /\ Known(c) # {}
    /\ DropPeers(c)
    /\ UNCHANGED at

Termination(c) ==
    /\ DropPeers(c)
    /\ at' = [at EXCEPT ![c] = "terminated"]

\* The stream ends: the router's id is marked first ...
Close(c) ==
    /\ at[c] \in {"init", "up", "terminated"}
    /\ push[c] = Idle
    /\ at' = [at EXCEPT ![c] = "closing"]
    /\ register' = Mark({prov[c]}, "disconnected")
    /\ toFlip' = [toFlip EXCEPT ![c] = Known(c)]
    /\ UNCHANGED <<serial, rid, prov, tab, push, states, announced, ribVars, gc>>

\* ... then its peers' one after the other ...
Flip(c, h) ==
    /\ at[c] = "closing"
    /\ h \in toFlip[c]
    /\ toFlip' = [toFlip EXCEPT ![c] = @ \ {h}]
    /\ register' = Mark({tab[c][h]}, "disconnected")
    /\ UNCHANGED <<serial, at, rid, prov, tab, push, states, announced, ribVars,
                   gc>>

\* ... then all routes are withdrawn ...
WithdrawAll(c) ==
    /\ at[c] = "closing"
    /\ toFlip[c] = {}
    /\ at' = [at EXCEPT ![c] = "unmap"]
    /\ push' = [push EXCEPT ![c] = Pushing("down", IdsOf(c, Known(c)), {})]
    /\ UNCHANGED <<register, serial, rid, prov, tab, toFlip, states, announced,
                   ribVars, gc>>

\* ... and the connection is taken out of router_states by its id.
Unmap(c) ==
    /\ at[c] = "unmap"
    /\ push[c] = Idle
    /\ at' = [at EXCEPT ![c] = "gone"]
    /\ states' = [states EXCEPT ![prov[c]] = "none"]
    /\ UNCHANGED <<register, serial, rid, prov, tab, push, toFlip, announced,
                   ribVars, gc>>

\* The rib unit applies an update.  What reactivates a mui marks its entry
\* Connected as well.
RibApply(c) ==
    LET u == push[c]
        revived == {i \in u.ids : \/ u.kind = "reappear"
                                  \/ u.kind = "announce" /\ i \in withdrawn}
    IN  /\ u # Idle
        /\ \/ /\ u.kind = "announce"
              /\ \E i \in u.ids : InsertActive(i, u.pfx)
           \/ /\ u.kind = "withdraw"
              /\ \E i \in u.ids : InsertWithdrawn(i, u.pfx)
           \/ /\ u.kind = "reappear"
              /\ \E i \in u.ids : MarkIngressActive(i)
           \/ u.kind = "down" /\ WithdrawForIngresses(u.ids)
        /\ register' = Mark(revived, "connected")
        /\ push' = [push EXCEPT ![c] = Idle]
        /\ UNCHANGED <<serial, at, rid, prov, tab, toFlip, states, announced, gc>>

-----------------------------------------------------------------------------
(***************************************************************************)
(* The sweep.                                                              *)
(***************************************************************************)

InState(kind, s) ==
    {i \in Peers : register[i].kind = kind /\ register[i].state = s}

\* Mutant: routers are not remembered from one sweep to the next.
GcSnapshotOfPeers ==
    LET peers == InState("peer", "disconnected")
        routers == InState("router", "disconnected")
        inUse == {register[i].parent : i \in Peers}
    IN  /\ gc.at = "idle"
        /\ gc' = [at |-> "peers",
                  prev |-> peers,
                  peers |-> peers \cap gc.prev,
                  routers |-> (routers \ inUse) \cap gc.prev]
        /\ UNCHANGED <<register, serial, connVars, states, ribVars>>

\* A copy of the register decides what may be reclaimed: what was Disconnected
\* in the previous sweep too, a router only if no entry calls it its parent.
GcSnapshot ==
    LET peers == InState("peer", "disconnected")
        routers == InState("router", "disconnected")
        inUse == {register[i].parent : i \in Peers}
    IN  /\ gc.at = "idle"
        /\ gc' = [at |-> "peers",
                  prev |-> peers \cup routers,
                  peers |-> peers \cap gc.prev,
                  routers |-> (routers \ inUse) \cap gc.prev]
        /\ UNCHANGED <<register, serial, connVars, states, ribVars>>

\* Mutant: the state is not looked at again.
StillReclaimable(i) == register[i].state # "absent"

\* remove_if_disconnected: what has been claimed meanwhile is left alone.
Reclaimable(i) == register[i].state = "disconnected"

GcPeers ==
    /\ gc.at = "peers"
    /\ LET gone == {i \in gc.peers : Reclaimable(i)}
       IN  /\ register' = [i \in Peers |-> IF i \in gone THEN Absent
                                                         ELSE register[i]]
           /\ gc' = [gc EXCEPT !.at = "store", !.peers = gone]
    /\ UNCHANGED <<serial, connVars, states, ribVars>>

\* Only then are their records removed from the store.
GcStore ==
    /\ gc.at = "store"
    /\ RemoveForIngresses(gc.peers)
    /\ gc' = [gc EXCEPT !.at = "routers", !.peers = {}]
    /\ UNCHANGED <<register, serial, connVars, states>>

GcRouters ==
    /\ gc.at = "routers"
    /\ register' = [i \in Peers |->
                       IF i \in gc.routers /\ Reclaimable(i) THEN Absent
                                                             ELSE register[i]]
    /\ gc' = [gc EXCEPT !.at = "idle", !.routers = {}]
    /\ UNCHANGED <<serial, connVars, states, ribVars>>

-----------------------------------------------------------------------------

Message(c) ==
    \/ \E n \in Names : Initiate(c, n)
    \/ \E h \in Headers : PeerUp(c, h)
    \/ \E h \in Headers, x \in Prefixes : RouteMonitoring(c, h, x)
    \/ PeerDown(c) \/ Termination(c) \/ Close(c)

Handler(c) ==
    \/ Rekey(c) \/ RibApply(c) \/ WithdrawAll(c) \/ Unmap(c)
    \/ \E h \in Headers : Flip(c, h)

Sweep == GcSnapshot \/ GcPeers \/ GcStore \/ GcRouters

Next == (\E c \in Conns : Accept(c) \/ Message(c) \/ Handler(c)) \/ Sweep

Spec == Init /\ [][Next]_vars

\* A handler task that can go on does, and the sweep runs from a timer.
Fairness == (\A c \in Conns : WF_vars(Handler(c))) /\ WF_vars(Sweep)

FairSpec == Spec /\ Fairness

-----------------------------------------------------------------------------
(***************************************************************************)
(* Properties.                                                             *)
(***************************************************************************)

RegisterOK ==
    /\ register \in [Peers -> Entries]
    /\ serial \in Nat \ {0}
    /\ \A i \in Peers : register[i].state # "absent" => i < serial

ConnectionsOK ==
    /\ at \in [Conns -> Steps]
    /\ rid \in [Conns -> Ids] /\ prov \in [Conns -> Ids]
    /\ tab \in [Conns -> [Headers -> Ids]]
    /\ push \in [Conns -> [kind : {"none", "announce", "withdraw", "reappear",
                                   "down"},
                           ids : SUBSET Peers, pfx : SUBSET Prefixes]]
    /\ toFlip \in [Conns -> SUBSET Headers]
    /\ announced \in [Conns -> [Headers -> SUBSET Prefixes]]

SharedOK ==
    /\ states \in [Peers -> Conns \cup {"none"}]
    /\ gc \in [at : {"idle", "peers", "store", "routers"},
               prev : SUBSET Peers, peers : SUBSET Peers,
               routers : SUBSET Peers]

\* Every variable has its type, and the counter is ahead of every id in the
\* register.
TypeOK == RibTypeOK /\ RegisterOK /\ ConnectionsOK /\ SharedOK

\* The ids a connection works with until its teardown marks them.
Owned(c) ==
    CASE at[c] \in {"rekey", "up", "terminated"} ->
            {rid[c]} \cup IdsOf(c, Known(c))
      [] at[c] = "closing" -> IdsOf(c, toFlip[c])
      [] OTHER -> {}

\* No two connections ever work with the same id, however their setups and
\* teardowns interleave (what find_existing_peer_and_claim and
\* find_existing_bmp_router_and_claim are for).
UniqueOwner ==
    \A c, d \in Conns : c # d => Owned(c) \cap Owned(d) = {}

\* An id a connection works with is in the register and Connected: neither the
\* sweep nor another connection's teardown takes it away.
OwnedConnected ==
    \A c \in Conns : \A i \in Owned(c) : register[i].state = "connected"

\* While a connection is up, the RIB shows for each of its peers the routes
\* that peer has announced on it, and no others.
SessionRoutes ==
    \A c \in Conns : \A h \in Known(c) :
        Reads(c) => Visible(tab[c][h]) = announced[c][h]

\* A connection that is up is filed in router_states under its id.
SessionMapped ==
    \A c \in Conns : at[c] \in {"up", "terminated"} => states[prov[c]] = c

\* A router, or a peer of one, that comes back finds its old entry: there are
\* never two entries of one identity.
IdentityUnique ==
    \A i, j \in Peers :
        /\ i # j
        /\ register[i].kind = register[j].kind
        /\ register[i].key = register[j].key
        /\ register[i].key # "unset"
        => register[i].parent # register[j].parent

\* The sweep gives every id back in the end that nobody claims again.
DisconnectedReclaimed ==
    \A i \in Peers :
        register[i].state = "disconnected" ~> register[i].state # "disconnected"
=============================================================================
