-------------------------- MODULE BmpRoutesProofs ---------------------------
(***************************************************************************)
(* Proofs about BmpSessions where a router reconnects only after its       *)
(* previous connection has been torn down: every connection is filed under *)
(* its id, and no two entries of the register have one identity.           *)
(*                                                                         *)
(* Besides the ownership of ids this needs that nothing is Connected but   *)
(* what the one connection works with.  A name, or a header, that finds no *)
(* entry to claim then has no entry at all.                                *)
(***************************************************************************)
EXTENDS BmpSessionsProofs

\* A connection from its accept to the end of its teardown.
Busy(c) == at[c] \notin {"new", "gone"}

\* There is one of them at a time.
Alone == \A c, d \in Conns : Busy(c) /\ Busy(d) => c = d

\* It is filed under the id its handler has.
Filed == \A c \in Conns : Busy(c) => prov[c] \in Peers /\ states[prov[c]] = c

\* Only what a connection works with is Connected.
InUse(c, i) ==
    \/ Named(c) /\ i = rid[c]
    \/ \E h \in Held(c) : i = tab[c][h]

OnlyUsedConnected ==
    \A i \in Peers :
        register[i].state = "connected" => \E c \in Conns : InUse(c, i)

\* What entries have in common.
EntriesOK ==
    \A i \in Peers : /\ register[i].state = "absent" => register[i].key = "unset"
                     /\ register[i].kind = "router" => register[i].parent = 0

\* Updates under way belong to a connection in the right step.
PushShape(c) ==
    /\ push[c].kind \in {"announce", "withdraw"} =>
          at[c] = "up" /\ \E h \in Known(c) : push[c].ids = {tab[c][h]}
    /\ push[c].kind = "reappear" => at[c] = "up"
    /\ push[c].kind = "down" =>
          \/ at[c] \in {"up", "terminated"} /\ Known(c) = {}
          \/ at[c] = "unmap"

IdInv ==
    /\ Alone /\ Filed /\ OnlyUsedConnected /\ EntriesOK /\ IdentityUnique
    /\ \A c \in Conns : PushShape(c)

-----------------------------------------------------------------------------
(***************************************************************************)
(* Connections that follow each other.                                     *)
(***************************************************************************)

\* Nobody but a busy connection works with an id.
LEMMA OthersIdle ==
    ASSUME Alone, NEW c \in Conns, Busy(c)
    PROVE  \A d \in Conns \ {c} :
              ~Busy(d) /\ ~Named(d) /\ ~Unnamed(d) /\ Held(d) = {}
  <1>1. \A d \in Conns \ {c} : ~Busy(d)
    BY DEF Alone
  <1> QED
    BY <1>1 DEF Busy, Named, Unnamed, Held

LEMMA UsedByMe ==
    ASSUME Alone, OnlyUsedConnected, NEW c \in Conns, Busy(c),
           NEW i \in Peers, register[i].state = "connected"
    PROVE  InUse(c, i)
  <1>1. PICK d \in Conns : InUse(d, i)
    BY DEF OnlyUsedConnected
  <1>2. Named(d) \/ Held(d) # {}
    BY <1>1 DEF InUse
  <1> QED
    BY <1>1, <1>2, OthersIdle

\* A step of c, one by one: what it leaves alone, and where it gets c.
LEMMA StepOthers ==
    ASSUME ConnectionsOK, NEW c \in Conns, PushShape(c),
           Accept(c) \/ Message(c) \/ Handler(c)
    PROVE  /\ Others(c)
           /\ \A d \in Conns \ {c} : announced'[d] = announced[d]
           /\ Busy(c) \/ Accept(c)
  <1> DEFINE Frame == /\ Others(c)
                      /\ \A d \in Conns \ {c} : announced'[d] = announced[d]
                      /\ Busy(c) \/ Accept(c)
  <1>1. CASE Accept(c)
    BY <1>1, Zenon DEF Accept, Others, ConnectionsOK
  <1>2. ASSUME NEW n \in Names, Initiate(c, n) PROVE Frame
    BY <1>2, Zenon DEF Initiate, Others, ConnectionsOK, Busy
  <1>3. ASSUME NEW h \in Headers, PeerUp(c, h) PROVE Frame
    <2>1. at[c] = "up"
      BY <1>3 DEF PeerUp, Reads
    <2>2. PICK i \in Peers :
             /\ tab' = [tab EXCEPT ![c][h] = i]
             /\ push' = IF register[i].state = "absent" THEN push
                        ELSE [push EXCEPT ![c] = Pushing("reappear", {i}, {})]
      BY <1>3, Zenon DEF PeerUp
    <2>3. \A d \in Conns \ {c} : push'[d] = push[d]
      BY <2>2, Zenon DEF ConnectionsOK
    <2>4. \A d \in Conns \ {c} : tab'[d] = tab[d]
      BY <2>2 DEF ConnectionsOK
    <2> QED
      BY <1>3, <2>1, <2>3, <2>4, Zenon DEF PeerUp, Others, Busy
  <1>4. ASSUME NEW h \in Headers, NEW x \in Prefixes, RouteMonitoring(c, h, x)
        PROVE  Frame
    <2>1. at[c] = "up"
      BY <1>4 DEF RouteMonitoring, Reads
    <2>2. \A d \in Conns \ {c} : tab'[d] = tab[d]
      BY <1>4, Zenon DEF RouteMonitoring, Synthesize, ConnectionsOK
    <2>3. \A d \in Conns \ {c} : push'[d] = push[d]
      BY <1>4, Zenon DEF RouteMonitoring, ConnectionsOK
    <2>4. \A d \in Conns \ {c} : announced'[d] = announced[d]
      BY <1>4, Zenon DEF RouteMonitoring, ConnectionsOK
    <2> QED
      BY <1>4, <2>1, <2>2, <2>3, <2>4, Zenon DEF RouteMonitoring, Others, Busy
  <1>5. CASE PeerDown(c) \/ Termination(c)
    <2>1. at[c] = "up" /\ DropPeers(c)
      BY <1>5, Zenon DEF PeerDown, Termination, DropPeers, Reads
    <2>2. \A d \in Conns \ {c} : /\ push'[d] = push[d] /\ tab'[d] = tab[d]
                                 /\ announced'[d] = announced[d]
      BY <2>1 DEF DropPeers, ConnectionsOK
    <2>3. \A d \in Conns \ {c} : at'[d] = at[d]
      BY <1>5 DEF PeerDown, Termination, ConnectionsOK
    <2> QED
      BY <2>1, <2>2, <2>3, Zenon DEF DropPeers, Others, Busy
  <1>6. CASE Close(c)
    BY <1>6 DEF Close, Others, ConnectionsOK, Busy
  <1>7. CASE Rekey(c)
    BY <1>7, Zenon DEF Rekey, Others, ConnectionsOK, Busy
  <1>8. CASE WithdrawAll(c)
    BY <1>8 DEF WithdrawAll, Others, ConnectionsOK, Busy
  <1>9. CASE Unmap(c)
    BY <1>9 DEF Unmap, Others, ConnectionsOK, Busy
  <1>10. ASSUME NEW h \in Headers, Flip(c, h) PROVE Frame
    BY <1>10 DEF Flip, Others, ConnectionsOK, Busy
  <1>11. CASE RibApply(c)
    <2>1. push[c].kind \in {"announce", "withdraw", "reappear", "down"}
      BY <1>11, Zenon DEF RibApply
    <2>2. Busy(c)
      BY <2>1 DEF PushShape, Busy
    <2> QED
      BY <1>11, <2>2, Zenon DEF RibApply, Others, ConnectionsOK
  <1> QED
    BY <1>1, <1>2, <1>3, <1>4, <1>5, <1>6, <1>7, <1>8, <1>9, <1>10, <1>11, Zenon
    DEF Message, Handler

\* Marking entries that exist changes nothing but their state.
LEMMA MarkFields ==
    ASSUME RegisterOK, NEW S \in SUBSET Peers, NEW s \in States,
           \A i \in S : register[i].state # "absent",
           register' = Mark(S, s)
    PROVE  \A i \in Peers :
              /\ register'[i].kind = register[i].kind
              /\ register'[i].key = register[i].key
              /\ register'[i].parent = register[i].parent
              /\ register'[i].state = IF i \in S THEN s ELSE register[i].state
  <1>1. \A i \in Peers : register'[i] =
           IF i \in S THEN [register[i] EXCEPT !.state = s] ELSE register[i]
    BY DEF Mark, WithState
  <1> QED
    BY <1>1, ZenonT(30) DEF RegisterOK, Entries

\* An entry keeps its identity or loses it.
Keeps(i) ==
    \/ register'[i].key = "unset"
    \/ /\ register'[i].kind = register[i].kind
       /\ register'[i].key = register[i].key
       /\ register'[i].parent = register[i].parent

LEMMA KeepIdentity ==
    ASSUME IdentityUnique, \A i \in Peers : Keeps(i)
    PROVE  IdentityUnique'
  BY DEF IdentityUnique, Keeps

\* One entry gets an identity that no other has.
LEMMA NewIdentity ==
    ASSUME IdentityUnique, NEW i \in Peers,
           \A j \in Peers \ {i} : register'[j] = register[j],
           \A j \in Peers \ {i} :
              ~ /\ register[j].kind = register'[i].kind
                /\ register[j].key = register'[i].key
                /\ register[j].parent = register'[i].parent
    PROVE  IdentityUnique'
  BY DEF IdentityUnique

\* What a step of c has to establish.
StepOK(c) ==
    /\ \A i \in Peers : register'[i].state = "connected" => InUse(c, i)'
    /\ EntriesOK' /\ IdentityUnique' /\ PushShape(c)'
    /\ Busy(c)' => prov'[c] \in Peers /\ states'[prov'[c]] = c

LEMMA StepId ==
    ASSUME OwnInv, IdInv, ~Overlap, NEW c \in Conns,
           Accept(c) \/ Message(c) \/ Handler(c), StepOK(c)
    PROVE  IdInv'
  <1>1. Others(c) /\ (Busy(c) \/ Accept(c))
    BY StepOthers DEF OwnInv, TypeOK, IdInv
  <1>2. \A d \in Conns \ {c} : ~Busy(d)
    <2>1. CASE Busy(c)
      BY <2>1, OthersIdle DEF IdInv
    <2>2. CASE Accept(c)
      BY <2>2 DEF Accept, Busy
    <2> QED
      BY <1>1, <2>1, <2>2
  <1>3. \A d \in Conns \ {c} : ~Busy(d)'
    BY <1>1, <1>2 DEF Others, Busy
  <1>4. Alone' /\ Filed'
    BY <1>3 DEF Alone, Filed, StepOK
  <1>5. OnlyUsedConnected'
    BY DEF OnlyUsedConnected, StepOK
  <1>6. ASSUME NEW d \in Conns
        PROVE  PushShape(d)'
    <2>1. CASE d = c
      BY <2>1 DEF StepOK
    <2>2. CASE d # c
      BY <1>1, <2>2 DEF Others, PushShape, IdInv, Known
    <2> QED
      BY <2>1, <2>2
  <1> QED
    BY <1>4, <1>5, <1>6 DEF IdInv, StepOK

LEMMA NoPush ==
    ASSUME ConnectionsOK, NEW c \in Conns, PushShape(c),
           at[c] \in {"new", "init", "rekey", "closing", "gone"}
    PROVE  push[c].kind = "none"
  BY DEF ConnectionsOK, PushShape

LEMMA AcceptId ==
    ASSUME OwnInv, IdInv, ~Overlap, NEW c \in Conns, Accept(c)
    PROVE  StepOK(c)
  <1>1. TypeOK /\ PushShape(c)
    BY DEF OwnInv, IdInv
  <1>2. /\ serial \in Peers /\ register'[serial] = Nameless
        /\ \A i \in Peers \ {serial} : register'[i] = register[i]
    BY <1>1 DEF Accept, TypeOK, RegisterOK
  <1>3. /\ at[c] = "new" /\ prov'[c] = serial /\ states'[serial] = c
        /\ push' = push
    BY <1>1, <1>2, Zenon DEF Accept, TypeOK, ConnectionsOK, SharedOK
  <1>4. \A i \in Peers : register[i].state # "connected"
    <2>1. \A d \in Conns : ~Named(d) /\ Held(d) = {}
      BY DEF Accept, Named, Held
    <2> QED
      BY <2>1, Zenon DEF IdInv, OnlyUsedConnected, InUse
  <1>5. \A i \in Peers : register'[i].state # "connected"
    BY <1>2, <1>4 DEF Nameless
  <1>6. EntriesOK'
    BY <1>2 DEF EntriesOK, IdInv, Nameless
  <1>7. IdentityUnique'
    BY <1>2, KeepIdentity DEF IdInv, Keeps, Nameless
  <1>8. push'[c].kind = "none"
    BY <1>1, <1>3, NoPush DEF TypeOK
  <1>9. PushShape(c)'
    BY <1>8 DEF PushShape
  <1> QED
    BY <1>2, <1>3, <1>5, <1>6, <1>7, <1>9, Zenon DEF StepOK

LEMMA InitiateId ==
    ASSUME OwnInv, IdInv, NEW c \in Conns, NEW n \in Names, Initiate(c, n)
    PROVE  StepOK(c)
  <1>1. TypeOK /\ PushShape(c) /\ at[c] = "init" /\ Busy(c) /\ ProvisionalOK(c)
    BY Zenon DEF OwnInv, IdInv, Initiate, Busy, ConnOK
  <1>2. /\ prov[c] \in Peers /\ rid[c] = prov[c]
        /\ register[prov[c]].kind = "router"
        /\ register[prov[c]].state = "unset"
    BY <1>1 DEF ProvisionalOK, Unnamed
  <1>3. \A i \in Peers : register[i].state # "connected"
    <2>1. ~Named(c) /\ Held(c) = {}
      BY <1>1 DEF Named, Held
    <2> QED
      BY <1>1, <2>1, UsedByMe DEF IdInv, InUse
  <1>4. prov' = prov /\ states' = states /\ push' = push /\ tab' = tab
    BY DEF Initiate
  <1>5. states'[prov'[c]] = c
    BY <1>1, <1>4 DEF IdInv, Filed
  <1>6. PushShape(c)'
    <2>1. push'[c].kind = "none"
      BY <1>1, <1>4, NoPush DEF TypeOK
    <2> QED
      BY <2>1 DEF PushShape
  <1>7. CASE Claimable("router", 0, n) = {}
    <2> DEFINE p == rid[c]
    <2>1. /\ register' = [register EXCEPT ![p].state = "connected",
                                          ![p].key = n]
          /\ at' = [at EXCEPT ![c] = "up"] /\ rid' = rid
      BY <1>7, Zenon DEF Initiate
    <2>2. p \in Peers /\ register[p] \in Entries
      BY <1>1, <1>2 DEF TypeOK, RegisterOK
    <2> HIDE DEF p
    <2>3. /\ register'[p].state = "connected" /\ register'[p].key = n
          /\ register'[p].kind = register[p].kind
          /\ register'[p].parent = register[p].parent
      BY <1>1, <2>1, <2>2, Zenon DEF TypeOK, RegisterOK, Entries
    <2>4. \A j \in Peers \ {p} : register'[j] = register[j]
      BY <1>1, <2>1 DEF TypeOK, RegisterOK
    <2>5. register[p].kind = "router" /\ register[p].parent = 0
      BY <1>2, <2>2, Zenon DEF IdInv, EntriesOK, p
    <2>6. \A j \in Peers \ {p} : ~ /\ register[j].kind = "router"
                                   /\ register[j].key = n
                                   /\ register[j].parent = 0
      <3>1. n # "unset"
        BY SessionsAssumption
      <3> QED
        BY <1>3, <1>7, <3>1, Zenon DEF Claimable, IdInv, EntriesOK
    <2>7. IdentityUnique'
      BY <2>2, <2>3, <2>4, <2>5, <2>6, NewIdentity DEF IdInv
    <2>8. EntriesOK'
      BY <2>2, <2>3, <2>4, <2>5, Zenon DEF EntriesOK, IdInv
    <2>9. \A i \in Peers : register'[i].state = "connected" => i = p
      BY <1>3, <2>4
    <2>10. Named(c)' /\ rid'[c] = p
      BY <1>1, <2>1, Zenon DEF Named, TypeOK, ConnectionsOK, p
    <2>11. \A i \in Peers : register'[i].state = "connected" => InUse(c, i)'
      BY <2>9, <2>10 DEF InUse
    <2> QED
      BY <1>2, <1>4, <1>5, <1>6, <2>7, <2>8, <2>11, Zenon DEF StepOK
  <1>8. CASE Claimable("router", 0, n) # {}
    <2>1. PICK i \in Claimable("router", 0, n) :
             /\ register' = Mark({i}, "connected")
             /\ rid' = [rid EXCEPT ![c] = i]
             /\ at' = [at EXCEPT ![c] = "rekey"]
      BY <1>8, Zenon DEF Initiate
    <2>2. i \in Peers /\ register[i].state # "absent"
      BY DEF Claimable
    <2>3. \A j \in Peers :
              /\ register'[j].kind = register[j].kind
              /\ register'[j].key = register[j].key
              /\ register'[j].parent = register[j].parent
              /\ register'[j].state =
                    IF j \in {i} THEN "connected" ELSE register[j].state
      <3> DEFINE S == {i}
      <3>1. /\ RegisterOK /\ S \in SUBSET Peers /\ "connected" \in States
            /\ \A j \in S : register[j].state # "absent"
            /\ register' = Mark(S, "connected")
        BY <1>1, <2>1, <2>2 DEF TypeOK, States
      <3> HIDE DEF S
      <3>2. \A j \in Peers :
              /\ register'[j].kind = register[j].kind
              /\ register'[j].key = register[j].key
              /\ register'[j].parent = register[j].parent
              /\ register'[j].state =
                    IF j \in S THEN "connected" ELSE register[j].state
        BY <3>1, MarkFields
      <3> QED
        BY <3>2 DEF S
    <2>4. IdentityUnique'
      BY <2>3, KeepIdentity, Zenon DEF IdInv, Keeps
    <2>5. EntriesOK'
      BY <2>2, <2>3, Zenon DEF IdInv, EntriesOK
    <2>6. Named(c)' /\ rid'[c] = i
      BY <1>1, <2>1 DEF Named, TypeOK, ConnectionsOK
    <2>7. \A j \in Peers : register'[j].state = "connected" => InUse(c, j)'
      BY <1>3, <2>3, <2>6 DEF InUse
    <2> QED
      BY <1>2, <1>4, <1>5, <1>6, <2>4, <2>5, <2>7, Zenon DEF StepOK
  <1> QED
    BY <1>7, <1>8

\* Connected entries are the connection's own.
LEMMA MyConnected ==
    ASSUME OwnInv, IdInv, NEW c \in Conns, Busy(c), NEW i \in Peers,
           register[i].state = "connected"
    PROVE  \/ Named(c) /\ i = rid[c] /\ register[i].kind = "router"
           \/ \E h \in Held(c) : /\ i = tab[c][h] /\ register[i].key = h
                                 /\ register[i].kind = "peer"
  <1>1. InUse(c, i)
    BY UsedByMe DEF IdInv
  <1>2. RouterOK(c) /\ PeersOK(c)
    BY DEF OwnInv, ConnOK
  <1> QED
    BY <1>1, <1>2 DEF InUse, RouterOK, PeersOK

\* A new peer state, with an id claimed or registered.
LEMMA NewPeerId ==
    ASSUME OwnInv, IdInv, NEW c \in Conns, NEW h \in Headers, NEW i \in Peers,
           at[c] = "up", h \notin Known(c),
           ClaimOrRegister(i, "peer", rid[c], h),
           tab' = [tab EXCEPT ![c][h] = i],
           at' = at, rid' = rid, prov' = prov, states' = states, PushShape(c)'
    PROVE  StepOK(c)
  <1>1. TypeOK /\ RegisterOK /\ ConnectionsOK /\ Busy(c) /\ Held(c) = Known(c)
    BY DEF OwnInv, TypeOK, Busy, Held
  <1>2. /\ \A j \in Peers \ {i} : register'[j] = register[j]
        /\ register'[i].kind = "peer" /\ register'[i].state = "connected"
        /\ register'[i].key = h /\ register'[i].parent = rid[c]
    BY <1>1, Zenon DEF ClaimOrRegister, RegisterOK
  <1>3. IdentityUnique'
    <2>1. CASE i \in Claimable("peer", rid[c], h)
      <3>1. /\ register[i].kind = "peer" /\ register[i].key = h
            /\ register[i].parent = rid[c]
        BY <2>1 DEF Claimable
      <3> QED
        BY <1>2, <3>1, KeepIdentity, Zenon DEF Keeps, IdInv
    <2>2. CASE Claimable("peer", rid[c], h) = {}
      <3>1. ASSUME NEW j \in Peers \ {i},
                   register[j].kind = "peer", register[j].key = h,
                   register[j].parent = rid[c]
            PROVE  FALSE
        <4>1. register[j].state = "absent" \/ register[j].state = "connected"
          BY <2>2, <3>1, Zenon DEF Claimable
        <4>2. CASE register[j].state = "absent"
          BY <3>1, <4>2, SessionsAssumption, Zenon DEF IdInv, EntriesOK
        <4>3. CASE register[j].state = "connected"
          <5>1. \E g \in Held(c) : register[j].key = g
            BY <1>1, <3>1, <4>3, MyConnected, Zenon
          <5> QED
            BY <1>1, <3>1, <5>1, Zenon
        <4> QED
          BY <4>1, <4>2, <4>3
      <3> QED
        BY <1>2, <3>1, NewIdentity DEF IdInv
    <2> QED
      BY <2>1, <2>2, Zenon DEF ClaimOrRegister
  <1>4. EntriesOK'
    BY <1>2 DEF EntriesOK, IdInv
  <1>5. /\ tab'[c][h] = i
        /\ \A g \in Known(c) : tab'[c][g] = tab[c][g]
    BY <1>1, Zenon DEF ConnectionsOK, Known
  <1>6. Held(c)' = Known(c)' /\ h \in Known(c)' /\ Known(c) \subseteq Known(c)'
    BY <1>5, SessionsAssumption, Zenon DEF Held, Known
  <1>7. ASSUME NEW j \in Peers, register'[j].state = "connected"
        PROVE  InUse(c, j)'
    <2>1. CASE j = i
      BY <1>5, <1>6, <2>1, Zenon DEF InUse
    <2>2. CASE j # i
      <3>1. register[j].state = "connected"
        BY <1>2, <1>7, <2>2, Zenon
      <3>2. \/ Named(c) /\ j = rid[c]
            \/ \E g \in Held(c) : j = tab[c][g]
        BY <1>1, <3>1, MyConnected, Zenon
      <3>3. CASE Named(c) /\ j = rid[c]
        BY <3>3 DEF InUse, Named
      <3>4. CASE \E g \in Held(c) : j = tab[c][g]
        BY <1>1, <1>5, <1>6, <3>4, Zenon DEF InUse
      <3> QED
        BY <3>2, <3>3, <3>4, Zenon
    <2> QED
      BY <2>1, <2>2
  <1>8. prov'[c] \in Peers /\ states'[prov'[c]] = c
    BY <1>1 DEF IdInv, Filed
  <1> QED
    BY <1>3, <1>4, <1>7, <1>8, Zenon DEF StepOK

LEMMA PeerUpId ==
    ASSUME OwnInv, IdInv, NEW c \in Conns, NEW h \in Headers, PeerUp(c, h)
    PROVE  StepOK(c)
  <1>1. PICK i \in Peers :
           /\ ClaimOrRegister(i, "peer", rid[c], h)
           /\ tab' = [tab EXCEPT ![c][h] = i]
           /\ push' = IF register[i].state = "absent" THEN push
                      ELSE [push EXCEPT ![c] = Pushing("reappear", {i}, {})]
    BY Zenon DEF PeerUp
  <1>2. /\ at[c] = "up" /\ push[c] = Idle /\ h \notin Known(c)
        /\ at' = at /\ rid' = rid /\ prov' = prov /\ states' = states
    BY DEF PeerUp, Reads
  <1>3. ConnectionsOK
    BY DEF OwnInv, TypeOK
  <1>4. push'[c].kind \in {"none", "reappear"}
    <2>1. CASE register[i].state = "absent"
      BY <1>1, <1>2, <2>1 DEF Idle
    <2>2. CASE register[i].state # "absent"
      BY <1>1, <1>3, <2>2, Zenon DEF Pushing, ConnectionsOK
    <2> QED
      BY <2>1, <2>2
  <1>5. PushShape(c)'
    BY <1>2, <1>4 DEF PushShape
  <1> QED
    BY <1>1, <1>2, <1>5, NewPeerId, Zenon

LEMMA RouteMonitoringId ==
    ASSUME OwnInv, IdInv, NEW c \in Conns, NEW h \in Headers, NEW x \in Prefixes,
           RouteMonitoring(c, h, x)
    PROVE  StepOK(c)
  <1>1. TypeOK /\ ConnectionsOK
    BY DEF OwnInv, TypeOK
  <1>2. /\ at[c] = "up"
        /\ at' = at /\ rid' = rid /\ prov' = prov /\ states' = states
    BY DEF RouteMonitoring, Reads
  <1>3. Busy(c)
    BY <1>2 DEF Busy
  <1>4. PICK k \in {"announce", "withdraw"} :
           push' = [push EXCEPT ![c] = Pushing(k, {tab'[c][h]}, {x})]
    BY DEF RouteMonitoring
  <1>5. push'[c].kind = k /\ push'[c].ids = {tab'[c][h]}
    BY <1>1, <1>4, Zenon DEF ConnectionsOK, Pushing
  <1>6. h \in Known(c)' => PushShape(c)'
    BY <1>2, <1>5 DEF PushShape
  <1>7. CASE h \in Known(c) /\ UNCHANGED <<register, serial, tab>>
    <2>1. Known(c)' = Known(c) /\ Held(c)' = Held(c) /\ Named(c)' = Named(c)
      BY <1>2, <1>7 DEF Held, Known, Named
    <2>2. PushShape(c)'
      BY <1>6, <1>7, <2>1
    <2>3. EntriesOK' /\ IdentityUnique'
      BY <1>7, Zenon DEF IdInv, EntriesOK, IdentityUnique
    <2>4. ASSUME NEW i \in Peers, register'[i].state = "connected"
          PROVE  InUse(c, i)'
      <3>1. InUse(c, i)
        BY <1>3, <1>7, <2>4, UsedByMe, Zenon DEF IdInv
      <3> QED
        BY <1>2, <1>7, <2>1, <3>1, Zenon DEF InUse
    <2>5. prov'[c] \in Peers /\ states'[prov'[c]] = c
      BY <1>2, <1>3 DEF IdInv, Filed
    <2> QED
      BY <2>2, <2>3, <2>4, <2>5, Zenon DEF StepOK
  <1>8. CASE Synthesize(c, h)
    <2>1. PICK i \in Peers : /\ ClaimOrRegister(i, "peer", rid[c], h)
                             /\ tab' = [tab EXCEPT ![c][h] = i]
      BY <1>8, Zenon DEF Synthesize
    <2>2. h \notin Known(c) /\ tab'[c][h] = i
      BY <1>1, <1>8, <2>1, Zenon DEF Synthesize, ConnectionsOK
    <2>3. PushShape(c)'
      BY <1>6, <2>2, SessionsAssumption DEF Known
    <2> QED
      BY <1>2, <2>1, <2>2, <2>3, NewPeerId, Zenon
  <1> QED
    BY <1>7, <1>8, Zenon DEF RouteMonitoring

LEMMA RekeyId ==
    ASSUME OwnInv, IdInv, NEW c \in Conns, Rekey(c)
    PROVE  StepOK(c)
  <1>1. /\ RegisterOK /\ ConnectionsOK /\ SharedOK /\ at[c] = "rekey"
        /\ Busy(c) /\ ProvisionalOK(c) /\ RouterOK(c)
    BY DEF OwnInv, TypeOK, ConnOK, Rekey, Busy
  <1>2. prov[c] \in Peers /\ rid[c] \in Peers /\ Held(c) = {}
    BY <1>1 DEF ProvisionalOK, RouterOK, Unnamed, Named, Held
  <1>3. /\ register'[prov[c]] = Absent
        /\ \A i \in Peers \ {prov[c]} : register'[i] = register[i]
    BY <1>1, <1>2, Zenon DEF Rekey, RegisterOK
  <1>4. /\ at'[c] = "up" /\ prov'[c] = rid[c] /\ rid' = rid
        /\ push'[c].kind = "reappear"
    BY <1>1, Zenon DEF Rekey, ConnectionsOK, Pushing
  <1>5. states'[rid[c]] = c
    BY <1>1, <1>2, Zenon DEF Rekey, SharedOK
  <1>6. EntriesOK'
    BY <1>3 DEF EntriesOK, IdInv, Absent
  <1>7. IdentityUnique'
    BY <1>3, KeepIdentity DEF IdInv, Keeps, Absent
  <1>8. PushShape(c)'
    BY <1>4 DEF PushShape
  <1>9. ASSUME NEW i \in Peers, register'[i].state = "connected"
        PROVE  InUse(c, i)'
    <2>1. register[i].state = "connected"
      BY <1>3, <1>9 DEF Absent
    <2>2. i = rid[c]
      BY <1>1, <1>2, <2>1, MyConnected, Zenon
    <2> QED
      BY <1>4, <2>2 DEF InUse, Named
  <1> QED
    BY <1>2, <1>4, <1>5, <1>6, <1>7, <1>8, <1>9, Zenon DEF StepOK

\* A step that marks entries of a connection and leaves it filed as it is.
LEMMA MarkId ==
    ASSUME OwnInv, IdInv, NEW c \in Conns, Busy(c),
           NEW S \in SUBSET Peers, NEW s \in States,
           \A i \in S : register[i].state # "absent",
           s # "absent",
           register' = Mark(S, s), prov' = prov, states' = states,
           PushShape(c)',
           \A i \in Peers \ S : register[i].state = "connected" => InUse(c, i)',
           s = "connected" => \A i \in S : InUse(c, i)'
    PROVE  StepOK(c)
  <1>1. \A i \in Peers :
           /\ register'[i].kind = register[i].kind
           /\ register'[i].key = register[i].key
           /\ register'[i].parent = register[i].parent
           /\ register'[i].state = IF i \in S THEN s ELSE register[i].state
    BY MarkFields, ZenonT(30) DEF OwnInv, TypeOK
  <1>2. IdentityUnique'
    BY <1>1, KeepIdentity, Zenon DEF Keeps, IdInv
  <1>3. EntriesOK'
    BY <1>1 DEF EntriesOK, IdInv
  <1>4. \A i \in Peers : register'[i].state = "connected" => InUse(c, i)'
    BY <1>1
  <1>5. prov'[c] \in Peers /\ states'[prov'[c]] = c
    BY DEF IdInv, Filed
  <1> QED
    BY <1>2, <1>3, <1>4, <1>5, Zenon DEF StepOK

LEMMA DropPeersId ==
    ASSUME OwnInv, IdInv, NEW c \in Conns, DropPeers(c),
           at' = at \/ at' = [at EXCEPT ![c] = "terminated"]
    PROVE  StepOK(c)
  <1> DEFINE T == IdsOf(c, Known(c))
  <1>1. /\ ConnectionsOK /\ at[c] = "up" /\ Busy(c) /\ PeersOK(c)
        /\ Held(c) = Known(c) /\ Named(c)
    BY Zenon DEF OwnInv, TypeOK, ConnOK, DropPeers, Reads, Busy, Held, Named
  <1>2. \A i \in T : i \in Peers /\ register[i].state # "absent"
    BY <1>1 DEF IdsOf, PeersOK
  <1>3. /\ tab'[c] = [h \in Headers |-> 0]
        /\ at'[c] \in {"up", "terminated"}
        /\ rid' = rid /\ prov' = prov /\ states' = states
        /\ push'[c].kind \in {"none", "down"}
    BY <1>1, Zenon DEF DropPeers, ConnectionsOK, Idle, Pushing
  <1>4. Known(c)' = {}
    BY <1>3 DEF Known
  <1>5. PushShape(c)'
    BY <1>3, <1>4 DEF PushShape
  <1>6. register' = Mark(T, "disconnected")
    BY DEF DropPeers
  <1>7. ASSUME NEW i \in Peers \ T, register[i].state = "connected"
        PROVE  InUse(c, i)'
    <2>1. i = rid[c]
      BY <1>1, <1>7, MyConnected DEF IdsOf
    <2> QED
      BY <1>3, <2>1 DEF InUse, Named
  <1> HIDE DEF T
  <1>8. T \in SUBSET Peers /\ "disconnected" \in States
    BY <1>2 DEF States
  <1> QED
    BY <1>1, <1>2, <1>3, <1>5, <1>6, <1>7, <1>8, MarkId, Zenon

LEMMA CloseId ==
    ASSUME OwnInv, IdInv, NEW c \in Conns, Close(c)
    PROVE  StepOK(c)
  <1> DEFINE S == {prov[c]}
  <1>1. /\ ConnectionsOK /\ at[c] \in {"init", "up", "terminated"} /\ Busy(c)
        /\ RouterOK(c)
    BY Zenon DEF OwnInv, TypeOK, ConnOK, Close, Busy
  <1>2. prov[c] \in Peers /\ register[prov[c]].state # "absent"
    BY <1>1, UsedExist, SMT, Z3
  <1>3. /\ at'[c] = "closing" /\ toFlip'[c] = Known(c) /\ tab' = tab
        /\ prov' = prov /\ states' = states
        /\ push'[c].kind = "none"
    BY <1>1 DEF Close, ConnectionsOK, Idle
  <1>4. PushShape(c)'
    BY <1>3 DEF PushShape
  <1>5. ASSUME NEW i \in Peers \ S, register[i].state = "connected"
        PROVE  InUse(c, i)'
    <2>1. \E h \in Held(c) : i = tab[c][h]
      BY <1>1, <1>5, MyConnected, Zenon DEF RouterOK
    <2>2. PICK h \in Known(c) : i = tab[c][h]
      BY <1>1, <2>1 DEF Held
    <2>3. h \in Held(c)'
      BY <1>3, <2>2 DEF Held
    <2> QED
      BY <1>3, <2>2, <2>3, Zenon DEF InUse
  <1>6. register' = Mark(S, "disconnected")
    BY DEF Close
  <1>7. S \in SUBSET Peers /\ "disconnected" \in States
        /\ \A i \in S : register[i].state # "absent"
    BY <1>2 DEF States
  <1> HIDE DEF S
  <1> QED
    BY <1>1, <1>3, <1>4, <1>5, <1>6, <1>7, MarkId, Zenon

LEMMA FlipId ==
    ASSUME OwnInv, IdInv, NEW c \in Conns, NEW h \in Headers, Flip(c, h)
    PROVE  StepOK(c)
  <1> DEFINE S == {tab[c][h]}
  <1>1. /\ ConnectionsOK /\ at[c] = "closing" /\ Busy(c) /\ PeersOK(c)
        /\ Held(c) = toFlip[c] /\ h \in Held(c) /\ PushShape(c)
    BY DEF OwnInv, TypeOK, ConnOK, Flip, Busy, Held, IdInv
  <1>2. tab[c][h] \in Peers /\ register[tab[c][h]].state # "absent"
    BY <1>1, Zenon DEF PeersOK
  <1>3. /\ at' = at /\ toFlip'[c] = toFlip[c] \ {h} /\ tab' = tab
        /\ prov' = prov /\ states' = states /\ push' = push
    BY <1>1 DEF Flip, ConnectionsOK
  <1>4. PushShape(c)'
    <2>1. push[c].kind = "none"
      BY <1>1, NoPush
    <2> QED
      BY <1>3, <2>1, Zenon DEF PushShape
  <1>5. ASSUME NEW i \in Peers \ S, register[i].state = "connected"
        PROVE  InUse(c, i)'
    <2>1. PICK g \in Held(c) : i = tab[c][g]
      BY <1>1, <1>5, MyConnected, Zenon DEF Named
    <2>2. g \in Held(c)'
      BY <1>1, <1>3, <1>5, <2>1, Zenon DEF Held
    <2> QED
      BY <1>3, <2>1, <2>2, Zenon DEF InUse
  <1>6. register' = Mark(S, "disconnected")
    BY DEF Flip
  <1>7. S \in SUBSET Peers /\ "disconnected" \in States
        /\ \A i \in S : register[i].state # "absent"
    BY <1>2, Zenon DEF States
  <1> HIDE DEF S
  <1> QED
    BY <1>1, <1>3, <1>4, <1>5, <1>6, <1>7, MarkId, Zenon

LEMMA LeaveId ==
    ASSUME OwnInv, IdInv, NEW c \in Conns, WithdrawAll(c) \/ Unmap(c)
    PROVE  StepOK(c)
  <1>1. ConnectionsOK /\ at[c] \in {"closing", "unmap"} /\ Busy(c)
    BY Zenon DEF OwnInv, TypeOK, WithdrawAll, Unmap, Busy
  <1>2. ~Named(c) /\ Held(c) = {}
    BY <1>1, Zenon DEF WithdrawAll, Unmap, Held, Named
  <1>3. \A i \in Peers : register[i].state # "connected"
    BY <1>1, <1>2, MyConnected, Zenon
  <1>4. register' = register /\ prov' = prov
    BY DEF WithdrawAll, Unmap
  <1>5. EntriesOK' /\ IdentityUnique'
    BY <1>4, Zenon DEF IdInv, EntriesOK, IdentityUnique
  <1>6. CASE WithdrawAll(c)
    <2>1. at'[c] = "unmap" /\ push'[c].kind = "down" /\ states' = states
      BY <1>1, <1>6, Zenon DEF WithdrawAll, ConnectionsOK, Pushing
    <2>2. PushShape(c)'
      BY <2>1 DEF PushShape
    <2>3. prov'[c] \in Peers /\ states'[prov'[c]] = c
      BY <1>1, <1>4, <2>1, Zenon DEF IdInv, Filed
    <2> QED
      BY <1>3, <1>4, <1>5, <2>2, <2>3, Zenon DEF StepOK
  <1>7. CASE Unmap(c)
    <2>1. at'[c] = "gone" /\ push'[c].kind = "none"
      BY <1>1, <1>7 DEF Unmap, ConnectionsOK, Idle
    <2>2. PushShape(c)' /\ ~Busy(c)'
      BY <2>1 DEF PushShape, Busy
    <2> QED
      BY <1>3, <1>4, <1>5, <2>2, Zenon DEF StepOK
  <1> QED
    BY <1>6, <1>7

LEMMA RibApplyId ==
    ASSUME OwnInv, IdInv, NEW c \in Conns, RibApply(c)
    PROVE  StepOK(c)
  <1> DEFINE T == {i \in push[c].ids :
                      \/ push[c].kind = "reappear"
                      \/ push[c].kind = "announce" /\ i \in withdrawn}
  <1>1. /\ ConnectionsOK /\ PushShape(c) /\ PushOK(c) /\ RouterOK(c)
        /\ PeersOK(c)
        /\ push[c].kind \in {"announce", "withdraw", "reappear", "down"}
    BY Zenon DEF OwnInv, TypeOK, ConnOK, IdInv, RibApply
  <1>2. Busy(c)
    BY <1>1, Zenon DEF PushShape, Busy
  <1>3. /\ at' = at /\ rid' = rid /\ prov' = prov /\ tab' = tab
        /\ toFlip' = toFlip /\ states' = states /\ push'[c].kind = "none"
    BY <1>1, Zenon DEF RibApply, ConnectionsOK, Idle
  <1>4. PushShape(c)'
    BY <1>3 DEF PushShape
  <1>5. \A i \in Peers : InUse(c, i) => InUse(c, i)'
    BY <1>3 DEF InUse, Named, Held, Known
  <1>6. register' = Mark(T, "connected")
    BY Zenon DEF RibApply
  <1>7. \A i \in T : at[c] = "up" /\ i \in Uses(c)
    BY <1>1 DEF PushOK
  <1>8. \A i \in T : i \in Peers /\ InUse(c, i)
    BY <1>7 DEF Uses, Unnamed, InUse
  <1>9. \A i \in T : register[i].state # "absent"
    BY <1>8, <1>1, Zenon DEF InUse, RouterOK, PeersOK
  <1>10. \A i \in Peers : register[i].state = "connected" => InUse(c, i)
    BY <1>2, UsedByMe DEF IdInv
  <1>11. T \in SUBSET Peers /\ "connected" \in States
    BY <1>8 DEF States
  <1> HIDE DEF T
  <1> QED
    BY <1>2, <1>3, <1>4, <1>5, <1>6, <1>8, <1>9, <1>10, <1>11, MarkId, Zenon

\* The sweep takes entries out that nobody works with.
LEMMA SweepId ==
    ASSUME IdInv, UNCHANGED connVars, UNCHANGED states,
           \A i \in Peers : \/ register'[i] = register[i]
                            \/ register'[i] = Absent
    PROVE  IdInv'
  <1>1. Alone' /\ Filed'
    BY DEF IdInv, Alone, Filed, Busy, connVars
  <1>2. EntriesOK'
    BY DEF IdInv, EntriesOK, Absent
  <1>3. IdentityUnique'
    BY KeepIdentity DEF IdInv, Keeps, Absent
  <1>4. \A c \in Conns : PushShape(c)'
    BY Zenon DEF IdInv, PushShape, connVars, Known
  <1>5. \A c \in Conns, i \in Peers : InUse(c, i) => InUse(c, i)'
    BY DEF InUse, Named, Held, Known, connVars
  <1>6. OnlyUsedConnected'
    <2>1. \A i \in Peers : register'[i].state = "connected" =>
                              register[i].state = "connected"
      BY DEF Absent
    <2> QED
      BY <1>5, <2>1 DEF IdInv, OnlyUsedConnected
  <1> QED
    BY <1>1, <1>2, <1>3, <1>4, <1>6, Zenon DEF IdInv

LEMMA InitId == Init => IdInv
  BY DEF Init, IdInv, Alone, Filed, OnlyUsedConnected, EntriesOK,
     IdentityUnique, PushShape, Busy, Absent, Idle

LEMMA NextId ==
    ASSUME OwnInv, IdInv, ~Overlap, [Next]_vars
    PROVE  IdInv'
  <1>1. ASSUME NEW c \in Conns, Accept(c) \/ Message(c) \/ Handler(c)
        PROVE  IdInv'
    <2>1. StepOK(c)
      <3>1. CASE Accept(c)
        BY <3>1, AcceptId
      <3>2. CASE Message(c)
        <4>1. ASSUME NEW n \in Names, Initiate(c, n) PROVE StepOK(c)
          BY <4>1, InitiateId
        <4>2. ASSUME NEW h \in Headers, PeerUp(c, h) PROVE StepOK(c)
          BY <4>2, PeerUpId
        <4>3. ASSUME NEW h \in Headers, NEW x \in Prefixes,
                     RouteMonitoring(c, h, x)
              PROVE  StepOK(c)
          BY <4>3, RouteMonitoringId
        <4>4. CASE PeerDown(c) \/ Termination(c)
          BY <4>4, DropPeersId DEF PeerDown, Termination
        <4>5. CASE Close(c)
          BY <4>5, CloseId
        <4> QED
          BY <3>2, <4>1, <4>2, <4>3, <4>4, <4>5, Zenon DEF Message
      <3>3. CASE Handler(c)
        <4>1. ASSUME NEW h \in Headers, Flip(c, h) PROVE StepOK(c)
          BY <4>1, FlipId
        <4>2. CASE Rekey(c)
          BY <4>2, RekeyId
        <4>3. CASE RibApply(c)
          BY <4>3, RibApplyId
        <4>4. CASE WithdrawAll(c) \/ Unmap(c)
          BY <4>4, LeaveId
        <4> QED
          BY <3>3, <4>1, <4>2, <4>3, <4>4, Zenon DEF Handler
      <3> QED
        BY <1>1, <3>1, <3>2, <3>3
    <2> QED
      BY <1>1, <2>1, StepId
  <1>2. CASE Sweep
    <2>1. \A i \in Peers : register'[i] = register[i] \/ register'[i] = Absent
      <3>1. CASE GcSnapshot \/ GcStore
        BY <3>1 DEF GcSnapshot, GcStore
      <3>2. CASE GcPeers
        BY <3>2 DEF GcPeers
      <3>3. CASE GcRouters
        BY <3>3 DEF GcRouters
      <3> QED
        BY <1>2, <3>1, <3>2, <3>3, Zenon DEF Sweep
    <2>2. UNCHANGED connVars /\ UNCHANGED states
      BY <1>2 DEF Sweep, GcSnapshot, GcPeers, GcStore, GcRouters
    <2> QED
      BY <2>1, <2>2, SweepId
  <1>3. CASE UNCHANGED vars
    BY <1>3, SweepId DEF vars
  <1> QED
    BY <1>1, <1>2, <1>3 DEF Next

\* If a router reconnects only once its previous connection has been torn down,
\* every connection is filed under its id, no entry is Connected that is not in
\* use, and no two entries have one identity.
THEOREM IdentityInvariant == ASSUME ~Overlap PROVE Spec => []IdInv
  <1>1. Init => OwnInv /\ IdInv
    BY InitOwn, InitId
  <1>2. OwnInv /\ IdInv /\ [Next]_vars => (OwnInv /\ IdInv)'
    BY NextOwn, NextId
  <1> QED
    BY <1>1, <1>2, PTL DEF Spec

\* A connection that is up is filed in router_states under its id, Rekey
\* included, as long as a router's connections follow each other.
THEOREM SessionsAreMapped == ASSUME ~Overlap PROVE Spec => []SessionMapped
  <1>1. IdInv => SessionMapped
    BY DEF IdInv, Filed, Busy, SessionMapped
  <1> QED
    BY <1>1, IdentityInvariant, PTL

\* As long as a router's connections follow each other, the register never has
\* two entries of one router, or of one peer of it: who comes back finds its
\* old entry or registers the only one.
THEOREM IdentitiesAreUnique == ASSUME ~Overlap PROVE Spec => []IdentityUnique
  <1>1. IdInv => IdentityUnique
    BY DEF IdInv
  <1> QED
    BY <1>1, IdentityInvariant, PTL

-----------------------------------------------------------------------------
(***************************************************************************)
(* Proof about BmpSessions where a router reconnects only after its        *)
(* previous connection has been torn down, and withdrawn routes are        *)
(* compacted: the RIB shows the routes of the session.                     *)
(*                                                                         *)
(* The invariant says that active records belong to ids of a connection    *)
(* that has not withdrawn them yet, and that the update under way accounts *)
(* for the difference between what a peer has announced and what the store *)
(* has.  An id that is claimed is in nobody's use and so has no records.   *)
(***************************************************************************)

\* A connection that has routes in the RIB, or is about to withdraw them.
HasRoutes(c, i) ==
    \/ at[c] \in {"up", "closing"} /\ \E h \in Known(c) : tab[c][h] = i
    \/ push[c].kind = "down" /\ i \in push[c].ids

\* The records of an id once the update under way has been applied.
Applied(c, i) ==
    IF i \notin push[c].ids THEN active[i]
    ELSE IF push[c].kind = "announce" THEN active[i] \cup push[c].pfx
    ELSE IF push[c].kind = "withdraw" THEN active[i] \ push[c].pfx
    ELSE active[i]

\* They are what the peer announced.
RoutesOK(c) ==
    /\ \A h \in Headers \ Known(c) : announced[c][h] = {}
    /\ at[c] = "up" =>
          \A h \in Known(c) : announced[c][h] = Applied(c, tab[c][h])

\* What the sweep is about to remove from the store is gone from the register.
SweptGone ==
    gc.at = "store" =>
        \A i \in gc.peers : register[i].state = "absent" /\ i < serial

RouteInv ==
    /\ \A c \in Conns : RoutesOK(c)
    /\ \A i \in Peers : active[i] # {} => \E c \in Conns : HasRoutes(c, i)
    /\ \A i \in withdrawn : active[i] = {}
    /\ SweptGone

-----------------------------------------------------------------------------

LEMMA IdleIs == Idle.kind = "none" /\ Idle.ids = {}
  BY DEF Idle

\* An id that was handed out and is absent from the register stays absent.
AbsentStays ==
    /\ serial' \in Nat /\ serial =< serial' /\ gc' = gc
    /\ \A i \in Peers : register[i].state = "absent" /\ i < serial
                           => register'[i].state = "absent"

LEMMA MarkAbsentStays ==
    ASSUME RegisterOK, NEW S \in SUBSET Peers, NEW s \in States,
           \A i \in S : register[i].state # "absent",
           register' = Mark(S, s), serial' = serial, gc' = gc
    PROVE  AbsentStays
  BY MarkFields DEF AbsentStays, RegisterOK

LEMMA ClaimAbsentStays ==
    ASSUME RegisterOK, NEW i \in Peers, NEW p \in Ids, NEW h \in Headers,
           ClaimOrRegister(i, "peer", p, h), gc' = gc
    PROVE  AbsentStays
  <1>1. \A j \in Peers \ {i} : register'[j] = register[j]
    BY DEF ClaimOrRegister, RegisterOK
  <1>2. CASE i \in Claimable("peer", p, h) /\ UNCHANGED serial
    BY <1>1, <1>2 DEF AbsentStays, Claimable, RegisterOK
  <1>3. CASE i = serial /\ serial' = serial + 1
    BY <1>1, <1>3 DEF AbsentStays, RegisterOK
  <1> QED
    BY <1>2, <1>3 DEF ClaimOrRegister

LEMMA StepAbsentStays ==
    ASSUME OwnInv, NEW c \in Conns, Accept(c) \/ Message(c) \/ Handler(c)
    PROVE  AbsentStays
  <1>1. /\ TypeOK /\ RegisterOK /\ ConnectionsOK /\ ConnOK(c)
        /\ ProvisionalOK(c) /\ PeersOK(c) /\ rid[c] \in Ids
        /\ serial \in Nat
    BY Zenon DEF OwnInv, TypeOK, ConnOK, ConnectionsOK, RegisterOK
  <1>2. CASE Accept(c)
    BY <1>1, <1>2, SessionsAssumption DEF Accept, AbsentStays, RegisterOK
  <1>3. ASSUME NEW n \in Names, Initiate(c, n) PROVE AbsentStays
    <2>1. /\ serial' = serial /\ gc' = gc /\ at[c] = "init"
      BY <1>3, Zenon DEF Initiate
    <2>2. CASE Claimable("router", 0, n) = {}
      <3>1. rid[c] \in Peers /\ register[rid[c]].state # "absent"
        BY <1>1, <2>1, Zenon DEF ProvisionalOK, Unnamed
      <3>2. register' = [register EXCEPT ![rid[c]].state = "connected",
                                         ![rid[c]].key = n]
        BY <1>3, <2>2, Zenon DEF Initiate
      <3>3. \A j \in Peers \ {rid[c]} : register'[j] = register[j]
        BY <1>1, <3>2, Zenon DEF RegisterOK
      <3> QED
        BY <1>1, <2>1, <3>1, <3>3 DEF AbsentStays
    <2>3. CASE Claimable("router", 0, n) # {}
      <3>1. PICK i \in Claimable("router", 0, n) :
               register' = Mark({i}, "connected")
        BY <1>3, <2>3, Zenon DEF Initiate
      <3> DEFINE S == {i}
      <3>2. /\ S \in SUBSET Peers /\ "connected" \in States
            /\ \A j \in S : register[j].state # "absent"
            /\ register' = Mark(S, "connected")
        BY <3>1 DEF Claimable, States
      <3> HIDE DEF S
      <3> QED
        BY <1>1, <2>1, <3>2, MarkAbsentStays, Zenon
    <2> QED
      BY <2>2, <2>3
  <1>4. ASSUME NEW h \in Headers, PeerUp(c, h) PROVE AbsentStays
    BY <1>1, <1>4, ClaimAbsentStays, Zenon DEF PeerUp
  <1>5. ASSUME NEW h \in Headers, NEW x \in Prefixes, RouteMonitoring(c, h, x)
        PROVE  AbsentStays
    <2>1. gc' = gc
      BY <1>5, Zenon DEF RouteMonitoring
    <2>2. CASE UNCHANGED <<register, serial>>
      BY <1>1, <2>1, <2>2 DEF AbsentStays
    <2>3. CASE Synthesize(c, h)
      BY <1>1, <2>1, <2>3, ClaimAbsentStays, Zenon DEF Synthesize
    <2> QED
      BY <1>5, <2>2, <2>3, Zenon DEF RouteMonitoring
  <1>6. CASE PeerDown(c) \/ Termination(c)
    <2> DEFINE S == IdsOf(c, Known(c))
    <2>1. DropPeers(c)
      BY <1>6, SMT, Z3 DEF PeerDown, Termination
    <2>2. Held(c) = Known(c)
      BY <2>1, SMT, Z3 DEF DropPeers, Reads, Held
    <2>3. \A i \in S : i \in Peers /\ register[i].state # "absent"
      BY <1>1, <2>2 DEF PeersOK, IdsOf
    <2>4. /\ register' = Mark(S, "disconnected")
          /\ serial' = serial /\ gc' = gc
      BY <2>1 DEF DropPeers
    <2> HIDE DEF S
    <2>5. S \in SUBSET Peers /\ "disconnected" \in States
      BY <2>3 DEF States
    <2> QED
      BY <1>1, <2>3, <2>4, <2>5, MarkAbsentStays, Zenon
  <1>7. CASE Close(c)
    <2> DEFINE S == {prov[c]}
    <2>1. \A i \in S : i \in Peers /\ register[i].state # "absent"
      BY <1>7, UsedExist, Zenon DEF Close
    <2>2. /\ register' = Mark(S, "disconnected")
          /\ serial' = serial /\ gc' = gc
      BY <1>7 DEF Close
    <2> HIDE DEF S
    <2>3. S \in SUBSET Peers /\ "disconnected" \in States
      BY <2>1 DEF States
    <2> QED
      BY <1>1, <2>1, <2>2, <2>3, MarkAbsentStays, Zenon
  <1>8. ASSUME NEW h \in Headers, Flip(c, h) PROVE AbsentStays
    <2> DEFINE S == {tab[c][h]}
    <2>1. h \in Held(c)
      BY <1>8 DEF Flip, Held
    <2>2. \A i \in S : i \in Peers /\ register[i].state # "absent"
      BY <1>1, <2>1, Zenon DEF PeersOK
    <2>3. /\ register' = Mark(S, "disconnected")
          /\ serial' = serial /\ gc' = gc
      BY <1>8 DEF Flip
    <2> HIDE DEF S
    <2>4. S \in SUBSET Peers /\ "disconnected" \in States
      BY <2>2 DEF States
    <2> QED
      BY <1>1, <2>2, <2>3, <2>4, MarkAbsentStays, Zenon
  <1>9. CASE Rekey(c)
    BY <1>1, <1>9, SMT, Z3 DEF Rekey, AbsentStays, RegisterOK, Absent
  <1>10. CASE WithdrawAll(c) \/ Unmap(c)
    BY <1>1, <1>10 DEF WithdrawAll, Unmap, AbsentStays
  <1>11. CASE RibApply(c)
    <2> DEFINE S == {i \in push[c].ids :
                        \/ push[c].kind = "reappear"
                        \/ push[c].kind = "announce" /\ i \in withdrawn}
    <2>1. \A i \in S : i \in Uses(c)
      BY <1>1, Zenon DEF ConnOK, PushOK
    <2>2. \A i \in S : i \in Peers /\ register[i].state # "absent"
      BY <2>1, UsedExist, Zenon
    <2>3. /\ register' = Mark(S, "connected")
          /\ serial' = serial /\ gc' = gc
      BY <1>11, Zenon DEF RibApply
    <2> HIDE DEF S
    <2>4. S \in SUBSET Peers /\ "connected" \in States
      BY <2>2, SMT, Z3 DEF States
    <2> QED
      BY <1>1, <2>2, <2>3, <2>4, MarkAbsentStays, Zenon
  <1> QED
    BY <1>2, <1>3, <1>4, <1>5, <1>6, <1>7, <1>8, <1>9, <1>10, <1>11, Zenon DEF
       Message, Handler

\* What a step of c has to establish about the routes.
RouteStep(c) ==
    /\ RoutesOK(c)'
    /\ \A i \in Peers : active'[i] # {} => HasRoutes(c, i)'
    /\ \A i \in withdrawn' : active'[i] = {}

\* Whoever has routes is busy.
LEMMA RoutesBusy ==
    ASSUME NEW d \in Conns, PushShape(d), NEW i \in Peers, HasRoutes(d, i)
    PROVE  Busy(d)
  BY DEF HasRoutes, PushShape, Busy

LEMMA StepRoutes ==
    ASSUME OwnInv, IdInv, RouteInv, ~Overlap, NEW c \in Conns,
           Accept(c) \/ Message(c) \/ Handler(c), RouteStep(c)
    PROVE  RouteInv'
  <1>1. /\ Others(c) /\ (Busy(c) \/ Accept(c))
        /\ \A d \in Conns \ {c} : announced'[d] = announced[d]
    BY StepOthers, SMT, Z3 DEF OwnInv, TypeOK, IdInv
  <1>2. \A d \in Conns \ {c} : ~Busy(d)
    <2>1. CASE Busy(c)
      BY <2>1, OthersIdle DEF IdInv
    <2>2. CASE Accept(c)
      BY <2>2, Zenon DEF Accept, Busy
    <2> QED
      BY <1>1, <2>1, <2>2
  <1>3. ASSUME NEW d \in Conns
        PROVE  RoutesOK(d)'
    <2>1. CASE d = c
      BY <2>1 DEF RouteStep
    <2>2. CASE d # c
      <3>1. at'[d] # "up" /\ Known(d)' = Known(d) /\ announced'[d] = announced[d]
        BY <1>1, <1>2, <2>2, Zenon DEF Others, Busy, Known
      <3> QED
        BY <3>1, Zenon DEF RoutesOK, RouteInv
    <2> QED
      BY <2>1, <2>2, SMT, Z3
  <1>4. SweptGone'
    <2>1. AbsentStays /\ serial \in Nat
      BY StepAbsentStays DEF OwnInv, TypeOK, RegisterOK
    <2>2. \A i \in gc.peers : i \in Peers /\ i \in Nat
      BY SessionsAssumption DEF OwnInv, TypeOK, SharedOK
    <2> QED
      BY <2>1, <2>2 DEF AbsentStays, SweptGone, RouteInv
  <1> QED
    BY <1>3, <1>4, SMT, Z3 DEF RouteInv, RouteStep

\* The active records are the connection's.
LEMMA MyRoutes ==
    ASSUME IdInv, RouteInv, NEW c \in Conns, Busy(c) \/ Accept(c), ~Overlap,
           NEW i \in Peers, active[i] # {}
    PROVE  HasRoutes(c, i) /\ Busy(c)
  <1>1. PICK d \in Conns : HasRoutes(d, i)
    BY DEF RouteInv
  <1>2. Busy(d)
    BY <1>1, RoutesBusy DEF IdInv
  <1>3. CASE Accept(c)
    BY <1>2, <1>3, Zenon DEF Accept, Busy
  <1>4. CASE Busy(c)
    BY <1>1, <1>2, <1>4 DEF IdInv, Alone
  <1> QED
    BY <1>3, <1>4

\* Before the connection has peers, and after it is done, there are none.
LEMMA NoRoutes ==
    ASSUME OwnInv, IdInv, RouteInv, NEW c \in Conns, ~Overlap,
           Busy(c) \/ Accept(c),
           push[c].kind # "down",
           at[c] \notin {"up", "closing"} \/ Known(c) = {}
    PROVE  \A i \in Peers : active[i] = {}
  BY MyRoutes, SMT, Z3 DEF HasRoutes

\* Steps that leave the store, the peer states and what was announced alone.
LEMMA QuietRoutes ==
    ASSUME OwnInv, IdInv, RouteInv, ~Overlap, NEW c \in Conns,
           ribVars' = ribVars, tab' = tab, announced' = announced,
           at'[c] = "up" => Known(c) = {},
           \A i \in Peers : active[i] # {} => HasRoutes(c, i)'
    PROVE  RouteStep(c)
  <1>1. active' = active /\ withdrawn' = withdrawn /\ Known(c)' = Known(c)
    BY DEF ribVars, Known
  <1>2. RoutesOK(c)'
    BY <1>1, Zenon DEF RoutesOK, RouteInv
  <1> QED
    BY <1>1, <1>2 DEF RouteStep, RouteInv

LEMMA AcceptRoutes ==
    ASSUME OwnInv, IdInv, RouteInv, ~Overlap, NEW c \in Conns, Accept(c)
    PROVE  RouteStep(c)
  <1>1. ConnectionsOK /\ PushShape(c) /\ at[c] = "new"
    BY DEF OwnInv, TypeOK, IdInv, Accept
  <1>2. push[c].kind = "none"
    BY <1>1, NoPush
  <1>3. \A i \in Peers : active[i] = {}
    BY <1>1, <1>2, NoRoutes, Zenon
  <1>4. at'[c] = "init"
    BY <1>1, Zenon DEF Accept, ConnectionsOK
  <1>5. ribVars' = ribVars /\ tab' = tab /\ announced' = announced
    BY DEF Accept
  <1> QED
    BY <1>3, <1>4, <1>5, QuietRoutes, Zenon

LEMMA SetupRoutes ==
    ASSUME OwnInv, IdInv, RouteInv, ~Overlap, NEW c \in Conns,
           Rekey(c) \/ \E n \in Names : Initiate(c, n)
    PROVE  RouteStep(c)
  <1>1. /\ ConnectionsOK /\ PushShape(c) /\ at[c] \in {"init", "rekey"}
        /\ Busy(c) /\ PeersOK(c)
    BY Zenon DEF OwnInv, TypeOK, ConnOK, IdInv, Initiate, Rekey, Busy
  <1>2. push[c].kind = "none" /\ Known(c) = {}
    BY <1>1, NoPush, Zenon DEF PeersOK
  <1>3. \A i \in Peers : active[i] = {}
    BY <1>1, <1>2, NoRoutes, Zenon
  <1>4. ribVars' = ribVars /\ tab' = tab /\ announced' = announced
    BY Zenon DEF Initiate, Rekey
  <1> QED
    BY <1>2, <1>3, <1>4, QuietRoutes, Zenon

LEMMA TeardownRoutes ==
    ASSUME OwnInv, IdInv, RouteInv, ~Overlap, NEW c \in Conns,
           \/ Close(c) \/ WithdrawAll(c) \/ Unmap(c)
           \/ \E h \in Headers : Flip(c, h)
    PROVE  RouteStep(c)
  <1>1. /\ ConnectionsOK /\ PushShape(c)
        /\ at[c] \in {"init", "up", "terminated", "closing", "unmap"}
        /\ Busy(c) /\ PeersOK(c)
    BY Zenon DEF OwnInv, TypeOK, ConnOK, IdInv, Close, WithdrawAll, Unmap, Flip, Busy
  <1>2. ribVars' = ribVars /\ tab' = tab /\ announced' = announced
    BY Zenon DEF Close, WithdrawAll, Unmap, Flip
  <1>3. push[c].kind = "none"
    <2>1. CASE at[c] = "closing"
      BY <1>1, <2>1, NoPush, ZenonT(30)
    <2>2. CASE at[c] # "closing"
      <3>1. push[c] = Idle
        BY <2>2, Zenon DEF Close, WithdrawAll, Unmap, Flip
      <3> QED
        BY <3>1, IdleIs
    <2> QED
      BY <2>1, <2>2
  <1>4. Known(c)' = Known(c)
    BY <1>2 DEF Known
  <1>5. \A i \in Peers : active[i] # {} =>
           at[c] \in {"up", "closing"} /\ \E h \in Known(c) : tab[c][h] = i
    BY <1>1, <1>3, MyRoutes, Zenon DEF HasRoutes
  <1>6. CASE at'[c] = "closing"
    <2>1. at[c] # "unmap"
      BY <1>6, <1>1, Zenon DEF Close, WithdrawAll, Unmap, Flip, ConnectionsOK
    <2>2. \A i \in Peers : active[i] # {} => HasRoutes(c, i)'
      BY <1>2, <1>4, <1>5, <1>6, Zenon DEF HasRoutes
    <2> QED
      BY <1>2, <1>6, <2>2, QuietRoutes, Zenon
  <1>7. CASE WithdrawAll(c)
    <2>1. /\ at'[c] = "unmap" /\ push'[c].kind = "down"
          /\ push'[c].ids = IdsOf(c, Known(c))
      BY <1>1, <1>7, Zenon DEF WithdrawAll, ConnectionsOK, Pushing
    <2>2. \A i \in Peers : active[i] # {} => HasRoutes(c, i)'
      BY <1>5, <2>1, Zenon DEF HasRoutes, IdsOf
    <2> QED
      BY <1>2, <2>1, <2>2, QuietRoutes, Zenon
  <1>8. CASE Unmap(c)
    <2>1. at[c] = "unmap" /\ at'[c] = "gone"
      BY <1>1, <1>8, Zenon DEF Unmap, ConnectionsOK
    <2>2. \A i \in Peers : active[i] = {}
      BY <1>5, <2>1
    <2> QED
      BY <1>2, <2>1, <2>2, QuietRoutes, Zenon
  <1>9. Close(c) \/ (\E h \in Headers : Flip(c, h)) => at'[c] = "closing"
    BY <1>1, Zenon DEF Close, Flip, ConnectionsOK
  <1> QED
    BY <1>6, <1>7, <1>8, <1>9, Zenon

LEMMA DropPeersRoutes ==
    ASSUME OwnInv, IdInv, RouteInv, ~Overlap, NEW c \in Conns, DropPeers(c)
    PROVE  RouteStep(c)
  <1>1. /\ ConnectionsOK /\ at[c] = "up" /\ Busy(c) /\ push[c] = Idle
    BY DEF OwnInv, TypeOK, DropPeers, Reads, Busy
  <1>2. /\ tab'[c] = [h \in Headers |-> 0]
        /\ announced'[c] = [h \in Headers |-> {}]
        /\ active' = active /\ withdrawn' = withdrawn
    BY <1>1, Zenon DEF DropPeers, ConnectionsOK, ribVars
  <1>3. Known(c)' = {}
    BY <1>2, SMT, Z3 DEF Known
  <1>4. RoutesOK(c)'
    BY <1>2, <1>3, SMT, Z3 DEF RoutesOK
  <1>5. ASSUME NEW i \in Peers, active[i] # {}
        PROVE  HasRoutes(c, i)'
    <2>1. HasRoutes(c, i)
      BY <1>1, <1>5, MyRoutes, ZenonT(30)
    <2>2. \E h \in Known(c) : tab[c][h] = i
      BY <1>1, <2>1 DEF HasRoutes, Idle
    <2>3. push'[c] = Pushing("down", IdsOf(c, Known(c)), {})
      BY <1>1, <2>2, Zenon DEF DropPeers, ConnectionsOK
    <2> QED
      BY <2>2, <2>3 DEF HasRoutes, Pushing, IdsOf
  <1> QED
    BY <1>2, <1>4, <1>5, Zenon DEF RouteStep, RouteInv

\* Between updates each peer's records are what it announced, no two peers of a
\* connection share an id, and an id claimed or registered has no records.
LEMMA ReadyRoutes ==
    ASSUME OwnInv, IdInv, RouteInv, ~Overlap, NEW c \in Conns, Reads(c)
    PROVE  /\ \A h \in Known(c) : announced[c][h] = active[tab[c][h]]
           /\ \A g, h \in Known(c) : tab[c][g] = tab[c][h] => g = h
           /\ \A i \in Peers : register[i].state # "connected" =>
                 active[i] = {} /\ \A h \in Known(c) : tab[c][h] # i
  <1>1. /\ at[c] = "up" /\ push[c] = Idle /\ Busy(c) /\ PeersOK(c)
        /\ Held(c) = Known(c)
    BY DEF OwnInv, ConnOK, Reads, Busy, Held
  <1>2. \A h \in Known(c) : announced[c][h] = active[tab[c][h]]
    <2>1. push[c].ids = {}
      BY <1>1, IdleIs, SMT, Z3
    <2>2. \A i : Applied(c, i) = active[i]
      BY <2>1 DEF Applied
    <2> QED
      BY <1>1, <2>2, Zenon DEF RouteInv, RoutesOK
  <1>3. \A h \in Known(c) : register[tab[c][h]].key = h
                            /\ register[tab[c][h]].state = "connected"
    BY <1>1, ZenonT(30) DEF PeersOK
  <1>4. ASSUME NEW i \in Peers, register[i].state # "connected"
        PROVE  active[i] = {}
    <2>1. ~HasRoutes(c, i)
      BY <1>1, <1>3, <1>4 DEF HasRoutes, Idle
    <2> QED
      BY <1>1, <2>1, MyRoutes, Zenon
  <1> QED
    BY <1>2, <1>3, <1>4, Zenon

LEMMA PeerUpRoutes ==
    ASSUME OwnInv, IdInv, RouteInv, ~Overlap, NEW c \in Conns,
           NEW h \in Headers, PeerUp(c, h)
    PROVE  RouteStep(c)
  <1>1. /\ TypeOK /\ ConnectionsOK /\ Reads(c) /\ at[c] = "up" /\ Busy(c)
        /\ push[c] = Idle /\ h \notin Known(c) /\ rid[c] \in Ids
    BY Zenon DEF OwnInv, TypeOK, ConnectionsOK, PeerUp, Reads, Busy
  <1>2. PICK i \in Peers :
           /\ ClaimOrRegister(i, "peer", rid[c], h)
           /\ tab' = [tab EXCEPT ![c][h] = i]
           /\ push' = IF register[i].state = "absent" THEN push
                      ELSE [push EXCEPT ![c] = Pushing("reappear", {i}, {})]
    BY Zenon DEF PeerUp
  <1>3. /\ at' = at /\ announced' = announced
        /\ active' = active /\ withdrawn' = withdrawn
    BY DEF PeerUp, ribVars
  <1>4. register[i].state # "connected"
    BY <1>1, <1>2, ClaimIs, Zenon
  <1>5. active[i] = {}
    BY <1>1, <1>4, ReadyRoutes, Zenon
  <1>6. push'[c].kind \in {"none", "reappear"}
    <2>1. CASE register[i].state = "absent"
      BY <1>1, <1>2, <2>1 DEF Idle
    <2>2. CASE register[i].state # "absent"
      BY <1>1, <1>2, <2>2, Zenon DEF Pushing, ConnectionsOK
    <2> QED
      BY <2>1, <2>2, SMT, Z3
  <1>7. /\ tab'[c][h] = i /\ i # 0
        /\ \A g \in Headers \ {h} : tab'[c][g] = tab[c][g]
    BY <1>1, <1>2, SessionsAssumption, Zenon DEF ConnectionsOK
  <1>8. Known(c)' = Known(c) \cup {h}
    BY <1>7 DEF Known
  <1>9. \A j \in Peers : Applied(c, j)' = active[j]
    BY <1>3, <1>6, Zenon DEF Applied
  <1>10. RoutesOK(c)'
    <2>1. \A g \in Headers \ Known(c) : announced[c][g] = {}
      BY DEF RouteInv, RoutesOK
    <2>2. ASSUME NEW g \in Known(c)'
          PROVE  announced'[c][g] = Applied(c, tab[c][g])'
      <3>1. CASE g = h
        BY <1>1, <1>3, <1>5, <1>7, <1>9, <2>1, <3>1, Zenon
      <3>2. CASE g # h
        <4>1. g \in Known(c) /\ tab'[c][g] = tab[c][g]
          BY <1>7, <1>8, <3>2, Zenon DEF Known
        <4>2. tab[c][g] \in Peers
          BY <1>1, <4>1 DEF ConnectionsOK, Known, Ids
        <4>3. announced[c][g] = active[tab[c][g]]
          BY <1>1, <4>1, ReadyRoutes, Zenon
        <4> QED
          BY <1>3, <1>9, <4>1, <4>2, <4>3, Zenon
      <3> QED
        BY <3>1, <3>2, Zenon
    <2> QED
      BY <1>3, <1>8, <2>1, <2>2, ZenonT(30) DEF RoutesOK
  <1>11. ASSUME NEW j \in Peers, active[j] # {}
         PROVE  HasRoutes(c, j)'
    <2>a. push[c].kind # "down"
      BY <1>1, IdleIs
    <2>b. HasRoutes(c, j)
      BY <1>1, <1>11, MyRoutes, Zenon
    <2>1. \E g \in Known(c) : tab[c][g] = j
      BY <2>a, <2>b, Zenon DEF HasRoutes
    <2>2. \E g \in Known(c)' : tab'[c][g] = j
      BY <1>1, <1>7, <1>8, <2>1, Zenon DEF Known
    <2> QED
      BY <1>1, <1>3, <2>2, Zenon DEF HasRoutes
  <1> QED
    BY <1>3, <1>10, <1>11, Zenon DEF RouteStep, RouteInv

LEMMA RouteMonitoringRoutes ==
    ASSUME OwnInv, IdInv, RouteInv, ~Overlap, NEW c \in Conns,
           NEW h \in Headers, NEW x \in Prefixes, RouteMonitoring(c, h, x)
    PROVE  RouteStep(c)
  <1>1. /\ TypeOK /\ ConnectionsOK /\ Reads(c) /\ at[c] = "up" /\ Busy(c)
        /\ push[c] = Idle /\ rid[c] \in Ids
    BY Zenon DEF OwnInv, TypeOK, ConnectionsOK, RouteMonitoring, Reads, Busy
  <1>2. at' = at /\ active' = active /\ withdrawn' = withdrawn
    BY Zenon DEF RouteMonitoring, ribVars
  \* The peer state, old or new.
  <1>3. /\ \A g \in Headers \ {h} : tab'[c][g] = tab[c][g]
        /\ tab'[c][h] \in Peers
        /\ Known(c)' = Known(c) \cup {h}
        /\ announced[c][h] = active[tab'[c][h]]
        /\ \A g \in Known(c) \ {h} : tab[c][g] # tab'[c][h]
    <2>1. CASE h \in Known(c) /\ UNCHANGED <<register, serial, tab>>
      <3>1. Known(c)' = Known(c) /\ tab[c][h] \in Peers
        BY <1>1, <2>1 DEF Known, ConnectionsOK, Ids
      <3>2. announced[c][h] = active[tab[c][h]]
        BY <1>1, <2>1, ReadyRoutes, Zenon
      <3>3. \A g \in Known(c) \ {h} : tab[c][g] # tab[c][h]
        BY <1>1, <2>1, ReadyRoutes, Zenon
      <3> QED
        BY <2>1, <3>1, <3>2, <3>3, Zenon
    <2>2. CASE Synthesize(c, h)
      <3>1. PICK i \in Peers : /\ ClaimOrRegister(i, "peer", rid[c], h)
                               /\ tab' = [tab EXCEPT ![c][h] = i]
        BY <2>2, Zenon DEF Synthesize
      <3>2. register[i].state # "connected"
        BY <1>1, <3>1, ClaimIs, Zenon
      <3>3. active[i] = {} /\ \A g \in Known(c) : tab[c][g] # i
        BY <1>1, <3>2, ReadyRoutes, Zenon
      <3>4. /\ tab'[c][h] = i /\ i # 0
            /\ \A g \in Headers \ {h} : tab'[c][g] = tab[c][g]
        BY <1>1, <3>1, SessionsAssumption, ZenonT(30) DEF ConnectionsOK
      <3>5. Known(c)' = Known(c) \cup {h}
        BY <3>4 DEF Known
      <3>6. announced[c][h] = {}
        BY <2>2, ZenonT(30) DEF Synthesize, RouteInv, RoutesOK
      <3> QED
        BY <3>3, <3>4, <3>5, <3>6, Zenon
    <2> QED
      BY <2>1, <2>2, Zenon DEF RouteMonitoring
  <1>4. \A g \in Headers \ {h} : announced'[c][g] = announced[c][g]
    BY <1>1, SMT, Z3 DEF RouteMonitoring, ConnectionsOK
  <1>5. \/ /\ push'[c] = Pushing("announce", {tab'[c][h]}, {x})
           /\ announced'[c][h] = announced[c][h] \cup {x}
        \/ /\ push'[c] = Pushing("withdraw", {tab'[c][h]}, {x})
           /\ announced'[c][h] = announced[c][h] \ {x}
    BY <1>1 DEF RouteMonitoring, ConnectionsOK
  <1>6. /\ push'[c].kind \in {"announce", "withdraw"}
        /\ push'[c].ids = {tab'[c][h]}
        /\ announced'[c][h] = Applied(c, tab[c][h])'
    <2> DEFINE i == tab'[c][h]
    <2>1. /\ push'[c].ids = {i} /\ push'[c].pfx = {x}
          /\ \/ /\ push'[c].kind = "announce"
                /\ announced'[c][h] = active[i] \cup {x}
             \/ /\ push'[c].kind = "withdraw"
                /\ announced'[c][h] = active[i] \ {x}
      BY <1>3, <1>5 DEF Pushing
    <2>2. Applied(c, tab[c][h])' =
             IF push'[c].kind = "announce" THEN active[i] \cup {x}
             ELSE IF push'[c].kind = "withdraw" THEN active[i] \ {x}
             ELSE active[i]
      BY <1>2, <2>1, Zenon DEF Applied
    <2> QED
      BY <2>1, <2>2, ZenonT(30)
  <1>7. ASSUME NEW g \in Known(c)'
        PROVE  announced'[c][g] = Applied(c, tab[c][g])'
    <2>1. CASE g = h
      BY <1>6, <2>1, Zenon
    <2>2. CASE g # h
      <3>1. /\ g \in Known(c) /\ tab'[c][g] = tab[c][g]
            /\ tab[c][g] # tab'[c][h] /\ announced'[c][g] = announced[c][g]
        BY <1>3, <1>4, <2>2, Zenon DEF Known
      <3>2. announced[c][g] = active[tab[c][g]]
        BY <1>1, <3>1, ReadyRoutes, Zenon
      <3>3. Applied(c, tab[c][g])' = active[tab[c][g]]
        BY <1>2, <1>6, <3>1, Zenon DEF Applied
      <3> QED
        BY <3>1, <3>2, <3>3, Zenon
    <2> QED
      BY <2>1, <2>2, Zenon
  <1>8. RoutesOK(c)'
    BY <1>3, <1>4, <1>7, Zenon DEF RoutesOK, RouteInv
  <1>9. ASSUME NEW j \in Peers, active[j] # {}
        PROVE  HasRoutes(c, j)'
    <2>a. push[c].kind # "down"
      BY <1>1, IdleIs
    <2>b. HasRoutes(c, j)
      BY <1>1, <1>9, MyRoutes, Zenon
    <2>1. PICK g \in Known(c) : tab[c][g] = j
      BY <2>a, <2>b, Zenon DEF HasRoutes
    <2>2. \E k \in Known(c)' : tab'[c][k] = j
      <3>1. CASE g # h
        BY <1>3, <2>1, <3>1, Zenon DEF Known
      <3>2. CASE g = h
        <4>1. tab' = tab
          BY <2>1, <3>2, Zenon DEF RouteMonitoring, Synthesize
        <4> QED
          BY <1>3, <2>1, <4>1, Zenon
      <3> QED
        BY <3>1, <3>2
    <2> QED
      BY <1>1, <1>2, <2>2, ZenonT(30) DEF HasRoutes
  <1> QED
    BY <1>2, <1>8, <1>9, Zenon DEF RouteStep, RouteInv

LEMMA RibApplyRoutes ==
    ASSUME OwnInv, IdInv, RouteInv, ~Overlap, ~RetainAttrs, NEW c \in Conns,
           RibApply(c)
    PROVE  RouteStep(c)
  <1>1. /\ TypeOK /\ RibTypeOK /\ ConnectionsOK /\ PushShape(c) /\ PeersOK(c)
        /\ push[c].kind \in {"announce", "withdraw", "reappear", "down"}
        /\ push[c].ids \subseteq Peers
    BY Zenon DEF OwnInv, TypeOK, ConnectionsOK, ConnOK, IdInv, RibApply
  <1>2. Busy(c)
    BY <1>1, Zenon DEF PushShape, Busy
  <1>3. /\ at' = at /\ tab' = tab /\ announced' = announced
        /\ push'[c].kind = "none" /\ push'[c].ids = {}
    BY <1>1, Zenon DEF RibApply, ConnectionsOK, Idle
  <1>4. Known(c)' = Known(c)
    BY <1>3 DEF Known
  <1>5. \A h \in Headers \ Known(c) : announced[c][h] = {}
    BY Zenon DEF RouteInv, RoutesOK
  \* It is enough that the records become what was to be applied.
  <1>6. ASSUME at[c] = "up", \A i \in Peers : active'[i] = Applied(c, i),
               \A i \in Peers : active'[i] # {} =>
                   \E h \in Known(c) : tab[c][h] = i,
               \A i \in withdrawn' : active'[i] = {}
        PROVE  RouteStep(c)
    <2>1. \A h \in Known(c) : announced[c][h] = Applied(c, tab[c][h])
      BY <1>6, Zenon DEF RouteInv, RoutesOK
    <2>2. \A h \in Known(c) : tab[c][h] \in Peers
      BY <1>1, SMT, Z3 DEF Known, ConnectionsOK, Ids
    <2>3. \A i : Applied(c, i)' = active'[i]
      BY <1>3, SMT, Z3 DEF Applied
    <2>4. RoutesOK(c)'
      BY <1>3, <1>4, <1>5, <1>6, <2>1, <2>2, <2>3, SMT, Z3 DEF RoutesOK
    <2>5. \A i \in Peers : active'[i] # {} => HasRoutes(c, i)'
      BY <1>3, <1>4, <1>6, Zenon DEF HasRoutes
    <2> QED
      BY <1>6, <2>4, <2>5, Zenon DEF RouteStep
  <1>7. push[c].kind # "down" => \A i \in Peers : active[i] # {} =>
           \E h \in Known(c) : tab[c][h] = i
    BY <1>2, MyRoutes, Zenon DEF HasRoutes
  <1>8. CASE push[c].kind = "announce"
    <2>1. PICK h \in Known(c) : push[c].ids = {tab[c][h]}
      BY <1>1, <1>8, Zenon DEF PushShape
    <2> DEFINE i == tab[c][h]
    <2>2. i \in Peers /\ InsertActive(i, push[c].pfx) /\ at[c] = "up"
      BY <1>1, <1>8, <2>1, Zenon DEF RibApply, PushShape
    <2>3. /\ active'[i] = active[i] \cup push[c].pfx
          /\ \A j \in Peers \ {i} : active'[j] = active[j]
          /\ withdrawn' = withdrawn \ {i}
      BY <1>1, <2>2, Zenon DEF InsertActive, RibTypeOK
    <2>4. \A j \in Peers : active'[j] = Applied(c, j)
      BY <1>8, <2>1, <2>3, Zenon DEF Applied
    <2>5. \A j \in Peers : active'[j] # {} => \E g \in Known(c) : tab[c][g] = j
      BY <1>7, <1>8, <2>3, Zenon
    <2>6. \A j \in withdrawn' : active'[j] = {}
      BY <1>1, <2>3, Zenon DEF RouteInv, RibTypeOK
    <2> QED
      BY <1>6, <2>2, <2>4, <2>5, <2>6, Zenon
  <1>9. CASE push[c].kind = "withdraw"
    <2>1. PICK h \in Known(c) : push[c].ids = {tab[c][h]}
      BY <1>1, <1>9, Zenon DEF PushShape
    <2> DEFINE i == tab[c][h]
    <2>2. i \in Peers /\ InsertWithdrawn(i, push[c].pfx) /\ at[c] = "up"
      BY <1>1, <1>9, <2>1, Zenon DEF RibApply, PushShape
    <2>3. /\ active'[i] = active[i] \ push[c].pfx
          /\ \A j \in Peers \ {i} : active'[j] = active[j]
          /\ withdrawn' = withdrawn
      BY <1>1, <2>2, Zenon DEF InsertWithdrawn, RibTypeOK
    <2>4. \A j \in Peers : active'[j] = Applied(c, j)
      BY <1>9, <2>1, <2>3, Zenon DEF Applied
    <2>5. \A j \in Peers : active'[j] # {} => \E g \in Known(c) : tab[c][g] = j
      BY <1>7, <1>9, <2>3, Zenon
    <2>6. \A j \in withdrawn' : active'[j] = {}
      BY <1>1, <2>3, Zenon DEF RouteInv, RibTypeOK
    <2> QED
      BY <1>6, <2>2, <2>4, <2>5, <2>6, Zenon
  <1>10. CASE push[c].kind = "reappear"
    <2>1. at[c] = "up" /\ active' = active /\ withdrawn' \subseteq withdrawn
      BY <1>1, <1>10, Zenon DEF RibApply, PushShape, MarkIngressActive
    <2>2. \A j \in Peers : Applied(c, j) = active[j]
      BY <1>10, SMT, Z3 DEF Applied
    <2>3. \A j \in withdrawn' : active'[j] = {}
      BY <2>1, SMT, Z3 DEF RouteInv
    <2> QED
      BY <1>6, <1>7, <1>10, <2>1, <2>2, <2>3, Zenon
  <1>11. CASE push[c].kind = "down"
    <2>1. (at[c] \in {"up", "terminated"} /\ Known(c) = {}) \/ at[c] = "unmap"
      BY <1>1, <1>11, Zenon DEF PushShape
    <2>2. WithdrawForIngresses(push[c].ids)
      BY <1>11, Zenon DEF RibApply
    <2>3. \A j \in Peers :
             active'[j] = IF j \in push[c].ids THEN {} ELSE active[j]
      BY <2>2 DEF WithdrawForIngresses
    <2>4. \A j \in Peers : active[j] # {} => j \in push[c].ids
      BY <1>2, <2>1, MyRoutes, Zenon DEF HasRoutes
    <2>5. \A j \in Peers : active'[j] = {}
      BY <2>3, <2>4
    <2>6. withdrawn' \subseteq Peers
      BY <1>1, <2>2, Zenon DEF WithdrawForIngresses, RibTypeOK
    <2>7. RoutesOK(c)'
      BY <1>3, <1>4, <1>5, <2>1, Zenon DEF RoutesOK
    <2> QED
      BY <2>5, <2>6, <2>7 DEF RouteStep
  <1> QED
    BY <1>1, <1>8, <1>9, <1>10, <1>11, Zenon

LEMMA SweepRoutes ==
    ASSUME OwnInv, IdInv, RouteInv, Sweep
    PROVE  RouteInv'
  <1>1. /\ UNCHANGED connVars /\ RegisterOK /\ RibTypeOK /\ serial' = serial
        /\ serial \in Nat
    BY Zenon DEF OwnInv, TypeOK, RegisterOK, Sweep, GcSnapshot, GcPeers, GcStore,
       GcRouters
  <1>2. \A c \in Conns, i \in Peers : HasRoutes(c, i)' = HasRoutes(c, i)
    BY <1>1, SMT, Z3 DEF HasRoutes, connVars, Known
  <1>3. \A c \in Conns : /\ at'[c] = at[c] /\ Known(c)' = Known(c)
                         /\ tab'[c] = tab[c] /\ announced'[c] = announced[c]
                         /\ push'[c] = push[c]
    BY <1>1 DEF connVars, Known
  <1>4. CASE UNCHANGED ribVars
    <2>1. active' = active /\ withdrawn' = withdrawn
      BY <1>4 DEF ribVars
    <2>2. \A c \in Conns, i \in Peers : Applied(c, i)' = Applied(c, i)
      BY <1>3, <2>1, Zenon DEF Applied
    <2>3. \A c \in Conns : \A h \in Known(c) : tab[c][h] \in Peers
      BY SMT, Z3 DEF OwnInv, TypeOK, ConnectionsOK, Known, Ids
    <2>4. \A c \in Conns : RoutesOK(c)'
      BY <1>3, <2>2, <2>3 DEF RoutesOK, RouteInv
    <2>5. SweptGone'
      <3>1. CASE GcPeers
        <4>1. /\ gc'.peers = {i \in gc.peers : Reclaimable(i)}
              /\ \A i \in Peers : i \in gc'.peers => register'[i] = Absent
          BY <3>1 DEF GcPeers, OwnInv, TypeOK, SharedOK
        <4>2. \A i \in gc'.peers : i \in Peers /\ i < serial
          BY <1>1, <4>1, Zenon DEF OwnInv, TypeOK, SharedOK, RegisterOK, Reclaimable
        <4>3. Absent.state = "absent"
          BY DEF Absent
        <4> QED
          BY <1>1, <4>1, <4>2, <4>3, Zenon DEF SweptGone
      <3>2. CASE GcSnapshot \/ GcStore \/ GcRouters
        <4>a. SharedOK
          BY SMT, Z3 DEF OwnInv, TypeOK
        <4>b. GcSnapshot => gc'.at # "store"
          BY DEF GcSnapshot
        <4>c. GcStore \/ GcRouters => gc'.at # "store"
          BY <4>a, Zenon DEF GcStore, GcRouters, SharedOK
        <4>1. gc'.at # "store"
          BY <3>2, <4>b, <4>c
        <4> QED
          BY <4>1 DEF SweptGone
      <3> QED
        BY <3>1, <3>2 DEF Sweep
    <2> QED
      BY <1>2, <2>1, <2>4, <2>5, Zenon DEF RouteInv
  <1>5. CASE GcStore
    <2>1. /\ gc.at = "store" /\ RemoveForIngresses(gc.peers)
          /\ gc'.at # "store"
      BY <1>5 DEF GcStore, OwnInv, TypeOK, SharedOK
    <2>2. /\ \A i \in Peers : active'[i] = IF i \in gc.peers THEN {} ELSE active[i]
          /\ withdrawn' \subseteq withdrawn
      BY <2>1 DEF RemoveForIngresses
    <2>3. ASSUME NEW c \in Conns, at[c] = "up", NEW h \in Known(c)
          PROVE  tab[c][h] \in Peers \ gc.peers
      <3>1. PeersOK(c) /\ Held(c) = Known(c)
        BY <2>3 DEF OwnInv, ConnOK, Held
      <3>2. /\ tab[c][h] \in Peers
            /\ register[tab[c][h]].state = "connected"
        BY <3>1, Zenon DEF PeersOK
      <3> QED
        BY <2>1, <3>2, Zenon DEF RouteInv, SweptGone
    <2>4. ASSUME NEW c \in Conns
          PROVE  RoutesOK(c)'
      <3>2. RoutesOK(c)
        BY DEF RouteInv
      <3>3. at[c] = "up" => \A h \in Known(c) :
               announced'[c][h] = Applied(c, tab[c][h])'
        <4> SUFFICES ASSUME at[c] = "up", NEW h \in Known(c)
                     PROVE  announced'[c][h] = Applied(c, tab[c][h])'
          BY SMT, Z3
        <4>1. tab[c][h] \in Peers \ gc.peers
          BY <2>3
        <4>2. Applied(c, tab[c][h])' = Applied(c, tab[c][h])
          BY <1>3, <2>2, <4>1, ZenonT(30) DEF Applied
        <4> QED
          BY <1>3, <3>2, <4>2, Zenon DEF RoutesOK
      <3> QED
        BY <1>3, <3>2, <3>3, Zenon DEF RoutesOK
    <2>5. \A i \in Peers : active'[i] # {} => \E c \in Conns : HasRoutes(c, i)'
      BY <1>2, <2>2 DEF RouteInv
    <2>6. \A i \in withdrawn' : active'[i] = {}
      BY <1>1, <2>2, Zenon DEF RouteInv, RibTypeOK
    <2> QED
      BY <2>1, <2>4, <2>5, <2>6, Zenon DEF RouteInv, SweptGone
  <1> QED
    BY <1>4, <1>5, Zenon DEF Sweep, GcSnapshot, GcPeers, GcRouters

LEMMA InitRoutes == Init => RouteInv
  <1>1. Init => /\ \A c \in Conns : RoutesOK(c)
                /\ SweptGone
    BY DEF Init, RoutesOK, SweptGone
  <1>2. Init => \A i \in Peers : active[i] = {}
    BY Zenon DEF Init, RibInit
  <1>3. Init => withdrawn = {}
    BY DEF Init, RibInit
  <1> QED
    BY <1>1, <1>2, <1>3 DEF RouteInv

LEMMA NextRoutes ==
    ASSUME OwnInv, IdInv, RouteInv, ~Overlap, ~RetainAttrs, [Next]_vars
    PROVE  RouteInv'
  <1>1. ASSUME NEW c \in Conns, Accept(c) \/ Message(c) \/ Handler(c)
        PROVE  RouteInv'
    <2>1. RouteStep(c)
      <3>1. CASE Accept(c)
        BY <3>1, AcceptRoutes
      <3>2. CASE Rekey(c) \/ \E n \in Names : Initiate(c, n)
        BY <3>2, SetupRoutes
      <3>3. ASSUME NEW h \in Headers, PeerUp(c, h) PROVE RouteStep(c)
        BY <3>3, PeerUpRoutes, SMT, Z3
      <3>4. ASSUME NEW h \in Headers, NEW x \in Prefixes,
                   RouteMonitoring(c, h, x)
            PROVE  RouteStep(c)
        BY <3>4, RouteMonitoringRoutes
      <3>5. CASE PeerDown(c) \/ Termination(c)
        BY <3>5, DropPeersRoutes, SMT, Z3 DEF PeerDown, Termination
      <3>6. CASE \/ Close(c) \/ WithdrawAll(c) \/ Unmap(c)
                 \/ \E h \in Headers : Flip(c, h)
        BY <3>6, TeardownRoutes
      <3>7. CASE RibApply(c)
        BY <3>7, RibApplyRoutes
      <3> QED
        BY <1>1, <3>1, <3>2, <3>3, <3>4, <3>5, <3>6, <3>7, Zenon DEF Message, Handler
    <2> QED
      BY <1>1, <2>1, StepRoutes
  <1>2. CASE Sweep
    BY <1>2, SweepRoutes
  <1>3. CASE UNCHANGED vars
    <2>1. /\ at' = at /\ tab' = tab /\ push' = push /\ announced' = announced
          /\ active' = active /\ withdrawn' = withdrawn /\ gc' = gc
          /\ register' = register /\ serial' = serial
      BY <1>3, SMT, Z3 DEF vars, connVars, ribVars
    <2>2. \A c \in Conns : Known(c)' = Known(c)
      BY <2>1 DEF Known
    <2>3. \A c \in Conns, i \in Peers : HasRoutes(c, i)' = HasRoutes(c, i)
      BY <2>1, <2>2, Zenon DEF HasRoutes
    <2>4. \A c \in Conns : \A h \in Headers :
             Applied(c, tab[c][h])' = Applied(c, tab[c][h])
      BY <2>1, Zenon DEF Applied
    <2>5. \A c \in Conns : RoutesOK(c)'
      BY <2>1, <2>2, <2>4, Zenon DEF RoutesOK, RouteInv, Known
    <2>6. SweptGone'
      BY <2>1, Zenon DEF SweptGone, RouteInv
    <2> QED
      BY <2>1, <2>3, <2>5, <2>6, Zenon DEF RouteInv
  <1> QED
    BY <1>1, <1>2, <1>3 DEF Next

\* As long as a router's connections follow each other and withdrawn routes are
\* compacted, the RIB shows for every peer of a connection that is up the
\* routes announced on it, and none of an earlier connection's: whichever id a
\* peer claims, the records under it were withdrawn before.
THEOREM RoutesAreTheSessions ==
    ASSUME ~Overlap, ~RetainAttrs
    PROVE  Spec => []SessionRoutes
  <1> DEFINE Inv == OwnInv /\ IdInv /\ RouteInv
  <1>1. Init => Inv
    BY InitOwn, InitId, InitRoutes
  <1>2. Inv /\ [Next]_vars => Inv'
    BY NextOwn, NextId, NextRoutes
  <1>3. Inv => SessionRoutes
    <2> SUFFICES ASSUME Inv, NEW c \in Conns, NEW h \in Known(c), Reads(c)
                 PROVE  Visible(tab[c][h]) = announced[c][h]
      BY DEF SessionRoutes
    <2>1. announced[c][h] = active[tab[c][h]]
      BY ReadyRoutes, Zenon
    <2>2. tab[c][h] \in withdrawn => active[tab[c][h]] = {}
      BY DEF RouteInv
    <2> QED
      BY <2>1, <2>2, Zenon DEF Visible
  <1> QED
    BY <1>1, <1>2, <1>3, PTL DEF Spec
=============================================================================
