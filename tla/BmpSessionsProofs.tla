-------------------------- MODULE BmpSessionsProofs --------------------------
(***************************************************************************)
(* Proofs about BmpSessions, for any number of connections, ids, headers,  *)
(* names and prefixes: no two connections ever work with the same id, and  *)
(* an id somebody works with is in the register and Connected.             *)
(*                                                                         *)
(* Neither is inductive.  That a claim finds no id in use rests on what    *)
(* the entries of ids in use look like (Connected; a peer's with its       *)
(* header as the key, a provisional one without a name), that a new id is  *)
(* in use by nobody rests on the counter being ahead of the register, and  *)
(* that an update pushed into the RIB revives no foreign entry rests on    *)
(* its ids being those of the connection that pushes it.                   *)
(***************************************************************************)
EXTENDS BmpSessions, TLAPS

\* A connection with a provisional id, one with the id of its router, or both.
Unnamed(c) == at[c] \in {"init", "rekey"}
Named(c) == at[c] \in {"rekey", "up", "terminated"}

\* The headers whose peers a connection works with.
Held(c) ==
    IF at[c] = "up" THEN Known(c)
    ELSE IF at[c] = "closing" THEN toFlip[c] ELSE {}

\* The ids a connection works with, the provisional one included.
Uses(c) ==
    {i \in Peers :
        \/ Unnamed(c) /\ i = prov[c]
        \/ Named(c) /\ i = rid[c]
        \/ \E h \in Held(c) : i = tab[c][h]}

\* What their entries look like.
ProvisionalOK(c) ==
    Unnamed(c) =>
        /\ prov[c] \in Peers
        /\ register[prov[c]].kind = "router"
        /\ register[prov[c]].state = "unset"
        /\ register[prov[c]].key = "unset"
        /\ at[c] = "init" => rid[c] = prov[c]

RouterOK(c) ==
    Named(c) =>
        /\ rid[c] \in Peers
        /\ register[rid[c]].kind = "router"
        /\ register[rid[c]].state = "connected"
        /\ at[c] # "rekey" => prov[c] = rid[c]

PeersOK(c) ==
    /\ \A h \in Held(c) :
          /\ tab[c][h] \in Peers
          /\ register[tab[c][h]].kind = "peer"
          /\ register[tab[c][h]].key = h
          /\ register[tab[c][h]].state = "connected"
    /\ at[c] \in {"new", "init", "rekey", "terminated"} => Known(c) = {}

\* What can revive an entry is about ids of the connection that pushes it.
PushOK(c) ==
    push[c].kind \in {"announce", "reappear"} =>
        at[c] = "up" /\ push[c].ids \subseteq Uses(c)

ConnOK(c) == ProvisionalOK(c) /\ RouterOK(c) /\ PeersOK(c) /\ PushOK(c)

\* No two connections work with the same id.
Apart == \A c, d \in Conns : c # d => Uses(c) \cap Uses(d) = {}

OwnInv == TypeOK /\ (\A c \in Conns : ConnOK(c)) /\ Apart

-----------------------------------------------------------------------------
(***************************************************************************)
(* The register.                                                           *)
(***************************************************************************)

States == {"absent", "unset", "connected", "disconnected"}

\* Marking entries that exist leaves a register, and changes the state of
\* those entries only.
LEMMA MarkIs ==
    ASSUME RegisterOK, NEW S \in SUBSET Peers, NEW s \in States,
           \A i \in S : register[i].state # "absent",
           register' = Mark(S, s), serial' = serial
    PROVE  /\ RegisterOK'
           /\ \A i \in Peers \ S : register'[i] = register[i]
           /\ \A i \in S : /\ register'[i].state = s
                           /\ register'[i].kind = register[i].kind
                           /\ register'[i].key = register[i].key
  <1>1. \A i \in Peers : register'[i] =
           IF i \in S THEN [register[i] EXCEPT !.state = s] ELSE register[i]
    BY DEF Mark, WithState
  <1>2. register' \in [Peers -> Entries]
    <2>1. ASSUME NEW i \in Peers
          PROVE  register'[i] \in Entries
      <3>1. register[i] \in Entries
        BY DEF RegisterOK
      <3>2. [register[i] EXCEPT !.state = s] \in Entries
        BY <3>1 DEF Entries, States
      <3> QED
        BY <1>1, <3>1, <3>2
    <2> QED
      BY <2>1 DEF Mark
  <1>3. \A i \in S : /\ register'[i].state = s
                    /\ register'[i].kind = register[i].kind
                    /\ register'[i].key = register[i].key
    BY <1>1, ZenonT(30) DEF RegisterOK, Entries
  <1>4. RegisterOK'
    BY <1>1, <1>2 DEF RegisterOK
  <1> QED
    BY <1>1, <1>3, <1>4, Zenon

LEMMA MarkOne ==
    ASSUME RegisterOK, NEW i \in Peers, NEW s \in States,
           register[i].state # "absent",
           register' = Mark({i}, s), serial' = serial
    PROVE  /\ RegisterOK'
           /\ \A j \in Peers \ {i} : register'[j] = register[j]
           /\ register'[i].state = s
           /\ register'[i].kind = register[i].kind
           /\ register'[i].key = register[i].key
  <1> DEFINE S == {i}
  <1>1. S \in SUBSET Peers /\ i \in S /\ \A j \in S : j = i
    OBVIOUS
  <1>2. register' = Mark(S, s)
    OBVIOUS
  <1> HIDE DEF S
  <1> QED
    BY <1>1, <1>2, MarkIs, SMTT(30) DEF S

\* A claim or a registration gives an entry that was in nobody's use.
LEMMA ClaimIs ==
    ASSUME TypeOK, NEW i \in Peers, NEW r \in Ids, NEW h \in Headers,
           ClaimOrRegister(i, "peer", r, h)
    PROVE  /\ register' \in [Peers -> Entries]
           /\ serial' \in Nat \ {0}
           /\ \A j \in Peers : register'[j].state # "absent" => j < serial'
           /\ \A j \in Peers : j # i => register'[j] = register[j]
           /\ register'[i].kind = "peer" /\ register'[i].key = h
           /\ register'[i].state = "connected"
           /\ register[i].state # "connected"
           /\ register[i].kind = "router" => register[i].state = "absent"
  <1> USE SessionsAssumption
  <1>1. CASE i \in Claimable("peer", r, h) /\ UNCHANGED serial
    BY <1>1, Zenon DEF ClaimOrRegister, Claimable, TypeOK, RegisterOK, Entries, Ids
  <1>2. CASE i = serial /\ serial' = serial + 1
    BY <1>2 DEF ClaimOrRegister, TypeOK, RegisterOK, Entries, Ids
  <1> QED
    BY <1>1, <1>2, Zenon DEF ClaimOrRegister

LEMMA InitOwn == Init => OwnInv
  BY SessionsAssumption DEF Init, OwnInv, ConnOK, TypeOK, RegisterOK,
     ConnectionsOK, SharedOK, ProvisionalOK,
     RouterOK, PeersOK, PushOK, Apart, Uses, RibInit, RibTypeOK, Entries,
     Absent, Idle, Held, Known, Named, Unnamed, Steps, Ids

-----------------------------------------------------------------------------
(***************************************************************************)
(* A step of one connection, or of none.                                   *)
(***************************************************************************)

\* An id is in nobody's use if its entry is not Connected and not that of a
\* router without a name.
LEMMA NotInUse ==
    ASSUME OwnInv, NEW i \in Peers,
           register[i].state # "connected",
           \/ register[i].state # "unset"
           \/ register[i].kind # "router"
           \/ register[i].key # "unset"
    PROVE  \A d \in Conns : i \notin Uses(d)
  BY DEF OwnInv, ConnOK, ProvisionalOK, RouterOK, PeersOK, Uses

\* A connection C, if any, takes a step that changes the entries T only, and
\* these are used by no other connection.
LEMMA StepOwn ==
    ASSUME OwnInv, TypeOK', NEW C \in SUBSET Conns, NEW T \in SUBSET Peers,
           \A c, d \in C : c = d,
           \A i \in Peers \ T : register'[i] = register[i],
           \A d \in Conns \ C :
              /\ at'[d] = at[d] /\ prov'[d] = prov[d] /\ rid'[d] = rid[d]
              /\ tab'[d] = tab[d] /\ toFlip'[d] = toFlip[d]
              /\ push'[d] = push[d],
           \A d \in Conns \ C : Uses(d) \cap T = {},
           \A c \in C : Uses(c)' \subseteq Uses(c) \cup T,
           \A c \in C : ConnOK(c)'
    PROVE  OwnInv'
  <1>1. ASSUME NEW d \in Conns \ C
        PROVE  Uses(d)' = Uses(d)
    BY DEF Uses, Unnamed, Named, Held, Known
  <1>2. ASSUME NEW d \in Conns \ C
        PROVE  ConnOK(d)'
    <2>1. \A i \in Uses(d) : register'[i] = register[i]
      BY DEF Uses
    <2>2. ProvisionalOK(d)'
      BY <2>1 DEF OwnInv, ConnOK, ProvisionalOK, Uses, Unnamed
    <2>3. RouterOK(d)'
      BY <2>1, SMT, Z3 DEF OwnInv, ConnOK, RouterOK, Uses, Named
    <2>4. PeersOK(d)'
      BY <2>1 DEF OwnInv, ConnOK, PeersOK, Uses, Held, Known
    <2>5. PushOK(d)'
      BY <1>1 DEF OwnInv, ConnOK, PushOK
    <2> QED
      BY <2>2, <2>3, <2>4, <2>5 DEF ConnOK
  <1>3. Apart'
    <2> SUFFICES ASSUME NEW c \in Conns, NEW d \in Conns, c # d
                 PROVE  (Uses(c) \cap Uses(d))' = {}
      BY DEF Apart
    <2>1. CASE c \notin C /\ d \notin C
      BY <2>1, <1>1 DEF OwnInv, Apart
    <2>2. CASE c \in C /\ d \notin C
      BY <2>2, <1>1 DEF OwnInv, Apart
    <2>3. CASE c \notin C /\ d \in C
      BY <2>3, <1>1 DEF OwnInv, Apart
    <2> QED
      BY <2>1, <2>2, <2>3
  <1> QED
    BY <1>2, <1>3 DEF OwnInv

\* What c does leaves the other connections alone.
Others(c) ==
    \A d \in Conns \ {c} :
        /\ at'[d] = at[d] /\ prov'[d] = prov[d] /\ rid'[d] = rid[d]
        /\ tab'[d] = tab[d] /\ toFlip'[d] = toFlip[d] /\ push'[d] = push[d]

\* A step of c that changes entries T only, used by no other connection.
LEMMA ConnStep ==
    ASSUME OwnInv, TypeOK', NEW c \in Conns, NEW T \in SUBSET Peers,
           \A i \in Peers \ T : register'[i] = register[i],
           Others(c),
           \A d \in Conns \ {c} : Uses(d) \cap T = {},
           Uses(c)' \subseteq Uses(c) \cup T,
           ConnOK(c)'
    PROVE  OwnInv'
  BY StepOwn, {c} \in SUBSET Conns, Zenon DEF Others

\* Likewise for a single entry, and for none.
LEMMA ConnStepOne ==
    ASSUME OwnInv, TypeOK', NEW c \in Conns, NEW i \in Peers,
           \A j \in Peers \ {i} : register'[j] = register[j],
           Others(c),
           \A d \in Conns \ {c} : i \notin Uses(d),
           Uses(c)' \subseteq Uses(c) \cup {i},
           ConnOK(c)'
    PROVE  OwnInv'
  <1> DEFINE T == {i}
  <1>1. /\ T \in SUBSET Peers
        /\ \A j \in Peers \ T : register'[j] = register[j]
        /\ \A d \in Conns \ {c} : Uses(d) \cap T = {}
        /\ Uses(c)' \subseteq Uses(c) \cup T
    OBVIOUS
  <1> HIDE DEF T
  <1> QED
    BY <1>1, ConnStep

LEMMA ConnStepNone ==
    ASSUME OwnInv, TypeOK', NEW c \in Conns, register' = register, Others(c),
           Uses(c)' \subseteq Uses(c), ConnOK(c)'
    PROVE  OwnInv'
  <1> DEFINE T == {}
  <1>1. /\ T \in SUBSET Peers
        /\ \A j \in Peers \ T : register'[j] = register[j]
        /\ \A d \in Conns \ {c} : Uses(d) \cap T = {}
        /\ Uses(c)' \subseteq Uses(c) \cup T
    OBVIOUS
  <1> HIDE DEF T
  <1> QED
    BY <1>1, ConnStep

\* A step of no connection that changes entries T only, used by nobody.
LEMMA NobodyStep ==
    ASSUME OwnInv, TypeOK', NEW T \in SUBSET Peers, UNCHANGED connVars,
           \A i \in Peers \ T : register'[i] = register[i],
           \A d \in Conns : Uses(d) \cap T = {}
    PROVE  OwnInv'
  <1> DEFINE C == {}
  <1>1. C \in SUBSET Conns /\ \A c \in C : FALSE
    OBVIOUS
  <1>2. \A d \in Conns :
           /\ at'[d] = at[d] /\ prov'[d] = prov[d] /\ rid'[d] = rid[d]
           /\ tab'[d] = tab[d] /\ toFlip'[d] = toFlip[d] /\ push'[d] = push[d]
    BY DEF connVars
  <1> HIDE DEF C
  <1> QED
    BY <1>1, <1>2, StepOwn

\* The entries of ids in use exist, and those ids are ids.
LEMMA UsedExist ==
    ASSUME OwnInv, NEW c \in Conns
    PROVE  /\ \A i \in Uses(c) : i \in Peers /\ register[i].state # "absent"
           /\ at[c] \in {"init", "up", "terminated"} => prov[c] \in Uses(c)
           /\ Named(c) => rid[c] \in Uses(c)
           /\ Unnamed(c) => prov[c] \in Uses(c)
           /\ \A h \in Held(c) : tab[c][h] \in Uses(c)
  <1>1. ProvisionalOK(c) /\ RouterOK(c) /\ PeersOK(c)
    BY DEF OwnInv, ConnOK
  <1>2. Named(c) => rid[c] \in Uses(c)
    BY <1>1 DEF RouterOK, Uses
  <1>3. Unnamed(c) => prov[c] \in Uses(c)
    BY <1>1 DEF ProvisionalOK, Uses
  <1>4. \A h \in Held(c) : tab[c][h] \in Uses(c)
    BY <1>1, Zenon DEF PeersOK, Uses
  <1>5. at[c] \in {"init", "up", "terminated"} => prov[c] \in Uses(c)
    BY <1>1, <1>2, <1>3 DEF RouterOK, Named, Unnamed
  <1>6. \A i \in Uses(c) : i \in Peers /\ register[i].state # "absent"
    BY <1>1, Zenon DEF ProvisionalOK, RouterOK, PeersOK, Uses
  <1> QED
    BY <1>2, <1>3, <1>4, <1>5, <1>6

-----------------------------------------------------------------------------
(***************************************************************************)
(* The actions.                                                            *)
(***************************************************************************)

LEMMA AcceptOwn ==
    ASSUME OwnInv, NEW c \in Conns, Accept(c)
    PROVE  OwnInv'
  <1>1. TypeOK
    BY DEF OwnInv
  <1>2. serial \in Peers /\ register[serial].state = "absent"
    BY <1>1, SessionsAssumption DEF Accept, TypeOK, RegisterOK, Entries
  <1>3. TypeOK'
    <2>1. RegisterOK'
      BY <1>1, <1>2, SessionsAssumption
      DEF Accept, TypeOK, RegisterOK, Entries, Ids, Nameless
    <2>2. RibTypeOK' /\ ConnectionsOK' /\ SharedOK'
      BY <1>1, <1>2, Zenon DEF Accept, TypeOK, RibTypeOK, ConnectionsOK, SharedOK,
                        ribVars, Ids, Steps
    <2> QED
      BY <2>1, <2>2 DEF TypeOK
  <1>4. \A d \in Conns \ {c} : serial \notin Uses(d)
    BY <1>2, NotInUse
  <1>5. Others(c) /\ \A i \in Peers \ {serial} : register'[i] = register[i]
    BY <1>1 DEF Accept, Others, TypeOK, ConnectionsOK, RegisterOK
  <1>6. /\ at'[c] = "init" /\ rid'[c] = serial /\ prov'[c] = serial
        /\ tab' = tab /\ push' = push /\ toFlip' = toFlip
        /\ register'[serial] = Nameless
    BY <1>1, <1>2 DEF Accept, TypeOK, ConnectionsOK, RegisterOK
  <1>7. Uses(c)' \subseteq Uses(c) \cup {serial}
    BY <1>6, SMT, Z3 DEF Uses, Unnamed, Named, Held
  <1>8. ConnOK(c)'
    BY <1>2, <1>6 DEF OwnInv, ConnOK, ProvisionalOK, RouterOK, PeersOK, PushOK,
       Unnamed, Named, Held, Known, Nameless, Accept
  <1> QED
    BY <1>2, <1>3, <1>4, <1>5, <1>7, <1>8, ConnStepOne

LEMMA InitiateOwn ==
    ASSUME OwnInv, NEW c \in Conns, NEW n \in Names, Initiate(c, n)
    PROVE  OwnInv'
  <1>1. TypeOK /\ ConnOK(c) /\ at[c] = "init"
    BY DEF OwnInv, Initiate
  <1>2. /\ prov[c] \in Peers /\ rid[c] = prov[c]
        /\ register[prov[c]].kind = "router"
        /\ register[prov[c]].state = "unset"
        /\ register[prov[c]].key = "unset"
        /\ Known(c) = {}
        /\ push[c].kind \notin {"announce", "reappear"}
    BY <1>1, Zenon DEF ConnOK, ProvisionalOK, PeersOK, PushOK, Unnamed
  <1>3. prov' = prov /\ tab' = tab /\ push' = push /\ toFlip' = toFlip
    BY DEF Initiate
  <1>4. RibTypeOK' /\ SharedOK'
    BY <1>1, Zenon DEF Initiate, TypeOK, RibTypeOK, SharedOK, ribVars
  <1>5. CASE Claimable("router", 0, n) = {}
    <2>1. /\ register' = [register EXCEPT ![rid[c]].state = "connected",
                                          ![rid[c]].key = n]
          /\ at' = [at EXCEPT ![c] = "up"] /\ rid' = rid /\ serial' = serial
      BY <1>5, Zenon DEF Initiate
    <2>2. RegisterOK'
      BY <1>1, <1>2, <2>1 DEF TypeOK, RegisterOK, Entries
    <2>3. ConnectionsOK'
      BY <1>1, <2>1, Zenon DEF TypeOK, ConnectionsOK, Steps, Initiate
    <2>4. TypeOK'
      BY <1>4, <2>2, <2>3 DEF TypeOK
    <2>5. Others(c)
      BY <1>1, <1>3, <2>1 DEF Others, TypeOK, ConnectionsOK
    <2>6. /\ at'[c] = "up"
          /\ register'[rid[c]].kind = "router"
          /\ register'[rid[c]].state = "connected"
      BY <1>1, <1>2, <2>1 DEF TypeOK, ConnectionsOK, RegisterOK, Entries
    <2>7. Uses(c)' \subseteq Uses(c) \cup {rid[c]}
      BY <1>2, <1>3, <2>1, <2>6, Zenon DEF Uses, Unnamed, Named, Held, Known
    <2>8. ConnOK(c)'
      BY <1>2, <1>3, <2>1, <2>6, Zenon DEF ConnOK, ProvisionalOK, RouterOK, PeersOK,
         PushOK, Unnamed, Named, Held, Known
    <2>9. \A d \in Conns \ {c} : rid[c] \notin Uses(d)
      BY <1>1, <1>2, UsedExist, Zenon DEF OwnInv, Apart
    <2>10. \A i \in Peers \ {rid[c]} : register'[i] = register[i]
      BY <1>1, <2>1, Zenon DEF TypeOK, RegisterOK
    <2> QED
      BY <1>2, <2>4, <2>5, <2>7, <2>8, <2>9, <2>10, ConnStepOne, Zenon
  <1>6. CASE Claimable("router", 0, n) # {}
    <2>1. PICK i \in Claimable("router", 0, n) :
             /\ register' = Mark({i}, "connected")
             /\ rid' = [rid EXCEPT ![c] = i]
             /\ at' = [at EXCEPT ![c] = "rekey"]
      BY <1>6, Zenon DEF Initiate
    <2>2. /\ i \in Peers /\ register[i].state \notin {"absent", "connected"}
          /\ register[i].kind = "router" /\ register[i].key = n
          /\ n # "unset"
      BY SessionsAssumption DEF Claimable
    <2>3. /\ RegisterOK'
          /\ \A j \in Peers \ {i} : register'[j] = register[j]
          /\ register'[i].state = "connected" /\ register'[i].kind = "router"
      <3>1. "connected" \in States /\ RegisterOK /\ serial' = serial
        BY <1>1 DEF States, TypeOK, Initiate
      <3> QED
        BY <3>1, <2>1, <2>2, MarkOne, Zenon
    <2>4. ConnectionsOK'
      BY <1>1, <2>1, <2>2, Zenon DEF TypeOK, ConnectionsOK, Steps, Ids, Initiate
    <2>5. TypeOK'
      BY <1>4, <2>3, <2>4 DEF TypeOK
    <2>6. Others(c)
      BY <1>1, <1>3, <2>1 DEF Others, TypeOK, ConnectionsOK
    <2>7. at'[c] = "rekey" /\ rid'[c] = i
      BY <1>1, <2>1 DEF TypeOK, ConnectionsOK
    <2>8. Uses(c)' \subseteq Uses(c) \cup {i}
      BY <1>1, <1>2, <1>3, <2>7, Zenon DEF Uses, Unnamed, Named, Held, Known
    <2>9. ConnOK(c)'
      BY <1>2, <1>3, <2>2, <2>3, <2>7, Zenon DEF ConnOK, ProvisionalOK, RouterOK,
         PeersOK, PushOK, Unnamed, Named, Held, Known
    <2>10. \A d \in Conns \ {c} : i \notin Uses(d)
      BY <2>2, NotInUse
    <2> QED
      BY <2>2, <2>3, <2>5, <2>6, <2>8, <2>9, <2>10, ConnStepOne, Zenon
  <1> QED
    BY <1>5, <1>6

LEMMA RekeyOwn ==
    ASSUME OwnInv, NEW c \in Conns, Rekey(c)
    PROVE  OwnInv'
  <1>1. TypeOK /\ ConnOK(c) /\ at[c] = "rekey"
    BY DEF OwnInv, Rekey
  <1>2. /\ prov[c] \in Peers /\ rid[c] \in Peers
        /\ register[prov[c]].state = "unset"
        /\ register[rid[c]].kind = "router"
        /\ register[rid[c]].state = "connected"
        /\ Known(c) = {}
    BY <1>1, Zenon DEF ConnOK, ProvisionalOK, RouterOK, PeersOK, Unnamed, Named
  <1>3. /\ register' = [register EXCEPT ![prov[c]] = Absent]
        /\ tab' = tab /\ rid' = rid /\ toFlip' = toFlip /\ serial' = serial
        /\ at'[c] = "up" /\ prov'[c] = rid[c]
        /\ push'[c] = Pushing("reappear", {rid[c]}, {})
        /\ Others(c)
    BY <1>1 DEF Rekey, Others, TypeOK, ConnectionsOK
  <1>4. TypeOK'
    <2>1. RegisterOK'
      BY <1>1, <1>3, Zenon DEF TypeOK, RegisterOK, Entries, Absent, Ids
    <2>2. ConnectionsOK'
      BY <1>1, <1>2, Zenon DEF Rekey, TypeOK, ConnectionsOK, Steps, Ids, Pushing
    <2>3. RibTypeOK' /\ SharedOK'
      BY <1>1, Zenon DEF Rekey, TypeOK, RibTypeOK, SharedOK, ribVars
    <2> QED
      BY <2>1, <2>2, <2>3 DEF TypeOK
  <1>5. /\ \A i \in Peers \ {prov[c]} : register'[i] = register[i]
        /\ register'[rid[c]] = register[rid[c]]
    BY <1>1, <1>2, <1>3, Zenon DEF TypeOK, RegisterOK
  <1>6. Uses(c)' = {rid[c]} /\ rid[c] \in Uses(c)
    BY <1>1, <1>2, <1>3, Zenon DEF Uses, Unnamed, Named, Held, Known
  <1>7. ConnOK(c)'
    BY <1>2, <1>3, <1>5, <1>6, SMT, Z3 DEF ConnOK, ProvisionalOK, RouterOK, PeersOK,
       PushOK, Unnamed, Named, Held, Known, Pushing
  <1>8. \A d \in Conns \ {c} : prov[c] \notin Uses(d)
    BY <1>1, UsedExist DEF OwnInv, Apart, Unnamed
  <1> QED
    BY <1>2, <1>3, <1>4, <1>5, <1>6, <1>7, <1>8, ConnStepOne, Zenon

\* The connection c gets a peer state for h with an id claimed or registered,
\* and pushes at most an update about that id.
LEMMA NewPeer ==
    ASSUME OwnInv, TypeOK', NEW c \in Conns, NEW h \in Headers, NEW i \in Peers,
           at[c] = "up", h \notin Known(c),
           ClaimOrRegister(i, "peer", rid[c], h),
           tab' = [tab EXCEPT ![c][h] = i],
           at' = at, rid' = rid, prov' = prov, toFlip' = toFlip,
           \A d \in Conns \ {c} : push'[d] = push[d],
           push'[c].ids \subseteq {i}
    PROVE  OwnInv'
  <1>1. TypeOK /\ ConnOK(c) /\ rid[c] \in Ids
    BY Zenon DEF OwnInv, TypeOK, ConnectionsOK
  <1>2. /\ \A j \in Peers : j # i => register'[j] = register[j]
        /\ register'[i].kind = "peer" /\ register'[i].key = h
        /\ register'[i].state = "connected"
        /\ register[i].state # "connected"
        /\ register[i].kind = "router" => register[i].state = "absent"
    BY <1>1, ClaimIs, Zenon
  <1>3. \A d \in Conns : i \notin Uses(d)
    BY <1>2, NotInUse
  <1>4. /\ tab'[c][h] = i /\ i # 0
        /\ \A g \in Headers : g # h => tab'[c][g] = tab[c][g]
        /\ \A d \in Conns \ {c} : tab'[d] = tab[d]
    BY <1>1, SessionsAssumption, ZenonT(30) DEF TypeOK, ConnectionsOK
  <1>5. Held(c)' = Held(c) \cup {h} /\ Held(c) = Known(c)
    BY <1>4 DEF Held, Known
  <1>6. Uses(c)' = Uses(c) \cup {i}
    BY <1>4, <1>5 DEF Uses, Unnamed, Named, Known
  <1>7. ConnOK(c)'
    <2>1. ProvisionalOK(c)'
      BY DEF ProvisionalOK, Unnamed
    <2>2. RouterOK(c)'
      BY <1>1, <1>2, Zenon DEF ConnOK, RouterOK, Named
    <2>3. PeersOK(c)'
      BY <1>1, <1>2, <1>4, <1>5 DEF ConnOK, PeersOK, Known
    <2>4. PushOK(c)'
      BY <1>6 DEF PushOK
    <2> QED
      BY <2>1, <2>2, <2>3, <2>4 DEF ConnOK
  <1>8. /\ Others(c)
        /\ \A d \in Conns \ {c} : i \notin Uses(d)
        /\ \A j \in Peers \ {i} : register'[j] = register[j]
    BY <1>2, <1>3, <1>4, Zenon DEF Others
  <1> QED
    BY <1>6, <1>7, <1>8, ConnStepOne

LEMMA PeerUpOwn ==
    ASSUME OwnInv, NEW c \in Conns, NEW h \in Headers, PeerUp(c, h)
    PROVE  OwnInv'
  <1>1. TypeOK /\ rid[c] \in Ids
    BY DEF OwnInv, TypeOK, ConnectionsOK
  <1>2. PICK i \in Peers :
           /\ ClaimOrRegister(i, "peer", rid[c], h)
           /\ tab' = [tab EXCEPT ![c][h] = i]
           /\ push' = IF register[i].state = "absent" THEN push
                      ELSE [push EXCEPT ![c] = Pushing("reappear", {i}, {})]
    BY Zenon DEF PeerUp
  <1>3. /\ at[c] = "up" /\ push[c] = Idle /\ h \notin Known(c)
        /\ at' = at /\ rid' = rid /\ prov' = prov /\ toFlip' = toFlip
        /\ announced' = announced
    BY SMT, Z3 DEF PeerUp, Reads
  <1>4. /\ push' \in [Conns -> [kind : {"none", "announce", "withdraw",
                                       "reappear", "down"},
                               ids : SUBSET Peers, pfx : SUBSET Prefixes]]
        /\ push'[c].ids \subseteq {i}
        /\ \A d \in Conns \ {c} : push'[d] = push[d]
    <2>1. ConnectionsOK
      BY <1>1, SMT, Z3 DEF TypeOK
    <2> QED
      BY <1>2, <1>3, <2>1 DEF ConnectionsOK, Pushing, Idle
  <1>5. tab' \in [Conns -> [Headers -> Ids]]
    BY <1>1, <1>2 DEF TypeOK, ConnectionsOK, Ids
  <1>6. RegisterOK'
    BY <1>1, <1>2, ClaimIs, Zenon DEF RegisterOK
  <1>7. RibTypeOK' /\ ConnectionsOK' /\ SharedOK'
    BY <1>1, <1>3, <1>4, <1>5, Zenon
    DEF PeerUp, TypeOK, RibTypeOK, ConnectionsOK, SharedOK, ribVars
  <1>8. TypeOK'
    BY <1>6, <1>7 DEF TypeOK
  <1> QED
    BY <1>2, <1>3, <1>4, <1>8, NewPeer, Zenon

LEMMA RouteMonitoringOwn ==
    ASSUME OwnInv, NEW c \in Conns, NEW h \in Headers, NEW x \in Prefixes,
           RouteMonitoring(c, h, x)
    PROVE  OwnInv'
  <1>1. TypeOK /\ ConnOK(c) /\ rid[c] \in Ids
    BY DEF OwnInv, TypeOK, ConnectionsOK
  <1>2. /\ at[c] = "up"
        /\ at' = at /\ rid' = rid /\ prov' = prov /\ toFlip' = toFlip
    BY DEF RouteMonitoring, Reads
  <1>3. PICK k \in {"announce", "withdraw"} :
           push' = [push EXCEPT ![c] = Pushing(k, {tab'[c][h]}, {x})]
    BY DEF RouteMonitoring
  <1>4. announced' \in [Conns -> [Headers -> SUBSET Prefixes]]
    <2>1. PICK S \in SUBSET Prefixes :
             announced' = [announced EXCEPT ![c][h] = S]
      <3>1. announced[c][h] \in SUBSET Prefixes
        BY <1>1 DEF TypeOK, ConnectionsOK
      <3>2. \/ announced' = [announced EXCEPT ![c][h] = announced[c][h] \cup {x}]
            \/ announced' = [announced EXCEPT ![c][h] = announced[c][h] \ {x}]
        BY Zenon DEF RouteMonitoring
      <3> QED
        BY <3>1, <3>2
    <2> QED
      BY <1>1, <2>1 DEF TypeOK, ConnectionsOK
  <1>5. RibTypeOK' /\ SharedOK'
    BY <1>1, Zenon DEF RouteMonitoring, TypeOK, RibTypeOK, SharedOK, ribVars
  <1>6. ASSUME NEW i \in Peers, tab'[c][h] = i, RegisterOK',
               tab' \in [Conns -> [Headers -> Ids]]
        PROVE  /\ TypeOK' /\ push'[c].ids = {i}
               /\ \A d \in Conns \ {c} : push'[d] = push[d]
    <2>1. /\ push'[c].ids = {i}
          /\ \A d \in Conns \ {c} : push'[d] = push[d]
          /\ push' \in [Conns -> [kind : {"none", "announce", "withdraw",
                                          "reappear", "down"},
                                  ids : SUBSET Peers, pfx : SUBSET Prefixes]]
      BY <1>1, <1>3, <1>6, Zenon DEF TypeOK, ConnectionsOK, Pushing
    <2>2. ConnectionsOK'
      BY <1>1, <1>2, <1>4, <1>6, <2>1, Zenon DEF TypeOK, ConnectionsOK
    <2> QED
      BY <1>5, <1>6, <2>1, <2>2 DEF TypeOK
  <1>7. CASE h \in Known(c) /\ UNCHANGED <<register, serial, tab>>
    <2>1. tab[c][h] \in Peers /\ Held(c)' = Held(c) /\ Held(c) = Known(c)
      BY <1>1, <1>2, <1>7, Zenon DEF ConnOK, PeersOK, Held, Known
    <2>2. /\ TypeOK' /\ push'[c].ids = {tab[c][h]}
          /\ \A d \in Conns \ {c} : push'[d] = push[d]
      BY <1>1, <1>6, <1>7, <2>1, Zenon DEF TypeOK, RegisterOK, ConnectionsOK
    <2>3. Uses(c)' = Uses(c) /\ tab[c][h] \in Uses(c)
      BY <1>2, <1>7, <2>1, Zenon DEF Uses, Unnamed, Named
    <2>4. ConnOK(c)'
      BY <1>1, <1>2, <1>7, <2>1, <2>2, <2>3, ZenonT(30) DEF ConnOK, ProvisionalOK,
         RouterOK, PeersOK, PushOK, Unnamed, Named, Known
    <2>5. Others(c)
      BY <1>2, <1>7, <2>2 DEF Others
    <2> QED
      BY <1>7, <2>2, <2>3, <2>4, <2>5, ConnStepNone
  <1>8. CASE Synthesize(c, h)
    <2>1. PICK i \in Peers : /\ ClaimOrRegister(i, "peer", rid[c], h)
                             /\ tab' = [tab EXCEPT ![c][h] = i]
      BY <1>8, Zenon DEF Synthesize
    <2>2. h \notin Known(c) /\ tab'[c][h] = i
      BY <1>1, <1>8, <2>1, Zenon DEF Synthesize, TypeOK, ConnectionsOK
    <2>3. RegisterOK' /\ tab' \in [Conns -> [Headers -> Ids]]
      <3>1. RegisterOK'
        BY <1>1, <2>1, ClaimIs, SMT, Z3 DEF RegisterOK
      <3> QED
        BY <1>1, <2>1, <3>1 DEF TypeOK, ConnectionsOK, Ids
    <2>4. /\ TypeOK' /\ push'[c].ids \subseteq {i}
          /\ \A d \in Conns \ {c} : push'[d] = push[d]
      BY <1>6, <2>2, <2>3
    <2> QED
      BY <1>2, <2>1, <2>2, <2>4, NewPeer, Zenon
  <1> QED
    BY <1>7, <1>8 DEF RouteMonitoring

\* Peer Down and Termination, which differ in where they leave the connection.
LEMMA DropPeersOwn ==
    ASSUME OwnInv, NEW c \in Conns, DropPeers(c),
           at' = at \/ at' = [at EXCEPT ![c] = "terminated"]
    PROVE  OwnInv'
  <1> DEFINE T == IdsOf(c, Known(c))
  <1>1. TypeOK /\ ConnOK(c) /\ at[c] = "up"
    BY DEF OwnInv, DropPeers, Reads
  <1>a. PeersOK(c) /\ Held(c) = Known(c)
    BY <1>1 DEF ConnOK, Held
  <1>b. ASSUME NEW i \in T
        PROVE  /\ i \in Peers /\ i \in Uses(c)
               /\ register[i].state # "absent" /\ register[i].kind = "peer"
    <2>1. PICK h \in Known(c) : i = tab[c][h]
      BY DEF IdsOf
    <2> QED
      BY <1>a, <2>1, Zenon DEF PeersOK, Uses
  <1>2. T \in SUBSET Peers /\ \A i \in T : i \in Uses(c)
    BY <1>b
  <1>3. \A i \in T : register[i].state # "absent" /\ register[i].kind = "peer"
    BY <1>b
  <1>4. /\ tab'[c] = [h \in Headers |-> 0]
        /\ at'[c] \in {"up", "terminated"}
        /\ rid' = rid /\ prov' = prov /\ toFlip' = toFlip
        /\ push'[c].kind \in {"none", "down"}
        /\ Others(c)
    BY <1>1, Zenon DEF DropPeers, Others, TypeOK, ConnectionsOK, Idle, Pushing
  <1>5. RibTypeOK' /\ SharedOK' /\ ConnectionsOK'
    <2>1. push' \in [Conns -> [kind : {"none", "announce", "withdraw",
                                       "reappear", "down"},
                               ids : SUBSET Peers, pfx : SUBSET Prefixes]]
      BY <1>1, <1>2, Zenon DEF DropPeers, TypeOK, ConnectionsOK, Idle, Pushing
    <2>2. /\ tab' \in [Conns -> [Headers -> Ids]]
          /\ announced' \in [Conns -> [Headers -> SUBSET Prefixes]]
      BY <1>1 DEF DropPeers, TypeOK, ConnectionsOK, Ids
    <2> QED
      BY <1>1, <2>1, <2>2 DEF DropPeers, TypeOK, ConnectionsOK, RibTypeOK,
         SharedOK, ribVars, Steps
  <1>6. RegisterOK /\ "disconnected" \in States /\ serial' = serial
        /\ register' = Mark(T, "disconnected")
    BY <1>1 DEF DropPeers, TypeOK, States
  <1>7. Known(c)' = {} /\ Held(c)' = {}
    BY <1>4, SMT, Z3 DEF Known, Held
  <1>8. Uses(c)' \subseteq Uses(c)
    BY <1>1, <1>4, <1>7, SMT, Z3 DEF Uses, Unnamed, Named
  <1> HIDE DEF T
  <1>9. RegisterOK' /\ \A i \in Peers \ T : register'[i] = register[i]
    BY <1>2, <1>3, <1>6, MarkIs
  <1>10. ConnOK(c)'
    <2>1. /\ rid[c] \in Peers /\ register[rid[c]].kind = "router"
          /\ register[rid[c]].state = "connected" /\ prov[c] = rid[c]
      BY <1>1 DEF ConnOK, RouterOK, Named
    <2>2. register'[rid[c]] = register[rid[c]]
      BY <1>3, <1>9, <2>1
    <2> QED
      BY <1>4, <1>7, <2>1, <2>2, Zenon DEF ConnOK, ProvisionalOK, RouterOK, PeersOK,
         PushOK, Unnamed, Named
  <1>11. \A d \in Conns \ {c} : Uses(d) \cap T = {}
    BY <1>2 DEF OwnInv, Apart
  <1>12. TypeOK'
    BY <1>5, <1>9 DEF TypeOK
  <1> QED
    BY <1>2, <1>4, <1>8, <1>9, <1>10, <1>11, <1>12, ConnStep, Zenon

LEMMA CloseOwn ==
    ASSUME OwnInv, NEW c \in Conns, Close(c)
    PROVE  OwnInv'
  <1>1. TypeOK /\ ConnOK(c) /\ at[c] \in {"init", "up", "terminated"}
    BY DEF OwnInv, Close
  <1>2. /\ prov[c] \in Uses(c) /\ prov[c] \in Peers
        /\ register[prov[c]].state # "absent"
    BY <1>1, UsedExist
  <1>3. register[prov[c]].kind = "router"
    BY <1>1 DEF ConnOK, ProvisionalOK, RouterOK, Unnamed, Named
  <1>4. /\ at'[c] = "closing" /\ toFlip'[c] = Known(c) /\ tab' = tab
        /\ push' = push /\ push[c] = Idle /\ Others(c)
    BY <1>1 DEF Close, Others, TypeOK, ConnectionsOK
  <1>5. RibTypeOK' /\ SharedOK' /\ ConnectionsOK'
    BY <1>1, Zenon DEF Close, TypeOK, ConnectionsOK, RibTypeOK, SharedOK, ribVars,
       Steps, Known
  <1>6. /\ RegisterOK'
        /\ \A i \in Peers \ {prov[c]} : register'[i] = register[i]
    <2>1. RegisterOK /\ "disconnected" \in States /\ serial' = serial
          /\ register' = Mark({prov[c]}, "disconnected")
      BY <1>1 DEF Close, TypeOK, States
    <2> QED
      BY <1>2, <2>1, MarkOne
  <1>7. Held(c)' = Known(c) /\ \A h \in Known(c) : h \in Held(c)
    BY <1>1, <1>4, Zenon DEF Held, ConnOK, PeersOK
  <1>8. Uses(c)' \subseteq Uses(c)
    BY <1>4, <1>7 DEF Uses, Unnamed, Named
  <1>9. ConnOK(c)'
    <2>1. ProvisionalOK(c)' /\ RouterOK(c)'
      BY <1>4 DEF ProvisionalOK, RouterOK, Unnamed, Named
    <2>2. PushOK(c)'
      BY <1>4, SMT, Z3 DEF PushOK, Idle
    <2>3. PeersOK(c)'
      <3>1. ASSUME NEW h \in Known(c)
            PROVE  /\ tab[c][h] \in Peers /\ register[tab[c][h]].kind = "peer"
                   /\ register[tab[c][h]].key = h
                   /\ register[tab[c][h]].state = "connected"
        BY <1>1, <1>7, Zenon DEF ConnOK, PeersOK
      <3>2. \A h \in Known(c) : register'[tab[c][h]] = register[tab[c][h]]
        BY <1>3, <1>6, <3>1, Zenon
      <3> QED
        BY <1>4, <1>7, <3>1, <3>2 DEF PeersOK
    <2> QED
      BY <2>1, <2>2, <2>3, SMT, Z3 DEF ConnOK
  <1>10. \A d \in Conns \ {c} : prov[c] \notin Uses(d)
    BY <1>2, SMT, Z3 DEF OwnInv, Apart
  <1>11. TypeOK'
    BY <1>5, <1>6 DEF TypeOK
  <1> QED
    BY <1>2, <1>4, <1>6, <1>8, <1>9, <1>10, <1>11, ConnStepOne, Zenon

LEMMA FlipOwn ==
    ASSUME OwnInv, NEW c \in Conns, NEW h \in Headers, Flip(c, h)
    PROVE  OwnInv'
  <1> DEFINE i == tab[c][h]
  <1>1. TypeOK /\ ConnOK(c) /\ at[c] = "closing" /\ h \in toFlip[c]
    BY DEF OwnInv, Flip
  <1>2. Held(c) = toFlip[c]
    BY <1>1 DEF Held
  <1>3. /\ i \in Peers /\ i \in Uses(c)
        /\ register[i].state # "absent" /\ register[i].key = h
    BY <1>1, <1>2, Zenon DEF ConnOK, PeersOK, Uses
  <1>4. /\ at' = at /\ toFlip'[c] = toFlip[c] \ {h} /\ tab' = tab
        /\ push' = push /\ Others(c)
    BY <1>1 DEF Flip, Others, TypeOK, ConnectionsOK
  <1>5. RibTypeOK' /\ SharedOK' /\ ConnectionsOK'
    BY <1>1, Zenon DEF Flip, TypeOK, ConnectionsOK, RibTypeOK, SharedOK, ribVars
  <1>6. RegisterOK /\ "disconnected" \in States /\ serial' = serial
        /\ register' = Mark({i}, "disconnected")
    BY <1>1 DEF Flip, TypeOK, States
  <1>7. Held(c)' = Held(c) \ {h}
    BY <1>1, <1>2, <1>4, SMT, Z3 DEF Held
  <1>8. Uses(c)' \subseteq Uses(c)
    BY <1>1, <1>4, <1>7 DEF Uses, Unnamed, Named
  <1>9. \A g \in Held(c)' : tab[c][g] # i
    <2>1. \A g \in Held(c) : register[tab[c][g]].key = g
      BY <1>1, Zenon DEF ConnOK, PeersOK
    <2> QED
      BY <1>3, <1>7, <2>1, Zenon
  <1> HIDE DEF i
  <1>10. RegisterOK' /\ \A j \in Peers \ {i} : register'[j] = register[j]
    BY <1>3, <1>6, MarkOne
  <1>11. ConnOK(c)'
    <2>1. ProvisionalOK(c)' /\ RouterOK(c)' /\ PushOK(c)'
      BY <1>1, <1>4, Zenon DEF ConnOK, ProvisionalOK, RouterOK, PushOK, Unnamed, Named
    <2>2. PeersOK(c)'
      BY <1>1, <1>4, <1>7, <1>9, <1>10, ZenonT(30) DEF ConnOK, PeersOK
    <2> QED
      BY <2>1, <2>2 DEF ConnOK
  <1>12. \A d \in Conns \ {c} : i \notin Uses(d)
    BY <1>3 DEF OwnInv, Apart
  <1>13. TypeOK'
    BY <1>5, <1>10 DEF TypeOK
  <1> QED
    BY <1>3, <1>4, <1>8, <1>10, <1>11, <1>12, <1>13, ConnStepOne, Zenon

\* The last two steps of a connection touch no entry.
LEMMA LeaveOwn ==
    ASSUME OwnInv, NEW c \in Conns, WithdrawAll(c) \/ Unmap(c)
    PROVE  OwnInv'
  <1>1. TypeOK /\ ConnOK(c) /\ at[c] \in {"closing", "unmap"}
    BY DEF OwnInv, WithdrawAll, Unmap
  <1>2. /\ at'[c] \in {"unmap", "gone"} /\ tab' = tab /\ register' = register
        /\ serial' = serial /\ Others(c)
        /\ push'[c].kind \in {"none", "down"}
    <2>1. ConnectionsOK
      BY <1>1 DEF TypeOK
    <2>2. CASE WithdrawAll(c)
      <3>1. Others(c)
        BY <2>1, <2>2 DEF WithdrawAll, Others, ConnectionsOK
      <3>2. at'[c] = "unmap"
        BY <2>1, <2>2 DEF WithdrawAll, ConnectionsOK
      <3>3. push'[c].kind = "down"
        BY <2>1, <2>2, Zenon DEF WithdrawAll, ConnectionsOK, Pushing
      <3> QED
        BY <2>2, <3>1, <3>2, <3>3, SMT, Z3
        DEF WithdrawAll
    <2>3. CASE Unmap(c)
      <3>1. Others(c)
        BY <2>1, <2>3 DEF Unmap, Others, ConnectionsOK
      <3> QED
        BY <2>1, <2>3, <3>1 DEF Unmap, ConnectionsOK, Idle
    <2> QED
      BY <2>2, <2>3
  <1>3. TypeOK'
    <2>1. RibTypeOK' /\ SharedOK' /\ RegisterOK'
      BY <1>1, <1>2, Zenon DEF WithdrawAll, Unmap, TypeOK, RibTypeOK, SharedOK,
         RegisterOK, ribVars
    <2>2. IdsOf(c, Known(c)) \in SUBSET Peers
      BY <1>1 DEF IdsOf, Known, TypeOK, ConnectionsOK, Ids
    <2>3. ConnectionsOK'
      <3>1. CASE WithdrawAll(c)
        BY <1>1, <2>2, <3>1, Zenon
        DEF WithdrawAll, TypeOK, ConnectionsOK, Steps, Pushing
      <3>2. CASE Unmap(c)
        BY <1>1, <3>2, Zenon DEF Unmap, TypeOK, ConnectionsOK, Steps
      <3> QED
        BY <3>1, <3>2
    <2> QED
      BY <2>1, <2>3 DEF TypeOK
  <1>4. Uses(c)' = {}
    BY <1>2 DEF Uses, Unnamed, Named, Held
  <1>5. ConnOK(c)'
    BY <1>2, Zenon DEF ConnOK, ProvisionalOK, RouterOK, PeersOK, PushOK, Unnamed,
       Named, Held
  <1> QED
    BY <1>2, <1>3, <1>4, <1>5, ConnStepNone

LEMMA RibApplyOwn ==
    ASSUME OwnInv, NEW c \in Conns, RibApply(c)
    PROVE  OwnInv'
  <1> DEFINE T == {i \in push[c].ids :
                      \/ push[c].kind = "reappear"
                      \/ push[c].kind = "announce" /\ i \in withdrawn}
  <1>1. TypeOK /\ ConnOK(c)
    BY SMT, Z3 DEF OwnInv
  <1>2. /\ T \in SUBSET Peers /\ T \subseteq Uses(c)
        /\ T # {} => at[c] = "up"
    BY <1>1, SMT, Z3 DEF ConnOK, PushOK, Uses
  <1>3. \A i \in T : register[i].state = "connected"
    <2>1. at[c] = "up" => \A i \in Uses(c) : register[i].state = "connected"
      <3>1. RouterOK(c) /\ PeersOK(c)
        BY <1>1 DEF ConnOK
      <3> QED
        BY <3>1 DEF RouterOK, PeersOK, Uses, Unnamed, Named
    <2> QED
      BY <1>2, <2>1, SMT, Z3
  <1>4. RegisterOK /\ "connected" \in States /\ serial' = serial
        /\ register' = Mark(T, "connected")
    BY <1>1, Zenon DEF RibApply, TypeOK, States
  <1>5. /\ at' = at /\ rid' = rid /\ prov' = prov /\ tab' = tab
        /\ toFlip' = toFlip /\ push'[c] = Idle /\ Others(c)
    BY <1>1, Zenon DEF RibApply, Others, TypeOK, ConnectionsOK
  <1>6. SharedOK' /\ ConnectionsOK'
    BY <1>1, Zenon DEF RibApply, TypeOK, ConnectionsOK, SharedOK, Idle
  <1>7. RibTypeOK'
    <2>1. push[c].pfx \in SUBSET Prefixes /\ push[c].ids \in SUBSET Peers
      BY <1>1 DEF TypeOK, ConnectionsOK
    <2> QED
      BY <1>1, <2>1, Zenon DEF RibApply, TypeOK, RibTypeOK, InsertActive,
         InsertWithdrawn, MarkIngressActive, WithdrawForIngresses
  <1> HIDE DEF T
  <1>8. /\ RegisterOK'
        /\ \A i \in Peers \ T : register'[i] = register[i]
        /\ \A i \in T : /\ register'[i].state = "connected"
                        /\ register'[i].kind = register[i].kind
                        /\ register'[i].key = register[i].key
    BY <1>2, <1>3, <1>4, MarkIs, Zenon
  <1>9. Uses(c)' = Uses(c) /\ Held(c)' = Held(c) /\ Known(c)' = Known(c)
    BY <1>5, Zenon DEF Uses, Unnamed, Named, Held, Known
  <1>10. ConnOK(c)'
    <2>1. \A i \in Peers : /\ register'[i].state = register[i].state
                           /\ register'[i].kind = register[i].kind
                           /\ register'[i].key = register[i].key
      BY <1>3, <1>8, SMT, Z3
    <2>2. PushOK(c)'
      BY <1>5 DEF PushOK, Idle
    <2>a. ProvisionalOK(c) /\ RouterOK(c) /\ PeersOK(c)
      BY <1>1 DEF ConnOK
    <2>3. ProvisionalOK(c)'
      BY <1>5, <2>1, <2>a, Zenon DEF ProvisionalOK, Unnamed
    <2>4. RouterOK(c)'
      BY <1>5, <2>1, <2>a, Zenon DEF RouterOK, Named
    <2>5. PeersOK(c)'
      <3>1. ASSUME NEW h \in Held(c)
            PROVE  /\ tab[c][h] \in Peers
                   /\ register'[tab[c][h]].kind = "peer"
                   /\ register'[tab[c][h]].key = h
                   /\ register'[tab[c][h]].state = "connected"
        <4>1. /\ tab[c][h] \in Peers /\ register[tab[c][h]].kind = "peer"
              /\ register[tab[c][h]].key = h
              /\ register[tab[c][h]].state = "connected"
          BY <2>a, Zenon DEF PeersOK
        <4> QED
          BY <2>1, <4>1, Zenon
      <3>2. at[c] \in {"new", "init", "rekey", "terminated"} => Known(c) = {}
        BY <2>a DEF PeersOK
      <3> QED
        BY <1>5, <1>9, <3>1, <3>2, Zenon DEF PeersOK
    <2> QED
      BY <2>2, <2>3, <2>4, <2>5 DEF ConnOK
  <1>11. \A d \in Conns \ {c} : Uses(d) \cap T = {}
    BY <1>2 DEF OwnInv, Apart
  <1>12. TypeOK'
    BY <1>6, <1>7, <1>8 DEF TypeOK
  <1> QED
    BY <1>2, <1>5, <1>8, <1>9, <1>10, <1>11, <1>12, ConnStep, Zenon

\* The sweep removes entries that are Disconnected when it does.
LEMMA SweepOwn ==
    ASSUME OwnInv, Sweep
    PROVE  OwnInv'
  <1> DEFINE T == {i \in Peers : register[i].state = "disconnected"}
  <1>1. TypeOK
    BY DEF OwnInv
  <1>2. UNCHANGED <<connVars, serial, states>>
    BY DEF Sweep, GcSnapshot, GcPeers, GcStore, GcRouters
  <1>3. /\ \A i \in Peers \ T : register'[i] = register[i]
        /\ \A i \in T : register'[i] \in {register[i], Absent}
        /\ register' \in [Peers -> Entries]
    <2>1. \A i \in Peers : register[i] \in Entries /\ Absent \in Entries
      BY <1>1, Zenon DEF TypeOK, RegisterOK, Absent, Entries, Ids
    <2>2. CASE UNCHANGED register
      BY <1>1, <2>2 DEF TypeOK, RegisterOK
    <2>3. CASE GcPeers
      BY <2>1, <2>3 DEF GcPeers, Reclaimable
    <2>4. CASE GcRouters
      BY <2>1, <2>4 DEF GcRouters, Reclaimable
    <2> QED
      BY <2>2, <2>3, <2>4, Zenon DEF Sweep, GcSnapshot, GcStore
  <1>4. TypeOK'
    <2>1. RegisterOK'
      BY <1>1, <1>2, <1>3 DEF TypeOK, RegisterOK, Absent
    <2>2. ConnectionsOK'
      BY <1>1, <1>2 DEF TypeOK, ConnectionsOK, connVars
    <2>3. SharedOK'
      <3>1. gc \in [at : {"idle", "peers", "store", "routers"},
                    prev : SUBSET Peers, peers : SUBSET Peers,
                    routers : SUBSET Peers]
        BY <1>1 DEF TypeOK, SharedOK
      <3>2. gc' \in [at : {"idle", "peers", "store", "routers"},
                     prev : SUBSET Peers, peers : SUBSET Peers,
                     routers : SUBSET Peers]
        <4>1. CASE GcSnapshot
          BY <3>1, <4>1, Zenon DEF GcSnapshot, InState
        <4>2. CASE GcPeers
          BY <3>1, <4>2, Zenon DEF GcPeers
        <4>3. CASE GcStore
          BY <3>1, <4>3, Zenon DEF GcStore
        <4>4. CASE GcRouters
          BY <3>1, <4>4, Zenon DEF GcRouters
        <4> QED
          BY <4>1, <4>2, <4>3, <4>4 DEF Sweep
      <3> QED
        BY <1>1, <1>2, <3>2 DEF TypeOK, SharedOK
    <2>4. RibTypeOK'
      BY <1>1 DEF Sweep, GcSnapshot, GcPeers, GcStore, GcRouters, TypeOK,
         RibTypeOK, ribVars, RemoveForIngresses
    <2> QED
      BY <2>1, <2>2, <2>3, <2>4, SMT, Z3 DEF TypeOK
  <1>5. \A d \in Conns : Uses(d) \cap T = {}
    BY NotInUse
  <1>6. T \in SUBSET Peers /\ UNCHANGED connVars
    BY <1>2
  <1> HIDE DEF T
  <1> QED
    BY <1>3, <1>4, <1>5, <1>6, NobodyStep

LEMMA NextOwn ==
    ASSUME OwnInv, [Next]_vars
    PROVE  OwnInv'
  <1>1. ASSUME NEW c \in Conns, Accept(c) \/ Message(c) \/ Handler(c)
        PROVE  OwnInv'
    BY <1>1, AcceptOwn, InitiateOwn, PeerUpOwn, RouteMonitoringOwn,
       DropPeersOwn, CloseOwn, RekeyOwn, RibApplyOwn, LeaveOwn, FlipOwn, Zenon
    DEF Message, Handler, PeerDown, Termination
  <1>2. CASE UNCHANGED vars
    <2>1. TypeOK'
      BY <1>2, Zenon DEF OwnInv, TypeOK, RegisterOK, ConnectionsOK, SharedOK,
         RibTypeOK, vars, connVars, ribVars
    <2> DEFINE T == {}
    <2>2. /\ T \in SUBSET Peers /\ UNCHANGED connVars
          /\ \A i \in Peers \ T : register'[i] = register[i]
          /\ \A d \in Conns : Uses(d) \cap T = {}
      BY <1>2 DEF vars
    <2> HIDE DEF T
    <2> QED
      BY <2>1, <2>2, NobodyStep
  <1> QED
    BY <1>1, <1>2, SweepOwn DEF Next

-----------------------------------------------------------------------------
(***************************************************************************)
(* The theorems.                                                           *)
(***************************************************************************)

\* Every reachable state satisfies the inductive invariant: what the entries
\* of ids in use look like, and that no two connections use the same.
THEOREM OwnershipInvariant == Spec => []OwnInv
  BY InitOwn, NextOwn, PTL DEF Spec

\* Every variable keeps its type and the counter stays ahead of the register.
THEOREM SessionsTypeCorrect == Spec => []TypeOK
  <1>1. OwnInv => TypeOK
    BY DEF OwnInv
  <1> QED
    BY <1>1, OwnershipInvariant, PTL

LEMMA OwnedUsed ==
    ASSUME OwnInv, NEW c \in Conns, NEW i \in Owned(c)
    PROVE  i \in Uses(c) /\ register[i].state = "connected"
  <1>1. ProvisionalOK(c) /\ RouterOK(c) /\ PeersOK(c)
    BY SMT, Z3 DEF OwnInv, ConnOK
  <1>2. CASE at[c] \in {"rekey", "up", "terminated"}
    <2>1. i \in {rid[c]} \cup IdsOf(c, Known(c))
      BY <1>2, SMT, Z3 DEF Owned
    <2>2. CASE i = rid[c]
      BY <1>1, <1>2, <2>2 DEF RouterOK, Uses, Named
    <2>3. CASE i \in IdsOf(c, Known(c))
      <3>1. PICK h \in Known(c) : i = tab[c][h]
        BY <2>3 DEF IdsOf
      <3>2. h \in Held(c)
        BY <1>1, <1>2, Zenon DEF PeersOK, Held
      <3> QED
        BY <1>1, <3>1, <3>2, Zenon DEF PeersOK, Uses
    <2> QED
      BY <2>1, <2>2, <2>3
  <1>3. CASE at[c] = "closing"
    BY <1>1, <1>3, SMT, Z3 DEF Owned, IdsOf, PeersOK, Uses, Held
  <1> QED
    BY <1>2, <1>3 DEF Owned

\* No two connections ever work with the same id: what the exclusive claims of
\* the register are for, however setups, teardowns and sweeps interleave.
THEOREM OwnersUnique == Spec => []UniqueOwner
  <1>1. OwnInv => UniqueOwner
    BY OwnedUsed DEF OwnInv, Apart, UniqueOwner
  <1> QED
    BY <1>1, OwnershipInvariant, PTL

\* An id a connection works with stays Connected in the register: no sweep and
\* no other connection's teardown takes it away.
THEOREM OwnedStayConnected == Spec => []OwnedConnected
  <1>1. OwnInv => OwnedConnected
    BY OwnedUsed DEF OwnedConnected
  <1> QED
    BY <1>1, OwnershipInvariant, PTL
=============================================================================
