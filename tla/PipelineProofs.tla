--------------------------- MODULE PipelineProofs ---------------------------
(***************************************************************************)
(* Proofs about Gate and Manager: connected links stay served, the components*)
(* of a configuration start together, and each ends up with what the last  *)
(* configuration says.                                                     *)
(***************************************************************************)
EXTENDS Gate, Manager, TLAPS

\* What Append makes of a queue.
LEMMA Appended ==
    ASSUME NEW S, NEW q \in Seq(S), NEW e \in S
    PROVE  /\ Append(q, e) \in Seq(S) /\ Len(Append(q, e)) = Len(q) + 1
           /\ Len(q) \in Nat
           /\ \A k \in 1 .. Len(q) : Append(q, e)[k] = q[k]
           /\ Append(q, e)[Len(q) + 1] = e
           /\ \A k \in 1 .. Len(Append(q, e)) : k \in 1 .. Len(q) \/ k = Len(q) + 1
  <1>1. Append(q, e) \in Seq(S) /\ Len(Append(q, e)) = Len(q) + 1 /\ Len(q) \in Nat
    OBVIOUS
  <1>2. \A k \in 1 .. Len(q) : Append(q, e)[k] = q[k]
    OBVIOUS
  <1>3. Append(q, e)[Len(q) + 1] = e
    OBVIOUS
  <1>4. \A k \in 1 .. Len(q) + 1 : k \in 1 .. Len(q) \/ k = Len(q) + 1
    BY <1>1
  <1> QED
    BY <1>1, <1>2, <1>3, <1>4, Zenon

-----------------------------------------------------------------------------
(***************************************************************************)
(* Connected links.  What unsubscribes a slot is under way only after its  *)
(* link has moved on to a later gate; a link that waits for its slot has   *)
(* one request in the channel of the gate it was made for.                 *)
(***************************************************************************)

LinkState == [gen : Gens, phase : {"new", "asked", "up", "gone"}]

\* In the channel q of generation g, with links lk.
Asks(q, g, lk) ==
    \A l \in Links : \A k \in 1 .. Len(q) : q[k] = <<"Subscribe", l>> =>
        /\ lk[l].gen = g /\ lk[l].phase = "asked"
        /\ \A j \in 1 .. Len(q) : q[j] = <<"Subscribe", l>> => j = k
Late(q, op, lk) ==
    \A l \in Links, h \in Gens : \A k \in 1 .. Len(q) :
        q[k] = <<op, <<l, h>> >> => h < lk[l].gen
Ahead(q, g, n) ==
    \A k \in 1 .. Len(q) : q[k][1] = "Reconfigure" => g < n

GateTypes ==
    /\ gen \in Gens /\ agentGen \in Gens
    /\ link \in [Links -> LinkState]
    /\ chan \in [Gens -> Seq(Commands)]
    /\ cq \in [Clones -> Seq(Follow)]
    /\ \A t \in tasks : t \in Gens \X Commands /\ t[2][1] # "Subscribe"

ChanInv == \A g \in Gens : /\ Asks(chan[g], g, link)
                           /\ Late(chan[g], "Unsubscribe", link)
                           /\ Ahead(chan[g], g, agentGen)
CqInv == \A c \in Clones : Late(cq[c], "FollowUnsubscribe", link)
TaskInv == \A t \in tasks :
    /\ t[2][1] = "Reconfigure" => t[1] < agentGen
    /\ \A l \in Links, h \in Gens :
          t[2] = <<"Unsubscribe", <<l, h>> >> => h < link[l].gen
UpInv == \A l \in Links : link[l].phase = "up" =>
    /\ link[l].gen <= gen
    /\ link[l].gen = gen => <<l, gen>> \in updates

LinkInv == GateTypes /\ ChanInv /\ CqInv /\ TaskInv /\ UpInv

\* What is queued behind, and what is left.
LEMMA Queued ==
    ASSUME NEW q \in Seq(Commands), NEW g \in Gens, NEW lk, NEW n \in Gens,
           NEW e \in Commands, Asks(q, g, lk), Late(q, "Unsubscribe", lk),
           Ahead(q, g, n), e[1] # "Subscribe", e[1] = "Reconfigure" => g < n,
           \A l \in Links, h \in Gens :
               e = <<"Unsubscribe", <<l, h>> >> => h < lk[l].gen
    PROVE  /\ Append(q, e) \in Seq(Commands)
           /\ Asks(Append(q, e), g, lk)
           /\ Late(Append(q, e), "Unsubscribe", lk)
           /\ Ahead(Append(q, e), g, n)
  <1> DEFINE a == Append(q, e)
  <1>1. /\ a \in Seq(Commands) /\ Len(a) = Len(q) + 1 /\ Len(q) \in Nat
        /\ \A k \in 1 .. Len(q) : a[k] = q[k]
        /\ a[Len(q) + 1] = e
    BY Appended, SMT
  <1>2. \A k \in 1 .. Len(a) : k \in 1 .. Len(q) \/ k = Len(q) + 1
    BY Appended, Zenon
  <1> HIDE DEF a
  <1>3. \A l \in Links : e # <<"Subscribe", l>>
    OBVIOUS
  <1>4. Asks(a, g, lk)
    <2> SUFFICES ASSUME NEW l \in Links, NEW k \in 1 .. Len(a), a[k] = <<"Subscribe", l>>
                 PROVE  /\ lk[l].gen = g /\ lk[l].phase = "asked"
                        /\ \A j \in 1 .. Len(a) : a[j] = <<"Subscribe", l>> => j = k
      BY Zenon DEF Asks
    <2>1. \A j \in 1 .. Len(a) :
             a[j] = <<"Subscribe", l>> => j \in 1 .. Len(q) /\ q[j] = <<"Subscribe", l>>
      BY <1>1, <1>2, <1>3, Zenon
    <2> QED
      BY <2>1, Zenon DEF Asks
  <1>5. Late(a, "Unsubscribe", lk)
    BY <1>1, <1>2, Zenon DEF Late
  <1>6. Ahead(a, g, n)
    BY <1>1, <1>2, Zenon DEF Ahead
  <1> QED
    BY <1>1, <1>4, <1>5, <1>6, Zenon DEF a

\* The head of a queue that is not empty is its first element.
LEMMA First ==
    ASSUME NEW S, NEW q \in Seq(S), q # <<>>
    PROVE  Head(q) \in S /\ Head(q) = q[1] /\ 1 \in 1 .. Len(q)
  <1>1. Len(q) \in Nat /\ Len(q) # 0
    OBVIOUS
  <1> QED
    BY <1>1

LEMMA Rest ==
    ASSUME NEW S, NEW q \in Seq(S), q # <<>>, NEW g, NEW lk, NEW n, NEW op
    PROVE  /\ Tail(q) \in Seq(S)
           /\ Asks(q, g, lk) => Asks(Tail(q), g, lk)
           /\ Late(q, op, lk) => Late(Tail(q), op, lk)
           /\ Ahead(q, g, n) => Ahead(Tail(q), g, n)
           /\ \A l \in Links : Head(q) = <<"Subscribe", l>> /\ Asks(q, g, lk) =>
                  \A k \in 1 .. Len(Tail(q)) : Tail(q)[k] # <<"Subscribe", l>>
  <1> DEFINE t == Tail(q)
  <1>1. /\ t \in Seq(S) /\ Len(q) \in Nat /\ Len(t) = Len(q) - 1
        /\ \A k \in 1 .. Len(t) : t[k] = q[k + 1] /\ k + 1 \in 1 .. Len(q)
        /\ Head(q) = q[1] /\ 1 \in 1 .. Len(q)
    OBVIOUS
  <1> HIDE DEF t
  <1>2. \A j, k \in 1 .. Len(t) : j + 1 = k + 1 => j = k
    BY <1>1
  <1>3. ASSUME Asks(q, g, lk) PROVE Asks(t, g, lk)
    <2> SUFFICES ASSUME NEW l \in Links, NEW k \in 1 .. Len(t),
                        t[k] = <<"Subscribe", l>>
                 PROVE  /\ lk[l].gen = g /\ lk[l].phase = "asked"
                        /\ \A j \in 1 .. Len(t) : t[j] = <<"Subscribe", l>> => j = k
      BY DEF Asks
    <2>1. q[k + 1] = <<"Subscribe", l>> /\ k + 1 \in 1 .. Len(q)
      BY <1>1
    <2>2. /\ lk[l].gen = g /\ lk[l].phase = "asked"
          /\ \A j \in 1 .. Len(q) : q[j] = <<"Subscribe", l>> => j = k + 1
      BY <1>3, <2>1 DEF Asks
    <2> QED
      BY <1>1, <1>2, <2>2, Zenon
  <1>4. Late(q, op, lk) => Late(t, op, lk)
    BY <1>1, Z3, SMT DEF Late
  <1>5. Ahead(q, g, n) => Ahead(t, g, n)
    BY <1>1, Zenon DEF Ahead
  <1>6. ASSUME NEW l \in Links, Head(q) = <<"Subscribe", l>>, Asks(q, g, lk),
               NEW k \in 1 .. Len(t), t[k] = <<"Subscribe", l>>
        PROVE  FALSE
    <2>1. k + 1 = 1
      BY <1>1, <1>6, SMT, Z3 DEF Asks
    <2> QED
      BY <1>1, <2>1
  <1> QED
    BY <1>1, <1>3, <1>4, <1>5, <1>6, Zenon DEF t

\* The generation of a link only grows.
LEMMA Later ==
    ASSUME NEW q, NEW op, NEW lk \in [Links -> LinkState],
           NEW lk2 \in [Links -> LinkState],
           \A l \in Links : lk[l].gen <= lk2[l].gen, Late(q, op, lk)
    PROVE  Late(q, op, lk2)
  <1>1. \A l \in Links, h \in Gens : h < lk[l].gen => h < lk2[l].gen
    BY GateAssumption DEF LinkState, Gens
  <1> QED
    BY <1>1 DEF Late

-----------------------------------------------------------------------------

LEMMA InitLink == GateInit => LinkInv
  <1> SUFFICES ASSUME GateInit PROVE LinkInv
    OBVIOUS
  <1>1. GateTypes
    BY GateAssumption DEF GateInit, GateTypes, LinkState, Gens
  <1>2. ChanInv /\ CqInv
    BY DEF GateInit, ChanInv, CqInv, Asks, Late, Ahead
  <1>3. TaskInv /\ UpInv
    BY DEF GateInit, TaskInv, UpInv
  <1> QED
    BY <1>1, <1>2, <1>3 DEF LinkInv

\* A command is put behind the channel of a generation.
LEMMA StepQueue ==
    ASSUME LinkInv, NEW g \in Gens, NEW e \in Commands, Queue(g, e),
           e[1] # "Subscribe", e[1] = "Reconfigure" => g < agentGen,
           \A l \in Links, h \in Gens :
               e = <<"Unsubscribe", <<l, h>> >> => h < link[l].gen
    PROVE  /\ chan' \in [Gens -> Seq(Commands)]
           /\ UNCHANGED <<link, agentGen>> => ChanInv'
  <1> DEFINE q == Append(chan[g], e)
  <1>1. /\ q \in Seq(Commands) /\ Asks(q, g, link)
        /\ Late(q, "Unsubscribe", link) /\ Ahead(q, g, agentGen)
    <2>1. /\ chan[g] \in Seq(Commands) /\ Asks(chan[g], g, link)
          /\ Late(chan[g], "Unsubscribe", link) /\ Ahead(chan[g], g, agentGen)
          /\ agentGen \in Gens
      BY Zenon DEF LinkInv, GateTypes, ChanInv
    <2> QED
      BY <2>1, Queued, Zenon
  <1>2. chan' = [chan EXCEPT ![g] = q] /\ chan \in [Gens -> Seq(Commands)]
    BY Zenon DEF Queue, LinkInv, GateTypes
  <1> HIDE DEF q
  <1>3. chan' \in [Gens -> Seq(Commands)]
    BY <1>1, <1>2, Zenon
  <1>4. ASSUME UNCHANGED <<link, agentGen>>, NEW h \in Gens
        PROVE  /\ Asks(chan'[h], h, link) /\ Late(chan'[h], "Unsubscribe", link)
               /\ Ahead(chan'[h], h, agentGen)
    <2>1. CASE h = g
      BY <1>1, <1>2, <2>1
    <2>2. CASE h # g
      BY <1>2, <2>2 DEF LinkInv, ChanInv
    <2> QED
      BY <2>1, <2>2
  <1> QED
    BY <1>3, <1>4, Zenon DEF ChanInv

\* The root takes a command off its channel.
LEMMA StepTaken ==
    ASSUME LinkInv, chan[gen] # <<>>, Taken
    PROVE  /\ chan' \in [Gens -> Seq(Commands)]
           /\ UNCHANGED <<link, agentGen>> => ChanInv'
  <1> DEFINE q == Tail(chan[gen])
  <1>1. /\ q \in Seq(Commands) /\ Asks(q, gen, link)
        /\ Late(q, "Unsubscribe", link) /\ Ahead(q, gen, agentGen)
    <2>1. /\ chan[gen] \in Seq(Commands) /\ Asks(chan[gen], gen, link)
          /\ Late(chan[gen], "Unsubscribe", link) /\ Ahead(chan[gen], gen, agentGen)
      BY DEF LinkInv, GateTypes, ChanInv
    <2> QED
      BY <2>1, Rest, Zenon
  <1>2. chan' = [chan EXCEPT ![gen] = q] /\ chan \in [Gens -> Seq(Commands)]
    BY DEF Taken, LinkInv, GateTypes
  <1> HIDE DEF q
  <1>3. chan' \in [Gens -> Seq(Commands)]
    BY <1>1, <1>2, Zenon
  <1>4. ASSUME UNCHANGED <<link, agentGen>>, NEW h \in Gens
        PROVE  /\ Asks(chan'[h], h, link) /\ Late(chan'[h], "Unsubscribe", link)
               /\ Ahead(chan'[h], h, agentGen)
    <2>1. CASE h = gen
      BY <1>1, <1>2, <2>1
    <2>2. CASE h # gen
      BY <1>2, <2>2 DEF LinkInv, ChanInv
    <2> QED
      BY <2>1, <2>2, Zenon
  <1> QED
    BY <1>3, <1>4, Zenon DEF ChanInv

\* Clones hear of a command, or not.
LEMMA StepNotify ==
    ASSUME LinkInv, NEW e \in Follow,
           cq' \in [Clones -> Seq(Follow)],
           \A c \in Clones : cq'[c] \in {cq[c], Append(cq[c], e)},
           \A l \in Links, h \in Gens :
               e = <<"FollowUnsubscribe", <<l, h>> >> => h < link[l].gen
    PROVE  \A c \in Clones : Late(cq'[c], "FollowUnsubscribe", link)
  <1> SUFFICES ASSUME NEW c \in Clones
               PROVE  Late(cq'[c], "FollowUnsubscribe", link)
    OBVIOUS
  <1> DEFINE q == cq[c]
             a == Append(q, e)
  <1>1. q \in Seq(Follow) /\ Late(q, "FollowUnsubscribe", link)
    BY DEF LinkInv, GateTypes, CqInv
  <1>2. /\ Len(a) = Len(q) + 1 /\ Len(q) \in Nat
        /\ \A k \in 1 .. Len(q) : a[k] = q[k]
        /\ a[Len(q) + 1] = e
    BY <1>1, Appended, SMT
  <1>3. \A k \in 1 .. Len(a) : k \in 1 .. Len(q) \/ k = Len(q) + 1
    BY <1>1, Appended, Zenon
  <1>5. cq'[c] \in {q, a}
    OBVIOUS
  <1> HIDE DEF a, q
  <1>4. Late(a, "FollowUnsubscribe", link)
    BY <1>1, <1>2, <1>3, Zenon DEF Late
  <1> QED
    BY <1>1, <1>4, <1>5

\* What a command that is taken looks like.
LEMMA Forms ==
    /\ \A e \in Commands :
          /\ e[1] = "Subscribe" => \E l \in Links : e = <<"Subscribe", l>>
          /\ e[1] = "Unsubscribe" =>
                \E l \in Links, h \in Gens : e = <<"Unsubscribe", <<l, h>> >>
          /\ e[1] \in {"AttachClone", "DetachClone"} => e[2] \in Clones
    /\ \A e \in Follow :
          /\ e[1] = "FollowSubscribe" => e[2] \in Slots
          /\ e[1] = "FollowUnsubscribe" =>
                \E l \in Links, h \in Gens : e = <<"FollowUnsubscribe", <<l, h>> >>
  <1>1. ASSUME NEW e \in Commands
        PROVE  /\ e[1] = "Subscribe" => \E l \in Links : e = <<"Subscribe", l>>
               /\ e[1] = "Unsubscribe" =>
                     \E l \in Links, h \in Gens : e = <<"Unsubscribe", <<l, h>> >>
               /\ e[1] \in {"AttachClone", "DetachClone"} => e[2] \in Clones
    BY DEF Commands, Slots
  <1>2. ASSUME NEW e \in Follow
        PROVE  /\ e[1] = "FollowSubscribe" => e[2] \in Slots
               /\ e[1] = "FollowUnsubscribe" =>
                     \E l \in Links, h \in Gens :
                         e = <<"FollowUnsubscribe", <<l, h>> >>
    BY DEF Follow, Slots
  <1> QED
    BY <1>1, <1>2

\* Receivers are dropped with what they hold.
LEMMA StepClose ==
    ASSUME LinkInv, NEW gs \in SUBSET Gens, Close(gs)
    PROVE  /\ chan' \in [Gens -> Seq(Commands)] /\ link' \in [Links -> LinkState]
           /\ \A l \in Links : /\ link'[l].gen = link[l].gen
                               /\ link'[l].phase = "up" => link[l].phase = "up"
           /\ agentGen' = agentGen => ChanInv'
  <1>0. /\ link \in [Links -> LinkState] /\ chan \in [Gens -> Seq(Commands)]
        /\ chan' = [g \in Gens |-> IF g \in gs THEN <<>> ELSE chan[g]]
    BY DEF LinkInv, GateTypes, Close
  <1>1. ASSUME NEW l \in Links
        PROVE  /\ link'[l] \in LinkState /\ link'[l].gen = link[l].gen
               /\ link'[l].phase = "up" => link[l].phase = "up"
               /\ link[l].gen \notin gs => link'[l] = link[l]
    <2>1. link[l] \in LinkState
      BY <1>0
    <2>2. CASE link[l].phase = "asked" /\ link[l].gen \in gs
      <3>1. link'[l] = [link[l] EXCEPT !.phase = "gone"]
        BY <2>2 DEF Close
      <3> QED
        BY <2>1, <2>2, <3>1 DEF LinkState
    <2>3. CASE ~(link[l].phase = "asked" /\ link[l].gen \in gs)
      BY <2>1, <2>3 DEF Close
    <2> QED
      BY <2>2, <2>3, Zenon
  <1>2. link' \in [Links -> LinkState]
    BY <1>1 DEF Close
  <1>3. <<>> \in Seq(Commands) /\ Len(<<>>) = 0
    OBVIOUS
  <1>4. chan' \in [Gens -> Seq(Commands)]
    BY <1>0, <1>3
  <1>5. ASSUME agentGen' = agentGen, NEW g \in Gens
        PROVE  /\ Asks(chan'[g], g, link') /\ Late(chan'[g], "Unsubscribe", link')
               /\ Ahead(chan'[g], g, agentGen')
    <2>1. CASE g \in gs
      <3>1. chan'[g] = <<>> /\ \A k \in 1 .. Len(<<>>) : FALSE
        BY <1>0, <1>3, <2>1
      <3> QED
        BY <3>1 DEF Asks, Late, Ahead
    <2>2. CASE g \notin gs
      <3>1. chan'[g] = chan[g] /\ Asks(chan[g], g, link)
               /\ Late(chan[g], "Unsubscribe", link) /\ Ahead(chan[g], g, agentGen)
        BY <1>0, <2>2 DEF LinkInv, ChanInv
      <3>2. Asks(chan[g], g, link')
        BY <1>1, <2>2, <3>1, Zenon DEF Asks
      <3>3. Late(chan[g], "Unsubscribe", link')
        BY <1>1, <3>1, Zenon DEF Late
      <3> QED
        BY <1>5, <3>1, <3>2, <3>3, Zenon
    <2> QED
      BY <2>1, <2>2
  <1> QED
    BY <1>1, <1>2, <1>4, <1>5, Zenon DEF ChanInv

LEMMA StepConnect ==
    ASSUME LinkInv, NEW l0 \in Links, Connect(l0)
    PROVE  LinkInv'
  <1>0. /\ link \in [Links -> LinkState] /\ chan \in [Gens -> Seq(Commands)]
        /\ link[l0].phase = "new" /\ link[l0] \in LinkState
        /\ UNCHANGED <<gen, agentGen, tasks, updates, cq>>
    BY DEF LinkInv, GateTypes, Connect, rootVars, agentVars, cloneVars
  <1>1. PICK p \in {"asked", "gone"} :
           /\ link' = [link EXCEPT ![l0].phase = p]
           /\ \/ p = "gone" /\ chan' = chan
              \/ p = "asked" /\ Queue(link[l0].gen, <<"Subscribe", l0>>)
    BY DEF Connect
  <1>2. /\ link' \in [Links -> LinkState]
        /\ \A l \in Links : /\ link'[l].gen = link[l].gen
                            /\ l # l0 => link'[l] = link[l]
        /\ link'[l0].phase = p
    BY <1>0, <1>1, SMT, Z3 DEF LinkState
  <1> DEFINE g0 == link[l0].gen
             q0 == chan[g0]
             a0 == Append(q0, <<"Subscribe", l0>>)
  <1>3. g0 \in Gens /\ <<"Subscribe", l0>> \in Commands /\ q0 \in Seq(Commands)
    BY <1>0 DEF LinkState, Commands
  <1>6. chan' = chan \/ (p = "asked" /\ chan' = [chan EXCEPT ![g0] = a0])
    BY <1>1, Zenon DEF Queue
  <1> HIDE DEF g0, q0
  <1>4. /\ a0 \in Seq(Commands) /\ Len(a0) = Len(q0) + 1 /\ Len(q0) \in Nat
        /\ \A k \in 1 .. Len(q0) : a0[k] = q0[k]
        /\ a0[Len(q0) + 1] = <<"Subscribe", l0>>
    BY <1>3, Appended, SMT
  <1> HIDE DEF a0
  <1>5. \A k \in 1 .. Len(a0) : k \in 1 .. Len(q0) \/ k = Len(q0) + 1
    BY <1>4
  \* Nothing of l0 is queued yet.
  <1>7. \A g \in Gens : \A k \in 1 .. Len(chan[g]) : chan[g][k] # <<"Subscribe", l0>>
    BY <1>0, Zenon DEF LinkInv, ChanInv, Asks
  <1>8. ASSUME NEW g \in Gens
        PROVE  /\ Asks(chan[g], g, link') /\ Late(chan[g], "Unsubscribe", link')
               /\ Ahead(chan[g], g, agentGen')
    <2>1. Asks(chan[g], g, link) /\ Late(chan[g], "Unsubscribe", link)
             /\ Ahead(chan[g], g, agentGen)
      BY Zenon DEF LinkInv, ChanInv
    <2>2. Asks(chan[g], g, link')
      <3> SUFFICES ASSUME NEW l \in Links, NEW k \in 1 .. Len(chan[g]),
                          chan[g][k] = <<"Subscribe", l>>
                   PROVE  /\ link'[l].gen = g /\ link'[l].phase = "asked"
                          /\ \A j \in 1 .. Len(chan[g]) :
                                chan[g][j] = <<"Subscribe", l>> => j = k
        BY Zenon DEF Asks
      <3>1. l # l0
        BY <1>7, Zenon
      <3>2. link'[l] = link[l]
        BY <1>2, <3>1, Zenon
      <3> QED
        BY <2>1, <3>2, Zenon DEF Asks
    <2>3. Late(chan[g], "Unsubscribe", link')
      BY <1>2, <2>1, Zenon DEF Late
    <2> QED
      BY <1>0, <2>1, <2>2, <2>3, Zenon
  <1>9. p = "asked" => /\ Asks(a0, g0, link') /\ Late(a0, "Unsubscribe", link')
                       /\ Ahead(a0, g0, agentGen')
    <2>0. /\ Asks(q0, g0, link') /\ Late(q0, "Unsubscribe", link')
          /\ Ahead(q0, g0, agentGen')
          /\ \A k \in 1 .. Len(q0) : q0[k] # <<"Subscribe", l0>>
          /\ link'[l0].gen = g0
      BY <1>2, <1>3, <1>7, <1>8, Zenon DEF q0, g0
    <2>1. ASSUME p = "asked" PROVE Asks(a0, g0, link')
      <3> SUFFICES ASSUME NEW l \in Links, NEW k \in 1 .. Len(a0),
                          a0[k] = <<"Subscribe", l>>
                   PROVE  /\ link'[l].gen = g0 /\ link'[l].phase = "asked"
                          /\ \A j \in 1 .. Len(a0) :
                                a0[j] = <<"Subscribe", l>> => j = k
        BY Zenon DEF Asks
      <3>1. CASE l = l0
        BY <1>2, <1>4, <1>5, <2>0, <2>1, <3>1, Zenon
      <3>2. CASE l # l0
        <4>1. a0[Len(q0) + 1] # <<"Subscribe", l>>
          BY <1>4, <3>2
        <4>2. k \in 1 .. Len(q0) /\ q0[k] = <<"Subscribe", l>>
          BY <1>4, <1>5, <4>1, Zenon
        <4>3. /\ link'[l].gen = g0 /\ link'[l].phase = "asked"
              /\ \A j \in 1 .. Len(q0) : q0[j] = <<"Subscribe", l>> => j = k
          BY <2>0, <4>2, Zenon DEF Asks
        <4> QED
          BY <1>4, <1>5, <4>1, <4>3, Zenon
      <3> QED
        BY <3>1, <3>2, Zenon
    <2>2. Late(a0, "Unsubscribe", link')
      BY <1>4, <1>5, <2>0 DEF Late
    <2>3. Ahead(a0, g0, agentGen')
      BY <1>4, <1>5, <2>0 DEF Ahead
    <2> QED
      BY <2>1, <2>2, <2>3
  <1>10. ChanInv' /\ chan' \in [Gens -> Seq(Commands)]
    BY <1>0, <1>3, <1>4, <1>6, <1>8, <1>9, Zenon DEF ChanInv
  <1>11. GateTypes'
    BY <1>0, <1>2, <1>10, Zenon DEF LinkInv, GateTypes
  <1>12. CqInv' /\ TaskInv'
    BY <1>0, <1>2, Zenon DEF LinkInv, CqInv, TaskInv, Late
  <1>13. UpInv'
    BY <1>0, <1>1, <1>2, Zenon DEF LinkInv, UpInv
  <1> QED
    BY <1>10, <1>11, <1>12, <1>13 DEF LinkInv

\* A link moves on to the newest gate.
LEMMA StepRelink ==
    ASSUME LinkInv, NEW l0 \in Links, Relink(l0)
    PROVE  LinkInv'
  <1> DEFINE g0 == link[l0].gen
             new == [gen |-> agentGen, phase |-> "new"]
             t0 == <<g0, <<"Unsubscribe", <<l0, g0>> >> >>
  <1>0. /\ link \in [Links -> LinkState] /\ agentGen \in Gens
        /\ link[l0].phase # "asked" /\ g0 \in Gens /\ g0 < agentGen
        /\ link' = [link EXCEPT ![l0] = new]
        /\ UNCHANGED <<gen, agentGen, chan, updates, cq>>
    BY Zenon DEF LinkInv, GateTypes, LinkState, Relink, rootVars, agentVars, cloneVars
  <1>1. new \in LinkState /\ new.gen = agentGen /\ new.phase = "new"
    BY <1>0 DEF LinkState
  <1>2. tasks' = tasks \/ tasks' = tasks \cup {t0}
    BY Zenon DEF Relink
  <1> HIDE DEF new
  <1>3. /\ link' \in [Links -> LinkState]
        /\ \A l \in Links : l # l0 => link'[l] = link[l]
        /\ link'[l0] = new
    BY <1>0, <1>1
  <1>4. \A l \in Links : link[l].gen <= link'[l].gen
    BY <1>0, <1>1, <1>3, GateAssumption DEF LinkState, Gens
  <1>5. ASSUME NEW g \in Gens
        PROVE  Asks(chan[g], g, link') /\ Late(chan[g], "Unsubscribe", link')
    <2>1. Asks(chan[g], g, link) /\ Late(chan[g], "Unsubscribe", link)
      BY DEF LinkInv, ChanInv
    <2>2. \A k \in 1 .. Len(chan[g]) : chan[g][k] # <<"Subscribe", l0>>
      BY <1>0, <2>1, Zenon DEF Asks
    <2>3. Asks(chan[g], g, link')
      BY <1>3, <2>1, <2>2, Zenon DEF Asks
    <2> QED
      BY <1>0, <1>3, <1>4, <2>1, <2>3, Later, Zenon
  <1>6. ChanInv'
    BY <1>0, <1>5, Zenon DEF LinkInv, ChanInv
  <1>7. CqInv'
    BY <1>0, <1>3, <1>4, Later, Zenon DEF LinkInv, CqInv
  <1>8. \A l \in Links, h \in Gens : h < link[l].gen => h < link'[l].gen
    BY <1>0, <1>3, <1>4, GateAssumption DEF LinkState, Gens
  <1>9. /\ t0 \in Gens \X Commands /\ t0[2][1] = "Unsubscribe"
        /\ \A l \in Links, h \in Gens :
              t0[2] = <<"Unsubscribe", <<l, h>> >> => h < link'[l].gen
    BY <1>0, <1>1, <1>3, Zenon DEF Commands, Slots
  <1> HIDE DEF t0
  <1>10. TaskInv'
    BY <1>0, <1>2, <1>8, <1>9 DEF LinkInv, TaskInv
  <1>11. GateTypes'
    BY <1>0, <1>2, <1>3, <1>9, Zenon DEF LinkInv, GateTypes
  <1>12. UpInv'
    BY <1>0, <1>1, <1>3, Zenon DEF LinkInv, UpInv
  <1> QED
    BY <1>6, <1>7, <1>10, <1>11, <1>12 DEF LinkInv

\* The manager's commands, and a clone's AttachClone, are given to tasks.
LEMMA StepTask ==
    ASSUME LinkInv, NEW g \in Gens, NEW e \in Commands,
           tasks' = tasks \cup {<<g, e>>}, e[1] \notin {"Subscribe", "Unsubscribe"},
           agentGen' \in Gens, agentGen <= agentGen',
           e[1] = "Reconfigure" => g < agentGen',
           UNCHANGED <<gen, chan, updates, link, cq>>
    PROVE  LinkInv'
  <1>1. \A n \in Gens : n < agentGen => n < agentGen'
    <2>1. agentGen \in Gens
      BY Zenon DEF LinkInv, GateTypes
    <2> QED
      BY <2>1, GateAssumption DEF Gens
  <1>2. \A h \in Gens : Ahead(chan[h], h, agentGen) => Ahead(chan[h], h, agentGen')
    BY <1>1, Zenon DEF Ahead
  <1>3. ChanInv'
    BY <1>2, Zenon DEF LinkInv, ChanInv
  <1>4. GateTypes'
    <2>1. <<g, e>> \in Gens \X Commands
      BY Zenon
    <2>2. tasks' \subseteq Gens \X Commands
      BY <2>1 DEF LinkInv, GateTypes
    <2> QED
      BY <2>2 DEF LinkInv, GateTypes
  <1>5. \A l \in Links, h \in Gens : e # <<"Unsubscribe", <<l, h>> >>
    OBVIOUS
  <1>6. TaskInv'
    <2> SUFFICES ASSUME NEW t \in tasks'
                 PROVE  /\ t[2][1] = "Reconfigure" => t[1] < agentGen'
                        /\ \A l \in Links, h \in Gens :
                              t[2] = <<"Unsubscribe", <<l, h>> >> => h < link[l].gen
      BY DEF TaskInv
    <2>1. CASE t \in tasks
      BY <1>1, <2>1, Zenon DEF LinkInv, TaskInv, GateTypes
    <2>2. CASE t = <<g, e>>
      BY <1>5, <2>2
    <2> QED
      BY <2>1, <2>2, Zenon
  <1>7. CqInv' /\ UpInv'
    BY DEF LinkInv, CqInv, UpInv
  <1> QED
    BY <1>3, <1>4, <1>6, <1>7, Zenon DEF LinkInv

LEMMA StepSend ==
    ASSUME LinkInv, NEW t \in tasks, TaskSends(t)
    PROVE  LinkInv'
  <1>0. /\ t \in Gens \X Commands /\ t[1] \in Gens /\ t[2] \in Commands
        /\ t[2][1] # "Subscribe" /\ tasks' = tasks \ {t}
        /\ t[2][1] = "Reconfigure" => t[1] < agentGen
        /\ \A l \in Links, h \in Gens :
              t[2] = <<"Unsubscribe", <<l, h>> >> => h < link[l].gen
        /\ UNCHANGED <<gen, agentGen, updates, cq>>
    BY Zenon DEF LinkInv, GateTypes, TaskInv, TaskSends, rootVars, agentVars, cloneVars
  <1>1. CASE Queue(t[1], t[2]) /\ UNCHANGED link
    <2>1. chan' \in [Gens -> Seq(Commands)] /\ ChanInv'
      BY <1>0, <1>1, StepQueue, Zenon
    <2>2. GateTypes' /\ CqInv' /\ TaskInv' /\ UpInv'
      BY <1>0, <1>1, <2>1, Zenon DEF LinkInv, GateTypes, CqInv, TaskInv, UpInv
    <2> QED
      BY <2>1, <2>2 DEF LinkInv
  <1>2. CASE Close(DroppedWith(t[1] + 1))
    <2>1. DroppedWith(t[1] + 1) \in SUBSET Gens
      BY DEF DroppedWith
    <2>2. /\ chan' \in [Gens -> Seq(Commands)] /\ link' \in [Links -> LinkState]
          /\ \A l \in Links : /\ link'[l].gen = link[l].gen
                              /\ link'[l].phase = "up" => link[l].phase = "up"
          /\ ChanInv'
      BY <1>0, <1>2, <2>1, StepClose, Zenon
    <2>3. GateTypes' /\ TaskInv' /\ UpInv'
      BY <1>0, <2>2, Zenon DEF LinkInv, GateTypes, TaskInv, UpInv
    <2>4. CqInv'
      BY <1>0, <2>2, Zenon DEF LinkInv, CqInv, Late
    <2> QED
      BY <2>2, <2>3, <2>4, Zenon DEF LinkInv
  <1>3. CASE UNCHANGED <<chan, link>>
    BY <1>0, <1>3, Zenon DEF LinkInv, GateTypes, ChanInv, CqInv, TaskInv, UpInv
  <1> QED
    BY <1>1, <1>2, <1>3, Zenon DEF TaskSends

\* The clones' queues after notify_clones.
LEMMA Notified ==
    ASSUME LinkInv, NEW e \in Follow,
           Notify(e) \/ cq' = [c \in Clones |->
                                 IF /\ c \in cloneSenders /\ cst[c] = "run"
                                    /\ Len(cq[c]) < QueueLen
                                 THEN Append(cq[c], e) ELSE cq[c]],
           \A l \in Links, h \in Gens :
               e = <<"FollowUnsubscribe", <<l, h>> >> => h < link[l].gen
    PROVE  /\ cq' \in [Clones -> Seq(Follow)]
           /\ \A c \in Clones : Late(cq'[c], "FollowUnsubscribe", link)
  <1>1. \A c \in Clones : Append(cq[c], e) \in Seq(Follow) /\ cq[c] \in Seq(Follow)
    BY DEF LinkInv, GateTypes
  <1>2. cq' = [c \in Clones |-> IF /\ c \in cloneSenders /\ cst[c] = "run"
                                   /\ Len(cq[c]) < QueueLen
                                THEN Append(cq[c], e) ELSE cq[c]]
    BY Zenon DEF Notify
  <1>3. /\ cq' \in [Clones -> Seq(Follow)]
        /\ \A c \in Clones : cq'[c] \in {cq[c], Append(cq[c], e)}
    BY <1>1, <1>2, Zenon
  <1> QED
    BY <1>3, StepNotify, Zenon

\* A step of the root that takes a command and leaves links and slots alone.
LEMMA RootPlain ==
    ASSUME LinkInv, chan[gen] # <<>>, Taken,
           UNCHANGED <<gen, agentGen, tasks, updates, link>>,
           cq' \in [Clones -> Seq(Follow)],
           \A c \in Clones : Late(cq'[c], "FollowUnsubscribe", link)
    PROVE  LinkInv'
  <1>1. chan' \in [Gens -> Seq(Commands)] /\ ChanInv'
    BY StepTaken
  <1>2. GateTypes' /\ CqInv' /\ TaskInv' /\ UpInv'
    BY <1>1, Zenon DEF LinkInv, GateTypes, CqInv, TaskInv, UpInv
  <1> QED
    BY <1>1, <1>2, Zenon DEF LinkInv

\* A link gets its slot.
LEMMA StepSubscribe ==
    ASSUME LinkInv, RootSubscribe
    PROVE  LinkInv'
  <1> DEFINE q == chan[gen]
  <1>0. /\ q # <<>> /\ q \in Seq(Commands) /\ gen \in Gens
        /\ chan \in [Gens -> Seq(Commands)] /\ link \in [Links -> LinkState]
        /\ Asks(q, gen, link) /\ Late(q, "Unsubscribe", link)
        /\ Ahead(q, gen, agentGen)
        /\ UNCHANGED <<gen, agentGen, tasks>>
    BY DEF LinkInv, GateTypes, ChanInv, RootSubscribe, Next1, rootVars, agentVars
  <1>1. Head(q) \in Commands /\ Head(q)[1] = "Subscribe" /\ Head(q) = q[1]
           /\ 1 \in 1 .. Len(q)
    BY <1>0, First, Zenon DEF RootSubscribe, Next1
  <1>2. PICK l0 \in Links : Head(q) = <<"Subscribe", l0>>
    BY <1>1, Forms
  <1>3. Arg = l0 /\ link[l0].gen = gen
    BY <1>0, <1>1, <1>2 DEF Arg, Asks
  <1>4. /\ link' = [link EXCEPT ![l0].phase = "up"]
        /\ updates' = updates \cup {<<l0, gen>>}
        /\ chan' = [chan EXCEPT ![gen] = Tail(q)]
        /\ Notify(<<"FollowSubscribe", <<l0, gen>> >>)
    BY <1>3 DEF RootSubscribe, Insert, Taken
  <1>5. /\ link' \in [Links -> LinkState]
        /\ \A l \in Links : /\ link'[l].gen = link[l].gen
                            /\ l # l0 => link'[l] = link[l]
    BY <1>0, <1>4, Zenon DEF LinkState
  <1>6. /\ Tail(q) \in Seq(Commands) /\ Asks(Tail(q), gen, link)
        /\ Late(Tail(q), "Unsubscribe", link) /\ Ahead(Tail(q), gen, agentGen)
        /\ \A k \in 1 .. Len(Tail(q)) : Tail(q)[k] # <<"Subscribe", l0>>
    BY <1>0, <1>2, Rest, Zenon
  <1> DEFINE t == Tail(q)
  <1> HIDE DEF t
  <1>7. Asks(t, gen, link') /\ Late(t, "Unsubscribe", link')
    <2>0. /\ Asks(t, gen, link) /\ Late(t, "Unsubscribe", link)
          /\ \A k \in 1 .. Len(t) : t[k] # <<"Subscribe", l0>>
      BY <1>6, Zenon DEF t
    <2>1. Asks(t, gen, link')
      BY <1>5, <2>0 DEF Asks
    <2>2. Late(t, "Unsubscribe", link')
      BY <1>5, <2>0, Zenon DEF Late
    <2> QED
      BY <2>1, <2>2
  <1>8. ASSUME NEW g \in Gens, g # gen
        PROVE  Asks(chan[g], g, link') /\ Late(chan[g], "Unsubscribe", link')
    <2>1. Asks(chan[g], g, link) /\ Late(chan[g], "Unsubscribe", link)
      BY DEF LinkInv, ChanInv
    <2>2. \A k \in 1 .. Len(chan[g]) : chan[g][k] # <<"Subscribe", l0>>
      BY <1>3, <1>8, <2>1, Zenon DEF Asks
    <2>3. Asks(chan[g], g, link')
      BY <1>5, <2>1, <2>2, Zenon DEF Asks
    <2>4. Late(chan[g], "Unsubscribe", link')
      BY <1>5, <2>1, Zenon DEF Late
    <2> QED
      BY <2>3, <2>4
  <1>9. ChanInv' /\ chan' \in [Gens -> Seq(Commands)]
    BY <1>0, <1>4, <1>6, <1>7, <1>8, Zenon DEF t, LinkInv, ChanInv
  <1>10. /\ cq' \in [Clones -> Seq(Follow)]
         /\ \A c \in Clones : Late(cq'[c], "FollowUnsubscribe", link)
    <2>1. <<"FollowSubscribe", <<l0, gen>> >> \in Follow
      BY <1>0, Zenon DEF Follow, Slots
    <2>2. \A l \in Links, h \in Gens :
             <<"FollowSubscribe", <<l0, gen>> >> # <<"FollowUnsubscribe", <<l, h>> >>
      OBVIOUS
    <2> QED
      BY <1>4, <2>1, <2>2, Notified, Zenon
  <1>11. CqInv'
    BY <1>5, <1>10, Zenon DEF CqInv, Late
  <1>12. TaskInv' /\ GateTypes'
    BY <1>0, <1>5, <1>9, <1>10, Zenon DEF LinkInv, TaskInv, GateTypes
  <1>13. UpInv'
    BY <1>0, <1>3, <1>4, <1>5, GateAssumption DEF LinkInv, UpInv, Gens
  <1> QED
    BY <1>9, <1>11, <1>12, <1>13 DEF LinkInv

\* A slot goes whose link has moved on.
LEMMA StepUnsubscribe ==
    ASSUME LinkInv, RootUnsubscribe
    PROVE  LinkInv'
  <1> DEFINE q == chan[gen]
  <1>0. /\ q # <<>> /\ q \in Seq(Commands) /\ gen \in Gens
        /\ Late(q, "Unsubscribe", link) /\ link \in [Links -> LinkState]
        /\ UNCHANGED <<gen, agentGen, tasks, link>>
    BY DEF LinkInv, GateTypes, ChanInv, RootUnsubscribe, Next1, rootVars, agentVars
  <1>1. Head(q) \in Commands /\ Head(q)[1] = "Unsubscribe" /\ Head(q) = q[1]
           /\ 1 \in 1 .. Len(q)
    BY <1>0, First, Zenon DEF RootUnsubscribe, Next1
  <1>2. PICK l0 \in Links, h0 \in Gens : Head(q) = <<"Unsubscribe", <<l0, h0>> >>
    BY <1>1, Forms, Zenon
  <1>3. Arg = <<l0, h0>> /\ h0 < link[l0].gen
    BY <1>0, <1>1, <1>2 DEF Arg, Late
  <1>4. /\ updates' = updates \ {<<l0, h0>>} /\ Taken
        /\ Notify(<<"FollowUnsubscribe", <<l0, h0>> >>)
    BY <1>3 DEF RootUnsubscribe, Remove
  <1>5. chan' \in [Gens -> Seq(Commands)] /\ ChanInv'
    BY <1>0, <1>4, StepTaken, Zenon
  <1>6. /\ cq' \in [Clones -> Seq(Follow)]
        /\ \A c \in Clones : Late(cq'[c], "FollowUnsubscribe", link)
    <2>1. <<"FollowUnsubscribe", <<l0, h0>> >> \in Follow
      BY DEF Follow, Slots
    <2>2. \A l \in Links, h \in Gens :
             <<"FollowUnsubscribe", <<l0, h0>> >> = <<"FollowUnsubscribe", <<l, h>> >>
                 => h < link[l].gen
      BY <1>3
    <2> QED
      BY <1>4, <2>1, <2>2, Notified, Zenon
  <1>7. GateTypes' /\ CqInv' /\ TaskInv'
    BY <1>0, <1>5, <1>6, Zenon DEF LinkInv, GateTypes, CqInv, TaskInv
  <1>8. \A l \in Links : link[l].gen = gen => <<l, gen>> # <<l0, h0>>
    BY <1>0, <1>3, GateAssumption DEF Gens
  <1>9. UpInv'
    BY <1>0, <1>4, <1>8, Zenon DEF LinkInv, UpInv
  <1> QED
    BY <1>5, <1>7, <1>9 DEF LinkInv

\* The gate moves on to its successor: no link of that one is up yet.
LEMMA StepReconfigure ==
    ASSUME LinkInv, RootReconfigure
    PROVE  LinkInv'
  <1> DEFINE q == chan[gen]
  <1>0. /\ q # <<>> /\ q \in Seq(Commands) /\ gen \in Gens /\ agentGen \in Gens
        /\ Ahead(q, gen, agentGen) /\ link \in [Links -> LinkState]
        /\ gen' = gen + 1 /\ Close({gen})
        /\ Notify(<<"FollowReconfigure", 0>>)
        /\ UNCHANGED <<agentGen, tasks>>
    BY Zenon DEF LinkInv, GateTypes, ChanInv, RootReconfigure, Next1, agentVars
  <1>1. Head(q)[1] = "Reconfigure" /\ Head(q) = q[1] /\ 1 \in 1 .. Len(q)
    BY <1>0, First, Zenon DEF RootReconfigure, Next1
  <1>2. gen < agentGen
    BY <1>0, <1>1, Zenon DEF Ahead
  <1>3. gen' \in Gens
    BY <1>0, <1>2, GateAssumption DEF Gens
  <1>4. /\ chan' \in [Gens -> Seq(Commands)] /\ link' \in [Links -> LinkState]
        /\ \A l \in Links : /\ link'[l].gen = link[l].gen
                            /\ link'[l].phase = "up" => link[l].phase = "up"
        /\ ChanInv'
    BY <1>0, StepClose, Zenon
  <1>5. /\ cq' \in [Clones -> Seq(Follow)]
        /\ \A c \in Clones : Late(cq'[c], "FollowUnsubscribe", link)
    <2>1. /\ <<"FollowReconfigure", 0>> \in Follow
          /\ \A l \in Links, h \in Gens :
                <<"FollowReconfigure", 0>> # <<"FollowUnsubscribe", <<l, h>> >>
      BY DEF Follow
    <2> QED
      BY <1>0, <2>1, Notified, Zenon
  <1>6. GateTypes' /\ TaskInv'
    BY <1>0, <1>3, <1>4, <1>5, Zenon DEF LinkInv, GateTypes, TaskInv
  <1>7. CqInv'
    BY <1>4, <1>5, Zenon DEF CqInv, Late
  <1>8. \A l \in Links : link'[l].phase = "up" => link'[l].gen < gen'
    <2> SUFFICES ASSUME NEW l \in Links, link'[l].phase = "up"
                 PROVE  link[l].gen < gen + 1
      BY <1>0, <1>4, Zenon
    <2>1. link[l].gen <= gen /\ link[l].gen \in Gens
      BY <1>0, <1>4, Zenon DEF LinkInv, UpInv, LinkState
    <2> QED
      BY <1>0, <2>1, GateAssumption DEF Gens
  <1>9. \A l \in Links : link'[l].gen \in Gens
    BY <1>4 DEF LinkState
  <1>10. UpInv'
    BY <1>3, <1>8, <1>9, GateAssumption DEF UpInv, Gens
  <1> QED
    BY <1>4, <1>6, <1>7, <1>10, Zenon DEF LinkInv

LEMMA StepTerminateGate ==
    ASSUME LinkInv, RootTerminate
    PROVE  LinkInv'
  <1>0. UNCHANGED <<gen, agentGen, tasks, updates>> /\ Close(DroppedWith(gen))
    BY Zenon DEF RootTerminate, agentVars
  <1>1. DroppedWith(gen) \in SUBSET Gens
    BY DEF DroppedWith
  <1>2. /\ chan' \in [Gens -> Seq(Commands)] /\ link' \in [Links -> LinkState]
        /\ \A l \in Links : /\ link'[l].gen = link[l].gen
                            /\ link'[l].phase = "up" => link[l].phase = "up"
        /\ ChanInv'
    BY <1>0, <1>1, StepClose, Zenon
  <1>3. /\ cq' \in [Clones -> Seq(Follow)]
        /\ \A c \in Clones : Late(cq'[c], "FollowUnsubscribe", link)
    <2>1. /\ <<"Terminate", 0>> \in Follow
          /\ \A l \in Links, h \in Gens :
                <<"Terminate", 0>> # <<"FollowUnsubscribe", <<l, h>> >>
      BY DEF Follow
    <2>2. cq' = [c \in Clones |-> IF /\ c \in cloneSenders /\ cst[c] = "run"
                                     /\ Len(cq[c]) < QueueLen
                                  THEN Append(cq[c], <<"Terminate", 0>>) ELSE cq[c]]
      BY Zenon DEF RootTerminate
    <2> QED
      BY <2>1, <2>2, Notified, Zenon
  <1>4. GateTypes' /\ TaskInv' /\ UpInv'
    BY <1>0, <1>2, <1>3, Zenon DEF LinkInv, GateTypes, TaskInv, UpInv
  <1>5. CqInv'
    BY <1>2, <1>3, Zenon DEF CqInv, Late
  <1> QED
    BY <1>2, <1>4, <1>5 DEF LinkInv

LEMMA StepRoot ==
    ASSUME LinkInv, RootProcess
    PROVE  LinkInv'
  <1>1. CASE RootAttach \/ RootDetach
    <2>1. /\ chan[gen] # <<>> /\ Taken
          /\ UNCHANGED <<gen, agentGen, tasks, updates, link, cq>>
      BY <1>1 DEF RootAttach, RootDetach, Next1, rootVars, agentVars
    <2>2. cq \in [Clones -> Seq(Follow)]
             /\ \A c \in Clones : Late(cq[c], "FollowUnsubscribe", link)
      BY DEF LinkInv, GateTypes, CqInv
    <2> QED
      BY <2>1, <2>2, RootPlain, Zenon
  <1>2. CASE RootReport
    <2>1. /\ chan[gen] # <<>> /\ Taken /\ Notify(<<"ReportLinks", 0>>)
          /\ UNCHANGED <<gen, agentGen, tasks, updates, link>>
      BY <1>2 DEF RootReport, Next1, rootVars, agentVars
    <2>2. /\ <<"ReportLinks", 0>> \in Follow
          /\ \A l \in Links, h \in Gens :
                <<"ReportLinks", 0>> # <<"FollowUnsubscribe", <<l, h>> >>
      BY DEF Follow
    <2>3. cq' \in [Clones -> Seq(Follow)]
             /\ \A c \in Clones : Late(cq'[c], "FollowUnsubscribe", link)
      BY <2>1, <2>2, Notified, Zenon
    <2> QED
      BY <2>1, <2>3, RootPlain
  <1> QED
    BY <1>1, <1>2, StepSubscribe, StepUnsubscribe, StepReconfigure,
       StepTerminateGate, Zenon DEF RootProcess

\* A clone ends: DetachClone may be queued.
LEMMA StepDrop ==
    ASSUME LinkInv, NEW c \in Clones, NEW how, Drop(c, how),
           UNCHANGED <<gen, agentGen, tasks, updates, link>>,
           cq' \in [Clones -> Seq(Follow)],
           \A d \in Clones : Late(cq'[d], "FollowUnsubscribe", link)
    PROVE  LinkInv'
  <1>1. chan' \in [Gens -> Seq(Commands)] /\ ChanInv'
    <2>1. CASE Queue(0, <<"DetachClone", c>>)
      <3> DEFINE e == <<"DetachClone", c>>
      <3>1. /\ 0 \in Gens /\ e \in Commands /\ e[1] = "DetachClone"
            /\ \A l \in Links, h \in Gens : e # <<"Unsubscribe", <<l, h>> >>
        BY GateAssumption DEF Gens, Commands
      <3> HIDE DEF e
      <3> QED
        BY <2>1, <3>1, StepQueue, Zenon DEF e
    <2>2. CASE UNCHANGED chan
      BY <2>2 DEF LinkInv, GateTypes, ChanInv
    <2> QED
      BY <2>1, <2>2 DEF Drop
  <1>2. GateTypes' /\ CqInv' /\ TaskInv' /\ UpInv'
    BY <1>1, Zenon DEF LinkInv, GateTypes, CqInv, TaskInv, UpInv
  <1> QED
    BY <1>1, <1>2 DEF LinkInv

\* A clone takes a command off its queue.
LEMMA CloneTakes ==
    ASSUME LinkInv, NEW c \in Clones, cq[c] # <<>>,
           cq' = [cq EXCEPT ![c] = Tail(cq[c])]
    PROVE  /\ cq' \in [Clones -> Seq(Follow)]
           /\ \A d \in Clones : Late(cq'[d], "FollowUnsubscribe", link)
  <1>1. cq \in [Clones -> Seq(Follow)] /\ Late(cq[c], "FollowUnsubscribe", link)
    BY DEF LinkInv, GateTypes, CqInv
  <1>2. Tail(cq[c]) \in Seq(Follow) /\ Late(Tail(cq[c]), "FollowUnsubscribe", link)
    BY <1>1, Rest, Zenon
  <1> DEFINE q == Tail(cq[c])
  <1> HIDE DEF q
  <1>3. cq' = [cq EXCEPT ![c] = q] /\ q \in Seq(Follow)
           /\ Late(q, "FollowUnsubscribe", link)
    BY <1>2 DEF q
  <1> QED
    BY <1>1, <1>3, Zenon DEF LinkInv, CqInv

LEMMA StepClone ==
    ASSUME LinkInv, NEW c \in Clones, WorkerEnds(c) \/ CloneProcess(c)
    PROVE  LinkInv'
  <1>0. cq \in [Clones -> Seq(Follow)]
           /\ \A d \in Clones : Late(cq[d], "FollowUnsubscribe", link)
    BY DEF LinkInv, GateTypes, CqInv
  <1>1. CASE WorkerEnds(c) \/ CloneQueueEnds(c)
    <2>1. /\ \E how \in {"ended", "terminated"} : Drop(c, how)
          /\ UNCHANGED <<gen, agentGen, tasks, updates, link, cq>>
      BY <1>1, Zenon DEF WorkerEnds, CloneQueueEnds, rootVars, agentVars
    <2> QED
      BY <1>0, <2>1, StepDrop, Zenon
  <1>2. CASE CloneTerminates(c)
    <2>1. /\ Drop(c, "terminated") /\ cq[c] # <<>>
          /\ cq' = [cq EXCEPT ![c] = Tail(cq[c])]
          /\ UNCHANGED <<gen, agentGen, tasks, updates, link>>
      BY <1>2 DEF CloneTerminates, CloneHas, rootVars, agentVars
    <2>2. cq' \in [Clones -> Seq(Follow)]
             /\ \A d \in Clones : Late(cq'[d], "FollowUnsubscribe", link)
      BY <2>1, CloneTakes, Zenon
    <2> QED
      BY <2>1, <2>2, StepDrop, Zenon
  <1>3. CASE CloneFollows(c)
    <2>1. /\ cq[c] # <<>> /\ cq' = [cq EXCEPT ![c] = Tail(cq[c])]
          /\ UNCHANGED <<gen, agentGen, chan, tasks, link>>
          /\ \/ updates \subseteq updates'
             \/ /\ Head(cq[c])[1] = "FollowUnsubscribe"
                /\ updates' = updates \ {Head(cq[c])[2]}
      BY <1>3, Zenon DEF CloneFollows, CloneHas, Insert, Remove, rootVars, agentVars
    <2>2. cq' \in [Clones -> Seq(Follow)]
             /\ \A d \in Clones : Late(cq'[d], "FollowUnsubscribe", link)
      BY <2>1, CloneTakes, Zenon
    <2>3. GateTypes' /\ ChanInv' /\ CqInv' /\ TaskInv'
      BY <2>1, <2>2, Zenon DEF LinkInv, GateTypes, ChanInv, CqInv, TaskInv
    <2>4. CASE updates \subseteq updates'
      BY <2>1, <2>3, <2>4, Zenon DEF LinkInv, UpInv
    <2>5. CASE /\ Head(cq[c])[1] = "FollowUnsubscribe"
               /\ updates' = updates \ {Head(cq[c])[2]}
      <3>1. Head(cq[c]) \in Follow /\ Head(cq[c]) = cq[c][1] /\ 1 \in 1 .. Len(cq[c])
        BY <1>0, <2>1, First, Zenon
      <3>2. PICK l0 \in Links, h0 \in Gens :
               Head(cq[c]) = <<"FollowUnsubscribe", <<l0, h0>> >>
        BY <2>5, <3>1, Forms, Zenon
      <3>3. h0 < link[l0].gen /\ updates' = updates \ {<<l0, h0>>}
        <4>1. Late(cq[c], "FollowUnsubscribe", link)
          BY <1>0
        <4>2. h0 < link[l0].gen
          BY <3>1, <3>2, <4>1, Zenon DEF Late
        <4> QED
          BY <2>5, <3>2, <4>2
      <3>4. \A l \in Links : link[l].gen = gen => <<l, gen>> # <<l0, h0>>
        BY <3>3, GateAssumption DEF LinkInv, GateTypes, Gens
      <3>5. UpInv'
        BY <2>1, <3>3, <3>4, Zenon DEF LinkInv, UpInv
      <3> QED
        BY <2>3, <3>5 DEF LinkInv
    <2> QED
      BY <2>1, <2>4, <2>5, Zenon
  <1> QED
    BY <1>1, <1>2, <1>3 DEF CloneProcess

LEMMA NextLink == LinkInv /\ [GateNext]_gateVars => LinkInv'
  <1> SUFFICES ASSUME LinkInv, [GateNext]_gateVars PROVE LinkInv'
    OBVIOUS
  <1>0. agentGen \in Gens /\ 0 \in Gens
    BY GateAssumption DEF LinkInv, GateTypes, Gens
  <1>1. CASE UNCHANGED gateVars
    BY <1>1, Zenon DEF gateVars, rootVars, agentVars, cloneVars, LinkInv, GateTypes,
       ChanInv, CqInv, TaskInv, UpInv
  <1>2. CASE Reload
    <2>1. agentGen + 1 \in Gens /\ agentGen <= agentGen + 1 /\ agentGen < agentGen + 1
      BY <1>0, <1>2, GateAssumption DEF Reload, Gens
    <2>2. <<"Reconfigure", 0>> \in Commands
      BY DEF Commands
    <2> QED
      BY <1>0, <1>2, <2>1, <2>2, StepTask, Zenon DEF Reload, rootVars, cloneVars
  <1>3. CASE AskTerminate \/ AskReport
    <2>1. agentGen <= agentGen
      BY <1>0, GateAssumption DEF Gens
    <2>2. <<"Terminate", 0>> \in Commands /\ <<"ReportLinks", 0>> \in Commands
      BY DEF Commands
    <2> QED
      BY <1>0, <1>3, <2>1, <2>2, StepTask, Zenon
      DEF AskTerminate, AskReport, rootVars, cloneVars
  <1>4. ASSUME NEW c \in Clones, MakeClone(c)
        PROVE  LinkInv'
    <2>1. agentGen <= agentGen
      BY <1>0, GateAssumption DEF Gens
    <2>2. <<"AttachClone", c>> \in Commands
      BY DEF Commands
    <2> QED
      BY <1>0, <1>4, <2>1, <2>2, StepTask, Zenon DEF MakeClone, rootVars, agentVars
  <1> QED
    BY <1>1, <1>2, <1>3, <1>4, StepConnect, StepRelink, StepSend, StepRoot,
       StepClone, Zenon DEF GateNext

\* Link::connect and Gate::process, for any number of links, clones and
\* reloads: a connected link of the present gate has its slot, whatever late
\* unsubscriptions the gate and its clones still carry out.
THEOREM LinksAreServed == GateSpec => []LinkServed
  <1>1. LinkInv => LinkServed
    BY DEF LinkInv, UpInv, LinkServed
  <1> QED
    BY <1>1, InitLink, NextLink, PTL DEF GateSpec

-----------------------------------------------------------------------------
(***************************************************************************)
(* Starting together.  A component that connects its links is tracked and  *)
(* not at the barrier, so the first barrier is still closed; a component   *)
(* runs only behind the second.                                            *)
(***************************************************************************)

MgrTypes ==
    /\ round \in Nat
    /\ phase \in [Insts -> Phases]
    /\ barrier \in [Rounds -> 0 .. 3]
    /\ arrived \in [Rounds -> SUBSET Comps]
    /\ tracked \in [Rounds -> SUBSET Comps]

InstInv(c, r) ==
    /\ phase[<<c, r>>] = "connect" =>
           c \in tracked[r] /\ c \notin arrived[r] /\ barrier[r] = 1
    /\ phase[<<c, r>>] = "second" => barrier[r] \in {2, 3}
    /\ phase[<<c, r>>] \in {"run", "relink"} => barrier[r] = 3

BarrierInv ==
    /\ MgrTypes
    /\ \A r \in Rounds : r > round => barrier[r] = 0 /\ arrived[r] = {}
    /\ \A c \in Comps, r \in Rounds : InstInv(c, r)
    /\ \A r \in Rounds : barrier[r] = 0 => arrived[r] = {}

\* The rounds there can be.
LEMMA RoundsAre ==
    MaxSpawn \in Nat /\ \A n : n \in Rounds <=> n \in Nat /\ 0 < n /\ n <= MaxSpawn
  BY ManagerAssumption, SMT, Z3 DEF Rounds

LEMMA InitBarrier == MgrInit => BarrierInv
  <1> SUFFICES ASSUME MgrInit PROVE BarrierInv
    OBVIOUS
  <1>1. MgrTypes
    BY SMT, Z3 DEF MgrInit, MgrTypes, Phases
  <1>2. \A c \in Comps, r \in Rounds : InstInv(c, r)
    BY DEF MgrInit, InstInv, Insts
  <1> QED
    BY <1>1, <1>2, SMT, Z3 DEF MgrInit, BarrierInv

LEMMA SpawnBarrier ==
    ASSUME BarrierInv, NEW cf \in Configs, Spawn(cf)
    PROVE  BarrierInv'
  <1> DEFINE r0 == round + 1
             new == Started(cf)
  <1>0. MgrTypes /\ r0 \in Rounds /\ r0 > round
    <2>1. MgrTypes /\ round \in Nat /\ round < MaxSpawn
      BY Zenon DEF BarrierInv, MgrTypes, Spawn
    <2> QED
      BY <2>1, RoundsAre
  <1>1. /\ round' = r0
        /\ tracked' = [tracked EXCEPT ![r0] = new]
        /\ barrier' = [barrier EXCEPT ![r0] = 1]
        /\ arrived' = arrived
        /\ phase' = [i \in Insts |-> IF i \in new \X {r0} THEN "connect" ELSE phase[i]]
    BY Zenon DEF Spawn, Launch
  <1>2. new \subseteq Comps
    BY DEF Started, Wanted, Has
  <1> HIDE DEF new, r0
  <1>3. MgrTypes'
    BY <1>0, <1>1, <1>2 DEF MgrTypes, Phases, Rounds
  <1>4. \A r \in Rounds : r > r0 => r > round /\ r # r0
    BY <1>0 DEF MgrTypes, Rounds, r0
  <1>5. \A r \in Rounds : r > round' => barrier'[r] = 0 /\ arrived'[r] = {}
    BY <1>0, <1>1, <1>4, Zenon DEF BarrierInv, MgrTypes
  <1>6. \A r \in Rounds : barrier'[r] = 0 => arrived'[r] = {}
    BY <1>0, <1>1, Zenon DEF BarrierInv, MgrTypes
  <1>7. ASSUME NEW c \in Comps, NEW r \in Rounds
        PROVE  InstInv(c, r)'
    <2>0. <<c, r>> \in Insts /\ InstInv(c, r)
      BY DEF Insts, BarrierInv
    <2>1. CASE r # r0
      <3>1. phase'[<<c, r>>] = phase[<<c, r>>] /\ tracked'[r] = tracked[r]
               /\ barrier'[r] = barrier[r]
        BY <1>0, <1>1, <2>0, <2>1, SMT, Z3 DEF MgrTypes
      <3> QED
        BY <1>1, <2>0, <3>1, Zenon DEF InstInv
    <2>2. CASE r = r0
      <3>1. barrier[r] = 0 /\ arrived[r] = {}
        BY <1>0, <2>2 DEF BarrierInv
      <3>2. /\ barrier'[r] = 1 /\ tracked'[r] = new /\ arrived'[r] = {}
            /\ phase'[<<c, r>>] = IF c \in new THEN "connect" ELSE phase[<<c, r>>]
        BY <1>0, <1>1, <2>0, <2>2, <3>1, Zenon DEF MgrTypes
      <3>3. phase[<<c, r>>] \notin {"connect", "second", "run", "relink"}
        BY <2>0, <3>1 DEF InstInv
      <3> QED
        BY <3>2, <3>3 DEF InstInv
    <2> QED
      BY <2>1, <2>2
  <1> QED
    BY <1>3, <1>5, <1>6, <1>7 DEF BarrierInv

\* A step of one instance, and what it adds to a barrier.
LEMMA InstanceBarrier ==
    ASSUME BarrierInv, NEW i \in Insts, NEW p \in Phases \ {"connect"},
           phase' = [phase EXCEPT ![i] = p],
           \/ arrived' = arrived
           \/ /\ arrived' = [arrived EXCEPT ![i[2]] = @ \cup {i[1]}]
              /\ barrier[i[2]] \in {1, 2},
           p = "second" => barrier[i[2]] \in {2, 3},
           p \in {"run", "relink"} => barrier[i[2]] = 3,
           UNCHANGED <<round, tracked, barrier>>
    PROVE  BarrierInv'
  <1>0. PICK d \in Comps, q \in Rounds : i = <<d, q>>
    BY DEF Insts
  <1>1. i[1] = d /\ i[2] = q
    BY <1>0
  <1>2. \A r \in Rounds : /\ r # q => arrived'[r] = arrived[r]
                          /\ arrived'[r] \subseteq arrived[r] \cup {d}
                          /\ arrived'[r] # arrived[r] => barrier[r] \in {1, 2}
    BY <1>1, SMT, Z3 DEF BarrierInv, MgrTypes
  <1>3. MgrTypes'
    BY <1>0, <1>1, SMT, Z3 DEF BarrierInv, MgrTypes
  <1>4. ASSUME NEW c \in Comps, NEW r \in Rounds
        PROVE  InstInv(c, r)'
    <2>0. /\ <<c, r>> \in Insts /\ InstInv(c, r)
          /\ phase'[<<c, r>>] = IF c = d /\ r = q THEN p ELSE phase[<<c, r>>]
      BY <1>0, Zenon DEF Insts, BarrierInv, MgrTypes
    <2>1. CASE c = d /\ r = q
      BY <1>1, <2>0, <2>1, Zenon DEF InstInv
    <2>2. CASE ~(c = d /\ r = q)
      <3>1. c \notin arrived[r] => c \notin arrived'[r]
        BY <1>2, <2>2, Zenon
      <3> QED
        BY <2>0, <2>2, <3>1, Zenon DEF InstInv
    <2> QED
      BY <2>1, <2>2
  <1>5. \A r \in Rounds : /\ r > round => barrier[r] = 0 /\ arrived'[r] = {}
                          /\ barrier[r] = 0 => arrived'[r] = {}
    BY <1>2, SMT, Z3 DEF BarrierInv
  <1> QED
    BY <1>3, <1>4, <1>5, Zenon DEF BarrierInv

LEMMA OpenBarrier ==
    ASSUME BarrierInv, NEW r0 \in Rounds, Open(r0),
           UNCHANGED <<round, tracked, phase>>
    PROVE  BarrierInv'
  <1>1. /\ barrier' = [barrier EXCEPT ![r0] = barrier[r0] + 1]
        /\ arrived' = [arrived EXCEPT ![r0] = {}]
        /\ barrier[r0] \in {1, 2} /\ arrived[r0] = tracked[r0]
    BY DEF Open
  <1>2. MgrTypes'
    BY <1>1 DEF BarrierInv, MgrTypes
  <1>3. ASSUME NEW c \in Comps, NEW r \in Rounds
        PROVE  InstInv(c, r)'
    <2>0. InstInv(c, r)
      BY SMT, Z3 DEF BarrierInv
    <2>1. CASE r # r0
      BY <1>1, <2>0, <2>1, SMT, Z3 DEF InstInv, BarrierInv, MgrTypes
    <2>2. CASE r = r0
      <3>1. barrier'[r] = barrier[r] + 1
        BY <1>1, <2>2, SMT, Z3 DEF BarrierInv, MgrTypes
      <3>2. phase[<<c, r>>] # "connect" /\ phase[<<c, r>>] \notin {"run", "relink"}
        BY <1>1, <2>0, <2>2, SMT, Z3 DEF InstInv
      <3> QED
        BY <1>1, <2>0, <2>2, <3>1, <3>2, SMT, Z3 DEF InstInv
    <2> QED
      BY <2>1, <2>2
  <1>4. \A r \in Rounds : /\ r > round => barrier'[r] = 0 /\ arrived'[r] = {}
                          /\ barrier'[r] = 0 => arrived'[r] = {}
    BY <1>1 DEF BarrierInv, MgrTypes
  <1> QED
    BY <1>2, <1>3, <1>4, SMT, Z3 DEF BarrierInv

LEMMA NextBarrier == BarrierInv /\ [MgrNext]_mgrVars => BarrierInv'
  <1> SUFFICES ASSUME BarrierInv, [MgrNext]_mgrVars PROVE BarrierInv'
    OBVIOUS
  <1>1. CASE UNCHANGED <<round, tracked, phase, barrier, arrived>>
    BY <1>1 DEF BarrierInv, MgrTypes, InstInv
  <1>2. ASSUME NEW cf \in Configs, Hup(cf)
        PROVE  BarrierInv'
    <2>1. CASE Refused(cf)
      BY <1>1, <2>1 DEF Refused, roundVars, instVars, coordVars
    <2> QED
      BY <1>2, <2>1, SpawnBarrier DEF Hup
  <1>3. ASSUME NEW i \in Insts, InstanceStep(i) \/ SetupFails(i)
        PROVE  BarrierInv'
    <2>0. UNCHANGED <<round, tracked, barrier>>
      BY <1>3, Zenon DEF InstanceStep, SetupFails, roundVars, coordVars, Arrive, Panic,
         Second, Start, Reconfigure, Disregard, Relinked, QueryGone, EndInstance
    <2>1. /\ phase \in [Insts -> Phases]
          /\ barrier[i[2]] \in 0 .. 3
          /\ phase[i] = "connect" => barrier[i[2]] = 1
          /\ phase[i] \in {"run", "relink"} => barrier[i[2]] = 3
      BY DEF BarrierInv, MgrTypes, Insts, InstInv
    <2>2. CASE Arrive(i)
      BY <2>0, <2>1, <2>2, InstanceBarrier, Zenon DEF Arrive, Become, Phases
    <2>3. CASE Second(i)
      BY <2>0, <2>1, <2>3, InstanceBarrier, Zenon DEF Second, Become, Phases
    <2>4. CASE Start(i)
      BY <2>0, <2>1, <2>4, InstanceBarrier, Zenon DEF Start, Become, Phases, coordVars
    <2>5. CASE \E r \in Rounds : Reconfigure(i, r)
      BY <2>0, <2>1, <2>5, InstanceBarrier, Zenon DEF Reconfigure, Become, Phases, coordVars
    <2>6. CASE Relinked(i)
      BY <2>0, <2>1, <2>6, InstanceBarrier, Zenon DEF Relinked, Become, Phases, coordVars
    <2>7. CASE Panic(i) \/ QueryGone(i) \/ EndInstance(i) \/ SetupFails(i)
      <3>1. phase' = [phase EXCEPT ![i] = "ended"] /\ arrived' = arrived
        BY <2>7, Zenon DEF Panic, QueryGone, EndInstance, SetupFails, Become, coordVars
      <3> QED
        BY <2>0, <3>1, InstanceBarrier, Zenon DEF Phases
    <2>8. CASE \E r \in Rounds : Disregard(i, r)
      BY <1>1, <2>0, <2>8, Zenon DEF Disregard, coordVars
    <2> QED
      BY <1>3, <2>2, <2>3, <2>4, <2>5, <2>6, <2>7, <2>8, Zenon DEF InstanceStep
  <1>4. ASSUME NEW r \in Rounds, Coordinate(r)
        PROVE  BarrierInv'
    <2>1. CASE Open(r)
      BY <1>4, <2>1, OpenBarrier DEF Coordinate, roundVars, instVars
    <2>2. CASE Publish(r) \/ \E i \in Insts : Answer(r, i)
      BY <1>1, <1>4, <2>2, Zenon DEF Coordinate, Publish, Answer, roundVars, instVars
    <2> QED
      BY <1>4, <2>1, <2>2 DEF Coordinate
  <1>5. CASE CtrlC \/ Terminate \/ UNCHANGED mgrVars
    BY <1>1, <1>5, Zenon DEF CtrlC, Terminate, Stop, StopOne, StopNext, roundVars,
       instVars, coordVars, mgrVars
  <1> QED
    BY <1>2, <1>3, <1>4, <1>5, SMT, Z3 DEF MgrNext

\* rib_unit/unit.rs:570-573 and the coordinator of manager.rs, for any
\* configurations and number of reloads: no component spawned in a round runs
\* while another one of it still connects its links.
THEOREM ComponentsStartTogether == MgrSpec => []StartTogether
  <1>1. BarrierInv => StartTogether
    <2> SUFFICES ASSUME BarrierInv, NEW r \in Rounds, NEW c \in tracked[r],
                        NEW d \in tracked[r],
                        phase[<<c, r>>] \in {"run", "relink"},
                        phase[<<d, r>>] = "connect"
                 PROVE  FALSE
      BY DEF StartTogether
    <2>1. c \in Comps /\ d \in Comps
      BY DEF BarrierInv, MgrTypes
    <2> QED
      BY <2>1 DEF BarrierInv, InstInv
  <1> QED
    BY <1>1, InitBarrier, NextBarrier, PTL DEF MgrSpec

-----------------------------------------------------------------------------
(***************************************************************************)
(* Following the configuration.  A component in charge has taken over the  *)
(* links and the gate of the last round, or the Reconfigure that tells it  *)
(* to is on its way and nothing drops or overtakes it; one that has its    *)
(* links connected is served by the gates of that round, which stay.       *)
(***************************************************************************)

FollowTypes ==
    /\ round \in Nat /\ round <= MaxSpawn
    /\ running \in [Comps -> Nat] /\ \A c \in Comps : running[c] <= round
    /\ phase \in [Insts -> Phases]
    /\ at \in [Insts -> Rounds] /\ gate \in [Insts -> Rounds]
    /\ recon \in [Insts -> SUBSET Rounds]
    /\ term \subseteq Insts
    /\ DOMAIN wires = Rounds

\* What an instance can know of the rounds: nothing of a round to come, and
\* nothing at all before it is spawned.
Timely(i) ==
    /\ i[2] > round => /\ phase[i] = "none" /\ i \notin term
                       /\ at[i] = i[2] /\ gate[i] = i[2] /\ recon[i] = {}
    /\ i[2] <= round => at[i] <= round /\ gate[i] <= round
    /\ \A r \in recon[i] : r <= round
    /\ i[1] \in Units => kind[i] \notin Fixed

\* An instance that was replaced or dropped has been told to terminate.
Replaced(i) == Alive(i) => i = Current(i[1]) \/ i \in term

\* The links of the present round lead to the instances that are in charge,
\* and no unit in charge is told to terminate before the program ends.
WiredNow ==
    stage = "signals" =>
        /\ \A c \in Comps : IsRunning(c) => Current(c) \notin term
        /\ \A c \in Comps : round > 0 => \A v \in wires[round][c] :
              v[1] \in Units /\ IsRunning(v[1]) /\ v = Current(v[1])

\* A component in charge has taken over the round, or will: its Reconfigure is
\* on its way and nothing drops or overtakes it.
TakesOver(c) ==
    LET i == Current(c)
    IN  IsRunning(c) /\ Alive(i) /\ kind[i] \notin Fixed =>
            \/ at[i] = round /\ gate[i] = round /\ recon[i] = {}
            \/ /\ at[i] < round /\ gate[i] < round /\ round \in recon[i]
               /\ c \in Units => phase[i] \notin {"connect", "ready"}
               /\ c \in Targets => recon[i] = {round}

Serving(v) == phase[v] \in {"ready", "second", "run"} /\ gate[v] = round

\* A component connected in the present round is served by its sources.
Attached(c) ==
    LET i == Current(c)
    IN  /\ IsRunning(c) /\ kind[i] \notin Fixed /\ at[i] = round
        /\ phase[i] \in {"ready", "second", "run"}
        => \A v \in wires[round][c] : Serving(v)

FollowInv ==
    /\ FollowTypes
    /\ \A i \in Insts : Timely(i) /\ Replaced(i)
    /\ WiredNow
    /\ early = {} => \A c \in Comps :
          TakesOver(c) /\ (stage = "signals" => Attached(c))

\* Who is in charge of a component.
LEMMA CurrentIs ==
    ASSUME FollowTypes, NEW c \in Comps, IsRunning(c)
    PROVE  /\ Current(c) \in Insts /\ Current(c)[1] = c
           /\ running[c] \in Rounds /\ running[c] <= round /\ round > 0
           /\ Current(c)[2] = running[c]
<1>1. /\ running[c] \in Nat /\ running[c] # 0 /\ running[c] <= round
      /\ round \in Nat /\ round <= MaxSpawn
    BY Zenon DEF FollowTypes, IsRunning
<1>2. running[c] \in Rounds /\ round > 0
    BY <1>1, RoundsAre
<1> QED
    BY <1>1, <1>2, Zenon DEF Current, Insts

LEMMA InitFollow == MgrInit => FollowInv
<1> SUFFICES ASSUME MgrInit PROVE FollowInv
    OBVIOUS
<1>1. FollowTypes
    BY ManagerAssumption DEF MgrInit, FollowTypes, Phases, Insts, Rounds
<1>2. ASSUME NEW i \in Insts PROVE Timely(i) /\ Replaced(i)
    BY <1>2, ManagerAssumption, Zenon DEF MgrInit, Timely, Replaced, Alive, Insts, Rounds
<1>3. \A c \in Comps : ~IsRunning(c)
    BY SMT, Z3 DEF MgrInit, IsRunning
<1>4. WiredNow
    BY <1>3, SMT, Z3 DEF MgrInit, WiredNow
<1>5. \A c \in Comps : TakesOver(c) /\ Attached(c)
    BY <1>3 DEF TakesOver, Attached
<1> QED
    BY <1>1, <1>2, <1>4, <1>5, SMT, Z3 DEF FollowInv

\* What a spawn does to the components and to their instances.
LEMMA SpawnEffect ==
    ASSUME FollowTypes, NEW cf \in Configs, Spawn(cf)
    PROVE  /\ round' = round + 1 /\ round + 1 \in Rounds
           /\ running' = [c \in Comps |-> IF c \notin Wanted(cf) THEN 0
                            ELSE IF c \in Kept(cf) THEN running[c] ELSE round + 1]
           /\ phase' = [i \in Insts |-> IF i[1] \in Started(cf) /\ i[2] = round + 1
                                        THEN "connect" ELSE phase[i]]
           /\ kind' = [i \in Insts |-> IF i[1] \in Started(cf) /\ i[2] = round + 1
                                       THEN cf.type[i[1]] ELSE kind[i]]
           /\ recon' = [i \in Insts |-> IF i \in {Current(c) : c \in Kept(cf)}
                                   THEN recon[i] \cup {round + 1} ELSE recon[i]]
           /\ term' = term \cup {Current(c) : c \in Stopped(cf)}
           /\ at' = at /\ gate' = gate
           /\ Kept(cf) \subseteq Wanted(cf) /\ Wanted(cf) \subseteq Comps
           /\ Started(cf) = Wanted(cf) \ Kept(cf)
           /\ Stopped(cf) = {c \in Comps : IsRunning(c) /\ c \notin Kept(cf)}
           /\ \A c \in Kept(cf) : IsRunning(c)
<1>1. round' = round + 1 /\ round + 1 \in Rounds
    <2>1. round' = round + 1 /\ round < MaxSpawn /\ round \in Nat
        BY Zenon DEF Spawn, FollowTypes
    <2> QED
        BY <2>1, RoundsAre
<1>2. /\ Kept(cf) \subseteq Wanted(cf) /\ Wanted(cf) \subseteq Comps
      /\ Started(cf) = Wanted(cf) \ Kept(cf)
      /\ Stopped(cf) = {c \in Comps : IsRunning(c) /\ c \notin Kept(cf)}
      /\ \A c \in Kept(cf) : IsRunning(c)
    BY Zenon DEF Kept, Wanted, Has, Started, Stopped
<1>3. \A i \in Insts : i \in Started(cf) \X {round + 1}
                          <=> i[1] \in Started(cf) /\ i[2] = round + 1
    BY DEF Insts
<1>4. at' = at /\ gate' = gate /\ term' = term \cup {Current(c) : c \in Stopped(cf)}
    BY Zenon DEF Spawn, SendTerminate
<1>5. recon' = [i \in Insts |-> IF i \in {Current(c) : c \in Kept(cf)}
                                THEN recon[i] \cup {round + 1} ELSE recon[i]]
    BY Zenon DEF Spawn, SendReconfigure
<1>6. phase' = [i \in Insts |-> IF i[1] \in Started(cf) /\ i[2] = round + 1
                                THEN "connect" ELSE phase[i]]
    BY <1>3, Zenon DEF Spawn, Launch
<1>7. kind' = [i \in Insts |-> IF i[1] \in Started(cf) /\ i[2] = round + 1
                               THEN cf.type[i[1]] ELSE kind[i]]
    BY <1>3, Zenon DEF Spawn
<1>8. running' = [c \in Comps |-> IF c \notin Wanted(cf) THEN 0
                            ELSE IF c \in Kept(cf) THEN running[c] ELSE round + 1]
    BY <1>2, Zenon DEF Spawn, Current
<1> QED
    BY <1>1, <1>2, <1>4, <1>5, <1>6, <1>7, <1>8, Zenon

LEMMA SpawnFollow ==
    ASSUME FollowInv, NEW cf \in Configs, Spawn(cf), UNCHANGED stage
    PROVE  FollowInv'
<1> DEFINE R == round + 1
<1>0. FollowTypes /\ WiredNow /\ \A i \in Insts : Timely(i) /\ Replaced(i)
    BY DEF FollowInv
<1>1. /\ round' = R /\ R \in Rounds
      /\ running' = [c \in Comps |-> IF c \notin Wanted(cf) THEN 0
                        ELSE IF c \in Kept(cf) THEN running[c] ELSE R]
      /\ phase' = [i \in Insts |-> IF i[1] \in Started(cf) /\ i[2] = R
                                   THEN "connect" ELSE phase[i]]
      /\ kind' = [i \in Insts |-> IF i[1] \in Started(cf) /\ i[2] = R
                                  THEN cf.type[i[1]] ELSE kind[i]]
      /\ recon' = [i \in Insts |-> IF i \in {Current(c) : c \in Kept(cf)}
                                   THEN recon[i] \cup {R} ELSE recon[i]]
      /\ term' = term \cup {Current(c) : c \in Stopped(cf)}
      /\ at' = at /\ gate' = gate
      /\ Kept(cf) \subseteq Wanted(cf) /\ Wanted(cf) \subseteq Comps
      /\ Started(cf) = Wanted(cf) \ Kept(cf)
      /\ Stopped(cf) = {c \in Comps : IsRunning(c) /\ c \notin Kept(cf)}
      /\ \A c \in Kept(cf) : IsRunning(c)
    BY <1>0, SpawnEffect, Zenon
<1>a. round' = R /\ R \in Rounds /\ round \in Nat /\ at' = at /\ gate' = gate
    BY <1>0, <1>1, Zenon DEF FollowTypes
<1>2. round \in Nat /\ R \in Nat /\ R > round /\ R <= MaxSpawn /\ 0 < R
    BY <1>a, RoundsAre
<1> HIDE DEF R
<1>r. \A c \in Comps : running'[c] = IF c \notin Wanted(cf) THEN 0
                        ELSE IF c \in Kept(cf) THEN running[c] ELSE R
    BY <1>1, Zenon
<1>n. \A i \in Insts : recon'[i] = IF i \in {Current(c) : c \in Kept(cf)}
                                   THEN recon[i] \cup {R} ELSE recon[i]
    BY <1>1, Zenon
<1>3. ASSUME NEW c \in Comps, IsRunning(c)
      PROVE  /\ Current(c) \in Insts /\ Current(c)[1] = c
             /\ Current(c)[2] <= round /\ Current(c)[2] # R
             /\ Current(c)[2] \in Nat
    <2>1. /\ Current(c) \in Insts /\ Current(c)[1] = c /\ running[c] \in Rounds
          /\ running[c] <= round /\ Current(c)[2] = running[c]
        BY <1>0, <1>3, CurrentIs, Zenon
    <2>2. running[c] \in Nat /\ running[c] # R
        BY <1>2, <2>1, RoundsAre
    <2> QED
        BY <2>1, <2>2, Zenon
<1>4. ASSUME NEW i \in Insts, i[2] = R
      PROVE  /\ recon'[i] = {} /\ at'[i] = R /\ gate'[i] = R /\ i \notin term'
    <2>1. i \notin {Current(c) : c \in Kept(cf)} /\ i \notin {Current(c) : c \in Stopped(cf)}
        BY <1>1, <1>3, <1>4, Zenon
    <2> QED
        BY <1>0, <1>1, <1>2, <1>4, <2>1, Zenon DEF Timely
<1>5. ASSUME NEW c \in Kept(cf)
      PROVE  /\ running'[c] = running[c] /\ running[c] # 0
             /\ recon'[Current(c)] = recon[Current(c)] \cup {R}
             /\ phase'[Current(c)] = phase[Current(c)]
             /\ kind'[Current(c)] = kind[Current(c)]
             /\ Current(c)' = Current(c)
             /\ Current(c) \in Insts /\ Current(c)[2] <= round
    <2>1. c \in Comps /\ c \in Wanted(cf) /\ IsRunning(c)
        BY <1>1, Zenon
    <2>2. running'[c] = running[c] /\ running[c] # 0
        BY <1>1, <2>1, Zenon DEF IsRunning
    <2>3. Current(c) \in Insts /\ Current(c)[2] # R /\ Current(c)[2] <= round
        BY <1>3, <2>1
    <2>4. Current(c)' = Current(c)
        BY <2>2 DEF Current
    <2> QED
        BY <1>1, <2>2, <2>3, <2>4, Zenon
<1>6. ASSUME NEW c \in Started(cf)
      PROVE  /\ running'[c] = R /\ Current(c)' = <<c, R>> /\ <<c, R>> \in Insts
             /\ phase'[<<c, R>>] = "connect" /\ <<c, R>>[2] = R
    <2>1. c \in Comps /\ c \in Wanted(cf) /\ c \notin Kept(cf)
        BY <1>1, <1>6, Zenon
    <2>2. running'[c] = R /\ <<c, R>> \in Insts
        BY <1>1, <2>1, Zenon DEF Insts
    <2> QED
        BY <1>1, <1>6, <2>2, Zenon DEF Current
<1>7. \A c \in Comps : IsRunning(c)' => c \in Kept(cf) \/ c \in Started(cf)
    BY <1>1, Zenon DEF IsRunning
<1>8. FollowTypes'
    <2>0. \A c \in Comps : running[c] \in Nat /\ running[c] <= round
        BY <1>0, Zenon DEF FollowTypes
    <2>a. \A c \in Comps : running'[c] \in Nat /\ running'[c] <= R
        BY <1>2, <1>r, <2>0
    <2>1. running' \in [Comps -> Nat] /\ \A c \in Comps : running'[c] <= R
        BY <1>1, <2>a, Zenon
    <2>2. phase' \in [Insts -> Phases]
        BY <1>0, <1>1, Zenon DEF FollowTypes, Phases
    <2>3. recon' \in [Insts -> SUBSET Rounds]
        BY <1>0, <1>1, Zenon DEF FollowTypes
    <2>4. term' \subseteq Insts
        <3>1. term \subseteq Insts /\ \A c \in Stopped(cf) : Current(c) \in Insts
            BY <1>0, <1>1, <1>3, Zenon DEF FollowTypes
        <3> QED
            BY <1>1, <3>1, Zenon
    <2>5. DOMAIN wires' = Rounds
        BY <1>0, Zenon DEF FollowTypes, Spawn
    <2>6. at' \in [Insts -> Rounds] /\ gate' \in [Insts -> Rounds]
        BY <1>0, <1>1, Zenon DEF FollowTypes
    <2>7. round' \in Nat /\ round' <= MaxSpawn
        BY <1>a, <1>2, Zenon
    <2>8. \A c \in Comps : running'[c] <= round'
        BY <1>1, <2>1, Zenon
    <2> QED
        BY <2>1, <2>2, <2>3, <2>4, <2>5, <2>6, <2>7, <2>8, Zenon DEF FollowTypes
<1>9. ASSUME NEW i \in Insts PROVE Timely(i)'
    <2>a. Timely(i) /\ recon[i] \subseteq Rounds /\ at[i] \in Rounds /\ gate[i] \in Rounds
        BY <1>0, Zenon DEF FollowTypes
    <2>0. Timely(i) /\ i[1] \in Comps /\ i[2] \in Nat
        BY <2>a DEF Insts, Rounds
    <2>1. i[1] \in Units => kind'[i] \notin Fixed
        BY <1>1, <2>0, ManagerAssumption, Zenon DEF Timely
    <2>2. CASE i[2] = R
        <3>1. ~(i[2] > R) /\ R <= R
            BY <1>2, <2>2
        <3> QED
            BY <1>a, <1>4, <2>1, <2>2, <3>1, Zenon DEF Timely
    <2>3. CASE i[2] > R
        <3>1. i \notin {Current(c) : c \in Kept(cf)} /\ i \notin {Current(c) : c \in Stopped(cf)}
            <4>1. \A c \in Comps : IsRunning(c) => Current(c)[2] <= round /\ Current(c)[2] \in Nat
                BY <1>3
            <4>2. \A c \in Comps : IsRunning(c) => Current(c) # i
                BY <1>2, <2>0, <2>3, <4>1
            <4> QED
                BY <1>1, <4>2, Zenon
        <3>3. i[2] > round /\ ~(i[2] <= R) /\ i[2] # R
            BY <1>2, <2>0, <2>3
        <3>2. phase'[i] = phase[i] /\ recon'[i] = recon[i] /\ (i \in term' <=> i \in term)
            BY <1>1, <3>1, <3>3, Zenon
        <3> QED
            BY <1>1, <2>0, <2>1, <3>2, <3>3, Zenon DEF Timely
    <2>4. CASE i[2] < R
        <3>1. i[2] <= round
            BY <1>2, <2>0, <2>4 DEF R
        <3>2. at[i] \in Rounds /\ gate[i] \in Rounds /\ at[i] <= round /\ gate[i] <= round
            BY <2>a, <3>1, Zenon DEF Timely
        <3>3. at[i] <= R /\ gate[i] <= R
            BY <1>2, <3>2, RoundsAre, SMT, Z3
        <3>4. ASSUME NEW r \in recon'[i] PROVE r <= R
            <4>1. r = R \/ r \in recon[i]
                BY <1>n, Zenon
            <4>2. r \in Rounds /\ (r = R \/ r <= round)
                BY <1>a, <2>a, <4>1, Zenon DEF Timely
            <4> QED
                BY <1>2, <4>2, RoundsAre
        <3>5. ~(i[2] > R)
            BY <1>2, <2>0, <2>4, SMT, Z3
        <3> QED
            BY <1>1, <2>1, <3>3, <3>4, <3>5, Zenon DEF Timely
    <2> QED
        BY <1>2, <2>0, <2>2, <2>3, <2>4
<1>10. ASSUME NEW i \in Insts PROVE Replaced(i)'
    <2> SUFFICES ASSUME Alive(i)', i \notin term' PROVE i = Current(i[1])'
        BY DEF Replaced
    <2>0. i = <<i[1], i[2]>> /\ i[1] \in Comps /\ i[2] \in Rounds
        BY DEF Insts
    <2>1. CASE i[1] \in Started(cf) /\ i[2] = R
        BY <1>6, <2>0, <2>1
    <2>2. CASE ~(i[1] \in Started(cf) /\ i[2] = R)
        <3>1. phase'[i] = phase[i] /\ i \notin term
            BY <1>1, <2>2, Zenon
        <3>2. i = Current(i[1])
            BY <1>0, <3>1, SMT, Z3 DEF Replaced, Alive
        <3>3. IsRunning(i[1])
            BY <2>0, <3>2 DEF IsRunning, Current, Rounds
        <3>4. i[1] \in Kept(cf)
            BY <1>1, <2>0, <3>2, <3>3, ZenonT(30)
        <3> QED
            BY <1>5, <3>2, <3>4, Zenon
    <2> QED
        BY <2>1, <2>2, SMT, Z3
<1>11. WiredNow'
    <2> SUFFICES ASSUME stage = "signals"
                 PROVE  /\ \A c \in Comps : IsRunning(c)' => Current(c)' \notin term'
                        /\ \A c \in Comps : \A v \in wires'[R][c] :
                              /\ v[1] \in Units /\ IsRunning(v[1])'
                              /\ v = Current(v[1])'
        BY <1>1, Zenon DEF WiredNow
    <2>1. ASSUME NEW c \in Comps, IsRunning(c)' PROVE Current(c)' \notin term'
        <3>1. CASE c \in Started(cf)
            BY <1>4, <1>6, <3>1, Zenon
        <3>2. CASE c \in Kept(cf)
            <4>1. Current(c) \notin term
                BY <1>0, <1>1, <3>2, Zenon DEF WiredNow
            <4>2. \A d \in Stopped(cf) : Current(d) # Current(c)
                BY <1>1, <3>2, Zenon DEF Current
            <4>3. Current(c)' = Current(c)
                BY <1>5, <3>2, Zenon
            <4> QED
                BY <1>1, <4>1, <4>2, <4>3, Zenon
        <3> QED
            BY <1>7, <2>1, <3>1, <3>2
    <2>2. ASSUME NEW c \in Comps, NEW v \in wires'[R][c]
          PROVE  v[1] \in Units /\ IsRunning(v[1])' /\ v = Current(v[1])'
        <3> DEFINE Ends(d) == {IF u \in Started(cf) THEN <<u, R>> ELSE Current(u)
                                 : u \in cf.src[d]}
        <3>1. /\ wires' = [wires EXCEPT ![R] =
                        [d \in Comps |-> IF d \in Wanted(cf) THEN Ends(d) ELSE {}]]
              /\ (gates \cup Linked(cf)) \subseteq Has(cf)
            BY Zenon DEF Spawn, Prepared, R
        <3>2. c \in Wanted(cf) /\ v \in Ends(c)
            BY <1>0, <1>1, <3>1, Zenon DEF FollowTypes
        <3>3. PICK u \in cf.src[c] : v = IF u \in Started(cf) THEN <<u, R>> ELSE Current(u)
            BY <3>2, Zenon
        <3>4. u \in Units /\ u \in Linked(cf)
            BY <3>2, ManagerAssumption, Zenon DEF Wanted, Linked, Has
        <3>5. u \in Started(cf) \/ u \in Kept(cf)
            BY <1>1, <3>1, <3>4, ZenonT(30) DEF Wanted
        <3>6. CASE u \in Started(cf)
            BY <1>2, <1>6, <3>3, <3>4, <3>6 DEF IsRunning
        <3>7. CASE u \in Kept(cf)
            <4>1. v = Current(u) /\ v[1] = u /\ Current(u)' = Current(u)
                BY <1>1, <1>5, <3>3, <3>7, Zenon DEF Current
            <4> QED
                BY <1>5, <3>4, <3>7, <4>1, Zenon DEF IsRunning
        <3> QED
            BY <3>5, <3>6, <3>7, Zenon
    <2> QED
        BY <2>1, <2>2
<1>12. ASSUME early' = {}, NEW c \in Comps
       PROVE  TakesOver(c)' /\ Attached(c)'
    <2>1. CASE ~IsRunning(c)'
        BY <2>1, Zenon DEF TakesOver, Attached
    <2>2. CASE c \in Started(cf)
        <3>1. /\ Current(c)' = <<c, R>> /\ phase'[<<c, R>>] = "connect"
              /\ at'[<<c, R>>] = R /\ gate'[<<c, R>>] = R /\ recon'[<<c, R>>] = {}
            BY <1>4, <1>6, <2>2, Zenon
        <3> QED
            BY <1>1, <3>1, Zenon DEF TakesOver, Attached
    <2>3. CASE c \in Kept(cf)
        <3> DEFINE i == Current(c)
        <3>1. ~Overtaken(i)
            BY <1>12, <2>3, Zenon DEF Spawn
        <3>2. /\ Current(c)' = i /\ i \in Insts /\ phase'[i] = phase[i]
              /\ recon'[i] = recon[i] \cup {R} /\ i[2] <= round
            BY <1>5, <2>3, Zenon
        <3>3. i[1] = c
            BY DEF Current
        <3>a. /\ at[i] \in Rounds /\ gate[i] \in Rounds /\ at[i] <= round
              /\ gate[i] <= round
            BY <1>0, <3>2, ZenonT(30) DEF Timely, FollowTypes
        <3>4. at[i] < R /\ gate[i] < R /\ at[i] # R
            BY <1>2, <3>a, RoundsAre
        <3>5. /\ c \in Units => phase'[i] \notin {"connect", "ready"}
              /\ c \in Targets => recon'[i] = {R}
            BY <3>1, <3>2, <3>3, Zenon DEF Overtaken
        <3>6. at'[i] # R
            BY <1>a, <3>4, Zenon
        <3> HIDE DEF i
        <3> QED
            BY <1>1, <3>2, <3>4, <3>5, <3>6, Zenon DEF TakesOver, Attached
    <2> QED
        BY <1>7, <2>1, <2>2, <2>3, Zenon
<1> QED
    BY <1>8, <1>9, <1>10, <1>11, <1>12, Zenon DEF FollowInv

\* What a step of an instance leaves alone.
LEMMA InstanceEffect ==
    ASSUME FollowTypes, NEW i \in Insts, InstanceStep(i) \/ SetupFails(i)
    PROVE  /\ UNCHANGED <<round, running, kind, wires, early, term, stage>>
           /\ \A j \in Insts : j # i =>
                /\ phase'[j] = phase[j] /\ at'[j] = at[j]
                /\ gate'[j] = gate[j] /\ recon'[j] = recon[j]
           /\ Alive(i) /\ phase'[i] # "none"
           /\ phase' \in [Insts -> Phases] /\ recon' \in [Insts -> SUBSET Rounds]
           /\ at' \in [Insts -> Rounds] /\ gate' \in [Insts -> Rounds]
           /\ recon'[i] \subseteq recon[i]
           /\ at'[i] \in recon[i] \cup {at[i]} /\ gate'[i] \in recon[i] \cup {gate[i]}
<1>1. UNCHANGED <<round, running, kind, wires, early, term, stage>>
    BY ZenonT(30) DEF InstanceStep, SetupFails, roundVars, Arrive, Panic, Second, Start, Reconfigure,
           Disregard, Relinked, QueryGone, EndInstance
<1>2. CASE \E r \in Rounds : Reconfigure(i, r) \/ Disregard(i, r)
    <2>1. PICK r \in Rounds : Reconfigure(i, r) \/ Disregard(i, r)
        BY <1>2, Zenon
    <2>2. /\ r \in recon[i]
          /\ recon' = [recon EXCEPT ![i] = @ \ {r}] /\ gate' = [gate EXCEPT ![i] = r]
          /\ at' = at \/ at' = [at EXCEPT ![i] = r]
          /\ phase' = phase \/ phase' = [phase EXCEPT ![i] = "relink"]
          /\ phase[i] \in {"ready", "run"}
        BY <2>1, Zenon DEF Reconfigure, Disregard, NextRound, Become
    <2>3. /\ phase \in [Insts -> Phases] /\ recon \in [Insts -> SUBSET Rounds]
          /\ at \in [Insts -> Rounds] /\ gate \in [Insts -> Rounds]
        BY Zenon DEF FollowTypes
    <2>4. /\ recon' \in [Insts -> SUBSET Rounds] /\ recon'[i] \subseteq recon[i]
          /\ \A j \in Insts : j # i => recon'[j] = recon[j]
        BY <2>2, <2>3, SMT, Z3
    <2>5. /\ gate' \in [Insts -> Rounds] /\ gate'[i] \in recon[i] \cup {gate[i]}
          /\ \A j \in Insts : j # i => gate'[j] = gate[j]
        BY <2>2, <2>3, SMT, Z3
    <2>6. /\ at' \in [Insts -> Rounds] /\ at'[i] \in recon[i] \cup {at[i]}
          /\ \A j \in Insts : j # i => at'[j] = at[j]
        BY <2>2, <2>3, SMT, Z3
    <2>7. /\ phase' \in [Insts -> Phases] /\ phase'[i] # "none"
          /\ \A j \in Insts : j # i => phase'[j] = phase[j]
        BY <2>2, <2>3, SMT, Z3 DEF Phases
    <2>8. Alive(i)
        BY <2>2, Zenon DEF Alive
    <2> QED
        BY <1>1, <2>4, <2>5, <2>6, <2>7, <2>8, Zenon
<1>3. CASE \/ Arrive(i) \/ Panic(i) \/ Second(i) \/ Start(i) \/ Relinked(i)
           \/ QueryGone(i) \/ EndInstance(i) \/ SetupFails(i)
    <2>1. /\ at' = at /\ gate' = gate /\ recon' = recon
          /\ phase[i] \in {"connect", "relink", "ready", "second", "run"}
          /\ \E p \in Phases \ {"none"} : phase' = [phase EXCEPT ![i] = p]
        BY <1>3, Zenon DEF Arrive, Panic, Second, Start, Relinked, QueryGone, EndInstance, SetupFails,
                    Become, Phases
    <2> QED
        BY <1>1, <2>1 DEF FollowTypes, Alive
<1> QED
    BY <1>2, <1>3, Zenon DEF InstanceStep

\* A step of an instance keeps a component in charge on its way to the present
\* round: a Reconfigure it takes is the newest one or leaves the newest one to
\* be taken.
LEMMA TakesOverStep ==
    ASSUME FollowInv, early = {}, NEW i \in Insts, InstanceStep(i) \/ SetupFails(i),
           NEW c \in Comps
    PROVE  TakesOver(c)'
<1>0. FollowTypes /\ TakesOver(c) /\ Timely(i)
    BY DEF FollowInv
<1>1. /\ round' = round /\ running' = running /\ kind' = kind
      /\ \A j \in Insts : j # i =>
            /\ phase'[j] = phase[j] /\ at'[j] = at[j]
            /\ gate'[j] = gate[j] /\ recon'[j] = recon[j]
      /\ Alive(i)
    BY <1>0, InstanceEffect, Zenon
<1>2. Current(c)' = Current(c) /\ (IsRunning(c)' <=> IsRunning(c))
    BY <1>1, Zenon DEF Current, IsRunning
<1> SUFFICES ASSUME IsRunning(c), Alive(Current(c))', kind[Current(c)] \notin Fixed
             PROVE  TakesOver(c)'
    BY <1>1, <1>2, Zenon DEF TakesOver
<1>3. Current(c) \in Insts /\ Current(c)[1] = c
    BY <1>0, CurrentIs, Zenon
<1>4. CASE Current(c) # i
    <2>1. /\ phase'[Current(c)] = phase[Current(c)] /\ at'[Current(c)] = at[Current(c)]
          /\ gate'[Current(c)] = gate[Current(c)] /\ recon'[Current(c)] = recon[Current(c)]
        BY <1>1, <1>3, <1>4, Zenon
    <2> QED
        BY <1>0, <1>1, <1>2, <2>1, Zenon DEF TakesOver, Alive
<1>5. CASE Current(c) = i
    <2>1. /\ kind[i] \notin Fixed /\ i[1] = c
          /\ \/ at[i] = round /\ gate[i] = round /\ recon[i] = {}
             \/ /\ at[i] < round /\ gate[i] < round /\ round \in recon[i]
                /\ c \in Units => phase[i] \notin {"connect", "ready"}
                /\ c \in Targets => recon[i] = {round}
        BY <1>0, <1>1, <1>3, <1>5, Zenon DEF TakesOver
    <2>2. phase'[i] # "ended"
        BY <1>2, <1>5, Zenon DEF Alive
    <2>3. ASSUME NEW r \in Rounds, Reconfigure(i, r) PROVE TakesOver(c)'
        <3>1. /\ at'[i] = r /\ gate'[i] = r /\ recon'[i] = recon[i] \ {r}
              /\ phase'[i] = "relink" /\ r \in recon[i]
              /\ c \in Units => \A q \in recon[i] : r <= q
            BY <1>0, <2>1, <2>3, Zenon DEF Reconfigure, NextRound, Become, FollowTypes
        <3>2. \A q \in recon[i] : q \in Nat /\ q <= round
            <4>1. \A q \in recon[i] : q \in Rounds /\ q <= round
                BY <1>0, Zenon DEF Timely, FollowTypes
            <4> QED
                BY <4>1, RoundsAre
        <3>n. round \in Nat
            BY <1>0, Zenon DEF FollowTypes
        <3>3. round \in recon[i] /\ (c \in Targets => recon[i] = {round})
            BY <2>1, <3>1, Zenon
        <3>4. CASE r = round
            <4>1. recon[i] = {round}
                <5>1. c \in Units \/ c \in Targets
                    BY SMT, Z3 DEF Comps
                <5>2. ASSUME c \in Units, NEW q \in recon[i] PROVE q = round
                    <6>1. round <= q /\ q \in Nat /\ q <= round
                        BY <3>1, <3>2, <3>4, <5>2, Zenon
                    <6> QED
                        BY <3>n, <6>1
                <5> QED
                    BY <3>3, <5>1, <5>2, Zenon
            <4> QED
                BY <1>1, <1>2, <1>5, <3>1, <3>4, <4>1, Zenon DEF TakesOver
        <3>5. CASE r # round
            <4>1. r < round
                <5>1. r \in Nat /\ r <= round
                    BY <3>1, <3>2, Zenon
                <5> QED
                    BY <3>n, <3>5, <5>1
            <4>2. c \notin Targets /\ round \in recon[i] \ {r}
                BY <3>1, <3>3, <3>5, Zenon
            <4> QED
                BY <1>1, <1>2, <1>5, <3>1, <4>1, <4>2, Zenon DEF TakesOver
        <3> QED
            BY <3>4, <3>5
    <2>4. ASSUME NEW r \in Rounds, Disregard(i, r) PROVE FALSE
        BY <2>1, <2>4, Zenon DEF Disregard, NextRound
    <2>5. CASE Arrive(i) \/ Second(i) \/ Start(i) \/ Relinked(i)
        <3>1. at' = at /\ gate' = gate /\ recon' = recon
            BY <2>5, Zenon DEF Arrive, Second, Start, Relinked
        <3>2. /\ phase'[i] \in {"ready", "second", "run"}
              /\ phase'[i] = "ready" => phase[i] = "connect"
            BY <1>0, <2>5, Zenon DEF Arrive, Second, Start, Relinked, Become, FollowTypes
        <3> QED
            BY <1>1, <1>2, <1>5, <2>1, <3>1, <3>2, Zenon DEF TakesOver
    <2>6. CASE Panic(i) \/ QueryGone(i) \/ EndInstance(i) \/ SetupFails(i)
        <3>1. phase'[i] = "ended"
            BY <1>0, <2>6, Zenon DEF Panic, QueryGone, EndInstance, SetupFails, Become, FollowTypes
        <3> QED
            BY <2>2, <3>1
    <2> QED
        BY <2>3, <2>4, <2>5, <2>6, Zenon DEF InstanceStep
<1> QED
    BY <1>4, <1>5

\* A gate that serves the present round goes on serving it.
LEMMA ServingStep ==
    ASSUME FollowInv, early = {}, stage = "signals",
           NEW i \in Insts, InstanceStep(i) \/ SetupFails(i),
           NEW v \in Insts, v[1] \in Units, IsRunning(v[1]), v = Current(v[1]), Serving(v)
    PROVE  Serving(v)'
<1>0. FollowTypes /\ TakesOver(v[1]) /\ Timely(v) /\ v \notin term
    BY Zenon DEF FollowInv, WiredNow, Comps
<1>1. /\ round' = round
      /\ \A j \in Insts : j # i => phase'[j] = phase[j] /\ gate'[j] = gate[j]
    BY <1>0, InstanceEffect, Zenon
<1>2. CASE v # i
    BY <1>1, <1>2, Zenon DEF Serving
<1>3. CASE v = i
    <2>1. phase[i] \in {"ready", "second", "run"} /\ gate[i] = round /\ kind[i] \notin Fixed
        BY <1>0, <1>3, Zenon DEF Serving, Timely
    <2>2. recon[i] = {}
        <3>1. recon[i] = {} \/ (round < round /\ round \in Nat)
            BY <1>0, <1>3, <2>1, Zenon DEF TakesOver, Alive, FollowTypes
        <3> QED
            BY <3>1
    <2>3. Second(i) \/ Start(i)
        BY <1>0, <1>3, <2>1, <2>2, Zenon DEF InstanceStep, SetupFails, Arrive, Panic, Reconfigure,
           Disregard, NextRound, Relinked, QueryGone, EndInstance
    <2>4. gate' = gate /\ phase'[i] \in {"second", "run"}
        BY <1>0, <2>3, Zenon DEF Second, Start, Become, FollowTypes
    <2> QED
        BY <1>1, <1>3, <2>1, <2>4, Zenon DEF Serving
<1> QED
    BY <1>2, <1>3

\* A step of an instance: a component that has its links connected is served,
\* since connecting them needs gates that serve.
LEMMA AttachedStep ==
    ASSUME FollowInv, early = {}, stage = "signals",
           NEW i \in Insts, InstanceStep(i) \/ SetupFails(i), NEW c \in Comps
    PROVE  Attached(c)'
<1>0. FollowTypes /\ Attached(c) /\ TakesOver(c) /\ WiredNow
    BY DEF FollowInv
<1>1. /\ round' = round /\ running' = running /\ kind' = kind /\ wires' = wires
      /\ \A j \in Insts : j # i => phase'[j] = phase[j] /\ at'[j] = at[j]
    BY <1>0, InstanceEffect, Zenon
<1>2. Current(c)' = Current(c) /\ (IsRunning(c)' <=> IsRunning(c))
    BY <1>1, Zenon DEF Current, IsRunning
<1> SUFFICES ASSUME IsRunning(c), kind[Current(c)] \notin Fixed, at'[Current(c)] = round,
                    phase'[Current(c)] \in {"ready", "second", "run"},
                    NEW v \in wires[round][c]
             PROVE  Serving(v)'
    BY <1>1, <1>2, Zenon DEF Attached
<1>3. \A d \in Comps : IsRunning(d) => Current(d) \in Insts /\ Current(d)[1] = d
    BY <1>0, CurrentIs, Zenon
<1>4. round > 0
    BY <1>0, CurrentIs, Zenon
<1>5. v[1] \in Units /\ IsRunning(v[1]) /\ v = Current(v[1])
    BY <1>0, <1>4, ZenonT(30) DEF WiredNow
<1>6. v \in Insts
    BY <1>3, <1>5 DEF Comps
<1>7. Serving(v)
    <2>1. CASE at[Current(c)] = round /\ phase[Current(c)] \in {"ready", "second", "run"}
        BY <1>0, <2>1, Zenon DEF Attached
    <2>2. CASE ~(at[Current(c)] = round /\ phase[Current(c)] \in {"ready", "second", "run"})
        <3>1. Current(c) = i
            BY <1>1, <1>3, <2>2, Zenon
        <3>2. ~Second(i) /\ ~Start(i)
            BY <2>2, <3>1, Zenon DEF Second, Start
        <3>3. ~Panic(i) /\ ~QueryGone(i) /\ ~EndInstance(i) /\ ~SetupFails(i)
            BY <1>0, <3>1, Zenon DEF Panic, QueryGone, EndInstance, SetupFails, Become, FollowTypes
        <3>4. \A r \in Rounds : ~Reconfigure(i, r) /\ ~Disregard(i, r)
            BY <1>0, <2>2, <3>1, Zenon DEF Reconfigure, Disregard, NextRound, Become, FollowTypes
        <3>5. Arrive(i) \/ Relinked(i)
            BY <3>2, <3>3, <3>4, Zenon DEF InstanceStep
        <3>6. at[i] = round /\ \A w \in Sources(i) : Serves(w, at[i])
            BY <3>1, <3>5, Zenon DEF Arrive, Relinked
        <3>7. v \in Sources(i)
            BY <1>3, <3>1, <3>6, Zenon DEF Sources
        <3> QED
            BY <3>6, <3>7, Zenon DEF Serves, Serving
    <2> QED
        BY <2>1, <2>2, Zenon
<1> QED
    BY <1>5, <1>6, <1>7, ServingStep, Zenon

LEMMA InstanceFollow ==
    ASSUME FollowInv, NEW i \in Insts, InstanceStep(i) \/ SetupFails(i)
    PROVE  FollowInv'
<1>0. FollowTypes /\ (\A j \in Insts : Timely(j) /\ Replaced(j)) /\ WiredNow
    BY DEF FollowInv
<1>1. /\ UNCHANGED <<round, running, kind, wires, early, term, stage>>
      /\ \A j \in Insts : j # i =>
           /\ phase'[j] = phase[j] /\ at'[j] = at[j]
           /\ gate'[j] = gate[j] /\ recon'[j] = recon[j]
      /\ Alive(i) /\ phase'[i] # "none"
      /\ phase' \in [Insts -> Phases] /\ recon' \in [Insts -> SUBSET Rounds]
      /\ at' \in [Insts -> Rounds] /\ gate' \in [Insts -> Rounds]
      /\ recon'[i] \subseteq recon[i]
      /\ at'[i] \in recon[i] \cup {at[i]} /\ gate'[i] \in recon[i] \cup {gate[i]}
    BY <1>0, InstanceEffect, Zenon
<1>2. \A c \in Comps : Current(c)' = Current(c) /\ (IsRunning(c)' <=> IsRunning(c))
    BY <1>1, Zenon DEF Current, IsRunning
<1>3. FollowTypes'
    BY <1>0, <1>1, Zenon DEF FollowTypes
<1>4. ASSUME NEW j \in Insts PROVE Timely(j)' /\ Replaced(j)'
    <2>0. Timely(j) /\ Replaced(j) /\ j[1] \in Comps /\ j[2] \in Nat /\ round \in Nat
        BY <1>0 DEF Insts, Rounds, FollowTypes
    <2>1. CASE j # i
        <3>1. /\ phase'[j] = phase[j] /\ at'[j] = at[j] /\ gate'[j] = gate[j]
              /\ recon'[j] = recon[j]
            BY <1>1, <2>1, Zenon
        <3> QED
            BY <1>1, <1>2, <2>0, <3>1, Zenon DEF Timely, Replaced, Alive
    <2>2. CASE j = i
        <3>0. ~(i[2] > round)
            BY <1>1, <2>0, <2>2, Zenon DEF Timely, Alive
        <3>1. i[2] <= round /\ ~(i[2] > round)
            BY <2>0, <2>2, <3>0
        <3>2. Timely(i)'
            BY <1>1, <2>0, <2>2, <3>1, Zenon DEF Timely
        <3>3. Replaced(i)'
            BY <1>1, <1>2, <2>0, <2>2, Zenon DEF Replaced
        <3> QED
            BY <2>2, <3>2, <3>3
    <2> QED
        BY <2>1, <2>2, SMT, Z3
<1>5. WiredNow'
    <2> SUFFICES ASSUME stage = "signals" PROVE WiredNow'
        BY <1>1, Zenon DEF WiredNow
    <2>1. \A c \in Comps : IsRunning(c)' => Current(c)' \notin term'
        BY <1>0, <1>1, <1>2, ZenonT(30) DEF WiredNow
    <2>2. ASSUME NEW c \in Comps, round' > 0, NEW v \in wires'[round'][c]
          PROVE  v[1] \in Units /\ IsRunning(v[1])' /\ v = Current(v[1])'
        <3>1. v[1] \in Units /\ IsRunning(v[1]) /\ v = Current(v[1])
            BY <1>0, <1>1, <2>2, Zenon DEF WiredNow
        <3> QED
            BY <1>2, <3>1 DEF Comps
    <2> QED
        BY <2>1, <2>2, Zenon DEF WiredNow
<1>6. ASSUME early' = {}, NEW c \in Comps
      PROVE  TakesOver(c)' /\ (stage' = "signals" => Attached(c)')
    BY <1>1, <1>6, TakesOverStep, AttachedStep, Zenon
<1> QED
    BY <1>3, <1>4, <1>5, <1>6, Zenon DEF FollowInv

\* Refused files, the coordinators and the signals do not touch the instances.
LEMMA OutsideFollow ==
    ASSUME FollowInv, UNCHANGED <<round, running, kind, wires, early>>, UNCHANGED instVars,
           stage' = "signals" => stage = "signals"
    PROVE  FollowInv'
<1>1. /\ round' = round /\ running' = running /\ kind' = kind /\ wires' = wires
      /\ early' = early /\ phase' = phase /\ at' = at /\ gate' = gate /\ recon' = recon
      /\ term' = term
    BY DEF instVars
<1>2. FollowTypes'
    BY <1>1, Zenon DEF FollowInv, FollowTypes
<1>3. ASSUME NEW j \in Insts PROVE Timely(j)' /\ Replaced(j)'
    <2>0. Timely(j) /\ Replaced(j)
        BY SMT, Z3 DEF FollowInv
    <2>1. Timely(j)'
        BY <1>1, <2>0 DEF Timely
    <2>2. Replaced(j)'
        BY <1>1, <2>0, Zenon DEF Replaced, Alive, Current
    <2> QED
        BY <2>1, <2>2
<1>4. WiredNow'
    BY <1>1, Zenon DEF FollowInv, WiredNow, Current, IsRunning
<1>5. early = {} => \A c \in Comps : TakesOver(c)'
    BY <1>1, Zenon DEF FollowInv, TakesOver, Alive, Current, IsRunning
<1>6. early = {} /\ stage' = "signals" => \A c \in Comps : Attached(c)'
    BY <1>1, Zenon DEF FollowInv, Attached, Serving, Current, IsRunning
<1> QED
    BY <1>1, <1>2, <1>3, <1>4, <1>5, <1>6, Zenon DEF FollowInv

\* The final termination.
LEMMA StopFollow ==
    ASSUME FollowInv, NEW c \in Comps, StopOne(c) \/ StopNext(c)
    PROVE  FollowInv'
<1>0. /\ FollowTypes /\ \A j \in Insts : Timely(j) /\ Replaced(j)
      /\ early = {} => \A d \in Comps : TakesOver(d)
    BY DEF FollowInv
<1>1. /\ round' = round /\ kind' = kind /\ wires' = wires /\ early' = early
      /\ phase' = phase /\ at' = at /\ gate' = gate /\ recon' = recon
      /\ stage' # "signals" /\ IsRunning(c)
    BY Zenon DEF StopOne, StopNext, roundVars, instVars
<1>2. WiredNow'
    BY <1>1, Zenon DEF WiredNow
<1>3. Current(c) \in Insts /\ Current(c)[2] <= round /\ Current(c)[2] \in Nat
    <2>1. /\ Current(c) \in Insts /\ running[c] \in Rounds /\ running[c] <= round
          /\ Current(c)[2] = running[c]
        BY <1>0, <1>1, CurrentIs, Zenon
    <2> QED
        BY <2>1, RoundsAre, Zenon
<1>4. CASE StopOne(c)
    <2>1. running' = running /\ term' = term \cup {Current(c)}
        BY <1>4, Zenon DEF StopOne, SendTerminate, roundVars
    <2>2. \A d \in Comps : Current(d)' = Current(d) /\ (IsRunning(d)' <=> IsRunning(d))
        BY <2>1 DEF Current, IsRunning
    <2>3. FollowTypes'
        BY <1>0, <1>1, <1>3, <2>1, Zenon DEF FollowTypes
    <2>4. ASSUME NEW j \in Insts PROVE Timely(j)' /\ Replaced(j)'
        <3>1. j[1] \in Comps /\ j[2] \in Nat /\ round \in Nat
            BY <1>0, SMT, Z3 DEF Insts, Rounds, FollowTypes
        <3>2. j[2] > round => j # Current(c)
            BY <1>3, <3>1, SMT, Z3
        <3>3. j[2] > round => (j \in term' <=> j \in term)
            BY <2>1, <3>2
        <3>4. Timely(j)'
            BY <1>0, <1>1, <3>3, Zenon DEF Timely
        <3>5. Replaced(j)'
            BY <1>0, <1>1, <2>1, <2>2, <3>1, Zenon DEF Replaced, Alive
        <3> QED
            BY <3>4, <3>5, SMT, Z3
    <2>5. early = {} => \A d \in Comps : TakesOver(d)'
        BY <1>0, <1>1, <2>2, Zenon DEF TakesOver, Alive
    <2> QED
        BY <1>1, <1>2, <2>3, <2>4, <2>5, Zenon DEF FollowInv
<1>5. CASE StopNext(c)
    <2>1. running' = [running EXCEPT ![c] = 0] /\ term' = term /\ phase[Current(c)] = "ended"
        BY <1>5, Zenon DEF StopNext, instVars
    <2>2. /\ ~IsRunning(c)'
          /\ \A d \in Comps : d # c => Current(d)' = Current(d) /\ (IsRunning(d)' <=> IsRunning(d))
        BY <1>0, <2>1, Zenon DEF Current, IsRunning, FollowTypes
    <2>a. running' \in [Comps -> Nat] /\ \A d \in Comps : running'[d] <= round
        <3>1. running \in [Comps -> Nat] /\ round \in Nat /\ \A d \in Comps : running[d] <= round
            BY <1>0, Zenon DEF FollowTypes
        <3> QED
            BY <2>1, <3>1
    <2>3. FollowTypes'
        BY <1>0, <1>1, <2>1, <2>a, Zenon DEF FollowTypes
    <2>4. ASSUME NEW j \in Insts PROVE Timely(j)' /\ Replaced(j)'
        <3>1. j[1] \in Comps
            BY DEF Insts
        <3>2. Timely(j)'
            BY <1>0, <1>1, <2>1, Zenon DEF Timely
        <3>3. Alive(j) => j # Current(c)
            BY <2>1 DEF Alive
        <3>4. Replaced(j)'
            BY <1>0, <1>1, <2>1, <2>2, <3>1, <3>3, Zenon DEF Replaced, Alive
        <3> QED
            BY <3>2, <3>4
    <2>5. early = {} => \A d \in Comps : TakesOver(d)'
        BY <1>0, <1>1, <2>2, Zenon DEF TakesOver, Alive
    <2> QED
        BY <1>1, <1>2, <2>3, <2>4, <2>5, Zenon DEF FollowInv
<1> QED
    BY <1>4, <1>5, SMT, Z3

\* manager.rs:668-688: an instance that is no longer in charge has been told to
\* terminate; one that is in charge has the configuration of the present round
\* or a Reconfigure on its way that nothing drops; its sources serve it.
THEOREM FollowInvariant == MgrSpec => []FollowInv
<1>1. ASSUME FollowInv, [MgrNext]_mgrVars PROVE FollowInv'
    <2>1. ASSUME NEW cf \in Configs, Hup(cf) PROVE FollowInv'
        <3>1. CASE Spawn(cf) /\ UNCHANGED stage
            BY <1>1, <2>1, <3>1, SpawnFollow, SMT, Z3 DEF Hup
        <3>2. CASE Refused(cf) /\ stage' = IF round = 0 THEN "stopped" ELSE stage
            BY <1>1, <3>2, OutsideFollow, Zenon DEF Refused, roundVars
        <3> QED
            BY <2>1, <3>1, <3>2, SMT, Z3 DEF Hup
    <2>2. ASSUME NEW i \in Insts, InstanceStep(i) \/ SetupFails(i) PROVE FollowInv'
        BY <1>1, <2>2, InstanceFollow
    <2>3. ASSUME NEW r \in Rounds, Coordinate(r) PROVE FollowInv'
        BY <1>1, <2>3, OutsideFollow, Zenon DEF Coordinate, roundVars
    <2>4. CASE CtrlC \/ Stop
        BY <1>1, <2>4, OutsideFollow, Zenon DEF CtrlC, Stop, roundVars
    <2>5. ASSUME NEW c \in Comps, StopOne(c) \/ StopNext(c) PROVE FollowInv'
        BY <1>1, <2>5, StopFollow
    <2>6. CASE UNCHANGED mgrVars
        BY <1>1, <2>6, OutsideFollow, Zenon DEF mgrVars, roundVars
    <2> QED
        BY <1>1, <2>1, <2>2, <2>3, <2>4, <2>5, <2>6, ZenonT(30) DEF MgrNext, Terminate
<1> QED
    BY InitFollow, <1>1, PTL DEF MgrSpec

\* ConfigFollowed, for any files, in any number and order: manager.rs:668-688
\* and 807-810.
THEOREM ConfigurationsAreFollowed == MgrSpec => []ConfigFollowed
<1>1. ASSUME FollowInv PROVE ConfigFollowed
    <2> SUFFICES ASSUME Settled, early = {}
                 PROVE  /\ \A i \in Insts : Alive(i) => i = Current(i[1])
                        /\ \A c \in Comps :
                             /\ IsRunning(c) /\ Alive(Current(c))
                             /\ kind[Current(c)] \notin Fixed
                             => /\ at[Current(c)] = round
                                /\ \A v \in wires[round][c] : Alive(v) /\ gate[v] = round
        BY DEF ConfigFollowed
    <2>1. \A i \in Insts : Alive(i) => i = Current(i[1])
        BY <1>1, Zenon DEF Settled, FollowInv, Replaced
    <2>2. ASSUME NEW c \in Comps, IsRunning(c), Alive(Current(c)), kind[Current(c)] \notin Fixed
          PROVE  /\ at[Current(c)] = round
                 /\ \A v \in wires[round][c] : Alive(v) /\ gate[v] = round
        <3>1. Current(c) \in Insts
            BY <1>1, <2>2, CurrentIs, ZenonT(30) DEF FollowInv
        <3>2. phase[Current(c)] = "run" /\ recon[Current(c)] = {}
            BY <2>2, <3>1, SMT, Z3 DEF Settled
        <3>3. TakesOver(c) /\ Attached(c)
            BY <1>1, Zenon DEF FollowInv, Settled
        <3>4. at[Current(c)] = round
            BY <2>2, <3>2, <3>3, Zenon DEF TakesOver
        <3>5. \A v \in wires[round][c] : Serving(v)
            BY <2>2, <3>2, <3>3, <3>4, Zenon DEF Attached
        <3> QED
            BY <3>4, <3>5 DEF Serving, Alive
    <2> QED
        BY <2>1, <2>2, SMT, Z3
<1> QED
    BY FollowInvariant, <1>1, PTL
=============================================================================
