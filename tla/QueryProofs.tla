---------------------------- MODULE QueryProofs -----------------------------
(***************************************************************************)
(* Proofs about RibQuery and PeerStats.                                    *)
(***************************************************************************)
EXTENDS RibQuery, PeerStats, FiniteSetTheorems, TLAPS

(***************************************************************************)
(* RibQuery, for any number of readers, prefixes, peers, queries and       *)
(* changes of the store: the count of dumps in flight is exact and capped, *)
(* and a finished answer is faithful to the time it took.                  *)
(*                                                                         *)
(* For the answers, the invariant says of every reader where each route    *)
(* that has been visible since its request is: still to be visited, in the *)
(* chunk, or, if it passes the filter, written.                            *)
(***************************************************************************)

Pcs == {"idle", "cas", "refused", "info", "keys", "fetch", "match", "filter",
        "done", "cut"}

Reader ==
    [pc : Pcs, cur : Int, node : Nodes \cup {1}, filter : Filters \cup {AnyRoute},
     info : [Muis -> PeerAsns \cup {0}], todo : SUBSET Nodes, chunk : Nat,
     batch : SUBSET RouteSet, out : SUBSET RouteSet]

StoreTypes ==
    /\ routes \in SUBSET RouteSet
    /\ keys \in SUBSET Nodes
    /\ info \in [Muis -> PeerAsns \cup {0}]

\* Every route is at a key of the tree.
KeysCover == \A t \in routes : t.node \in keys

HistoryTypes == asns \in [Readers -> [Muis -> SUBSET (PeerAsns \cup {0})]]

TaskTypes == task \in [Readers -> Reader] /\ slots \in Int

\* Only a task of the right kind is at a step.
InRole(r, q) ==
    /\ q.pc \in {"cas", "info"} => r \in Https
    /\ q.pc \in {"keys", "fetch"} => r \in Dumpers
    /\ q.pc \in {"match", "filter"} => r \in Searches
    /\ r \in Collectors => q.filter = AnyRoute
    /\ q.pc \in {"idle", "cas", "info", "keys", "match"} =>
           q.batch = {} /\ q.out = {}

\* A dump: what was visible all the time is to be visited, in the chunk or
\* written, and what is in the chunk or written was visible.
Walked(q, ev, al) ==
    /\ \A t \in q.batch : t \in ev
    /\ \A t \in q.out : t \in ev /\ Passes(q.filter, q.info, t)
    /\ \A t \in al : \/ t.node \in q.todo
                     \/ t \in q.batch
                     \/ Passes(q.filter, q.info, t) => t \in q.out

\* A search, after the match.
Found(q, ev, al) ==
    /\ \A t \in q.batch : t \in ev /\ Matched(q.node, q.filter, t)
    /\ \A t \in al : Matched(q.node, q.filter, t) => t \in q.batch

\* The answer asks for t, whatever its peer.
Wanted(r, q, t) ==
    /\ r \in Searches => Matched(q.node, q.filter, t)
    /\ q.filter.mui = 0 \/ q.filter.mui = t.mui
    /\ q.filter.attr = 0 \/ q.filter.attr = t.attr

Faithful(r, q, ev, al, as) ==
    /\ \A t \in al :
          /\ Wanted(r, q, t)
          /\ q.filter.asn = 0 \/ as[t.mui] = {q.filter.asn}
          => t \in q.out
    /\ \A t \in q.out :
          /\ t \in ev
          /\ Wanted(r, q, t)
          /\ q.filter.asn = 0 \/ as[t.mui] \cap {0, q.filter.asn} # {}

\* What a reader has, given the histories of its request.
Ok(r, q, ev, al, as) ==
    /\ InRole(r, q)
    /\ q.pc \in {"keys", "fetch"} /\ r \in Https =>
           \A m \in Muis : q.info[m] \in as[m]
    /\ q.pc = "fetch" => Walked(q, ev, al)
    /\ q.pc = "filter" => Found(q, ev, al)
    /\ q.pc = "done" => Faithful(r, q, ev, al, as)

Active(q) == q.pc \notin {"idle", "refused", "done", "cut"}

\* The histories bracket the store as it is.
Bracket(ev, al, as) ==
    /\ \A t \in al : t \in Seen
    /\ \A t \in Seen : t \in ev
    /\ \A m \in Muis : info[m] \in as[m]

ReaderInv(r) ==
    /\ Ok(r, task[r], ever[r], always[r], asns[r])
    /\ Active(task[r]) => Bracket(ever[r], always[r], asns[r])

QueryInv ==
    /\ StoreTypes
    /\ KeysCover
    /\ TaskTypes
    /\ HistoryTypes
    /\ \A r \in Readers : ReaderInv(r)

-----------------------------------------------------------------------------
(***************************************************************************)
(* The histories.                                                          *)
(***************************************************************************)

LEMMA Histories ==
    ASSUME HistoryTypes, Remember, NEW r \in Readers
    PROVE  /\ task[r].pc = "idle" \/ Active(task[r]) =>
                  Bracket(ever[r], always[r], asns[r])'
           /\ Active(task[r]) =>
                  /\ \A t \in ever[r] : t \in ever'[r]
                  /\ \A t \in always'[r] : t \in always[r]
                  /\ \A m \in Muis : \A a \in asns[r][m] : a \in asns'[r][m]
           /\ task[r].pc # "idle" /\ ~Active(task[r]) =>
                  /\ ever'[r] = ever[r] /\ always'[r] = always[r]
                  /\ asns'[r] = asns[r]
  <1>1. /\ ever'[r] = IF task[r].pc = "idle" THEN Seen'
                      ELSE IF Running(r) THEN ever[r] \cup Seen' ELSE ever[r]
        /\ always'[r] = IF task[r].pc = "idle" THEN Seen'
                        ELSE IF Running(r) THEN always[r] \cap Seen'
                        ELSE always[r]
        /\ \A m \in Muis :
              asns'[r][m] = IF task[r].pc = "idle" THEN {info'[m]}
                            ELSE IF Running(r) THEN asns[r][m] \cup {info'[m]}
                            ELSE asns[r][m]
    BY Zenon DEF Remember
  <1>0. /\ asns[r] = [m \in Muis |-> asns[r][m]]
        /\ asns'[r] = [m \in Muis |-> asns'[r][m]]
    BY Zenon DEF Remember, HistoryTypes
  <1>2. Running(r) <=> Active(task[r])
    BY Zenon DEF Running, Active
  <1>3. Active(task[r]) => task[r].pc # "idle"
    BY Zenon DEF Active
  <1>4. CASE task[r].pc = "idle"
    BY <1>1, <1>3, <1>4, Zenon DEF Bracket
  <1>5. CASE Active(task[r])
    BY <1>1, <1>2, <1>3, <1>5, Zenon DEF Bracket
  <1>6. CASE task[r].pc # "idle" /\ ~Active(task[r])
    BY <1>0, <1>1, <1>2, <1>6, Zenon
  <1> QED
    BY <1>4, <1>5, <1>6, Zenon

LEMMA HistoriesTyped ==
    ASSUME HistoryTypes, Remember, StoreTypes'
    PROVE  HistoryTypes'
  BY DEF HistoryTypes, Remember, StoreTypes

\* A reader that does not move keeps what it has.
LEMMA Stays ==
    ASSUME QueryInv, Remember, NEW r \in Readers, task'[r] = task[r],
           StoreTypes', KeysCover'
    PROVE  ReaderInv(r)'
  <1> DEFINE q == task[r]
  <1>1. ReaderInv(r) /\ q \in Reader
    BY DEF QueryInv, TaskTypes
  <1>2. CASE q.pc = "idle"
    BY <1>1, <1>2, Zenon DEF ReaderInv, Ok, InRole, Active
  <1>3. CASE Active(q)
    <2>1. q.pc \in {"cas", "info", "keys", "fetch", "match", "filter"}
      BY <1>1, <1>3, Zenon DEF Active, Reader, Pcs
    <2>2. /\ Bracket(ever[r], always[r], asns[r])'
          /\ \A t \in ever[r] : t \in ever'[r]
          /\ \A t \in always'[r] : t \in always[r]
          /\ \A m \in Muis : \A a \in asns[r][m] : a \in asns'[r][m]
      BY <1>3, Histories, Zenon DEF QueryInv
    <2>3. InRole(r, q)
      BY <1>1, Zenon DEF ReaderInv, Ok
    <2>4. q.pc \in {"keys", "fetch"} /\ r \in Https =>
             \A m \in Muis : q.info[m] \in asns'[r][m]
      BY <1>1, <2>2, Zenon DEF ReaderInv, Ok
    <2>5. q.pc = "fetch" => Walked(q, ever'[r], always'[r])
      BY <1>1, <2>2, Zenon DEF ReaderInv, Ok, Walked
    <2>6. q.pc = "filter" => Found(q, ever'[r], always'[r])
      BY <1>1, <2>2, Zenon DEF ReaderInv, Ok, Found
    <2> QED
      BY <2>1, <2>2, <2>3, <2>4, <2>5, <2>6, Zenon DEF ReaderInv, Ok
  <1>4. CASE q.pc # "idle" /\ ~Active(q)
    <2>1. /\ ever'[r] = ever[r] /\ always'[r] = always[r]
          /\ asns'[r] = asns[r]
      BY <1>4, Histories, Zenon DEF QueryInv
    <2>2. q.pc \in {"refused", "done", "cut"}
      BY <1>4 DEF Active
    <2>3. q.pc = "done" => Faithful(r, q, ever'[r], always'[r], asns'[r])
      BY <1>1, <2>1, Zenon DEF ReaderInv, Ok, Faithful
    <2> QED
      BY <1>1, <1>4, <2>2, <2>3, Zenon DEF ReaderInv, Ok
  <1> QED
    BY <1>2, <1>3, <1>4, Zenon

-----------------------------------------------------------------------------
(***************************************************************************)
(* The steps.                                                              *)
(***************************************************************************)

LEMMA InitQuery == QueryInit => QueryInv
  <1> SUFFICES ASSUME QueryInit PROVE QueryInv
    OBVIOUS
  <1> USE QueryAssumption
  <1>1. StoreTypes /\ KeysCover
    BY Zenon DEF QueryInit, StoreTypes, KeysCover, RouteSet
  <1> DEFINE idle == [pc |-> "idle", cur |-> 0, node |-> 1, filter |-> AnyRoute,
                      info |-> info, todo |-> {}, chunk |-> 0, batch |-> {},
                      out |-> {}]
  <1>6. /\ idle \in Reader /\ idle.pc = "idle" /\ idle.filter = AnyRoute
        /\ idle.batch = {} /\ idle.out = {}
    BY <1>1 DEF Reader, Pcs, StoreTypes
  <1>7. task = [r \in Readers |-> idle] /\ slots = 0
    BY Zenon DEF QueryInit
  <1> HIDE DEF idle
  <1>2. \A r \in Readers : /\ task[r] \in Reader /\ task[r].pc = "idle"
                           /\ task[r].filter = AnyRoute
                           /\ task[r].batch = {} /\ task[r].out = {}
    BY <1>6, <1>7, Zenon
  <1>3. TaskTypes
    BY <1>6, <1>7 DEF TaskTypes
  <1>4. HistoryTypes
    BY Zenon DEF QueryInit, HistoryTypes
  <1>5. \A r \in Readers : ReaderInv(r)
    BY <1>2, Zenon DEF ReaderInv, Ok, InRole, Active
  <1> QED
    BY <1>1, <1>3, <1>4, <1>5 DEF QueryInv

\* The store and the register change under the readers.
LEMMA StoreSteps ==
    ASSUME QueryInv, StoreStep, Remember
    PROVE  QueryInv' /\ UNCHANGED <<task, slots>>
  <1> USE DEF QueryInv
  <1>1. /\ UNCHANGED <<task, slots>>
        /\ StoreTypes' /\ KeysCover'
    <2>1. ASSUME NEW n \in Nodes, NEW m \in Muis, NEW a \in Attrs,
                 Announce([node |-> n, mui |-> m, attr |-> a])
          PROVE  UNCHANGED <<task, slots>> /\ StoreTypes' /\ KeysCover'
      <3> DEFINE t == [node |-> n, mui |-> m, attr |-> a]
      <3>1. t \in RouteSet /\ t.node = n
        BY DEF RouteSet
      <3>2. /\ UNCHANGED <<task, slots, info>>
            /\ routes' \subseteq routes \cup {t} /\ keys' = keys \cup {t.node}
        BY <2>1, Zenon DEF Announce, Change, Overwritten
      <3> HIDE DEF t
      <3> QED
        BY <3>1, <3>2, Zenon DEF StoreTypes, KeysCover
    <2>2. ASSUME NEW m \in Muis, NEW a \in PeerAsns \cup {0}, ChangeInfo(m, a)
          PROVE  UNCHANGED <<task, slots>> /\ StoreTypes' /\ KeysCover'
      BY <2>2, Zenon DEF ChangeInfo, Change, StoreTypes, KeysCover
    <2>3. ASSUME /\ UNCHANGED <<task, slots, keys, info>>
                 /\ routes' \subseteq routes
          PROVE  UNCHANGED <<task, slots>> /\ StoreTypes' /\ KeysCover'
      BY <2>3 DEF StoreTypes, KeysCover
    <2>4. ASSUME NEW t \in routes, Withdraw(t)
          PROVE  UNCHANGED <<task, slots, keys, info>> /\ routes' \subseteq routes
      BY <2>4 DEF Withdraw, Change
    <2>5. ASSUME NEW m \in Muis, RemoveIngress(m)
          PROVE  UNCHANGED <<task, slots, keys, info>> /\ routes' \subseteq routes
      BY <2>5 DEF RemoveIngress, Change
    <2>6. ASSUME NEW S, WithdrawIngresses(S)
          PROVE  UNCHANGED <<task, slots, keys, info>> /\ routes' \subseteq routes
      BY <2>6, Zenon DEF WithdrawIngresses, Change
    <2>7. ASSUME NEW n, CompactRead(n)
          PROVE  UNCHANGED <<task, slots, keys, info>> /\ routes' \subseteq routes
      BY <2>7, Zenon DEF CompactRead, Overwritten
    <2>8. ASSUME CompactEnd
          PROVE  UNCHANGED <<task, slots, keys, info>> /\ routes' \subseteq routes
      BY <2>8, Zenon DEF CompactEnd, Overwritten
    <2> QED
      BY <2>1, <2>2, <2>3, <2>4, <2>5, <2>6, <2>7, <2>8, Zenon DEF StoreStep
  <1>2. TaskTypes' /\ HistoryTypes'
    BY <1>1, HistoriesTyped DEF TaskTypes
  <1>3. \A r \in Readers : ReaderInv(r)'
    BY <1>1, Stays, Zenon
  <1> QED
    BY <1>1, <1>2, <1>3

\* A reader that was idle or active moves on to q.
LEMMA Moves ==
    ASSUME QueryInv, Remember, UNCHANGED storeVars,
           NEW r \in Readers, NEW q \in Reader, slots' \in Int,
           task' = [task EXCEPT ![r] = q],
           task[r].pc = "idle" \/ Active(task[r]),
           Ok(r, q, ever'[r], always'[r], asns'[r])
    PROVE  QueryInv'
  <1>1. StoreTypes' /\ KeysCover'
    BY Zenon DEF QueryInv, storeVars, StoreTypes, KeysCover
  <1>2. TaskTypes' /\ HistoryTypes' /\ task'[r] = q
    BY <1>1, HistoriesTyped, Zenon DEF QueryInv, TaskTypes
  <1>3. ReaderInv(r)'
    BY <1>2, Histories, Zenon DEF ReaderInv, QueryInv
  <1>4. \A s \in Readers : s # r => task'[s] = task[s]
    BY Zenon DEF QueryInv, TaskTypes
  <1>5. \A s \in Readers : ReaderInv(s)'
    BY <1>1, <1>3, <1>4, Stays, Zenon
  <1> QED
    BY <1>1, <1>2, <1>5, Zenon DEF QueryInv

\* try_enter, and the first steps of a dump and of a search.
LEMMA StepStart ==
    ASSUME QueryInv, Remember, NEW r \in Readers,
           \/ \E f \in Filters : TryEnter(r, f)
           \/ Refused(r) \/ TakeSlot(r) \/ CasFails(r) \/ Enter(r)
           \/ \E n \in Nodes, f \in Filters : SearchStart(r, n, f)
    PROVE  QueryInv'
  <1> DEFINE me == task[r]
  <1>0. /\ me \in Reader /\ InRole(r, me) /\ slots \in Int
        /\ task \in [Readers -> Reader]
    BY Zenon DEF QueryInv, TaskTypes, ReaderInv, Ok
  <1>1. ASSUME NEW f \in Filters, TryEnter(r, f)
        PROVE  QueryInv'
    <2> DEFINE q == [me EXCEPT !.pc = "cas", !.cur = slots, !.filter = f]
    <2>1. /\ q \in Reader /\ q.pc = "cas" /\ q.batch = me.batch /\ q.out = me.out
      BY <1>0, Zenon DEF Reader, Pcs
    <2>2. /\ task' = [task EXCEPT ![r] = q] /\ slots' = slots
          /\ UNCHANGED storeVars /\ r \in Https /\ me.pc = "idle"
      BY <1>1, Zenon DEF TryEnter, Begins
    <2> HIDE DEF q
    <2>3. Ok(r, q, ever'[r], always'[r], asns'[r])
      BY <1>0, <2>1, <2>2, QueryAssumption, Zenon DEF Ok, InRole
    <2> QED
      BY <1>0, <2>1, <2>2, <2>3, Moves, Zenon
  <1>2. ASSUME NEW n \in Nodes, NEW f \in Filters, SearchStart(r, n, f)
        PROVE  QueryInv'
    <2> DEFINE q == [me EXCEPT !.pc = "match", !.node = n, !.filter = f]
    <2>1. /\ q \in Reader /\ q.pc = "match" /\ q.batch = me.batch /\ q.out = me.out
      BY <1>0, Zenon DEF Reader, Pcs
    <2>2. /\ task' = [task EXCEPT ![r] = q] /\ slots' = slots
          /\ UNCHANGED storeVars /\ r \in Searches /\ me.pc = "idle"
      BY <1>2, ZenonT(30) DEF SearchStart, Begins
    <2> HIDE DEF q
    <2>3. Ok(r, q, ever'[r], always'[r], asns'[r])
      BY <1>0, <2>1, <2>2, QueryAssumption, Zenon DEF Ok, InRole
    <2> QED
      BY <1>0, <2>1, <2>2, <2>3, Moves, Zenon
  <1>3. ASSUME Refused(r)
        PROVE  QueryInv'
    <2> DEFINE q == [me EXCEPT !.pc = "refused"]
    <2>1. q \in Reader /\ q.pc = "refused" /\ q.filter = me.filter
      BY <1>0, Zenon DEF Reader, Pcs
    <2>2. /\ task' = [task EXCEPT ![r] = q] /\ slots' = slots
          /\ UNCHANGED storeVars /\ Active(me)
      BY <1>3, Zenon DEF Refused, Goes, Active
    <2> HIDE DEF q
    <2>3. Ok(r, q, ever'[r], always'[r], asns'[r])
      BY <1>0, <2>1, Zenon DEF Ok, InRole
    <2> QED
      BY <1>0, <2>1, <2>2, <2>3, Moves, Zenon
  <1>4. ASSUME TakeSlot(r)
        PROVE  QueryInv'
    <2> DEFINE q == [me EXCEPT !.pc = "info"]
    <2>1. /\ q \in Reader /\ q.pc = "info" /\ q.filter = me.filter
          /\ q.batch = me.batch /\ q.out = me.out /\ me.cur \in Int
      BY <1>0, Zenon DEF Reader, Pcs
    <2>2. /\ task' = [task EXCEPT ![r] = q] /\ slots' = me.cur + 1
          /\ UNCHANGED storeVars /\ Active(me) /\ me.pc = "cas"
      BY <1>4, Zenon DEF TakeSlot, Goes, Active
    <2>4. slots' \in Int
      BY <1>0, <2>1, <2>2
    <2> HIDE DEF q
    <2>3. Ok(r, q, ever'[r], always'[r], asns'[r])
      BY <1>0, <2>1, <2>2, Zenon DEF Ok, InRole
    <2> QED
      BY <1>0, <2>1, <2>2, <2>3, <2>4, Moves, Zenon
  <1>5. ASSUME CasFails(r)
        PROVE  QueryInv'
    <2> DEFINE q == [me EXCEPT !.cur = slots]
    <2>1. /\ q \in Reader /\ q.pc = me.pc /\ q.filter = me.filter
          /\ q.batch = me.batch /\ q.out = me.out
      BY <1>0, Zenon DEF Reader, Pcs
    <2>2. /\ task' = [task EXCEPT ![r] = q] /\ slots' = slots
          /\ UNCHANGED storeVars /\ Active(me) /\ me.pc = "cas"
      BY <1>5, Zenon DEF CasFails, Active
    <2> HIDE DEF q
    <2>3. Ok(r, q, ever'[r], always'[r], asns'[r])
      BY <1>0, <2>1, <2>2, Zenon DEF Ok, InRole
    <2> QED
      BY <1>0, <2>1, <2>2, <2>3, Moves, Zenon
  <1>6. ASSUME Enter(r)
        PROVE  QueryInv'
    <2> DEFINE q == [me EXCEPT !.pc = "keys"]
    <2>1. /\ q \in Reader /\ q.pc = "keys" /\ q.filter = me.filter
          /\ q.batch = me.batch /\ q.out = me.out
      BY <1>0, Zenon DEF Reader, Pcs
    <2>2. /\ task' = [task EXCEPT ![r] = q] /\ slots' = slots + 1
          /\ UNCHANGED storeVars /\ me.pc = "idle" /\ r \in Collectors
      BY <1>6, Zenon DEF Enter, Begins, Goes
    <2>4. slots' \in Int
      BY <1>0, <2>1, <2>2
    <2> HIDE DEF q
    <2>3. Ok(r, q, ever'[r], always'[r], asns'[r])
      BY <1>0, <2>1, <2>2, QueryAssumption, Zenon DEF Ok, InRole, Dumpers
    <2> QED
      BY <1>0, <2>1, <2>2, <2>3, <2>4, Moves, Zenon
  <1> QED
    BY <1>1, <1>2, <1>3, <1>4, <1>5, <1>6, Zenon

\* The register is cloned, and the keys are collected: every route there is
\* now is to be visited.
LEMMA StepKeys ==
    ASSUME QueryInv, Remember, NEW r \in Readers, CloneInfo(r) \/ CollectKeys(r)
    PROVE  QueryInv'
  <1> DEFINE me == task[r]
  <1>0. /\ me \in Reader /\ slots \in Int /\ InRole(r, me)
        /\ task \in [Readers -> Reader] /\ StoreTypes /\ KeysCover /\ HistoryTypes
        /\ Ok(r, me, ever[r], always[r], asns[r])
    BY Zenon DEF QueryInv, TaskTypes, ReaderInv, Ok
  <1>1. CASE CloneInfo(r)
    <2> DEFINE q == [me EXCEPT !.pc = "keys", !.info = info]
    <2>1. /\ q \in Reader /\ q.pc = "keys" /\ q.filter = me.filter /\ q.info = info
          /\ q.batch = me.batch /\ q.out = me.out
      BY <1>0, Zenon DEF Reader, Pcs, StoreTypes
    <2>2. /\ task' = [task EXCEPT ![r] = q] /\ slots' = slots /\ r \in Https
          /\ UNCHANGED storeVars /\ me.pc = "info" /\ Active(me) /\ info' = info
      BY <1>1, Zenon DEF CloneInfo, Active, storeVars
    <2>3. \A m \in Muis : info[m] \in asns'[r][m]
      BY <1>0, <2>2, Histories, Zenon DEF Bracket
    <2> HIDE DEF q
    <2>4. Ok(r, q, ever'[r], always'[r], asns'[r])
      BY <1>0, <2>1, <2>2, <2>3, Zenon DEF Ok, InRole, Dumpers
    <2> QED
      BY <1>0, <2>1, <2>2, <2>4, Moves, Zenon
  <1>2. CASE CollectKeys(r)
    <2> DEFINE q == [me EXCEPT !.pc = "fetch", !.todo = keys]
    <2>1. /\ q \in Reader /\ q.pc = "fetch" /\ q.filter = me.filter
          /\ q.info = me.info /\ q.todo = keys
          /\ q.batch = me.batch /\ q.out = me.out
      BY <1>0, Zenon DEF Reader, Pcs, StoreTypes
    <2>2. /\ task' = [task EXCEPT ![r] = q] /\ slots' = slots
          /\ UNCHANGED storeVars /\ me.pc = "keys" /\ Active(me)
          /\ Seen' = Seen
      BY <1>2, Zenon DEF CollectKeys, Active, storeVars, Seen
    <2>3. /\ \A t \in always'[r] : t \in Seen
          /\ \A m \in Muis : \A a \in asns[r][m] : a \in asns'[r][m]
      BY <1>0, <2>2, Histories, Zenon DEF Bracket
    <2>4. \A t \in always'[r] : t.node \in keys
      BY <1>0, <2>3, Zenon DEF Seen, KeysCover
    <2> HIDE DEF q
    <2>5. Walked(q, ever'[r], always'[r])
      BY <1>0, <2>1, <2>2, <2>4, Zenon DEF Walked, InRole
    <2>6. Ok(r, q, ever'[r], always'[r], asns'[r])
      BY <1>0, <2>1, <2>2, <2>3, <2>5, Zenon DEF Ok, InRole
    <2> QED
      BY <1>0, <2>1, <2>2, <2>6, Moves, Zenon
  <1> QED
    BY <1>1, <1>2

\* The records of one key go into the chunk.
LEMMA StepFetch ==
    ASSUME QueryInv, Remember, NEW r \in Readers, NEW n \in task[r].todo,
           Fetch(r, n)
    PROVE  QueryInv'
  <1> DEFINE me == task[r]
             todo == me.todo \ {n}
             chunk == me.chunk + 1
             batch == me.batch \cup {t \in Seen : t.node = n}
             q == [me EXCEPT !.todo = todo, !.chunk = chunk, !.batch = batch]
  <1>0. /\ me \in Reader /\ slots \in Int /\ InRole(r, me)
        /\ task \in [Readers -> Reader] /\ StoreTypes /\ HistoryTypes
        /\ Ok(r, me, ever[r], always[r], asns[r])
    BY Zenon DEF QueryInv, TaskTypes, ReaderInv, Ok
  <1>1. /\ task' = [task EXCEPT ![r] = q] /\ slots' = slots
        /\ UNCHANGED storeVars /\ me.pc = "fetch" /\ Active(me)
        /\ Seen' = Seen
    BY <1>0, Zenon DEF Fetch, Active, storeVars, Seen
  <1>2. /\ todo \in SUBSET Nodes /\ chunk \in Nat /\ batch \in SUBSET RouteSet
    BY <1>0 DEF Reader, StoreTypes, Seen
  <1>3. /\ Walked(me, ever[r], always[r])
        /\ \A t \in always'[r] : t \in Seen /\ t \in always[r]
        /\ \A t \in Seen : t \in ever'[r]
        /\ \A t \in ever[r] : t \in ever'[r]
        /\ \A m \in Muis : \A a \in asns[r][m] : a \in asns'[r][m]
    BY <1>0, <1>1, Histories, Zenon DEF Bracket, Ok
  <1>4. /\ \A t : t \in batch <=> t \in me.batch \/ (t \in Seen /\ t.node = n)
        /\ \A x : x \in todo <=> x \in me.todo /\ x # n
    BY Zenon
  <1> HIDE DEF todo, chunk, batch
  <1>5. /\ q \in Reader /\ q.pc = "fetch" /\ q.filter = me.filter
        /\ q.info = me.info /\ q.todo = todo /\ q.batch = batch
        /\ q.out = me.out
    BY <1>0, <1>1, <1>2, Zenon DEF Reader, Pcs
  <1> HIDE DEF q
  <1>6. Walked(q, ever'[r], always'[r])
    BY <1>3, <1>4, <1>5, Zenon DEF Walked
  <1>7. Ok(r, q, ever'[r], always'[r], asns'[r])
    BY <1>0, <1>1, <1>3, <1>5, <1>6, Zenon DEF Ok, InRole
  <1> QED
    BY <1>0, <1>1, <1>5, <1>7, Moves, Zenon

\* A dump whose keys are all visited has written a faithful answer.
LEMMA WalkFaithful ==
    ASSUME NEW r \in Dumpers, NEW q \in Reader, NEW ev, NEW al, NEW as,
           Walked(q, ev, al), q.todo = {}, q.batch = {},
           al \subseteq RouteSet, r \in Collectors => q.filter = AnyRoute,
           r \in Https => \A m \in Muis : q.info[m] \in as[m]
    PROVE  Faithful(r, q, ev, al, as)
  <1>1. r \notin Searches /\ (r \in Https \/ q.filter.asn = 0)
    BY QueryAssumption DEF Dumpers, AnyRoute
  <1>2. \A t \in al : t.mui \in Muis
    BY DEF RouteSet
  <1>3. \A t \in q.out : t.mui \in Muis
    BY Zenon DEF RouteSet, Reader
  <1>4. ASSUME NEW t \in al, Wanted(r, q, t),
               q.filter.asn = 0 \/ as[t.mui] = {q.filter.asn}
        PROVE  t \in q.out
    <2>1. Passes(q.filter, q.info, t)
      BY <1>1, <1>2, <1>4, Zenon DEF Passes, Wanted
    <2> QED
      BY <2>1, Zenon DEF Walked
  <1>5. ASSUME NEW t \in q.out
        PROVE  /\ t \in ev /\ Wanted(r, q, t)
               /\ q.filter.asn = 0 \/ as[t.mui] \cap {0, q.filter.asn} # {}
    <2>1. t \in ev /\ Passes(q.filter, q.info, t)
      BY DEF Walked
    <2> QED
      BY <1>1, <1>3, <2>1, Zenon DEF Passes, Wanted
  <1> QED
    BY <1>4, <1>5, Zenon DEF Faithful

\* The chunk is written, or the answer ends here.
LEMMA StepEmit ==
    ASSUME QueryInv, Remember, NEW r \in Readers, Emit(r) \/ CutShort(r)
    PROVE  QueryInv'
  <1> DEFINE me == task[r]
             sent == {t \in me.batch : Passes(me.filter, me.info, t)}
             out == me.out \cup sent
             pc == IF me.todo = {} THEN "done" ELSE me.pc
             q == [me EXCEPT !.out = out, !.batch = {}, !.chunk = 0, !.pc = pc]
  <1>0. /\ me \in Reader /\ slots \in Int /\ InRole(r, me)
        /\ task \in [Readers -> Reader] /\ StoreTypes /\ HistoryTypes
        /\ Ok(r, me, ever[r], always[r], asns[r])
    BY Zenon DEF QueryInv, TaskTypes, ReaderInv, Ok
  <1>1. /\ UNCHANGED storeVars /\ me.pc = "fetch" /\ Active(me)
        /\ slots' \in Int /\ Seen' = Seen
    <2>1. UNCHANGED storeVars /\ me.pc = "fetch" /\ slots' \in {slots, slots - 1}
      BY Zenon DEF Emit, CutShort
    <2> QED
      BY <1>0, <2>1 DEF Active, storeVars, Seen
  <1>2. CASE CutShort(r)
    <2> DEFINE p == [me EXCEPT !.pc = "cut"]
    <2>1. p \in Reader /\ p.pc = "cut" /\ p.filter = me.filter
      BY <1>0, Zenon DEF Reader, Pcs
    <2>2. task' = [task EXCEPT ![r] = p]
      BY <1>2 DEF CutShort, Goes
    <2> HIDE DEF p
    <2>3. Ok(r, p, ever'[r], always'[r], asns'[r])
      BY <1>0, <2>1, Zenon DEF Ok, InRole
    <2> QED
      BY <1>0, <1>1, <2>1, <2>2, <2>3, Moves, Zenon
  <1>3. CASE Emit(r)
    <2>1. task' = [task EXCEPT ![r] = q]
      BY <1>3, Zenon DEF Emit
    <2>2. /\ out \in SUBSET RouteSet /\ pc \in Pcs
          /\ \A t : t \in out <=>
                 \/ t \in me.out
                 \/ t \in me.batch /\ Passes(me.filter, me.info, t)
      BY <1>0, Zenon DEF Reader, Pcs
    <2>3. /\ Walked(me, ever[r], always[r])
          /\ \A t \in always'[r] : t \in Seen /\ t \in always[r]
          /\ \A t \in ever[r] : t \in ever'[r]
          /\ \A m \in Muis : \A a \in asns[r][m] : a \in asns'[r][m]
      BY <1>0, <1>1, Histories, Zenon DEF Bracket, Ok
    <2>4. pc = IF me.todo = {} THEN "done" ELSE "fetch"
      BY <1>1, Zenon
    <2>5. always'[r] \subseteq RouteSet
      BY <1>0, <2>3, Zenon DEF Seen, StoreTypes
    <2> HIDE DEF out, pc, sent
    <2>6. /\ q \in Reader /\ q.pc = pc /\ q.filter = me.filter
          /\ q.info = me.info /\ q.todo = me.todo /\ q.batch = {}
          /\ q.out = out
      BY <1>0, <2>2, Zenon DEF Reader
    <2> HIDE DEF q
    <2>7. Walked(q, ever'[r], always'[r])
      BY <2>2, <2>3, <2>6, Zenon DEF Walked
    <2>8. /\ r \in Dumpers /\ (r \in Collectors => q.filter = AnyRoute)
          /\ r \in Https => \A m \in Muis : q.info[m] \in asns'[r][m]
      BY <1>0, <1>1, <2>3, <2>6, Zenon DEF Ok, InRole
    <2>9. q.pc = "done" => Faithful(r, q, ever'[r], always'[r], asns'[r])
      BY <2>4, <2>5, <2>6, <2>7, <2>8, WalkFaithful, Zenon
    <2>10. Ok(r, q, ever'[r], always'[r], asns'[r])
      BY <2>4, <2>6, <2>7, <2>8, <2>9, Zenon DEF Ok, InRole
    <2> QED
      BY <1>0, <1>1, <2>1, <2>6, <2>10, Moves, Zenon
  <1> QED
    BY <1>2, <1>3

\* The store's match, and then the filter with the register as it is.
LEMMA StepSearch ==
    ASSUME QueryInv, Remember, NEW r \in Readers,
           SearchMatch(r) \/ SearchFilter(r)
    PROVE  QueryInv'
  <1> DEFINE me == task[r]
  <1>0. /\ me \in Reader /\ slots \in Int /\ InRole(r, me)
        /\ task \in [Readers -> Reader] /\ StoreTypes /\ HistoryTypes
        /\ Ok(r, me, ever[r], always[r], asns[r])
    BY Zenon DEF QueryInv, TaskTypes, ReaderInv, Ok
  <1>1. /\ UNCHANGED storeVars /\ me.pc \in {"match", "filter"} /\ Active(me)
        /\ slots' = slots /\ Seen' = Seen /\ info' = info /\ r \in Searches
    BY <1>0, Zenon DEF SearchMatch, SearchFilter, Active, storeVars, Seen, InRole
  <1>2. /\ \A t \in always'[r] : t \in Seen /\ t \in always[r]
        /\ \A t \in Seen : t \in ever'[r]
        /\ \A t \in ever[r] : t \in ever'[r]
        /\ \A m \in Muis : info[m] \in asns'[r][m]
    BY <1>0, <1>1, Histories, Zenon DEF Bracket
  <1>3. r \notin Dumpers /\ r \notin Https /\ r \notin Collectors
    BY <1>1, QueryAssumption, Zenon DEF Dumpers
  <1>4. CASE SearchMatch(r)
    <2> DEFINE batch == {t \in Seen : Matched(me.node, me.filter, t)}
               q == [me EXCEPT !.pc = "filter", !.batch = batch]
    <2>1. task' = [task EXCEPT ![r] = q]
      BY <1>4, Zenon DEF SearchMatch
    <2>2. /\ batch \in SUBSET RouteSet
          /\ \A t : t \in batch <=> t \in Seen /\ Matched(me.node, me.filter, t)
      BY <1>0, Zenon DEF StoreTypes, Seen
    <2> HIDE DEF batch
    <2>3. /\ q \in Reader /\ q.pc = "filter" /\ q.filter = me.filter
          /\ q.node = me.node /\ q.batch = batch
      BY <1>0, <2>2, Zenon DEF Reader, Pcs
    <2> HIDE DEF q
    <2>4. Found(q, ever'[r], always'[r])
      BY <1>2, <2>2, <2>3, Zenon DEF Found
    <2>5. Ok(r, q, ever'[r], always'[r], asns'[r])
      BY <1>1, <1>3, <2>3, <2>4, Zenon DEF Ok, InRole
    <2> QED
      BY <1>0, <1>1, <2>1, <2>3, <2>5, Moves, Zenon
  <1>5. CASE SearchFilter(r)
    <2> DEFINE out == {t \in me.batch : Passes(me.filter, info, t)}
               q == [me EXCEPT !.pc = "done", !.batch = {}, !.out = out]
    <2>1. task' = [task EXCEPT ![r] = q]
      BY <1>5, Zenon DEF SearchFilter
    <2>2. /\ out \in SUBSET RouteSet
          /\ \A t : t \in out <=> t \in me.batch /\ Passes(me.filter, info, t)
      BY <1>0, Zenon DEF Reader
    <2> HIDE DEF out
    <2>3. /\ q \in Reader /\ q.pc = "done" /\ q.filter = me.filter
          /\ q.node = me.node /\ q.out = out
      BY <1>0, <2>2, Zenon DEF Reader, Pcs
    <2> HIDE DEF q
    <2>4. Found(me, ever[r], always[r])
      BY <1>0, <1>5, Zenon DEF Ok, SearchFilter
    <2>5. ASSUME NEW t \in always'[r], Wanted(r, q, t),
                 q.filter.asn = 0 \/ asns'[r][t.mui] = {q.filter.asn}
          PROVE  t \in q.out
      <3>1. t \in me.batch
        BY <1>1, <1>2, <2>3, <2>4, <2>5, Zenon DEF Found, Wanted
      <3>2. t.mui \in Muis
        BY <1>0, <1>2, Zenon DEF Seen, StoreTypes, RouteSet
      <3>3. Passes(me.filter, info, t)
        BY <1>2, <2>3, <2>5, <3>2, Zenon DEF Passes, Wanted
      <3> QED
        BY <2>2, <2>3, <3>1, <3>3, Zenon
    <2>6. ASSUME NEW t \in q.out
          PROVE  /\ t \in ever'[r] /\ Wanted(r, q, t)
                 /\ \/ q.filter.asn = 0
                    \/ asns'[r][t.mui] \cap {0, q.filter.asn} # {}
      <3>1. t \in me.batch /\ Passes(me.filter, info, t)
        BY <2>2, <2>3, <2>6, Zenon
      <3>2. t \in ever'[r] /\ Matched(me.node, me.filter, t)
        BY <1>2, <2>4, <3>1, Zenon DEF Found
      <3>3. t.mui \in Muis
        BY <1>0, <3>1, Zenon DEF Reader, RouteSet
      <3> QED
        BY <1>2, <2>3, <3>1, <3>2, <3>3, Zenon DEF Passes, Wanted
    <2>7. Faithful(r, q, ever'[r], always'[r], asns'[r])
      BY <2>5, <2>6, Zenon DEF Faithful
    <2>8. Ok(r, q, ever'[r], always'[r], asns'[r])
      BY <1>3, <2>3, <2>7, Zenon DEF Ok, InRole
    <2> QED
      BY <1>0, <1>1, <2>1, <2>3, <2>8, Moves, Zenon
  <1> QED
    BY <1>4, <1>5

LEMMA NextQuery == QueryInv /\ [QueryNext]_queryVars => QueryInv'
  <1> SUFFICES ASSUME QueryInv, [QueryNext]_queryVars PROVE QueryInv'
    OBVIOUS
  <1>1. CASE UNCHANGED queryVars
    <2>1. /\ UNCHANGED <<routes, flagged, keys, info, slots, task, ever, always, asns>>
          /\ Seen' = Seen
      BY <1>1, Zenon DEF queryVars, storeVars, Seen
    <2>2. StoreTypes' /\ KeysCover' /\ TaskTypes' /\ HistoryTypes'
      BY <2>1, Zenon DEF QueryInv, StoreTypes, KeysCover, TaskTypes, HistoryTypes
    <2>3. \A r \in Readers : ReaderInv(r)'
      BY <2>1, Zenon DEF QueryInv, ReaderInv, Bracket
    <2> QED
      BY <2>2, <2>3 DEF QueryInv
  <1>2. CASE StoreStep /\ Remember
    BY <1>2, StoreSteps
  <1>3. ASSUME NEW r \in Readers, NEW n \in task[r].todo, Fetch(r, n), Remember
        PROVE  QueryInv'
    BY <1>3, StepFetch
  <1> QED
    BY <1>1, <1>2, <1>3, StepStart, StepKeys, StepEmit, StepSearch, Zenon
    DEF QueryNext, ReaderStep

-----------------------------------------------------------------------------

\* search_routes, write_jsonl_stream and the walk of a bmp-out dump, for any
\* number of readers and changes under them: a finished answer has every route
\* that was there and asked for throughout, and no route that was not there or
\* not asked for at some time.
THEOREM AnswersAreFaithful == QuerySpec => []AnswersFaithful
  <1>1. QueryInv => AnswersFaithful
    <2> SUFFICES ASSUME QueryInv, NEW r \in Readers, task[r].pc = "done"
                 PROVE  LET f == task[r].filter
                            Always(m) == asns[r][m] = {f.asn}
                            Once(m) == asns[r][m] \cap {0, f.asn} # {}
                        IN  /\ Asked(r, always[r], Always) \subseteq task[r].out
                            /\ task[r].out \subseteq Asked(r, ever[r], Once)
      BY Zenon DEF AnswersFaithful
    <2>1. Faithful(r, task[r], ever[r], always[r], asns[r])
      BY Zenon DEF QueryInv, ReaderInv, Ok
    <2> QED
      BY <2>1, Zenon DEF Faithful, Wanted, Asked
  <1> QED
    BY <1>1, InitQuery, NextQuery, PTL DEF QuerySpec

-----------------------------------------------------------------------------
(***************************************************************************)
(* The slots.                                                              *)
(***************************************************************************)

Holders(D) == {r \in D : task[r].pc \in {"info", "keys", "fetch"}}

\* A task that moves without taking or giving back a slot.
LEMMA SameHolders ==
    ASSUME NEW r \in Readers, \A s \in Readers \ {r} : task'[s] = task[s],
           task[r].pc \in {"info", "keys", "fetch"} <=>
               task'[r].pc \in {"info", "keys", "fetch"},
           slots' = slots, SlotsHeld
    PROVE  SlotsHeld'
  <1>1. \A s \in Readers : task'[s].pc \in {"info", "keys", "fetch"} <=>
                              task[s].pc \in {"info", "keys", "fetch"}
    OBVIOUS
  <1>2. Holders(Dumpers)' = Holders(Dumpers) /\ Holders(Https)' = Holders(Https)
    BY <1>1, Zenon DEF Holders, Readers, Dumpers
  <1> QED
    BY <1>2, Zenon DEF SlotsHeld, Holders

LEMMA FiniteHolders ==
    /\ IsFiniteSet(Holders(Dumpers)) /\ IsFiniteSet(Holders(Https))
    /\ Cardinality(Holders(Dumpers)) \in Nat /\ Cardinality(Holders(Https)) \in Nat
    /\ Cardinality(Holders(Https)) <= Cardinality(Holders(Dumpers))
  <1>1. IsFiniteSet(Dumpers)
    BY QueryAssumption, FS_Union, Zenon DEF Dumpers
  <1>2. Holders(Dumpers) \subseteq Dumpers /\ Holders(Https) \subseteq Holders(Dumpers)
    BY DEF Holders, Dumpers
  <1>3. IsFiniteSet(Holders(Dumpers))
    BY <1>1, <1>2, FS_Subset
  <1> QED
    BY <1>2, <1>3, FS_Subset, FS_CardinalityType, Zenon

\* A dump takes a slot: over HTTP only when fewer than MaxDumps are taken.
LEMMA TakesSlot ==
    ASSUME NEW r \in Dumpers, \A s \in Readers \ {r} : task'[s] = task[s],
           task[r].pc \notin {"info", "keys", "fetch"},
           task'[r].pc \in {"info", "keys", "fetch"},
           slots' = slots + 1, r \in Https => slots < MaxDumps, SlotsHeld
    PROVE  SlotsHeld'
  <1>2. r \notin Holders(Dumpers) /\ r \notin Holders(Https)
    BY DEF Holders
  <1>3. Holders(Dumpers)' = Holders(Dumpers) \cup {r}
    BY DEF Holders, Readers
  <1>4. Holders(Https)' = IF r \in Https THEN Holders(Https) \cup {r} ELSE Holders(Https)
    BY Zenon DEF Holders, Readers, Dumpers
  <1>5. /\ Cardinality(Holders(Dumpers) \cup {r}) = Cardinality(Holders(Dumpers)) + 1
        /\ Cardinality(Holders(Https) \cup {r}) = Cardinality(Holders(Https)) + 1
    BY <1>2, FiniteHolders, FS_AddElement, Zenon
  <1>6. slots = Cardinality(Holders(Dumpers)) /\ Cardinality(Holders(Https)) <= MaxDumps
    BY Zenon DEF SlotsHeld, Holders
  <1>7. /\ slots' = Cardinality(Holders(Dumpers)')
        /\ Cardinality(Holders(Https)') <= MaxDumps
    BY <1>3, <1>4, <1>5, <1>6, FiniteHolders, QueryAssumption, SMT, Z3
  <1> QED
    BY <1>7, Zenon DEF SlotsHeld, Holders

\* A dump that is over gives its slot back.
LEMMA GivesBack ==
    ASSUME NEW r \in Dumpers, \A s \in Readers \ {r} : task'[s] = task[s],
           task[r].pc \in {"info", "keys", "fetch"},
           task'[r].pc \notin {"info", "keys", "fetch"},
           slots' = slots - 1, SlotsHeld
    PROVE  SlotsHeld'
  <1>2. r \in Holders(Dumpers)
    BY DEF Holders
  <1>3. Holders(Dumpers)' = Holders(Dumpers) \ {r}
    BY DEF Holders, Readers
  <1>4. Holders(Https)' \subseteq Holders(Https)
    BY DEF Holders, Readers, Dumpers
  <1>5. /\ Cardinality(Holders(Dumpers) \ {r}) = Cardinality(Holders(Dumpers)) - 1
        /\ Cardinality(Holders(Https)') <= Cardinality(Holders(Https))
        /\ Cardinality(Holders(Https)') \in Nat
    BY <1>2, <1>4, FiniteHolders, FS_RemoveElement, FS_Subset, FS_CardinalityType, Zenon
  <1>6. slots = Cardinality(Holders(Dumpers)) /\ Cardinality(Holders(Https)) <= MaxDumps
    BY Zenon DEF SlotsHeld, Holders
  <1>7. /\ slots' = Cardinality(Holders(Dumpers)')
        /\ Cardinality(Holders(Https)') <= MaxDumps
    BY <1>3, <1>5, <1>6, FiniteHolders, QueryAssumption
  <1> QED
    BY <1>7, Zenon DEF SlotsHeld, Holders

LEMMA NextSlots ==
    ASSUME QueryInv, SlotsHeld, [QueryNext]_queryVars
    PROVE  SlotsHeld'
  <1>0. task \in [Readers -> Reader]
    BY DEF QueryInv, TaskTypes
  <1>1. CASE UNCHANGED queryVars
    BY <1>1, Zenon DEF queryVars, SlotsHeld
  <1>2. CASE StoreStep /\ Remember
    BY <1>2, StoreSteps, Zenon DEF SlotsHeld
  <1>3. ASSUME NEW r \in Readers,
               \/ \E f \in Filters : TryEnter(r, f)
               \/ Refused(r) \/ CasFails(r) \/ CloneInfo(r) \/ CollectKeys(r)
               \/ \E n \in task[r].todo : Fetch(r, n)
               \/ \E n \in Nodes, f \in Filters : SearchStart(r, n, f)
               \/ SearchMatch(r) \/ SearchFilter(r)
        PROVE  SlotsHeld'
    <2>1. /\ \A s \in Readers \ {r} : task'[s] = task[s]
          /\ slots' = slots
          /\ \/ task[r].pc = "idle" /\ task'[r].pc = "cas"
             \/ task[r].pc = "cas" /\ task'[r].pc \in {"refused", "cas"}
             \/ task[r].pc = "info" /\ task'[r].pc = "keys"
             \/ task[r].pc = "keys" /\ task'[r].pc = "fetch"
             \/ task[r].pc = "fetch" /\ task'[r].pc = "fetch"
             \/ task[r].pc = "idle" /\ task'[r].pc = "match"
             \/ task[r].pc = "match" /\ task'[r].pc = "filter"
             \/ task[r].pc = "filter" /\ task'[r].pc = "done"
      <3>1. ASSUME NEW f \in Filters, TryEnter(r, f) PROVE <2>1!:
        BY <1>0, <3>1, Zenon DEF TryEnter, Begins, Reader
      <3>2. ASSUME NEW n \in Nodes, NEW f \in Filters, SearchStart(r, n, f)
            PROVE <2>1!:
        BY <1>0, <3>2, Zenon DEF SearchStart, Begins, Reader
      <3>3. ASSUME NEW n \in task[r].todo, Fetch(r, n) PROVE <2>1!:
        BY <1>0, <3>3 DEF Fetch, Reader
      <3>4. CASE Refused(r) \/ CasFails(r)
        BY <1>0, <3>4, ZenonT(30) DEF Refused, CasFails, Goes, Reader
      <3>5. CASE CloneInfo(r) \/ CollectKeys(r)
        BY <1>0, <3>5, ZenonT(30) DEF CloneInfo, CollectKeys, Reader
      <3>6. CASE SearchMatch(r)
        BY <1>0, <3>6, Zenon DEF SearchMatch, Reader
      <3>7. CASE SearchFilter(r)
        BY <1>0, <3>7, Zenon DEF SearchFilter, Reader
      <3> QED
        BY <1>3, <3>1, <3>2, <3>3, <3>4, <3>5, <3>6, <3>7, Zenon
    <2>2. task[r].pc \in {"info", "keys", "fetch"} <=>
              task'[r].pc \in {"info", "keys", "fetch"}
      BY <2>1, Zenon
    <2> QED
      BY <2>1, <2>2, SameHolders, Zenon
  <1>4. ASSUME NEW r \in Readers, TakeSlot(r)
        PROVE  SlotsHeld'
    <2>1. /\ \A s \in Readers \ {r} : task'[s] = task[s]
          /\ task[r].pc = "cas" /\ task'[r].pc = "info"
          /\ slots' = slots + 1 /\ slots < MaxDumps
      BY <1>0, <1>4, Zenon DEF TakeSlot, Goes, Reader
    <2>2. r \in Dumpers
      BY <2>1, Zenon DEF QueryInv, ReaderInv, Ok, InRole, Dumpers
    <2> QED
      BY <2>1, <2>2, TakesSlot, Zenon
  <1>5. ASSUME NEW r \in Readers, Enter(r)
        PROVE  SlotsHeld'
    <2>1. /\ \A s \in Readers \ {r} : task'[s] = task[s]
          /\ task[r].pc = "idle" /\ task'[r].pc = "keys"
          /\ slots' = slots + 1 /\ r \in Collectors
      BY <1>0, <1>5 DEF Enter, Begins, Goes, Reader
    <2>2. r \in Dumpers /\ r \notin Https
      BY <2>1, QueryAssumption, Zenon DEF Dumpers
    <2> QED
      BY <2>1, <2>2, TakesSlot, Zenon
  <1>6. ASSUME NEW r \in Readers, Emit(r) \/ CutShort(r)
        PROVE  SlotsHeld'
    <2>1. /\ \A s \in Readers \ {r} : task'[s] = task[s]
          /\ task[r].pc = "fetch"
          /\ \/ task'[r].pc \in {"done", "cut"} /\ slots' = slots - 1
             \/ task'[r].pc = "fetch" /\ slots' = slots
      <3>1. CASE CutShort(r)
        BY <1>0, <3>1 DEF CutShort, Goes, Reader
      <3>2. CASE Emit(r) /\ task[r].todo = {}
        BY <1>0, <3>2, ZenonT(30) DEF Emit, Reader
      <3>3. CASE Emit(r) /\ task[r].todo # {}
        BY <1>0, <3>3, ZenonT(30) DEF Emit, Reader
      <3> QED
        BY <1>6, <3>1, <3>2, <3>3, Zenon
    <2>2. r \in Dumpers
      BY <2>1, Zenon DEF QueryInv, ReaderInv, Ok, InRole
    <2> QED
      BY <2>1, <2>2, GivesBack, SameHolders, Zenon
  <1> QED
    BY <1>1, <1>2, <1>3, <1>4, <1>5, <1>6, Zenon DEF QueryNext, ReaderStep

\* DumpGuard::try_enter and its Drop, for any number of requests: the counter
\* is the number of dumps in flight, and the cap holds over HTTP.
THEOREM SlotsAreHeld == QuerySpec => []SlotsHeld
  <1>1. QueryInit => SlotsHeld
    <2> SUFFICES ASSUME QueryInit PROVE SlotsHeld
      OBVIOUS
    <2>1. \A r \in Readers : task[r].pc = "idle"
      BY Zenon DEF QueryInit
    <2>2. Holders(Dumpers) = {} /\ Holders(Https) = {} /\ slots = 0
      BY <2>1, Zenon DEF Holders, Readers, Dumpers, QueryInit
    <2>3. Cardinality({}) = 0
      BY FS_EmptySet, Zenon
    <2>4. SlotsHeld <=> /\ slots = Cardinality(Holders(Dumpers))
                        /\ Cardinality(Holders(Https)) <= MaxDumps
      BY Zenon DEF SlotsHeld, Holders
    <2>5. 0 <= MaxDumps
      BY QueryAssumption
    <2> QED
      BY <2>2, <2>3, <2>4, <2>5, Zenon
  <1> QED
    BY <1>1, InitQuery, NextQuery, NextSlots, PTL DEF QuerySpec

-----------------------------------------------------------------------------
(***************************************************************************)
(* PeerStats, for any families, updates and number of sessions: the        *)
(* aggregate of the routes in Adj-RIB-In is the sum of the families.       *)
(*                                                                         *)
(* The invariant says by how much they differ at each step of a session,   *)
(* as long as no session that was replaced has counted.  A sum is taken as *)
(* the number of routes counted, so that a changed gauge changes it by as  *)
(* much (SumExcept).                                                       *)
(***************************************************************************)

Sum(fams) == Cardinality(Counted(fams))
Gauges == [Families -> Nat]

Steps == {"none", "clear", "ready", "put", "store"}
Tasks == [pc : Steps, adds : SUBSET (Families \X Nat), subs : SUBSET (Families \X Nat),
          now : (Families \X Nat) \cup {<<>>}, agg : Nat]
Reports == [rejected : Nat, total : Nat, fams : Gauges, torn : BOOLEAN]
Sessions == 1 .. MaxSessions

StatTypes ==
    /\ total \in Nat /\ perFam \in Gauges /\ rejected \in Nat
    /\ counter \in [Sessions -> Tasks]
    /\ current \in Nat /\ current <= MaxSessions
    /\ shared \in BOOLEAN /\ mixed \in BOOLEAN
    /\ counted \in Nat /\ announced \in Nat
    /\ emitter \in [pc : {"wait", "fams", "emit"}, snap : Reports]

\* What a task is counting is a count of routes of a family.
NowOK == \A s \in Sessions :
    counter[s].pc \in {"put", "store"} => counter[s].now \in Families \X Nat

\* Counters that are shared have a session that counts.
InUse == shared => current # 0 /\ counter[current].pc # "none"

\* Where the aggregate stands towards the sum of the families, at each step of
\* the session, as long as nobody else has counted.
Balance ==
    ~mixed /\ shared =>
        /\ counter[current].pc = "clear" => total = 0
        /\ counter[current].pc = "ready" => total = Sum(perFam) /\ total <= announced
        /\ counter[current].pc = "put" =>
              total = Sum(perFam) + counter[current].now[2] /\ total <= announced
        /\ counter[current].pc = "store" =>
              /\ total = Sum(perFam) + counter[current].now[2] /\ total <= announced
              /\ counter[current].agg = total

Report ==
    ~mixed /\ ~emitter.snap.torn =>
        /\ emitter.pc = "fams" => emitter.snap.total = Sum(perFam)
        /\ emitter.pc = "emit" => emitter.snap.total = Sum(emitter.snap.fams)

StatInv == StatTypes /\ NowOK /\ InUse /\ Balance /\ Report

-----------------------------------------------------------------------------

\* The routes counted are finitely many.
LEMMA CountedFinite ==
    ASSUME NEW g \in Gauges
    PROVE  IsFiniteSet(Counted(g)) /\ Sum(g) \in Nat
<1> DEFINE Of == [f \in Families |-> {f} \X (1 .. g[f])]
           All == {{f} \X (1 .. g[f]) : f \in Families}
<1>1. Of \in Surjection(Families, All)
    BY Zenon DEF Surjection
<1>2. IsFiniteSet(All)
    BY <1>1, StatAssumption, FS_Surjection, Zenon
<1>3. ASSUME NEW T \in All PROVE IsFiniteSet(T)
    <2>1. PICK f \in Families : T = {f} \X (1 .. g[f])
        OBVIOUS
    <2>2. IsFiniteSet({f})
        BY FS_Singleton, Zenon
    <2>3. IsFiniteSet(1 .. g[f])
        <3>1. g[f] \in Int
            BY DEF Gauges
        <3> QED
            BY <3>1, FS_Interval
    <2> QED
        BY <2>1, <2>2, <2>3, FS_Product, Zenon
<1> HIDE DEF All
<1>4. IsFiniteSet(UNION All)
    BY <1>2, <1>3, FS_UNION
<1>5. Counted(g) = UNION All
    BY DEF Counted, Gauges, All
<1>6. IsFiniteSet(Counted(g))
    BY <1>4, <1>5
<1> QED
    BY <1>6, FS_CardinalityType DEF Sum

\* Changing one gauge changes the sum by as much.
LEMMA SumExcept ==
    ASSUME NEW g \in Gauges, NEW f \in Families, NEW n \in Nat
    PROVE  /\ [g EXCEPT ![f] = n] \in Gauges
           /\ Sum([g EXCEPT ![f] = n]) = Sum(g) - g[f] + n
           /\ g[f] <= Sum(g)
<1> DEFINE h == [g EXCEPT ![f] = n]
           Row(m) == {f} \X (1 .. m)
           Rest == {c \in Counted(g) : c[1] # f}
<1>1. h \in Gauges /\ g[f] \in Nat
    BY DEF Gauges
<1>2. \A m \in Nat : IsFiniteSet(Row(m)) /\ Cardinality(Row(m)) = m
    <2> TAKE m \in Nat
    <2>1. IsFiniteSet(1 .. m) /\ Cardinality(1 .. m) = m
        BY FS_Interval
    <2>2. IsFiniteSet({f}) /\ Cardinality({f}) = 1
        BY FS_Singleton, Zenon
    <2>3. IsFiniteSet({f} \X (1 .. m)) /\ Cardinality({f} \X (1 .. m)) = 1 * m
        BY <2>1, <2>2, FS_Product, ZenonT(30)
    <2> QED
        BY <2>3
<1>3. Counted(g) = Rest \cup Row(g[f])
    BY DEF Counted, Gauges
<1>4. Counted(h) = Rest \cup Row(n)
    <2>1. DOMAIN h = Families /\ DOMAIN g = Families /\ h[f] = n
          /\ \A e \in Families : e # f => h[e] = g[e]
        BY DEF Gauges
    <2>2. ASSUME NEW c \in Counted(h) PROVE c \in Rest \cup Row(n)
        BY <2>1, <2>2, Zenon DEF Counted
    <2>3. ASSUME NEW c \in Rest PROVE c \in Counted(h)
        BY <2>1, <2>3 DEF Counted
    <2>4. ASSUME NEW c \in Row(n) PROVE c \in Counted(h)
        BY <2>1, <2>4 DEF Counted
    <2> QED
        BY <2>2, <2>3, <2>4, Zenon
<1>5. \A m \in Nat : Rest \cap Row(m) = {}
    OBVIOUS
<1>6. IsFiniteSet(Rest)
    BY CountedFinite, FS_Subset
<1> HIDE DEF h, Row, Rest
<1>7. Cardinality({}) = 0 /\ Cardinality(Rest) \in Nat
    BY <1>6, FS_EmptySet, FS_CardinalityType
<1>8. \A m \in Nat : Cardinality(Rest \cup Row(m)) = Cardinality(Rest) + m
    <2> TAKE m \in Nat
    <2>1. IsFiniteSet(Row(m)) /\ Cardinality(Row(m)) = m /\ Rest \cap Row(m) = {}
        BY <1>2, <1>5
    <2>2. Cardinality(Rest \cup Row(m))
            = Cardinality(Rest) + Cardinality(Row(m)) - Cardinality(Rest \cap Row(m))
        BY <1>6, <2>1, FS_Union, Zenon
    <2>3. Cardinality(Rest) + m - 0 = Cardinality(Rest) + m
        BY <1>7
    <2> QED
        BY <1>7, <2>1, <2>2, <2>3, Zenon
<1>9. Sum(g) = Cardinality(Rest) + g[f] /\ Sum(h) = Cardinality(Rest) + n
    BY <1>1, <1>3, <1>4, <1>8, Zenon DEF Sum
<1> QED
    BY <1>1, <1>7, <1>9, SMT, Z3 DEF h

LEMMA SumZero == Zero \in Gauges /\ Sum(Zero) = 0
<1>1. Zero \in Gauges
    BY DEF Zero, Gauges
<1>2. Counted(Zero) = {}
    BY DEF Counted, Zero
<1> QED
    BY <1>1, <1>2, FS_EmptySet DEF Sum

LEMMA InitStat == StatInit => StatInv
<1> SUFFICES ASSUME StatInit PROVE StatInv
    OBVIOUS
<1>1. NoCount \in Tasks /\ NoReport \in Reports
    BY SumZero, Zenon DEF NoCount, NoReport, Tasks, Reports, Steps
<1>2. StatTypes
    <2>1. mixed \in BOOLEAN /\ shared \in BOOLEAN
        BY Zenon DEF StatInit
    <2>2. counter \in [Sessions -> Tasks]
        BY <1>1 DEF StatInit, Sessions
    <2>3. emitter \in [pc : {"wait", "fams", "emit"}, snap : Reports]
        BY <1>1 DEF StatInit
    <2>4. /\ total \in Nat /\ perFam \in Gauges /\ rejected \in Nat
          /\ current \in Nat /\ current <= MaxSessions /\ counted \in Nat /\ announced \in Nat
        BY SumZero, StatAssumption DEF StatInit
    <2> QED
        BY <2>1, <2>2, <2>3, <2>4 DEF StatTypes
<1>3. NowOK
    BY Zenon DEF StatInit, NowOK, NoCount, Sessions
<1>4. ~shared /\ emitter.pc = "wait"
    BY DEF StatInit
<1> QED
    BY <1>2, <1>3, <1>4, Zenon DEF StatInv, InUse, Balance, Report

LEMMA MoveTask ==
    ASSUME StatTypes, NEW s \in Sessions, NEW k \in Tasks, counter' = [counter EXCEPT ![s] = k]
    PROVE  /\ counter' \in [Sessions -> Tasks] /\ counter'[s] = k
           /\ \A t \in Sessions : t # s => counter'[t] = counter[t]
BY DEF StatTypes

\* What a count does to a snapshot under way.
LEMMA TornStep ==
    ASSUME StatTypes,
           emitter' = [emitter EXCEPT !.snap.torn = @ \/ emitter.pc = "fams"]
    PROVE  /\ emitter' \in [pc : {"wait", "fams", "emit"}, snap : Reports]
           /\ emitter'.pc = emitter.pc /\ emitter'.snap.total = emitter.snap.total
           /\ emitter'.snap.fams = emitter.snap.fams
           /\ ~emitter'.snap.torn => ~emitter.snap.torn /\ emitter.pc # "fams"
<1>1. emitter \in [pc : {"wait", "fams", "emit"}, snap : Reports] /\ emitter.snap \in Reports
    BY DEF StatTypes
<1> DEFINE t == emitter.snap.torn \/ emitter.pc = "fams"
<1>2. emitter' = [emitter EXCEPT !.snap.torn = t]
    OBVIOUS
<1>3. t \in BOOLEAN
    OBVIOUS
<1>4. ~t => ~emitter.snap.torn /\ emitter.pc # "fams"
    OBVIOUS
<1> HIDE DEF t
<1>5. /\ emitter'.pc = emitter.pc /\ emitter'.snap = [emitter.snap EXCEPT !.torn = t]
      /\ emitter' \in [pc : {"wait", "fams", "emit"}, snap : Reports]
    BY <1>1, <1>2, <1>3, SMT, Z3 DEF Reports
<1>6. /\ emitter'.snap.total = emitter.snap.total /\ emitter'.snap.fams = emitter.snap.fams
      /\ emitter'.snap.torn = t
    BY <1>1, <1>5, Zenon DEF Reports
<1> QED
    BY <1>4, <1>5, <1>6, Zenon

LEMMA ReportStep ==
    ASSUME StatInv, mixed \in BOOLEAN, mixed => mixed',
           emitter' = [emitter EXCEPT !.snap.torn = @ \/ emitter.pc = "fams"]
    PROVE  Report'
BY TornStep, Zenon DEF StatInv, Report

-----------------------------------------------------------------------------
(* The steps of a session. *)

LEMMA NegotiatedStep ==
    ASSUME StatInv, NEW s \in Sessions, Negotiated(s)
    PROVE  StatInv'
<1>0. StatTypes /\ NowOK
    BY DEF StatInv
<1>1. /\ current' = s /\ s \in Nat /\ s # 0 /\ s <= MaxSessions
      /\ total' = 0 /\ mixed' = mixed /\ counted' = counted /\ announced' = announced
    BY StatAssumption DEF Negotiated, Sessions
<1>2. /\ counter' \in [Sessions -> Tasks] /\ counter'[s].pc = "clear"
      /\ \A t \in Sessions : t # s => counter'[t] = counter[t]
    <2> DEFINE k == [counter[s] EXCEPT !.pc = "clear"]
    <2>2. counter[s] \in Tasks
        BY <1>0 DEF StatTypes
    <2>3. k \in Tasks /\ k.pc = "clear"
        BY <2>2, Zenon DEF Tasks, Steps
    <2>4. counter' = [counter EXCEPT ![s] = k]
        BY DEF Negotiated
    <2> HIDE DEF k
    <2> QED
        BY <1>0, <2>3, <2>4, MoveTask, Zenon
<1>3. perFam' \in Gauges /\ rejected' \in Nat
    BY <1>0, SumZero, Zenon DEF Negotiated, StatTypes
<1>4. emitter' = [emitter EXCEPT !.snap.torn = @ \/ emitter.pc = "fams"]
    BY DEF Negotiated
<1>5. StatTypes'
    <2>1. mixed' \in BOOLEAN /\ shared' \in BOOLEAN
        BY <1>0, <1>1, Zenon DEF StatTypes, Negotiated
    <2> QED
        BY <1>0, <1>1, <1>2, <1>3, <1>4, <2>1, TornStep, Zenon DEF StatTypes
<1>6. NowOK'
    BY <1>0, <1>2, Zenon DEF NowOK
<1>7. InUse' /\ Balance'
    BY <1>1, <1>2, Zenon DEF InUse, Balance
<1>8. Report'
    BY <1>0, <1>1, <1>4, ReportStep, Zenon DEF StatTypes
<1> QED
    BY <1>5, <1>6, <1>7, <1>8 DEF StatInv

\* A step of a session that counts: it is the current one, or the counters are
\* mixed up from now on.
LEMMA CountingStep ==
    ASSUME StatInv, NEW s \in Sessions, Counting(s),
           total' \in Nat, perFam' \in Gauges, rejected' \in Nat, counted' \in Nat,
           announced' \in Nat,
           counter' \in [Sessions -> Tasks], counter'[s].pc # "none",
           \A t \in Sessions : t # s => counter'[t] = counter[t],
           counter'[s].pc \in {"put", "store"} => counter'[s].now \in Families \X Nat,
           s = current /\ shared /\ ~mixed => Balance'
    PROVE  StatInv'
<1>0. StatTypes /\ NowOK /\ InUse
    BY DEF StatInv
<1>1. /\ current' = current /\ shared' = shared
      /\ emitter' = [emitter EXCEPT !.snap.torn = @ \/ emitter.pc = "fams"]
    BY DEF Counting
<1>2. mixed' \in BOOLEAN /\ (mixed => mixed') /\ (~mixed' => ~mixed /\ s = current)
    BY <1>0, Zenon DEF Counting, StatTypes
<1>3. StatTypes'
    <2>1. shared' \in BOOLEAN
        BY <1>0, <1>1, Zenon DEF StatTypes
    <2> QED
        BY <1>0, <1>1, <1>2, <2>1, TornStep, Zenon DEF StatTypes
<1>4. NowOK'
    BY <1>0, Zenon DEF NowOK
<1>5. InUse'
    <2>1. CASE current = s
        BY <1>0, <1>1, <2>1, Zenon DEF InUse, Sessions, StatTypes
    <2>2. CASE current # s
        <3>1. shared => current \in Sessions
            BY <1>0 DEF InUse, Sessions, StatTypes
        <3> QED
            BY <1>0, <1>1, <2>2, <3>1, Zenon DEF InUse
    <2> QED
        BY <2>1, <2>2, Zenon
<1>6. Balance'
    BY <1>1, <1>2, Zenon DEF Balance
<1>7. Report'
    BY <1>0, <1>1, <1>2, ReportStep, Zenon DEF StatTypes
<1> QED
    BY <1>3, <1>4, <1>5, <1>6, <1>7, Zenon DEF StatInv

LEMMA ClearFamsStep ==
    ASSUME StatInv, NEW s \in Sessions, ClearFams(s)
    PROVE  StatInv'
<1>0. StatTypes /\ Balance
    BY DEF StatInv
<1>1. /\ total' = total /\ rejected' = rejected /\ counted' = counted /\ announced' = 0
      /\ perFam' = Zero /\ Counting(s) /\ counter[s].pc = "clear"
    BY DEF ClearFams
<1>2. /\ counter' \in [Sessions -> Tasks] /\ counter'[s].pc = "ready"
      /\ \A t \in Sessions : t # s => counter'[t] = counter[t]
    <2> DEFINE k == [counter[s] EXCEPT !.pc = "ready"]
    <2>2. counter[s] \in Tasks
        BY <1>0 DEF StatTypes
    <2>3. k \in Tasks /\ k.pc = "ready"
        BY <2>2, Zenon DEF Tasks, Steps
    <2>4. counter' = [counter EXCEPT ![s] = k]
        BY DEF ClearFams
    <2> HIDE DEF k
    <2> QED
        BY <1>0, <2>3, <2>4, MoveTask, Zenon
<1>3. ASSUME s = current, shared, ~mixed PROVE Balance'
    <2>1. total' = 0 /\ current' = s
        BY <1>0, <1>1, <1>3, Zenon DEF Balance, Counting
    <2> QED
        BY <1>1, <1>2, <2>1, SumZero DEF Balance
<1> QED
    BY <1>0, <1>1, <1>2, <1>3, SumZero, CountingStep, Zenon DEF StatTypes

LEMMA CountRejectedStep ==
    ASSUME StatInv, NEW s \in Sessions, NEW n \in Nat, CountRejected(s, n)
    PROVE  StatInv'
<1>0. StatTypes /\ NowOK /\ Balance
    BY SMT, Z3 DEF StatInv
<1>1. /\ total' = total /\ rejected' \in Nat /\ counted' \in Nat /\ announced' = announced
      /\ perFam' = perFam /\ Counting(s) /\ counter[s].pc = "ready" /\ counter' = counter
    BY <1>0 DEF CountRejected, Waits, StatTypes
<1>2. ASSUME s = current, shared, ~mixed PROVE Balance'
    BY <1>0, <1>1, <1>2, Zenon DEF Balance, Counting
<1> QED
    BY <1>0, <1>1, <1>2, CountingStep, Zenon DEF StatTypes

LEMMA AddTotalStep ==
    ASSUME StatInv, NEW s \in Sessions, NEW x, AddTotal(s, x)
    PROVE  StatInv'
<1>0. StatTypes /\ Balance
    BY DEF StatInv
<1>1. x \in Families \X Nat
    BY <1>0, Zenon DEF AddTotal, StatTypes, Tasks
<1>2. x[2] \in Nat
    BY <1>1
<1>3. /\ total' = total + x[2] /\ rejected' = rejected /\ counted' = counted
      /\ announced' = announced + x[2] /\ perFam' = perFam /\ Counting(s)
      /\ counter[s].pc = "ready"
    BY DEF AddTotal
<1>4. /\ counter' \in [Sessions -> Tasks] /\ counter'[s].pc = "put" /\ counter'[s].now = x
      /\ \A t \in Sessions : t # s => counter'[t] = counter[t]
    <2> DEFINE k == [counter[s] EXCEPT !.pc = "put", !.now = x]
    <2>2. counter[s] \in Tasks
        BY <1>0 DEF StatTypes
    <2>3. k \in Tasks /\ k.pc = "put" /\ k.now = x
        BY <1>1, <2>2, Zenon DEF Tasks, Steps
    <2>4. counter' = [counter EXCEPT ![s] = k]
        BY Zenon DEF AddTotal
    <2> HIDE DEF k
    <2> QED
        BY <1>0, <2>3, <2>4, MoveTask, Zenon
<1>5. total' \in Nat /\ announced' \in Nat
    BY <1>0, <1>2, <1>3 DEF StatTypes
<1>6. ASSUME s = current, shared, ~mixed PROVE Balance'
    <2>1. total = Sum(perFam) /\ total <= announced
        BY <1>0, <1>3, <1>6, Zenon DEF Balance
    <2>2. total' = Sum(perFam') + x[2] /\ total' <= announced'
        BY <1>0, <1>2, <1>3, <2>1, SMT, Z3 DEF StatTypes
    <2>3. current' = s
        BY <1>3, <1>6 DEF Counting
    <2> QED
        BY <1>4, <2>2, <2>3, Zenon DEF Balance
<1> QED
    BY <1>0, <1>1, <1>3, <1>4, <1>5, <1>6, CountingStep, Zenon DEF StatTypes

LEMMA AddFamStep ==
    ASSUME StatInv, NEW s \in Sessions, AddFam(s)
    PROVE  StatInv'
<1>0. StatTypes /\ NowOK /\ Balance
    BY DEF StatInv
<1> DEFINE f == counter[s].now[1]
           n == counter[s].now[2]
<1>1. /\ total' = total /\ rejected' = rejected /\ counted' = counted
      /\ announced' = announced /\ Counting(s) /\ counter[s].pc = "put"
    BY Zenon DEF AddFam
<1>2. f \in Families /\ n \in Nat /\ perFam[f] \in Nat
    BY <1>0, <1>1, Zenon DEF NowOK, StatTypes, Gauges
<1>3. /\ counter' \in [Sessions -> Tasks] /\ counter'[s].pc = "ready"
      /\ \A t \in Sessions : t # s => counter'[t] = counter[t]
    <2> DEFINE k == [counter[s] EXCEPT !.pc = "ready", !.adds = @ \ {counter[s].now}]
    <2>2. counter[s] \in Tasks
        BY <1>0 DEF StatTypes
    <2>3. k \in Tasks /\ k.pc = "ready"
        BY <2>2, Zenon DEF Tasks, Steps
    <2>4. counter' = [counter EXCEPT ![s] = k]
        BY Zenon DEF AddFam
    <2> HIDE DEF k
    <2> QED
        BY <1>0, <2>3, <2>4, MoveTask, Zenon
<1>4. perFam' = [perFam EXCEPT ![f] = perFam[f] + n]
    BY Zenon DEF AddFam
<1>5. perFam' \in Gauges /\ Sum(perFam') = Sum(perFam) + n
    <2>1. perFam[f] + n \in Nat
        BY <1>2
    <2>2. /\ perFam' \in Gauges
          /\ Sum(perFam') = Sum(perFam) - perFam[f] + (perFam[f] + n)
        BY <1>0, <1>2, <1>4, <2>1, SumExcept, Zenon DEF StatTypes
    <2>3. Sum(perFam) \in Nat
        BY <1>0, CountedFinite DEF StatTypes
    <2> QED
        BY <1>2, <2>2, <2>3, SMT, Z3
<1>6. ASSUME s = current, shared, ~mixed PROVE Balance'
    <2>1. total = Sum(perFam) + n /\ total <= announced
        BY <1>0, <1>1, <1>6, Zenon DEF Balance
    <2>2. current' = s
        BY <1>1, <1>6 DEF Counting
    <2> QED
        BY <1>1, <1>3, <1>5, <2>1, <2>2, Zenon DEF Balance
<1> QED
    BY <1>0, <1>1, <1>3, <1>5, <1>6, CountingStep, Zenon DEF StatTypes

LEMMA SubFamStep ==
    ASSUME StatInv, NEW s \in Sessions, NEW x, SubFam(s, x)
    PROVE  StatInv'
<1>0. StatTypes /\ Balance
    BY DEF StatInv
<1>1. x \in Families \X Nat
    BY <1>0, Zenon DEF SubFam, StatTypes, Tasks
<1> DEFINE f == x[1]
           n == Taken(x[1], x[2])
<1>2. f \in Families /\ x[2] \in Nat /\ perFam[f] \in Nat
    BY <1>0, <1>1, SMT, Z3 DEF StatTypes, Gauges
<1>3. n \in Nat /\ n <= perFam[f]
    BY <1>2 DEF Taken
<1>4. /\ total' = total /\ rejected' = rejected /\ counted' = counted
      /\ announced' = announced /\ Counting(s) /\ counter[s].pc = "ready"
    BY Zenon DEF SubFam
<1>5. /\ counter' \in [Sessions -> Tasks] /\ counter'[s].pc = "store"
      /\ counter'[s].now = <<f, n>> /\ counter'[s].agg = total
      /\ \A t \in Sessions : t # s => counter'[t] = counter[t]
    <2> HIDE DEF n
    <2>1. <<f, n>> \in Families \X Nat
        BY <1>2, <1>3, SMT, Z3
    <2> DEFINE k == [counter[s] EXCEPT !.pc = "store", !.agg = total, !.now = <<f, n>>,
                                         !.subs = @ \ {x}]
    <2>2. counter[s] \in Tasks
        BY <1>0 DEF StatTypes
    <2>3. k \in Tasks /\ k.pc = "store" /\ k.now = <<f, n>> /\ k.agg = total
        BY <1>0, <2>1, <2>2, Zenon DEF Tasks, Steps, StatTypes
    <2>4. counter' = [counter EXCEPT ![s] = k]
        BY Zenon DEF SubFam, n
    <2> HIDE DEF k
    <2> QED
        BY <1>0, <2>3, <2>4, MoveTask, Zenon
<1>6. perFam' = [perFam EXCEPT ![f] = perFam[f] - n]
    <2>1. perFam' = [perFam EXCEPT ![f] = IF perFam[f] < x[2] THEN 0 ELSE perFam[f] - x[2]]
        BY Zenon DEF SubFam
    <2>2. (IF perFam[f] < x[2] THEN 0 ELSE perFam[f] - x[2]) = perFam[f] - n
        BY <1>2 DEF Taken
    <2> QED
        BY <2>1, <2>2, Zenon
<1> HIDE DEF n
<1>7. perFam' \in Gauges /\ Sum(perFam') = Sum(perFam) - n
    <2>1. perFam[f] - n \in Nat
        BY <1>2, <1>3
    <2>2. /\ perFam' \in Gauges
          /\ Sum(perFam') = Sum(perFam) - perFam[f] + (perFam[f] - n)
        BY <1>0, <1>2, <1>6, <2>1, SumExcept, Zenon DEF StatTypes
    <2>3. Sum(perFam) \in Nat
        BY <1>0, CountedFinite DEF StatTypes
    <2> QED
        BY <1>2, <1>3, <2>2, <2>3, SMT, Z3
<1>8. ASSUME s = current, shared, ~mixed PROVE Balance'
    <2>1. total = Sum(perFam) /\ total <= announced
        BY <1>0, <1>4, <1>8, Zenon DEF Balance
    <2>2. current' = s
        BY <1>4, <1>8, SMT, Z3 DEF Counting
    <2>3. total' = Sum(perFam') + n
        BY <1>0, <1>3, <1>4, <1>7, <2>1, SMT, Z3 DEF StatTypes
    <2>4. counter'[s].now[2] = n
        BY <1>5
    <2> QED
        BY <1>4, <1>5, <2>1, <2>2, <2>3, <2>4, Zenon DEF Balance
<1>9. <<f, n>> \in Families \X Nat
    BY <1>2, <1>3
<1> QED
    BY <1>0, <1>4, <1>5, <1>7, <1>8, <1>9, CountingStep, Zenon DEF StatTypes

LEMMA SubTotalStep ==
    ASSUME StatInv, NEW s \in Sessions, SubTotal(s)
    PROVE  StatInv'
<1>0. StatTypes /\ NowOK /\ Balance
    BY DEF StatInv
<1> DEFINE n == counter[s].now[2]
           a == counter[s].agg
<1>1. /\ total' = IF a < n THEN 0 ELSE a - n
      /\ rejected' = rejected /\ counted' = counted /\ perFam' = perFam
      /\ announced' = announced /\ Counting(s) /\ counter[s].pc = "store"
    BY Zenon DEF SubTotal
<1>2. n \in Nat /\ a \in Nat
    BY <1>0, <1>1, Zenon DEF NowOK, StatTypes, Tasks
<1>3. /\ counter' \in [Sessions -> Tasks] /\ counter'[s].pc = "ready"
      /\ \A t \in Sessions : t # s => counter'[t] = counter[t]
    <2> DEFINE k == [counter[s] EXCEPT !.pc = "ready", !.agg = 0]
    <2>2. counter[s] \in Tasks
        BY <1>0 DEF StatTypes
    <2>3. k \in Tasks /\ k.pc = "ready"
        BY <2>2, Zenon DEF Tasks, Steps
    <2>4. counter' = [counter EXCEPT ![s] = k]
        BY Zenon DEF SubTotal
    <2> HIDE DEF k
    <2> QED
        BY <1>0, <2>3, <2>4, MoveTask, Zenon
<1>4. total' \in Nat
    BY <1>1, <1>2
<1>5. ASSUME s = current, shared, ~mixed PROVE Balance'
    <2>1. total = Sum(perFam) + n /\ total <= announced /\ a = total
        BY <1>0, <1>1, <1>5, Zenon DEF Balance
    <2>2. current' = s
        BY <1>1, <1>5, ZenonT(30) DEF Counting
    <2>3. Sum(perFam) \in Nat
        BY <1>0, CountedFinite DEF StatTypes
    <2>4. total' = Sum(perFam') /\ total' <= announced'
        BY <1>0, <1>1, <1>2, <2>1, <2>3, SMT, Z3 DEF StatTypes
    <2> QED
        BY <1>3, <2>2, <2>4, Zenon DEF Balance
<1> QED
    BY <1>0, <1>1, <1>3, <1>4, <1>5, CountingStep, Zenon DEF StatTypes

\* Steps that count nothing: an update is taken up, or a task ends.
LEMMA QuietStep ==
    ASSUME StatInv, NEW s \in Sessions, counter[s].pc = "ready",
           UNCHANGED <<counterVars, current, emitter, announced, mixed>>,
           counted' \in Nat, shared' \in BOOLEAN, shared' => shared,
           counter' \in [Sessions -> Tasks],
           \A t \in Sessions : t # s => counter'[t] = counter[t],
           counter'[s].pc = "ready" \/ (counter'[s].pc = "none" /\ (s # current \/ ~shared'))
    PROVE  StatInv'
<1>0. StatTypes /\ NowOK /\ InUse /\ Balance /\ Report
    BY DEF StatInv
<1>1. /\ total' = total /\ perFam' = perFam /\ rejected' = rejected /\ current' = current
      /\ emitter' = emitter /\ announced' = announced /\ mixed' = mixed
    BY DEF counterVars
<1>2. StatTypes'
    BY <1>0, <1>1, Zenon DEF StatTypes
<1>3. NowOK'
    BY <1>0, Zenon DEF NowOK
<1>4. shared' => current \in Sessions
    BY <1>0 DEF InUse, StatTypes, Sessions
<1>5. InUse' /\ Balance'
    <2>1. CASE current # s
        BY <1>0, <1>1, <1>4, <2>1, SMT, Z3 DEF InUse, Balance
    <2>2. CASE current = s
        BY <1>0, <1>1, <1>4, <2>2, SMT, Z3 DEF InUse, Balance
    <2> QED
        BY <2>1, <2>2, ZenonT(30)
<1>6. Report'
    BY <1>0, <1>1 DEF Report
<1> QED
    BY <1>2, <1>3, <1>5, <1>6, Zenon DEF StatInv

LEMMA CountUpdateStep ==
    ASSUME StatInv, NEW s \in Sessions, NEW u \in Counts, CountUpdate(s, u)
    PROVE  StatInv'
<1>0. StatTypes
    BY DEF StatInv
<1> DEFINE k == [counter[s] EXCEPT !.adds = u.adds, !.subs = u.subs]
<1>1. counter[s] \in Tasks /\ counter[s].pc = "ready"
    BY <1>0, Zenon DEF StatTypes, CountUpdate, Waits
<1>2. u.adds \in SUBSET (Families \X Nat) /\ u.subs \in SUBSET (Families \X Nat)
    BY StatAssumption
<1>3. k \in Tasks /\ k.pc = "ready"
    BY <1>1, <1>2, Zenon DEF Tasks, Steps
<1>4. counter' = [counter EXCEPT ![s] = k] /\ shared' = shared
    BY Zenon DEF CountUpdate
<1> HIDE DEF k
<1>5. /\ counter' \in [Sessions -> Tasks] /\ counter'[s] = k
      /\ \A t \in Sessions : t # s => counter'[t] = counter[t]
    BY <1>0, <1>3, <1>4, MoveTask, Zenon
<1>6. counted' \in Nat /\ UNCHANGED <<counterVars, current, emitter, announced, mixed>>
    BY <1>0 DEF CountUpdate, StatTypes
<1>7. shared' \in BOOLEAN
    BY <1>0, <1>4, Zenon DEF StatTypes
<1> QED
    BY <1>1, <1>3, <1>4, <1>5, <1>6, <1>7, QuietStep, Zenon

LEMMA EndStep ==
    ASSUME StatInv, NEW s \in Sessions, Aborted(s) \/ SessionOver(s)
    PROVE  StatInv'
<1>0. StatTypes
    BY SMT, Z3 DEF StatInv
<1>1. NoCount \in Tasks /\ NoCount.pc = "none"
    BY DEF NoCount, Tasks, Steps
<1>2. counter' = [counter EXCEPT ![s] = NoCount] /\ counter[s].pc = "ready"
    BY Zenon DEF Aborted, SessionOver, Waits
<1>3. /\ counter' \in [Sessions -> Tasks] /\ counter'[s] = NoCount
      /\ \A t \in Sessions : t # s => counter'[t] = counter[t]
    BY <1>0, <1>1, <1>2, MoveTask, Zenon
<1>4. counted' \in Nat /\ UNCHANGED <<counterVars, current, emitter, announced, mixed>>
    BY <1>0, Zenon DEF Aborted, SessionOver, StatTypes
<1>5. shared' \in BOOLEAN /\ (shared' => shared) /\ (s # current \/ ~shared')
    <2>1. (shared' = shared /\ s # current) \/ shared' = FALSE
        BY DEF Aborted, SessionOver
    <2>2. shared \in BOOLEAN
        BY <1>0 DEF StatTypes
    <2>3. CASE shared' = shared /\ s # current
        BY <2>2, <2>3, SMT, Z3
    <2>4. CASE shared' = FALSE
        BY <2>4, Zenon
    <2> QED
        BY <2>1, <2>3, <2>4, Zenon
<1> QED
    BY <1>1, <1>2, <1>3, <1>4, <1>5, QuietStep, Zenon

-----------------------------------------------------------------------------
(* The steps of the emitter. *)

LEMMA EmitterStep ==
    ASSUME StatInv, UNCHANGED <<counterVars, counter, current, shared, counted, announced, mixed>>,
           emitter' \in [pc : {"wait", "fams", "emit"}, snap : Reports], Report'
    PROVE  StatInv'
<1>1. /\ total' = total /\ perFam' = perFam /\ rejected' = rejected /\ current' = current
      /\ announced' = announced /\ mixed' = mixed /\ counter' = counter /\ shared' = shared
      /\ counted' = counted
    BY DEF counterVars
<1>2. StatTypes'
    BY <1>1, Zenon DEF StatInv, StatTypes
<1>3. NowOK' /\ InUse' /\ Balance'
    BY <1>1 DEF StatInv, NowOK, InUse, Balance
<1> QED
    BY <1>2, <1>3, SMT, Z3 DEF StatInv

LEMMA SnapTotalStep ==
    ASSUME StatInv, SnapTotal
    PROVE  StatInv'
<1>0. StatTypes /\ InUse /\ Balance
    BY DEF StatInv
<1> DEFINE busy == \E s \in 1 .. MaxSessions : ~Waits(s) /\ counter[s].pc # "none"
           snap == [NoReport EXCEPT !.rejected = rejected, !.total = total, !.torn = busy]
<1>1. emitter' = [pc |-> "fams", snap |-> snap] /\ shared
    BY DEF SnapTotal
<1>2. busy \in BOOLEAN
    BY Zenon
<1>3. ~busy => Waits(current)
    <2>1. current \in 1 .. MaxSessions /\ counter[current].pc # "none"
        BY <1>0, <1>1 DEF InUse, StatTypes
    <2> QED
        BY <2>1, Zenon
<1>4. ~busy /\ ~mixed => total = Sum(perFam)
    BY <1>0, <1>1, <1>3, Zenon DEF Balance, Waits
<1>5. UNCHANGED <<counterVars, counter, current, shared, counted, announced, mixed>>
    BY DEF SnapTotal
<1> HIDE DEF busy
<1>6. NoReport \in Reports
    BY SumZero DEF NoReport, Reports
<1>7. snap \in Reports /\ snap.total = total /\ snap.torn = busy
    BY <1>0, <1>2, <1>6, Zenon DEF Reports, StatTypes
<1> HIDE DEF snap
<1>8. emitter' \in [pc : {"wait", "fams", "emit"}, snap : Reports]
    BY <1>1, <1>7
<1>9. /\ emitter'.pc = "fams" /\ emitter'.snap.total = total /\ emitter'.snap.torn = busy
      /\ perFam' = perFam /\ mixed' = mixed
    BY <1>1, <1>5, <1>7, Zenon DEF counterVars
<1>10. Report'
    BY <1>4, <1>9, SMT, Z3 DEF Report
<1> QED
    BY <1>5, <1>8, <1>10, EmitterStep, SMT, Z3

LEMMA SnapFamsStep ==
    ASSUME StatInv, SnapFams
    PROVE  StatInv'
<1>0. StatTypes /\ Report
    BY DEF StatInv
<1>1. UNCHANGED <<counterVars, counter, current, shared, counted, announced, mixed>>
    BY DEF SnapFams
<1> DEFINE snap == [emitter.snap EXCEPT !.fams = perFam]
<1>2. emitter.snap \in Reports /\ emitter.pc = "fams" /\ perFam \in Gauges
    BY <1>0 DEF StatTypes, SnapFams
<1>3. /\ snap \in Reports /\ snap.total = emitter.snap.total /\ snap.fams = perFam
      /\ snap.torn = emitter.snap.torn
    BY <1>2 DEF Reports
<1>4. emitter' = [emitter EXCEPT !.pc = "emit", !.snap = snap]
    BY <1>0 DEF SnapFams, StatTypes
<1> HIDE DEF snap
<1>5. /\ emitter' \in [pc : {"wait", "fams", "emit"}, snap : Reports]
      /\ emitter'.pc = "emit" /\ emitter'.snap = snap
    BY <1>0, <1>3, <1>4, Zenon DEF StatTypes
<1>6. mixed' = mixed
    BY <1>1
<1>7. Report'
    BY <1>0, <1>2, <1>3, <1>5, <1>6, Zenon DEF Report
<1> QED
    BY <1>1, <1>5, <1>7, EmitterStep, SMT, Z3

LEMMA EmitStatsStep ==
    ASSUME StatInv, EmitStats
    PROVE  StatInv'
<1>1. UNCHANGED <<counterVars, counter, current, shared, counted, announced, mixed>>
    BY SMT, Z3 DEF EmitStats
<1>2. NoReport \in Reports
    BY SumZero DEF NoReport, Reports
<1>3. emitter' \in [pc : {"wait", "fams", "emit"}, snap : Reports] /\ emitter'.pc = "wait"
    BY <1>2 DEF EmitStats
<1>4. Report'
    BY <1>3 DEF Report
<1> QED
    BY <1>1, <1>3, <1>4, EmitterStep, SMT, Z3

\* peer_stats.rs: where the aggregate stands towards the families at every
\* step of add_adj_rib_in, sub_adj_rib_in and reset_adj_rib_in.
THEOREM GaugeInvariant == StatSpec => []StatInv
<1>1. ASSUME StatInv, [StatNext]_statVars PROVE StatInv'
    <2>1. ASSUME NEW s \in Sessions,
                 \/ Negotiated(s) \/ ClearFams(s) \/ AddFam(s) \/ SubTotal(s)
                 \/ Aborted(s) \/ SessionOver(s) \/ CountRejected(s, 2)
                 \/ \E u \in Counts : CountUpdate(s, u)
                 \/ \E x \in counter[s].adds : AddTotal(s, x)
                 \/ \E x \in counter[s].subs : SubFam(s, x)
          PROVE  StatInv'
        <3>1. 2 \in Nat
            OBVIOUS
        <3> QED
            BY <1>1, <2>1, <3>1, NegotiatedStep, ClearFamsStep, AddFamStep, SubTotalStep, EndStep,
               CountRejectedStep, CountUpdateStep, AddTotalStep, SubFamStep, ZenonT(30)
    <2>2. CASE SnapTotal \/ SnapFams \/ EmitStats
        BY <1>1, <2>2, SnapTotalStep, SnapFamsStep, EmitStatsStep, SMT, Z3
    <2>3. CASE UNCHANGED statVars
        <3>1. emitter' = emitter /\ UNCHANGED <<counterVars, counter, current, shared, counted, announced, mixed>>
            BY <2>3 DEF statVars
        <3>2. Report' /\ emitter' \in [pc : {"wait", "fams", "emit"}, snap : Reports]
            BY <1>1, <3>1, Zenon DEF StatInv, StatTypes, Report, counterVars
        <3> QED
            BY <1>1, <3>1, <3>2, EmitterStep, SMT, Z3
    <2> QED
        BY <1>1, <2>1, <2>2, <2>3, Zenon DEF StatNext, Sessions
<1> QED
    BY InitStat, <1>1, PTL DEF StatSpec

\* GaugesAgree, for any families, updates and number of sessions: the
\* aggregate that peer_stats.rs keeps in an atomic and the per-family gauges it
\* keeps under a lock agree whenever the session waits and in every report that
\* no count interrupted.
THEOREM GaugesAreConsistent == StatSpec => []GaugesAgree
<1>1. ASSUME StatInv PROVE GaugesAgree
    <2> SUFFICES ASSUME ~mixed PROVE GaugesAgree
        BY DEF GaugesAgree
    <2>1. shared /\ Waits(current) => Sums(total, perFam) /\ total <= announced
        BY <1>1, Zenon DEF StatInv, Balance, Waits, Sums, Sum
    <2>2. ASSUME emitter.pc = "emit", ~emitter.snap.torn
          PROVE  Sums(StatsBody(emitter.snap).total, StatsBody(emitter.snap).fams)
        <3>1. emitter.snap \in Reports /\ emitter.snap.total = Sum(emitter.snap.fams)
            BY <1>1, <2>2, Zenon DEF StatInv, StatTypes, Report
        <3>2. /\ StatsBody(emitter.snap).total = emitter.snap.total
              /\ StatsBody(emitter.snap).fams = emitter.snap.fams
            BY <3>1 DEF StatsBody, Reports
        <3> QED
            BY <3>1, <3>2, Zenon DEF Sums, Sum
    <2> QED
        BY <2>1, <2>2, Zenon DEF GaugesAgree
<1> QED
    BY GaugeInvariant, <1>1, PTL
=============================================================================
