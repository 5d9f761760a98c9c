------------------------- MODULE BgpSessionsProofs --------------------------
(***************************************************************************)
(* Proofs about BgpSessions, for any number of connections and prefixes,   *)
(* and, at the end, about BgpConfig.                                       *)
(*                                                                         *)
(* First, restarted one at a time or not: as long as connections negotiate *)
(* one after the other, the session in live_sessions has its entry,        *)
(* Connected, and its statistics.  That is not inductive: it rests on      *)
(* live_sessions being empty while the one connection that negotiates has  *)
(* taken the old session out and has not yet put itself in, so that the    *)
(* entry it evicts is not that of the live session.                        *)
(*                                                                         *)
(* Then, for a speaker that restarts: nothing is left of its sessions when *)
(* they are gone, and the live one shows no route of another.              *)
(***************************************************************************)
EXTENDS BgpSessions, BgpConfig, TLAPS

Registered(i) ==
    register[i] = [state |-> "connected", tuple |-> TRUE] /\ i \in stats

\* What holds while connections have negotiated one after the other.
OneByOne ==
    /\ \A s, t \in Peers :
          at[s] \in Negotiating /\ at[t] \in Negotiating => s = t
    /\ \A s \in Peers :
          at[s] \in {"replace", "evict", "insert"} => live = "none"
    /\ \A s \in Peers : at[s] = "mark" => live = s
    /\ \A s \in Peers : IsLive(s) => Registered(id[s])

LiveInv == TypeOK /\ (crossed = {} => OneByOne)

-----------------------------------------------------------------------------

\* The initial state is one of them.
LEMMA InitLive == Init => LiveInv
  <1> SUFFICES ASSUME Init PROVE LiveInv
    OBVIOUS
  <1>1. TypeOK
    BY BgpAssumption DEF Init, TypeOK, RibTypeOK, TasksOK, UpdatesOK,
       SharedOK, RibInit, Entries, Absent,
       Idle, Steps, Negotiating
  <1>2. OneByOne
    BY DEF Init, OneByOne, Negotiating, IsLive
  <1> QED
    BY <1>1, <1>2 DEF LiveInv

\* Every step keeps the types.
LEMMA NextType ==
    ASSUME TypeOK, [Next]_vars
    PROVE  TypeOK'
  <1> USE BgpAssumption
  <1>0. RibTypeOK /\ TasksOK /\ UpdatesOK /\ SharedOK
    BY DEF TypeOK
  <1>1. ASSUME NEW s \in Peers, Accept(s)
        PROVE  TypeOK'
    <2>1. UpdatesOK' /\ RibTypeOK'
      BY <1>0, <1>1 DEF Accept, UpdatesOK, RibTypeOK, ribVars
    <2>2. TasksOK'
      BY <1>0, <1>1 DEF Accept, TasksOK, Steps, Negotiating
    <2>3. SharedOK'
      BY <1>0, <1>1 DEF Accept, SharedOK
    <2> QED
      BY <2>1, <2>2, <2>3 DEF TypeOK
  <1>2. ASSUME NEW s \in Peers, Negotiate(s)
        PROVE  TypeOK'
    <2>1. RibTypeOK'
      BY <1>0, <1>2 DEF Negotiate, RibTypeOK, ribVars
    <2>2. TasksOK'
      BY <1>0, <1>2 DEF Negotiate, TasksOK, Steps, Negotiating, Matching
    <2>3. UpdatesOK'
      BY <1>0, <1>2 DEF Negotiate, UpdatesOK, TasksOK, Pushing, Idle, Matching
    <2>4. SharedOK'
      BY <1>0, <1>2 DEF Negotiate, SharedOK
    <2> QED
      BY <2>1, <2>2, <2>3, <2>4 DEF TypeOK
  <1>3. ASSUME NEW s \in Peers, Collide(s)
        PROVE  TypeOK'
    <2>1. UpdatesOK' /\ RibTypeOK'
      BY <1>0, <1>3 DEF Collide, UpdatesOK, RibTypeOK, ribVars
    <2>2. TasksOK'
      BY <1>0, <1>3 DEF Collide, TasksOK, SharedOK, Steps, Negotiating
    <2>3. SharedOK'
      BY <1>0, <1>3 DEF Collide, SharedOK, historyVars
    <2> QED
      BY <2>1, <2>2, <2>3 DEF TypeOK
  <1>4. ASSUME NEW s \in Peers, Replace(s)
        PROVE  TypeOK'
    <2>1. RibTypeOK'
      BY <1>0, <1>4 DEF Replace, RibTypeOK, ribVars
    <2>2. TasksOK'
      BY <1>0, <1>4 DEF Replace, TasksOK, Steps, Negotiating
    <2>3. UpdatesOK'
      BY <1>0, <1>4, SMT, Z3 DEF Replace, UpdatesOK, TasksOK, Pushing, Idle
    <2>4. SharedOK'
      BY <1>0, <1>4 DEF Replace, SharedOK, TasksOK, historyVars
    <2> QED
      BY <2>1, <2>2, <2>3, <2>4 DEF TypeOK
  <1>5. ASSUME NEW s \in Peers, Evict(s)
        PROVE  TypeOK'
    <2>1. UpdatesOK' /\ RibTypeOK'
      BY <1>0, <1>5 DEF Evict, UpdatesOK, RibTypeOK, ribVars
    <2>2. TasksOK'
      BY <1>0, <1>5 DEF Evict, TasksOK, Steps, Negotiating
    <2>3. SharedOK'
      BY <1>0, <1>5, Zenon DEF Evict, SharedOK, TasksOK, Entries, Absent, historyVars
    <2> QED
      BY <2>1, <2>2, <2>3 DEF TypeOK
  <1>6. ASSUME NEW s \in Peers, Insert(s)
        PROVE  TypeOK'
    <2>1. UpdatesOK' /\ RibTypeOK'
      BY <1>0, <1>6 DEF Insert, UpdatesOK, RibTypeOK, ribVars
    <2>2. TasksOK'
      BY <1>0, <1>6 DEF Insert, TasksOK, Steps, Negotiating
    <2>3. SharedOK'
      BY <1>0, <1>6 DEF Insert, SharedOK, historyVars
    <2> QED
      BY <2>1, <2>2, <2>3 DEF TypeOK
  <1>7. ASSUME NEW s \in Peers, MarkConnected(s)
        PROVE  TypeOK'
    <2>1. UpdatesOK' /\ RibTypeOK'
      BY <1>0, <1>7 DEF MarkConnected, UpdatesOK, RibTypeOK, ribVars
    <2>2. TasksOK'
      BY <1>0, <1>7 DEF MarkConnected, TasksOK, Steps, Negotiating
    <2>3. SharedOK'
      BY <1>0, <1>7 DEF MarkConnected, SharedOK, TasksOK, Entries, historyVars
    <2> QED
      BY <2>1, <2>2, <2>3 DEF TypeOK
  <1>8. ASSUME NEW s \in Peers, NEW x \in Prefixes, UpdateMessage(s, x)
        PROVE  TypeOK'
    <2>1. TasksOK' /\ RibTypeOK'
      BY <1>0, <1>8, Zenon DEF UpdateMessage, TasksOK, RibTypeOK, ribVars
    <2>2. UpdatesOK'
      BY <1>0, <1>8 DEF UpdateMessage, UpdatesOK, TasksOK, Pushing, Idle
    <2>3. SharedOK'
      BY <1>0, <1>8 DEF UpdateMessage, SharedOK
    <2> QED
      BY <2>1, <2>2, <2>3 DEF TypeOK
  <1>9. ASSUME NEW s \in Peers, End(s)
        PROVE  TypeOK'
    <2>1. RibTypeOK'
      BY <1>0, <1>9 DEF End, RibTypeOK, ribVars
    <2>2. TasksOK'
      BY <1>0, <1>9 DEF End, TasksOK, Steps, Negotiating
    <2>3. UpdatesOK'
      BY <1>0, <1>9 DEF End, UpdatesOK, TasksOK, Pushing, Idle
    <2>4. SharedOK'
      BY <1>0, <1>9, SMT, Z3 DEF End, SharedOK, TasksOK, Entries, WithState
    <2> QED
      BY <2>1, <2>2, <2>3, <2>4 DEF TypeOK
  <1>10. ASSUME NEW s \in Peers, Cleanup(s)
         PROVE  TypeOK'
    <2>1. UpdatesOK' /\ RibTypeOK'
      BY <1>0, <1>10 DEF Cleanup, UpdatesOK, RibTypeOK, ribVars
    <2>2. TasksOK'
      BY <1>0, <1>10 DEF Cleanup, TasksOK, Steps, Negotiating
    <2>3. SharedOK'
      <3>1. CASE UNCHANGED <<register, stats>>
        BY <1>0, <1>10, <3>1 DEF Cleanup, SharedOK, historyVars
      <3>2. CASE /\ register' = [register EXCEPT ![id[s]] = Absent]
                 /\ stats' = stats \ {id[s]}
        <4>1. Absent \in Entries
          BY DEF Absent, Entries
        <4> QED
          BY <1>0, <1>10, <3>2, <4>1, Zenon DEF Cleanup, SharedOK, historyVars
      <3> QED
        BY <1>10, <3>1, <3>2 DEF Cleanup
    <2> QED
      BY <2>1, <2>2, <2>3 DEF TypeOK
  <1>11. ASSUME NEW s \in Peers, Abort(s)
         PROVE  TypeOK'
    <2>1. RibTypeOK'
      BY <1>0, <1>11 DEF Abort, RibTypeOK, ribVars
    <2>2. TasksOK'
      BY <1>0, <1>11 DEF Abort, TasksOK, Steps, Negotiating
    <2>3. UpdatesOK'
      BY <1>0, <1>11 DEF Abort, UpdatesOK, TasksOK, Pushing, Idle
    <2>4. SharedOK'
      BY <1>0, <1>11 DEF Abort, SharedOK
    <2> QED
      BY <2>1, <2>2, <2>3, <2>4 DEF TypeOK
  <1>12. ASSUME NEW s \in Peers, RibApply(s)
         PROVE  TypeOK'
    <2>1. TasksOK'
      BY <1>0, <1>12, Zenon DEF RibApply, TasksOK, ribVars
    <2>2. UpdatesOK'
      BY <1>0, <1>12, Zenon DEF RibApply, UpdatesOK, TasksOK, Pushing, Idle
    <2>3. SharedOK'
      BY <1>0, <1>12, SMT, Z3 DEF RibApply, SharedOK, Entries, UpdatesOK, WithState,
         historyVars
    <2>4. RibTypeOK'
      BY <1>0, <1>12
      DEF RibApply, RibTypeOK, UpdatesOK, Ready, Idle, InsertActive,
          InsertWithdrawn,
         WithdrawForIngresses
    <2> QED
      BY <2>1, <2>2, <2>3, <2>4 DEF TypeOK
  <1>13. CASE UNCHANGED vars
    BY <1>13, Zenon DEF vars, historyVars, ribVars, TypeOK, RibTypeOK, TasksOK,
       UpdatesOK, SharedOK
  <1> QED
    BY <1>1, <1>2, <1>3, <1>4, <1>5, <1>6, <1>7, <1>8, <1>9, <1>10, <1>11,
       <1>12, <1>13
    DEF Next, Task

\* Every step keeps what holds while connections negotiate one by one.
LEMMA NextOneByOne ==
    ASSUME TypeOK, OneByOne, [Next]_vars, crossed' = {}
    PROVE  OneByOne'
  <1> USE BgpAssumption DEF IsLive, Negotiating
  <1>1. ASSUME NEW s \in Peers, Accept(s)
        PROVE  OneByOne'
    BY <1>1, Zenon DEF Accept, TypeOK, TasksOK, SharedOK, OneByOne,
       Registered
  <1>2. ASSUME NEW s \in Peers, Negotiate(s)
        PROVE  OneByOne'
    BY <1>2, ZenonT(30) DEF Negotiate, TypeOK, TasksOK, SharedOK, OneByOne,
       Registered
  <1>3. ASSUME NEW s \in Peers, Collide(s)
        PROVE  OneByOne'
    BY <1>3 DEF Collide, TypeOK, TasksOK, SharedOK, OneByOne,
       Registered
  <1>4. ASSUME NEW s \in Peers, Replace(s)
        PROVE  OneByOne'
    BY <1>4 DEF Replace, TypeOK, TasksOK, SharedOK, OneByOne,
       Registered
  <1>5. ASSUME NEW s \in Peers, Evict(s)
        PROVE  OneByOne'
    BY <1>5 DEF Evict, TypeOK, TasksOK, SharedOK, OneByOne,
       Registered
  <1>6. ASSUME NEW s \in Peers, Insert(s)
        PROVE  OneByOne'
    BY <1>6 DEF Insert, TypeOK, TasksOK, SharedOK, OneByOne,
       Registered
  <1>7. ASSUME NEW s \in Peers, MarkConnected(s)
        PROVE  OneByOne'
    BY <1>7 DEF MarkConnected, TypeOK, TasksOK, SharedOK, OneByOne,
       Registered
  <1>8. ASSUME NEW s \in Peers, NEW x \in Prefixes, UpdateMessage(s, x)
        PROVE  OneByOne'
    BY <1>8, Zenon DEF UpdateMessage, TypeOK, TasksOK, SharedOK, OneByOne,
       Registered
  <1>9. ASSUME NEW s \in Peers, End(s)
        PROVE  OneByOne'
    BY <1>9 DEF End, TypeOK, TasksOK, SharedOK, OneByOne,
       Registered
  <1>10. ASSUME NEW s \in Peers, Cleanup(s)
         PROVE  OneByOne'
    BY <1>10 DEF Cleanup, Reclaimed, TypeOK, TasksOK, SharedOK, OneByOne,
       Registered
  <1>11. ASSUME NEW s \in Peers, Abort(s)
         PROVE  OneByOne'
    BY <1>11 DEF Abort, TypeOK, TasksOK, SharedOK, OneByOne,
       Registered
  <1>12. ASSUME NEW s \in Peers, RibApply(s)
         PROVE  OneByOne'
    BY <1>12 DEF RibApply, WithState, TypeOK, TasksOK, SharedOK, OneByOne,
       Registered
  <1>13. CASE UNCHANGED vars
    BY <1>13, Zenon DEF vars, OneByOne, Registered
  <1> QED
    BY <1>1, <1>2, <1>3, <1>4, <1>5, <1>6, <1>7, <1>8, <1>9, <1>10, <1>11,
       <1>12, <1>13 DEF Next, Task

\* Once connections have crossed they have crossed.
LEMMA CrossedStays ==
    ASSUME [Next]_vars, crossed' = {}
    PROVE  crossed = {}
  BY ZenonT(30) DEF Next, Task, Accept, Negotiate, Collide, Replace, Evict, Insert,
     MarkConnected, UpdateMessage, End, Cleanup, Abort, RibApply, vars,
     historyVars

-----------------------------------------------------------------------------

\* Every reachable state satisfies the inductive invariant.
THEOREM LiveInvariant == Spec => []LiveInv
  <1>1. LiveInv /\ [Next]_vars => LiveInv'
    BY NextType, NextOneByOne, CrossedStays DEF LiveInv
  <1> QED
    BY InitLive, <1>1, PTL DEF Spec

\* Every variable keeps its type, a task that replaces a session has found one,
\* and an update under way has an id.
THEOREM BgpTypeCorrect == Spec => []TypeOK
  <1>1. LiveInv => TypeOK
    BY DEF LiveInv
  <1> QED
    BY <1>1, LiveInvariant, PTL

\* No teardown of an older session, however late, takes entry or statistics
\* from the session in live_sessions, as long as connections negotiate one
\* after the other.
THEOREM LiveStaysRegistered == Spec => []LiveRegistered
  <1>1. LiveInv => LiveRegistered
    BY DEF LiveInv, OneByOne, LiveRegistered, Registered
  <1> QED
    BY <1>1, LiveInvariant, PTL
-----------------------------------------------------------------------------
(***************************************************************************)
(* What is left of sessions.  A restarting speaker uses one connection     *)
(* after the other, so what is to be shown of an id is that some           *)
(* connection is still answerable for it: the one in live_sessions, the    *)
(* one that negotiates, or one that cleans up and, if it is about routes,  *)
(* has not been through with its withdrawal.  There is never more than one *)
(* entry to take over, so that the session that is replaced always has the *)
(* id of the one that replaces it, and nothing has to be evicted.          *)
(***************************************************************************)

Holds(u, i) ==
    id[u] = i /\ (live = u \/ at[u] \in Negotiating \/ at[u] = "cleanup")

Shows(u, i) == Holds(u, i) /\ ~(at[u] = "cleanup" /\ Ready(u))

\* Where each connection can be, given the one that was made last.
Turns ==
    /\ \A s \in Peers : at[s] \in Negotiating =>
          newest = s \/ (newest # "none" /\ at[newest] \in {"open", "gone"})
    /\ \A s \in Peers : at[s] = "up" => live = s \/ newest # s
    /\ \A s \in Peers : live = s => at[s] \in {"mark", "up"}
    /\ \A s \in aborted : live # s /\ newest # s /\ at[s] \in {"up", "gone"}
    /\ \A s \in Peers : at[s] = "replace" =>
          /\ old[s] # newest /\ at[old[s]] \in {"up", "gone"}
          /\ id[old[s]] = id[s]
    /\ \A s \in Peers : at[s] # "evict"

\* An update under way is about the id of its connection.
OwnPush ==
    \A s \in Peers :
        /\ IF push[s].kind = "none" THEN push[s] = Idle ELSE push[s].id = id[s]
        /\ push[s].kind \in {"announce", "withdraw"} =>
              live = s /\ at[s] = "up" /\ newest = s
        /\ push[s].kind = "down" => at[s] \in {"collide", "cleanup"}

\* There is at most one entry to take over, and who negotiates has done so.
OneEntry ==
    /\ \A i, j \in Matching : i = j
    /\ \A s \in Peers : at[s] \in Negotiating => \A i \in Matching : i = id[s]
    /\ \A s, u \in Peers : at[s] \in {"new", "open"} => (id[u] = s <=> u = s)

Held ==
    /\ \A i \in Peers : register[i] # Absent \/ i \in stats =>
          \E u \in Peers : Holds(u, i)
    /\ \A i \in Peers : Visible(i) # {} => \E u \in Peers : Shows(u, i)

HeldInv == Turns /\ OwnPush /\ OneEntry /\ Held
LeakInv == crossed = {} => HeldInv

\* Without retained attributes a withdrawal leaves no record that could
\* reappear, so the live session's records are its own.
OwnRoutes ==
    /\ \A i \in Peers : active[i] # {} => \E u \in Peers : Shows(u, i)
    /\ \A s \in Peers : at[s] \in Negotiating /\ Ready(s) => active[id[s]] = {}
    /\ \A s \in Peers : IsLive(s) =>
          /\ active[id[s]] \subseteq
                announced[s] \cup (IF push[s].kind = "withdraw" THEN push[s].pfx
                                   ELSE {})
          /\ push[s].kind = "announce" => push[s].pfx \subseteq announced[s]
RouteInv == crossed = {} => OwnRoutes
\* Connections take turns.
LEMMA NextTurns ==
    ASSUME TypeOK, OneByOne, Turns, OwnPush, OneEntry, Restart, [Next]_vars,
           crossed' = {}
    PROVE  Turns'
  <1> USE BgpAssumption DEF Negotiating, Ready, historyVars
  <1>1. ASSUME NEW s \in Peers, Accept(s)
        PROVE  Turns'
    BY <1>1, SMT, Z3 DEF Accept, TypeOK, TasksOK, SharedOK, Turns
  <1>2. ASSUME NEW s \in Peers, Negotiate(s)
        PROVE  Turns'
    <2>1. \A t \in Peers : at[t] \notin Negotiating
      BY <1>2, Zenon DEF Negotiate, TypeOK, SharedOK
    <2>2. /\ at[s] = "open" /\ newest = s /\ at'[s] = "collide"
          /\ \A t \in Peers \ {s} : at'[t] = at[t] /\ id'[t] = id[t]
          /\ UNCHANGED <<live, newest, old, aborted>>
      BY <1>2 DEF Negotiate, TypeOK, TasksOK
    <2>3. aborted \subseteq Peers
      BY SMT, Z3 DEF TypeOK, SharedOK
    <2> QED
      BY <2>1, <2>2, <2>3 DEF Turns
  <1>3. ASSUME NEW s \in Peers, Collide(s)
        PROVE  Turns'
    BY <1>3 DEF Collide, TypeOK, TasksOK, SharedOK, Turns, IsLive, OneByOne,
       OneEntry, Registered, Matching
  <1>4. ASSUME NEW s \in Peers, Replace(s)
        PROVE  Turns'
    <2>1. /\ at[s] = "replace" /\ id[old[s]] = id[s] /\ old[s] \in Peers
          /\ old[s] # newest /\ at[old[s]] \in {"up", "gone"} /\ old[s] # s
          /\ live = "none" /\ aborted \subseteq Peers
          /\ newest \in Peers \cup {"none"}
      BY <1>4, Zenon DEF Replace, Turns, TypeOK, TasksOK, SharedOK, OneByOne
    <2>2. /\ at'[s] = "insert" /\ aborted' = aborted \cup {old[s]}
          /\ \A t \in Peers \ {s} : at'[t] = at[t]
          /\ UNCHANGED <<live, newest, old, id>>
      BY <1>4, <2>1, Zenon DEF Replace, TypeOK, TasksOK
    <2>3. s \notin aborted /\ \A t \in Peers \ {s} : at[t] \notin Negotiating
      BY <2>1, Zenon DEF Turns, OneByOne
    <2> QED
      BY <2>1, <2>2, <2>3 DEF Turns
  <1>5. ASSUME NEW s \in Peers, Evict(s)
        PROVE  Turns'
    BY <1>5, Zenon DEF Evict, TypeOK, TasksOK, SharedOK, Turns
  <1>6. ASSUME NEW s \in Peers, Insert(s)
        PROVE  Turns'
    BY <1>6 DEF Insert, TypeOK, TasksOK, SharedOK, Turns, OneByOne
  <1>7. ASSUME NEW s \in Peers, MarkConnected(s)
        PROVE  Turns'
    BY <1>7 DEF MarkConnected, TypeOK, TasksOK, SharedOK, Turns, OneByOne
  <1>8. ASSUME NEW s \in Peers, NEW x \in Prefixes, UpdateMessage(s, x)
        PROVE  Turns'
    BY <1>8, Zenon DEF UpdateMessage, Pushing, TypeOK, TasksOK, SharedOK, Turns
  <1>9. ASSUME NEW s \in Peers, End(s)
        PROVE  Turns'
    BY <1>9, SMTT(30) DEF End, WithState, Pushing, TypeOK, TasksOK, SharedOK, Turns,
       OneByOne, UpdatesOK, Idle
  <1>10. ASSUME NEW s \in Peers, Cleanup(s)
        PROVE  Turns'
    BY <1>10 DEF Cleanup, Reclaimed, TypeOK, TasksOK, SharedOK, Turns
  <1>11. ASSUME NEW s \in Peers, Abort(s)
        PROVE  Turns'
    BY <1>11 DEF Abort, TypeOK, TasksOK, SharedOK, Turns
  <1>12. ASSUME NEW s \in Peers, RibApply(s)
        PROVE  Turns'
    BY <1>12, Zenon DEF RibApply, WithState, InsertActive, InsertWithdrawn,
       WithdrawForIngresses, TypeOK, TasksOK, SharedOK, Turns
  <1>13. CASE UNCHANGED vars
    BY <1>13, Zenon DEF vars, TypeOK, TasksOK, SharedOK, Turns
  <1> QED
    BY <1>1, <1>2, <1>3, <1>4, <1>5, <1>6, <1>7, <1>8, <1>9, <1>10, <1>11,
       <1>12, <1>13 DEF Next, Task

\* An update whose connection goes on as it was stays with it.
LEMMA Same ==
    ASSUME TypeOK, OwnPush, UNCHANGED push,
           \A t \in Peers : push[t].kind # "none" =>
              /\ id'[t] = id[t] /\ at'[t] = at[t]
              /\ live = t /\ at[t] = "up" => live' = t
              /\ newest = t /\ push[t].kind # "down" => newest' = t
    PROVE  OwnPush'
  BY DEF OwnPush, TypeOK, UpdatesOK

\* Updates stay with their connection.
LEMMA NextOwnPush ==
    ASSUME TypeOK, OneByOne, Turns, OwnPush, OneEntry, Restart, [Next]_vars,
           crossed' = {}
    PROVE  OwnPush'
  <1> USE BgpAssumption DEF Negotiating
  <1>0. /\ TasksOK /\ UpdatesOK /\ SharedOK /\ Idle.kind = "none"
        /\ TypeOK /\ OwnPush
    BY DEF TypeOK, Idle
  <1>1. ASSUME NEW s \in Peers, Accept(s)
        PROVE  OwnPush'
    <2>1. UNCHANGED push
      BY <1>1, SMT, Z3 DEF Accept
    <2>2. \A t \in Peers : push[t].kind # "none" =>
             /\ id'[t] = id[t] /\ at'[t] = at[t]
             /\ live = t /\ at[t] = "up" => live' = t
             /\ newest = t /\ push[t].kind # "down" => newest' = t
      BY <1>0, <1>1 DEF Accept, OwnPush, TasksOK, SharedOK, UpdatesOK, Turns, Ready,
         OneByOne, historyVars
    <2> QED
      BY <1>0, <2>1, <2>2, Same, Zenon
  <1>2. ASSUME NEW s \in Peers, Negotiate(s)
        PROVE  OwnPush'
    <2>1. /\ \A t \in Peers \ {s} : /\ at'[t] = at[t] /\ id'[t] = id[t]
                                    /\ push'[t] = push[t]
          /\ at[s] = "open" /\ at'[s] = "collide" /\ UNCHANGED <<live, newest>>
      BY <1>0, <1>2 DEF Negotiate, TasksOK, UpdatesOK
    <2>2. push'[s] = push[s] \/ push'[s] = Pushing("down", id'[s], {})
      BY <1>0, <1>2 DEF Negotiate, TasksOK, UpdatesOK
    <2>3. push[s] = Idle
      BY <1>0, <2>1 DEF OwnPush, UpdatesOK
    <2>4. CASE push'[s] = push[s]
      BY <1>0, <2>1, <2>3, <2>4 DEF OwnPush
    <2>5. CASE push'[s] = Pushing("down", id'[s], {})
      <3>1. push'[s].kind = "down" /\ push'[s].id = id'[s]
        BY <2>5 DEF Pushing
      <3> QED
        BY <1>0, <2>1, <3>1, SMT, Z3 DEF OwnPush
    <2> QED
      BY <2>2, <2>4, <2>5
  <1>3. ASSUME NEW s \in Peers, Collide(s)
        PROVE  OwnPush'
    <2>1. UNCHANGED push
      BY <1>3, SMT, Z3 DEF Collide
    <2>2. \A t \in Peers : push[t].kind # "none" =>
             /\ id'[t] = id[t] /\ at'[t] = at[t]
             /\ live = t /\ at[t] = "up" => live' = t
             /\ newest = t /\ push[t].kind # "down" => newest' = t
      BY <1>0, <1>3, SMT, Z3 DEF Collide, OwnPush, TasksOK, SharedOK, UpdatesOK, Turns, Ready,
         OneByOne, historyVars
    <2> QED
      BY <1>0, <2>1, <2>2, Same, Zenon
  <1>4. ASSUME NEW s \in Peers, Replace(s)
        PROVE  OwnPush'
    <2>1. UNCHANGED push
      BY <1>4, Zenon DEF Replace, Turns
    <2>2. \A t \in Peers : push[t].kind # "none" =>
             /\ id'[t] = id[t] /\ at'[t] = at[t]
             /\ live = t /\ at[t] = "up" => live' = t
             /\ newest = t /\ push[t].kind # "down" => newest' = t
      BY <1>0, <1>4, SMT, Z3 DEF Replace, OwnPush, TasksOK, UpdatesOK, historyVars
    <2> QED
      BY <1>0, <2>1, <2>2, Same, Zenon
  <1>5. ASSUME NEW s \in Peers, Evict(s)
        PROVE  OwnPush'
    BY <1>5, Zenon DEF Evict, Turns
  <1>6. ASSUME NEW s \in Peers, Insert(s)
        PROVE  OwnPush'
    <2>1. UNCHANGED push
      BY <1>6, SMT, Z3 DEF Insert
    <2>2. \A t \in Peers : push[t].kind # "none" =>
             /\ id'[t] = id[t] /\ at'[t] = at[t]
             /\ live = t /\ at[t] = "up" => live' = t
             /\ newest = t /\ push[t].kind # "down" => newest' = t
      BY <1>0, <1>6 DEF Insert, OwnPush, TasksOK, SharedOK, UpdatesOK, Turns, Ready,
         OneByOne, historyVars
    <2> QED
      BY <1>0, <2>1, <2>2, Same, Zenon
  <1>7. ASSUME NEW s \in Peers, MarkConnected(s)
        PROVE  OwnPush'
    <2>1. UNCHANGED push
      BY <1>7, SMT, Z3 DEF MarkConnected
    <2>2. \A t \in Peers : push[t].kind # "none" =>
             /\ id'[t] = id[t] /\ at'[t] = at[t]
             /\ live = t /\ at[t] = "up" => live' = t
             /\ newest = t /\ push[t].kind # "down" => newest' = t
      BY <1>0, <1>7, SMT, Z3 DEF MarkConnected, OwnPush, TasksOK, SharedOK, UpdatesOK,
         Turns, Ready, OneByOne, historyVars
    <2> QED
      BY <1>0, <2>1, <2>2, Same, Zenon
  <1>8. ASSUME NEW s \in Peers, NEW x \in Prefixes, UpdateMessage(s, x)
        PROVE  OwnPush'
    <2>1. /\ live = s /\ at[s] = "up" /\ newest = s
          /\ UNCHANGED <<live, at, newest, id>>
      BY <1>8, Zenon DEF UpdateMessage, Turns
    <2>2. /\ \A t \in Peers \ {s} : push'[t] = push[t]
          /\ push'[s].id = id[s] /\ push'[s].kind \in {"announce", "withdraw"}
      <3>1. PICK k \in {"announce", "withdraw"} :
               push' = [push EXCEPT ![s] = Pushing(k, id[s], {x})]
        BY <1>8, Zenon DEF UpdateMessage
      <3>2. DOMAIN push = Peers
        BY <1>0, Zenon DEF UpdatesOK
      <3> QED
        BY <3>1, <3>2, Zenon DEF Pushing
    <2> QED
      BY <1>0, <2>1, <2>2 DEF OwnPush
  <1>9. ASSUME NEW s \in Peers, End(s)
        PROVE  OwnPush'
    <2>1. /\ \A t \in Peers \ {s} : /\ at'[t] = at[t] /\ push'[t] = push[t]
                                    /\ live = t => live' = t
          /\ push[s] = Idle /\ UNCHANGED <<id, newest>>
          /\ \/ push'[s] = Idle
             \/ push'[s] = Pushing("down", id[s], {}) /\ at'[s] = "cleanup"
      BY <1>0, <1>9 DEF End, TasksOK, UpdatesOK, Ready
    <2> QED
      BY <1>0, <2>1 DEF OwnPush, Pushing
  <1>10. ASSUME NEW s \in Peers, Cleanup(s)
         PROVE  OwnPush'
    <2>1. UNCHANGED push
      BY <1>10, SMT, Z3 DEF Cleanup
    <2>2. \A t \in Peers : push[t].kind # "none" =>
             /\ id'[t] = id[t] /\ at'[t] = at[t]
             /\ live = t /\ at[t] = "up" => live' = t
             /\ newest = t /\ push[t].kind # "down" => newest' = t
      BY <1>0, <1>10, SMT, Z3 DEF Cleanup, OwnPush, TasksOK, SharedOK, UpdatesOK, Turns,
         Ready, OneByOne, historyVars
    <2> QED
      BY <1>0, <2>1, <2>2, Same, Zenon
  <1>11. ASSUME NEW s \in Peers, Abort(s)
         PROVE  OwnPush'
    <2>1. /\ \A t \in Peers \ {s} : at'[t] = at[t] /\ push'[t] = push[t]
          /\ push'[s] \in {push[s], Idle} /\ UNCHANGED <<id, live, newest>>
      BY <1>0, <1>11 DEF Abort, TasksOK, UpdatesOK
    <2>2. live # s /\ at[s] = "up"
      BY <1>11, Zenon DEF Abort, Turns
    <2>3. push[s] = Idle
      BY <1>0, <2>2, Zenon DEF OwnPush, UpdatesOK
    <2> QED
      BY <1>0, <2>1, <2>2, <2>3 DEF OwnPush
  <1>12. ASSUME NEW s \in Peers, RibApply(s)
         PROVE  OwnPush'
    <2>1. /\ \A t \in Peers \ {s} : push'[t] = push[t]
          /\ push'[s] = Idle /\ UNCHANGED <<id, at, live, newest>>
      BY <1>0, <1>12, Zenon DEF RibApply, UpdatesOK, historyVars
    <2> QED
      BY <1>0, <2>1 DEF OwnPush
  <1>13. CASE UNCHANGED vars
    BY <1>0, <1>13, ZenonT(30) DEF vars, historyVars, OwnPush
  <1> QED
    BY <1>1, <1>2, <1>3, <1>4, <1>5, <1>6, <1>7, <1>8, <1>9, <1>10, <1>11, <1>12,
       <1>13 DEF Next, Task

\* There stays one entry to take over.
LEMMA NextOneEntry ==
    ASSUME TypeOK, OneByOne, Turns, OwnPush, OneEntry, Held, Restart, [Next]_vars,
           crossed' = {}
    PROVE  OneEntry'
  <1> USE BgpAssumption DEF Negotiating, Ready, historyVars
  <1>1. ASSUME NEW s \in Peers, Accept(s)
        PROVE  OneEntry'
    BY <1>1, SMT, Z3 DEF Accept, TypeOK, TasksOK, SharedOK, OneEntry, Matching
  <1>2. ASSUME NEW s \in Peers, Negotiate(s)
        PROVE  OneEntry'
    BY <1>2, SMT, Z3 DEF Negotiate, Pushing, TypeOK, TasksOK, SharedOK, OneEntry,
       Matching, Turns, Held, Holds, Absent
  <1>3. ASSUME NEW s \in Peers, Collide(s)
        PROVE  OneEntry'
    BY <1>3, SMT, Z3 DEF Collide, TypeOK, TasksOK, SharedOK, OneEntry, Matching
  <1>4. ASSUME NEW s \in Peers, Replace(s)
        PROVE  OneEntry'
    BY <1>4 DEF Replace, Pushing, TypeOK, TasksOK, SharedOK, OneEntry,
       Matching
  <1>5. ASSUME NEW s \in Peers, Evict(s)
        PROVE  OneEntry'
    BY <1>5, Zenon DEF Evict, TypeOK, TasksOK, SharedOK, OneEntry, Matching, Turns
  <1>6. ASSUME NEW s \in Peers, Insert(s)
        PROVE  OneEntry'
    BY <1>6, SMT, Z3 DEF Insert, TypeOK, TasksOK, SharedOK, OneEntry, Matching
  <1>7. ASSUME NEW s \in Peers, MarkConnected(s)
        PROVE  OneEntry'
    BY <1>7, SMT, Z3 DEF MarkConnected, TypeOK, TasksOK, SharedOK, OneEntry, Matching,
       OneByOne
  <1>8. ASSUME NEW s \in Peers, NEW x \in Prefixes, UpdateMessage(s, x)
        PROVE  OneEntry'
    BY <1>8 DEF UpdateMessage, Pushing, TypeOK, TasksOK, SharedOK, OneEntry,
       Matching
  <1>9. ASSUME NEW s \in Peers, End(s)
        PROVE  OneEntry'
    <2>1. \A i \in Peers : register'[i].tuple => register[i].tuple
      <3>1. CASE UNCHANGED register
        BY <3>1
      <3>2. CASE register' = WithState(id[s], "disconnected")
        BY <3>2 DEF WithState, TypeOK, TasksOK, SharedOK, Entries
      <3> QED
        BY <1>9, <3>1, <3>2, Zenon DEF End
    <2>2. \A t \in Peers : at'[t] \in Negotiating \cup {"new", "open"} => at'[t] = at[t]
      BY <1>9 DEF End, TypeOK, TasksOK
    <2>3. UNCHANGED id
      BY <1>9, SMT, Z3 DEF End
    <2> QED
      BY <2>1, <2>2, <2>3 DEF OneEntry, Matching
  <1>10. ASSUME NEW s \in Peers, Cleanup(s)
        PROVE  OneEntry'
    <2>1. \A i \in Peers : register'[i].tuple => register[i].tuple
      BY <1>10, SMT, Z3 DEF Cleanup, Absent, TypeOK, TasksOK, SharedOK, Entries
    <2>2. \A t \in Peers : at'[t] \in Negotiating \cup {"new", "open"} => at'[t] = at[t]
      BY <1>10, Zenon DEF Cleanup, TypeOK, TasksOK
    <2>3. UNCHANGED id
      BY <1>10 DEF Cleanup
    <2> QED
      BY <2>1, <2>2, <2>3 DEF OneEntry, Matching
  <1>11. ASSUME NEW s \in Peers, Abort(s)
        PROVE  OneEntry'
    BY <1>11 DEF Abort, TypeOK, TasksOK, SharedOK, OneEntry, Matching
  <1>12. ASSUME NEW s \in Peers, RibApply(s)
        PROVE  OneEntry'
    <2>1. UNCHANGED <<at, id>>
      BY <1>12, Zenon DEF RibApply
    <2>2. \/ register' = register
          \/ \E i \in Peers : register' = WithState(i, "connected")
      BY <1>12, Zenon DEF RibApply, TypeOK, UpdatesOK, Ready, Idle
    <2>3. \A i \in Peers : register'[i].tuple = register[i].tuple
      BY <2>2 DEF WithState, TypeOK, SharedOK, Entries
    <2>4. Matching' = Matching
      BY <2>3, SMT, Z3 DEF Matching
    <2> QED
      BY <2>1, <2>4, Zenon DEF OneEntry
  <1>13. CASE UNCHANGED vars
    BY <1>13 DEF vars, TypeOK, TasksOK, SharedOK, OneEntry, Matching
  <1> QED
    BY <1>1, <1>2, <1>3, <1>4, <1>5, <1>6, <1>7, <1>8, <1>9, <1>10, <1>11,
       <1>12, <1>13, Zenon DEF Next, Task

\* What a connection is answerable for, as far as it goes on as it was.
LEMMA GoesOn ==
    ASSUME NEW u \in Peers, NEW i, at'[u] = at[u], id'[u] = id[u],
           push'[u] = push[u], live = u => live' = u
    PROVE  (Holds(u, i) => Holds(u, i)') /\ (Shows(u, i) => Shows(u, i)')
  BY DEF Holds, Shows, Ready

\* Who is answerable for an id stays so, or passes it on, or is through.
LEMMA PassedOn ==
    ASSUME TypeOK, OneByOne, HeldInv, Restart, [Next]_vars, crossed' = {},
           NEW i \in Peers
    PROVE  /\ (\E u \in Peers : Holds(u, i)) =>
                 \/ \E u \in Peers : Holds(u, i)'
                 \/ register'[i] = Absent /\ i \notin stats'
           /\ (\E u \in Peers : Shows(u, i)) =>
                 \/ \E u \in Peers : Shows(u, i)'
                 \/ Visible(i)' = {} /\ (RetainAttrs \/ active'[i] = {})
  <1> DEFINE Kept == /\ (\E u \in Peers : Holds(u, i)) => \E u \in Peers : Holds(u, i)'
                     /\ (\E u \in Peers : Shows(u, i)) => \E u \in Peers : Shows(u, i)'
  <1> USE BgpAssumption DEF Negotiating
  <1>0. /\ TasksOK /\ UpdatesOK /\ SharedOK /\ Turns /\ OwnPush /\ OneEntry
        /\ Idle.kind = "none"
    BY SMT, Z3 DEF TypeOK, HeldInv, Idle
  <1>1. ASSUME NEW s \in Peers, Accept(s)
        PROVE  Kept
    <2>1. \A u \in Peers : u # s =>
             at'[u] = at[u] /\ id'[u] = id[u] /\ push'[u] = push[u] /\ live' = live
      BY <1>0, <1>1, Zenon DEF Accept, TasksOK
    <2>2. ~Holds(s, i) /\ ~Shows(s, i)
      BY <1>0, <1>1, Zenon DEF Accept, Holds, Shows, Turns
    <2> QED
      BY <2>1, <2>2, GoesOn
  <1>2. ASSUME NEW s \in Peers, Negotiate(s)
        PROVE  Kept
    <2>1. \A u \in Peers : u # s =>
             at'[u] = at[u] /\ id'[u] = id[u] /\ push'[u] = push[u] /\ live' = live
      BY <1>0, <1>2 DEF Negotiate, TasksOK, UpdatesOK
    <2>2. ~Holds(s, i) /\ ~Shows(s, i)
      BY <1>0, <1>2, Zenon DEF Negotiate, Holds, Shows, Turns
    <2> QED
      BY <2>1, <2>2, GoesOn
  <1>3. ASSUME NEW s \in Peers, Collide(s)
        PROVE  Kept
    <2>1. /\ \A u \in Peers : u # s =>
               at'[u] = at[u] /\ id'[u] = id[u] /\ push'[u] = push[u]
          /\ at'[s] \in {"insert", "replace"} /\ id'[s] = id[s]
          /\ at[s] = "collide"
      BY <1>0, <1>3, SMT, Z3 DEF Collide, TasksOK
    <2>2. i = id[s] => Holds(s, i)' /\ Shows(s, i)'
      BY <2>1, SMT, Z3 DEF Holds, Shows
    <2>3. \A u \in Peers : live = u => id[u] = id[s]
      <3> SUFFICES ASSUME live \in Peers PROVE id[live] = id[s]
        BY SMT, Z3
      <3>1. at[live] = "up"
        BY <1>0, <2>1, SMT, Z3 DEF Turns, OneByOne
      <3>2. id[live] \in Matching
        BY <1>0, <3>1 DEF OneByOne, IsLive, Registered, Matching, TasksOK
      <3> QED
        BY <1>0, <2>1, <3>2 DEF OneEntry
    <2>4. CASE i = id[s]
      BY <2>2, <2>4
    <2>5. CASE i # id[s]
      <3>1. \A u \in Peers : Holds(u, i) \/ Shows(u, i) => u # s /\ live # u
        BY <2>3, <2>5 DEF Holds, Shows
      <3> QED
        BY <2>1, <3>1, GoesOn, Zenon
    <2> QED
      BY <2>4, <2>5, SMT, Z3
  <1>4. ASSUME NEW s \in Peers, Replace(s)
        PROVE  Kept
    <2>1. /\ \A u \in Peers : u # s =>
               at'[u] = at[u] /\ id'[u] = id[u] /\ push'[u] = push[u]
          /\ at'[s] \in {"insert", "evict"} /\ id'[s] = id[s] /\ live' = live
      BY <1>0, <1>4, SMT, Z3 DEF Replace, TasksOK, UpdatesOK
    <2>2. i = id[s] => Holds(s, i)' /\ Shows(s, i)'
      BY <2>1 DEF Holds, Shows
    <2>3. (Holds(s, i) \/ Shows(s, i)) => i = id[s]
      BY DEF Holds, Shows
    <2> QED
      BY <2>1, <2>2, <2>3, GoesOn, Zenon
  <1>5. ASSUME NEW s \in Peers, Evict(s)
        PROVE  FALSE
    BY <1>0, <1>5, Zenon DEF Evict, Turns
  <1>6. ASSUME NEW s \in Peers, Insert(s)
        PROVE  Kept
    <2>1. /\ \A u \in Peers : u # s =>
               at'[u] = at[u] /\ id'[u] = id[u] /\ push'[u] = push[u]
          /\ at'[s] = "mark" /\ id'[s] = id[s] /\ live = "none"
      BY <1>0, <1>6, Zenon DEF Insert, TasksOK, OneByOne
    <2>2. i = id[s] => Holds(s, i)' /\ Shows(s, i)'
      BY <2>1 DEF Holds, Shows
    <2>3. (Holds(s, i) \/ Shows(s, i)) => i = id[s]
      BY DEF Holds, Shows
    <2> QED
      BY <2>1, <2>2, <2>3, GoesOn, Zenon
  <1>7. ASSUME NEW s \in Peers, MarkConnected(s)
        PROVE  Kept
    <2>1. /\ \A u \in Peers : u # s =>
               at'[u] = at[u] /\ id'[u] = id[u] /\ push'[u] = push[u]
          /\ at'[s] = "up" /\ id'[s] = id[s] /\ live = s /\ live' = s
      BY <1>0, <1>7, Zenon DEF MarkConnected, TasksOK, OneByOne
    <2>2. i = id[s] => Holds(s, i)' /\ Shows(s, i)'
      BY <2>1, SMT, Z3 DEF Holds, Shows
    <2>3. (Holds(s, i) \/ Shows(s, i)) => i = id[s]
      BY DEF Holds, Shows
    <2> QED
      BY <2>1, <2>2, <2>3, GoesOn, Zenon
  <1>8. ASSUME NEW s \in Peers, NEW x \in Prefixes, UpdateMessage(s, x)
        PROVE  Kept
    <2>1. /\ \A u \in Peers : u # s => push'[u] = push[u]
          /\ at[s] = "up" /\ UNCHANGED <<at, id, live>>
      BY <1>0, <1>8, Zenon DEF UpdateMessage, UpdatesOK
    <2>2. (Holds(s, i) => Holds(s, i)') /\ (Shows(s, i) => Shows(s, i)')
      BY <2>1 DEF Holds, Shows
    <2> QED
      BY <2>1, <2>2, GoesOn
  <1>9. ASSUME NEW s \in Peers, End(s)
        PROVE  Kept
    <2>1. \A u \in Peers : u # s =>
             /\ at'[u] = at[u] /\ id'[u] = id[u] /\ push'[u] = push[u]
             /\ live = u => live' = u
      BY <1>0, <1>9 DEF End, TasksOK, UpdatesOK
    <2>2. CASE live = s /\ at[s] = "up"
      <3>1. /\ at'[s] = "cleanup" /\ id'[s] = id[s] /\ push'[s].kind = "down"
        BY <1>0, <1>9, <2>2, SMT, Z3 DEF End, TasksOK, UpdatesOK, Pushing
      <3>2. i = id[s] => Holds(s, i)' /\ Shows(s, i)'
        BY <3>1, <1>0, SMT, Z3 DEF Holds, Shows, Ready
      <3>3. (Holds(s, i) \/ Shows(s, i)) => i = id[s]
        BY DEF Holds, Shows
      <3> QED
        BY <2>1, <3>2, <3>3, GoesOn, ZenonT(30)
    <2>3. CASE ~(live = s /\ at[s] = "up")
      <3>1. ~Holds(s, i) /\ ~Shows(s, i)
        BY <1>0, <1>9, <2>3, Zenon DEF End, Holds, Shows, Turns
      <3> QED
        BY <2>1, <3>1, GoesOn
    <2> QED
      BY <2>2, <2>3, SMT, Z3
  <1>10. ASSUME NEW s \in Peers, Cleanup(s)
         PROVE  /\ (\E u \in Peers : Holds(u, i)) =>
                     \/ \E u \in Peers : Holds(u, i)'
                     \/ register'[i] = Absent /\ i \notin stats'
                /\ (\E u \in Peers : Shows(u, i)) => \E u \in Peers : Shows(u, i)'
    <2>1. /\ \A u \in Peers : u # s =>
               at'[u] = at[u] /\ id'[u] = id[u] /\ push'[u] = push[u]
          /\ live' = live /\ at[s] = "cleanup" /\ Ready(s)
      BY <1>0, <1>10, Zenon DEF Cleanup, TasksOK
    <2>2. ~Shows(s, i)
      BY <2>1 DEF Shows
    <2>3. live # s
      BY <1>0, <2>1, Zenon DEF Turns
    <2>4. CASE Reclaimed(s)
      <3>1. live \in Peers /\ id[live] = id[s] /\ live # s
        BY <1>0, <2>3, <2>4 DEF Reclaimed, SharedOK
      <3>2. i = id[s] => \E u \in Peers : Holds(u, i)'
        BY <2>1, <3>1, Zenon DEF Holds
      <3>3. Holds(s, i) => i = id[s]
        BY DEF Holds
      <3> QED
        BY <2>1, <2>2, <3>1, <3>2, <3>3, GoesOn, Zenon
    <2>5. CASE ~Reclaimed(s)
      <3>1. register'[id[s]] = Absent /\ id[s] \notin stats'
        BY <1>0, <1>10, <2>5, Zenon DEF Cleanup, TasksOK, SharedOK
      <3>2. Holds(s, i) => i = id[s]
        BY DEF Holds
      <3> QED
        BY <2>1, <2>2, <3>1, <3>2, GoesOn, Zenon
    <2> QED
      BY <2>4, <2>5
  <1>11. ASSUME NEW s \in Peers, Abort(s)
         PROVE  Kept
    <2>1. \A u \in Peers : u # s =>
             at'[u] = at[u] /\ id'[u] = id[u] /\ push'[u] = push[u] /\ live' = live
      BY <1>0, <1>11 DEF Abort, TasksOK, UpdatesOK
    <2>2. ~Holds(s, i) /\ ~Shows(s, i)
      BY <1>0, <1>11, Zenon DEF Abort, Holds, Shows, Turns
    <2> QED
      BY <2>1, <2>2, GoesOn
  <1>12. ASSUME NEW s \in Peers, RibApply(s)
         PROVE  /\ (\E u \in Peers : Holds(u, i)) => \E u \in Peers : Holds(u, i)'
                /\ (\E u \in Peers : Shows(u, i)) =>
                     \/ \E u \in Peers : Shows(u, i)'
                     \/ Visible(i)' = {} /\ (RetainAttrs \/ active'[i] = {})
    <2>1. /\ \A u \in Peers : u # s => push'[u] = push[u]
          /\ UNCHANGED <<at, id, live>> /\ push[s].kind # "none"
          /\ push[s].id = id[s]
      <3>1. push[s].kind # "none"
        BY <1>0, <1>12, Zenon DEF RibApply
      <3> QED
        BY <1>0, <1>12, <3>1, Zenon DEF RibApply, UpdatesOK, OwnPush
    <2>2. \A u \in Peers : Holds(u, i) => Holds(u, i)'
      BY <2>1, SMT, Z3 DEF Holds
    <2>3. CASE push[s].kind = "down" /\ i = id[s]
      <3>1. WithdrawForIngresses({id[s]})
        BY <1>12, <2>1, <2>3, Zenon DEF RibApply
      <3>2. Visible(i)' = {} /\ (RetainAttrs \/ active'[i] = {})
        BY <2>3, <3>1, RetainAssumption DEF WithdrawForIngresses, Visible
      <3> QED
        BY <2>2, <3>2
    <2>4. CASE push[s].kind # "down" /\ i = id[s]
      <3>1. live = s /\ at[s] = "up"
        BY <1>0, <2>1, <2>4 DEF OwnPush, UpdatesOK
      <3>2. Shows(s, i) => Shows(s, i)'
        BY <2>1, <3>1 DEF Shows, Holds
      <3> QED
        BY <2>1, <2>2, <3>2, GoesOn, Zenon
    <2>5. CASE i # id[s]
      <3>1. ~Shows(s, i)
        BY <2>5 DEF Shows, Holds
      <3> QED
        BY <2>1, <2>2, <3>1, GoesOn, Zenon
    <2> QED
      BY <2>3, <2>4, <2>5, Zenon
  <1>13. CASE UNCHANGED vars
    BY <1>13, Zenon DEF vars, Holds, Shows, Ready
  <1> QED
    BY <1>1, <1>2, <1>3, <1>4, <1>5, <1>6, <1>7, <1>8, <1>9, <1>10, <1>11, <1>12,
       <1>13, Zenon DEF Next, Task

\* What there is of an id has somebody answerable for it.
LEMMA NextHeld ==
    ASSUME TypeOK, OneByOne, HeldInv, OwnPush', Restart, [Next]_vars, crossed' = {}
    PROVE  Held'
  <1> USE BgpAssumption DEF Negotiating
  <1>0. /\ TasksOK /\ UpdatesOK /\ SharedOK /\ RibTypeOK
        /\ Turns /\ OwnPush /\ OneEntry /\ Held
    BY DEF TypeOK, HeldInv
  <1>1. ASSUME NEW i \in Peers, register'[i] # Absent \/ i \in stats',
               register[i] = Absent, i \notin stats
        PROVE  \E u \in Peers : Holds(u, i)'
    <2>0. \A s \in Peers : ~Evict(s) /\ ~Cleanup(s)
      <3>1. \A s \in Peers : ~Evict(s)
        BY <1>0, Zenon DEF Evict, Turns
      <3>2. ASSUME NEW s \in Peers, Cleanup(s) PROVE FALSE
        <4>1. i \notin stats'
          BY <1>1, <3>2 DEF Cleanup
        <4>2. register'[i] = Absent
          BY <1>0, <1>1, <3>2, Zenon DEF Cleanup, SharedOK, TasksOK
        <4> QED
          BY <1>1, <4>1, <4>2
      <3> QED
        BY <3>1, <3>2
    <2>1. PICK s \in Peers : MarkConnected(s) \/ End(s) \/ RibApply(s)
      BY <1>1, <2>0, Zenon
      DEF Next, Task, Accept, Negotiate, Collide, Replace, Insert,
          UpdateMessage, Abort, vars
    <2>2. CASE MarkConnected(s)
      <3>1. i = id[s] /\ id'[s] = id[s] /\ live' = s
        BY <1>0, <1>1, <2>2, Zenon DEF MarkConnected, SharedOK, OneByOne
      <3> QED
        BY <3>1 DEF Holds
    <2>3. CASE End(s)
      <3>1. i = id[s] /\ id'[s] = id[s] /\ at'[s] = "cleanup"
        BY <1>0, <1>1, <2>3 DEF End, WithState, SharedOK, TasksOK
      <3> QED
        BY <3>1 DEF Holds
    <2>4. CASE RibApply(s)
      <3>1. /\ push[s].kind = "announce" /\ i = push[s].id
            /\ UNCHANGED <<id, live>>
        BY <1>0, <1>1, <2>4, Zenon DEF RibApply, WithState, SharedOK
      <3> QED
        BY <1>0, <3>1, Zenon DEF Holds, OwnPush
    <2> QED
      BY <2>1, <2>2, <2>3, <2>4
  <1>2. ASSUME NEW i \in Peers, Visible(i)' # {}, Visible(i) = {}
        PROVE  \E u \in Peers : Shows(u, i)'
    <2>1. PICK s \in Peers : RibApply(s)
      BY <1>2, Zenon
      DEF Next, Task, Accept, Negotiate, Collide, Replace, Evict, Insert,
          MarkConnected, End, UpdateMessage, Cleanup, Abort, vars, Visible, ribVars
    <2>2. push[s].kind = "announce" /\ i = push[s].id
      BY <1>0, <1>2, <2>1, Zenon
      DEF RibApply, Visible, RibTypeOK, InsertActive, InsertWithdrawn,
          WithdrawForIngresses
    <2>3. UNCHANGED <<id, live, at>> /\ live = s /\ at[s] = "up" /\ id[s] = i
      BY <1>0, <2>1, <2>2, Zenon DEF RibApply, OwnPush
    <2> QED
      BY <2>3 DEF Holds, Shows
  <1>3. ASSUME NEW i \in Peers, register'[i] # Absent \/ i \in stats'
        PROVE  \E u \in Peers : Holds(u, i)'
    <2>1. CASE register[i] # Absent \/ i \in stats
      BY <1>0, <1>3, <2>1, PassedOn, Zenon DEF Held
    <2> QED
      BY <1>1, <1>3, <2>1
  <1>4. ASSUME NEW i \in Peers, Visible(i)' # {}
        PROVE  \E u \in Peers : Shows(u, i)'
    <2>1. CASE Visible(i) # {}
      BY <1>0, <1>4, <2>1, PassedOn, Zenon DEF Held
    <2> QED
      BY <1>2, <1>4, <2>1
  <1> QED
    BY <1>3, <1>4 DEF Held

\* Every step keeps all of it.
LEMMA NextLeak ==
    ASSUME LiveInv, LeakInv, Restart, [Next]_vars
    PROVE  LeakInv'
  <1> SUFFICES ASSUME crossed' = {} PROVE HeldInv'
    BY DEF LeakInv
  <1>1. TypeOK /\ OneByOne /\ HeldInv
    BY CrossedStays DEF LiveInv, LeakInv
  <1>2. Turns /\ OwnPush /\ OneEntry /\ Held
    BY <1>1 DEF HeldInv
  <1>3. Turns' /\ OwnPush' /\ OneEntry'
    BY <1>1, <1>2, NextTurns, NextOwnPush, NextOneEntry
  <1>4. Held'
    BY <1>1, <1>3, NextHeld
  <1> QED
    BY <1>3, <1>4 DEF HeldInv

\* Only the rib unit changes the store, only negotiation the id.
LEMMA OnlyRibApply ==
    ASSUME [Next]_vars, \A s \in Peers : ~RibApply(s)
    PROVE  UNCHANGED active /\ ((\A s \in Peers : ~Negotiate(s)) => UNCHANGED id)
  BY ZenonT(30) DEF Next, Task, Accept, Negotiate, Collide, Replace, Evict, Insert,
     MarkConnected, End, UpdateMessage, Cleanup, Abort, vars, ribVars

\* How a task gets to negotiate and to be up.
LEMMA Moves ==
    ASSUME TasksOK, [Next]_vars, NEW t \in Peers
    PROVE  /\ at'[t] = "up" => at[t] = "up" \/ MarkConnected(t)
           /\ at'[t] \in Negotiating => at[t] \in Negotiating \/ Negotiate(t)
  <1> DEFINE Moved == /\ at'[t] = "up" => at[t] = "up" \/ MarkConnected(t)
                      /\ at'[t] \in Negotiating =>
                            at[t] \in Negotiating \/ Negotiate(t)
  <1>0. at \in [Peers -> Steps]
    BY DEF TasksOK
  <1>1. ASSUME NEW s \in Peers, Accept(s) PROVE Moved
    BY <1>0, <1>1, SMT, Z3 DEF Accept, Negotiating
  <1>2. ASSUME NEW s \in Peers, Negotiate(s) PROVE Moved
    <2>1. CASE s = t
      BY <1>2, <2>1, <1>0, Zenon DEF Negotiate, Negotiating
    <2>2. CASE s # t
      <3>1. at'[t] = at[t]
        BY <1>0, <1>2, <2>2 DEF Negotiate
      <3> QED
        BY <3>1
    <2> QED
      BY <2>1, <2>2
  <1>3. ASSUME NEW s \in Peers, Collide(s) PROVE Moved
    BY <1>0, <1>3, SMT, Z3 DEF Collide, Negotiating
  <1>4. ASSUME NEW s \in Peers, Replace(s) PROVE Moved
    BY <1>0, <1>4, SMT, Z3 DEF Replace, Negotiating
  <1>5. ASSUME NEW s \in Peers, Evict(s) PROVE Moved
    BY <1>0, <1>5 DEF Evict, Negotiating
  <1>6. ASSUME NEW s \in Peers, Insert(s) PROVE Moved
    BY <1>0, <1>6 DEF Insert, Negotiating
  <1>7. ASSUME NEW s \in Peers, MarkConnected(s) PROVE Moved
    <2>1. CASE s = t
      BY <1>7, <2>1, <1>0 DEF MarkConnected, Negotiating
    <2>2. CASE s # t
      <3>1. at'[t] = at[t]
        BY <1>0, <1>7, <2>2 DEF MarkConnected
      <3> QED
        BY <3>1
    <2> QED
      BY <2>1, <2>2
  <1>8. ASSUME NEW s \in Peers, NEW x \in Prefixes, UpdateMessage(s, x) PROVE Moved
    BY <1>0, <1>8 DEF UpdateMessage, Negotiating
  <1>9. ASSUME NEW s \in Peers, End(s) PROVE Moved
    BY <1>0, <1>9 DEF End, Negotiating
  <1>10. ASSUME NEW s \in Peers, Cleanup(s) PROVE Moved
    BY <1>0, <1>10 DEF Cleanup, Negotiating
  <1>11. ASSUME NEW s \in Peers, Abort(s) PROVE Moved
    BY <1>0, <1>11 DEF Abort, Negotiating
  <1>12. ASSUME NEW s \in Peers, RibApply(s) PROVE Moved
    BY <1>0, <1>12, Zenon DEF RibApply, Negotiating
  <1>13. CASE UNCHANGED vars
    BY <1>13 DEF vars
  <1> QED
    BY <1>1, <1>2, <1>3, <1>4, <1>5, <1>6, <1>7, <1>8, <1>9, <1>10, <1>11,
       <1>12, <1>13, Zenon DEF Next, Task

\* The records of the session in live_sessions stay its own.
LEMMA NextOwnRoutes ==
    ASSUME TypeOK, OneByOne, HeldInv, OwnRoutes, OneByOne', Restart, ~RetainAttrs,
           [Next]_vars, crossed' = {}
    PROVE  OwnRoutes'
  <1> USE BgpAssumption DEF Negotiating
  <1>0. /\ TasksOK /\ UpdatesOK /\ SharedOK /\ RibTypeOK
        /\ Turns /\ OwnPush /\ OneEntry /\ Held
        /\ Idle.kind = "none"
    BY SMT, Z3 DEF TypeOK, HeldInv, Idle
  <1>1. ASSUME NEW i \in Peers, active'[i] # {}
        PROVE  \E u \in Peers : Shows(u, i)'
    <2>1. CASE active[i] # {}
      BY <1>1, <2>1, PassedOn, Zenon DEF OwnRoutes
    <2>2. CASE active[i] = {}
      <3>1. PICK s \in Peers : RibApply(s)
        BY <1>1, <2>2, Zenon
        DEF Next, Task, Accept, Negotiate, Collide, Replace, Evict, Insert,
            MarkConnected, End, UpdateMessage, Cleanup, Abort, vars, ribVars
      <3>2. push[s].kind = "announce" /\ i = push[s].id
        BY <1>0, <1>1, <2>2, <3>1, Zenon
        DEF RibApply, RibTypeOK, InsertActive, InsertWithdrawn, WithdrawForIngresses
      <3>3. UNCHANGED <<id, live, at>> /\ live = s /\ at[s] = "up" /\ id[s] = i
        BY <1>0, <3>1, <3>2, Zenon DEF RibApply, OwnPush
      <3> QED
        BY <3>3 DEF Holds, Shows
    <2> QED
      BY <2>1, <2>2
  <1>2. ASSUME NEW t \in Peers, at'[t] \in Negotiating, Ready(t)'
        PROVE  active'[id'[t]] = {}
    <2>1. ASSUME NEW s \in Peers, Negotiate(s)
          PROVE  active'[id'[t]] = {}
      <3>1. t = s
        BY <1>0, <1>2, <2>1, Zenon DEF Negotiate, TasksOK, SharedOK
      <3>2. id'[s] = s /\ UNCHANGED active
        <4>1. \A i : Pushing("down", i, {}) # Idle
          BY DEF Pushing, Idle
        <4>2. push'[s] = Idle
          BY <1>2, <3>1 DEF Ready
        <4>3. UNCHANGED id
          BY <1>0, <2>1, <4>1, <4>2, Zenon DEF Negotiate, UpdatesOK
        <4> QED
          BY <1>0, <2>1, <4>3, Zenon DEF Negotiate, OneEntry, ribVars
      <3>3. \A u \in Peers : ~Shows(u, s)
        BY <1>0, <2>1 DEF Negotiate, Shows, Holds, OneEntry, Turns
      <3> QED
        BY <3>1, <3>2, <3>3, Zenon DEF OwnRoutes
    <2>2. ASSUME NEW s \in Peers, RibApply(s)
          PROVE  active'[id'[t]] = {}
      <3>1. /\ UNCHANGED <<id, at, live>> /\ push[s].kind # "none" /\ push[s].id = id[s]
            /\ id[t] \in Peers
        BY <1>0, <2>2, Zenon DEF RibApply, OwnPush, Ready, TasksOK, UpdatesOK, Idle
      <3>2. push[s].kind = "down"
        BY <1>0, <1>2, <3>1 DEF OwnPush, UpdatesOK, Turns
      <3>3. active'[id[t]] = IF id[t] = id[s] THEN {} ELSE active[id[t]]
        BY <2>2, <3>1, <3>2, Zenon DEF RibApply, WithdrawForIngresses
      <3>4. t # s => Ready(t)
        BY <1>0, <1>2, <2>2, Zenon DEF RibApply, Ready, UpdatesOK
      <3> QED
        BY <1>2, <3>1, <3>3, <3>4, Zenon DEF OwnRoutes
    <2>3. CASE /\ \A s \in Peers : ~Negotiate(s) /\ ~RibApply(s)
      <3>0. UNCHANGED <<active, id>>
        BY <2>3, OnlyRibApply
      <3>1. at[t] \in Negotiating
        BY <1>0, <1>2, <2>3, Moves, Zenon
      <3>2. push[t] = push'[t] \/ Ready(t)
        <4>1. CASE UNCHANGED push
          BY <4>1
        <4>2. ASSUME NEW s \in Peers, Replace(s) PROVE push[t] = push'[t]
          BY <1>0, <4>2, Zenon DEF Replace, Turns
        <4>3. ASSUME NEW s \in Peers, NEW x \in Prefixes, UpdateMessage(s, x)
              PROVE  push[t] = push'[t]
          BY <1>0, <1>2, <4>3, Zenon DEF UpdateMessage, UpdatesOK
        <4>4. ASSUME NEW s \in Peers, End(s) PROVE push[t] = push'[t]
          BY <1>0, <1>2, <3>1, <4>4, Zenon DEF End, UpdatesOK
        <4>5. ASSUME NEW s \in Peers, Abort(s) PROVE push[t] = push'[t]
          BY <1>0, <1>2, <4>5, Zenon DEF Abort, UpdatesOK, TasksOK
        <4> QED
          BY <2>3, <4>1, <4>2, <4>3, <4>4, <4>5, Zenon
          DEF Next, Task, Accept, Collide, Evict, Insert, MarkConnected, Cleanup,
              vars
      <3> QED
        BY <1>2, <3>0, <3>1, <3>2, Zenon DEF OwnRoutes, Ready
    <2> QED
      BY <2>1, <2>2, <2>3
  <1> DEFINE Mine(t) ==
        /\ active[id[t]] \subseteq announced[t] \cup
              (IF push[t].kind = "withdraw" THEN push[t].pfx ELSE {})
        /\ push[t].kind = "announce" => push[t].pfx \subseteq announced[t]
  <1>3. ASSUME NEW t \in Peers, IsLive(t)'
        PROVE  Mine(t)'
    <2>1. ASSUME NEW s \in Peers, MarkConnected(s)
          PROVE  Mine(t)'
      <3>1. /\ t = s /\ at[s] = "mark" /\ UNCHANGED <<id, push, active, announced>>
        BY <1>3, <2>1, Zenon DEF MarkConnected, IsLive, OneByOne, ribVars, historyVars
      <3>2. push[s].kind = "none" /\ Ready(s)
        BY <1>0, <3>1, Zenon DEF OwnPush, UpdatesOK, Ready
      <3> QED
        BY <3>1, <3>2, Zenon DEF OwnRoutes
    <2>2. ASSUME NEW s \in Peers, NEW x \in Prefixes, UpdateMessage(s, x)
          PROVE  Mine(t)'
      <3>1. /\ t = s /\ IsLive(s) /\ push[s].kind = "none"
            /\ UNCHANGED <<id, active>>
        BY <1>0, <1>3, <2>2, Zenon DEF UpdateMessage, IsLive, Turns, Ready, ribVars
      <3>2. active[id[s]] \subseteq announced[s]
        BY <3>1, Zenon DEF OwnRoutes
      <3>3. CASE /\ push' = [push EXCEPT ![s] = Pushing("announce", id[s], {x})]
                 /\ announced' = [announced EXCEPT ![s] = @ \cup {x}]
        BY <1>0, <3>1, <3>2, <3>3, Zenon DEF Pushing, UpdatesOK, SharedOK
      <3>4. CASE /\ push' = [push EXCEPT ![s] = Pushing("withdraw", id[s], {x})]
                 /\ announced' = [announced EXCEPT ![s] = @ \ {x}]
        BY <1>0, <3>1, <3>2, <3>4, Zenon DEF Pushing, UpdatesOK, SharedOK
      <3> QED
        BY <2>2, <3>3, <3>4, Zenon DEF UpdateMessage
    <2>3. ASSUME NEW s \in Peers, RibApply(s)
          PROVE  Mine(t)'
      <3>1. /\ IsLive(t) /\ UNCHANGED <<id, at, live, announced>> /\ Mine(t)
            /\ push[s].kind # "none" /\ push[s].id = id[s]
        BY <1>0, <1>3, <2>3, Zenon
        DEF RibApply, IsLive, OwnRoutes, OwnPush, Ready, historyVars
      <3>2. CASE s = t
        <4>1. push[t].kind \in {"announce", "withdraw"} /\ push'[t] = Idle
          BY <1>0, <2>3, <3>1, <3>2, Zenon DEF OwnPush, UpdatesOK, IsLive, RibApply
        <4>2. active'[id[t]] = IF push[t].kind = "announce"
                               THEN active[id[t]] \cup push[t].pfx
                               ELSE active[id[t]] \ push[t].pfx
          <5>1. \/ push[t].kind = "announce" /\ InsertActive(id[t], push[t].pfx)
                \/ push[t].kind = "withdraw" /\ InsertWithdrawn(id[t], push[t].pfx)
            BY <2>3, <3>1, <3>2, <4>1, Zenon DEF RibApply
          <5>2. id[t] \in Peers /\ active \in [Peers -> SUBSET Prefixes]
            BY <1>0 DEF TasksOK, RibTypeOK
          <5> QED
            BY <5>1, <5>2, Zenon DEF InsertActive, InsertWithdrawn
        <4> QED
          BY <1>0, <3>1, <4>1, <4>2, Zenon
      <3>3. CASE s # t
        <4>1. push[s].kind = "down" /\ push'[t] = push[t]
          BY <1>0, <2>3, <3>1, <3>3, Zenon DEF OwnPush, UpdatesOK, IsLive, RibApply
        <4>2. active'[id[t]] \subseteq active[id[t]]
          BY <1>0, <2>3, <4>1, Zenon DEF RibApply, WithdrawForIngresses, RibTypeOK, TasksOK
        <4> QED
          BY <3>1, <4>1, <4>2, Zenon
      <3> QED
        BY <3>2, <3>3, Zenon
    <2>4. CASE \A s \in Peers : /\ ~MarkConnected(s) /\ ~RibApply(s)
                                /\ \A x \in Prefixes : ~UpdateMessage(s, x)
      <3>1. live' = t /\ at'[t] = "up"
        BY <1>3 DEF IsLive
      <3>2. at[t] = "up"
        BY <1>0, <2>4, <3>1, Moves, Zenon
      <3>3. live = t
        <4>1. ASSUME NEW s \in Peers, Insert(s) PROVE FALSE
          BY <1>0, <3>1, <3>2, <4>1, Zenon DEF Insert
        <4> QED
          BY <2>4, <3>1, <4>1, Zenon
          DEF Next, Task, Accept, Negotiate, Collide, Replace, Evict, End, Cleanup,
              Abort, vars
      <3>4. UNCHANGED active /\ id'[t] = id[t]
        <4>1. ASSUME NEW s \in Peers, Negotiate(s) PROVE id'[t] = id[t]
          BY <1>0, <3>2, <4>1, Zenon DEF Negotiate, TasksOK
        <4> QED
          BY <2>4, <4>1, OnlyRibApply
      <3>5. ASSUME NEW s \in Peers, Negotiate(s) \/ Replace(s) \/ End(s) \/ Abort(s)
            PROVE  push'[t] = push[t] /\ announced'[t] = announced[t]
        <4>1. s # t
          BY <1>0, <3>1, <3>2, <3>5, Zenon DEF Negotiate, Replace, End, Abort, TasksOK
        <4>2. push'[t] = push[t]
          BY <1>0, <3>5, <4>1, Zenon DEF Negotiate, Replace, End, Abort, UpdatesOK
        <4>3. announced'[t] = announced[t]
          BY <1>0, <3>5, <4>1, Zenon DEF Negotiate, Replace, End, Abort, SharedOK,
             historyVars
        <4> QED
          BY <4>2, <4>3, Zenon
      <3>6. push'[t] = push[t] /\ announced'[t] = announced[t]
        BY <2>4, <3>5, Zenon
        DEF Next, Task, Accept, Collide, Evict, Insert, Cleanup, vars, historyVars
      <3> QED
        BY <3>2, <3>3, <3>4, <3>6, Zenon DEF OwnRoutes, IsLive
    <2> QED
      BY <2>1, <2>2, <2>3, <2>4, Zenon
  <1> QED
    BY <1>1, <1>2, <1>3, Zenon DEF OwnRoutes

-----------------------------------------------------------------------------

\* Of sessions of a speaker that restarts, negotiating one after the other,
\* nothing is left when they are gone, no entry in the register, no statistics
\* and no route, however late each teardown runs.
THEOREM NothingIsLeft ==
    ASSUME Restart
    PROVE  Spec => []NothingLeaks
  <1>1. Init => LeakInv
    <2> SUFFICES ASSUME Init PROVE HeldInv
      BY DEF LeakInv
    <2>1. Turns /\ OwnPush
      BY BgpAssumption, Zenon DEF Init, Turns, OwnPush, Negotiating, Idle
    <2>2. OneEntry /\ Held
      BY DEF Init, OneEntry, Held, Matching, Absent, Visible, RibInit, Negotiating
    <2> QED
      BY <2>1, <2>2 DEF HeldInv
  <1>2. LiveInv /\ LeakInv /\ [Next]_vars => LeakInv'
    BY NextLeak, SMT, Z3
  <1>3. LiveInv /\ LeakInv => NothingLeaks
    <2> SUFFICES ASSUME LiveInv, LeakInv, crossed = {}, AllGone PROVE Clean
      BY SMT, Z3 DEF NothingLeaks
    <2>1. \A u, i \in Peers : ~Holds(u, i) /\ ~Shows(u, i)
      BY DEF LeakInv, HeldInv, Turns, AllGone, Holds, Shows, Negotiating
    <2>2. stats \subseteq Peers /\ Held
      BY DEF LiveInv, TypeOK, SharedOK, LeakInv, HeldInv
    <2> QED
      BY <2>1, <2>2 DEF Clean, Held
  <1> QED
    BY <1>1, <1>2, <1>3, LiveInvariant, PTL DEF Spec

\* Without retained attributes the session in live_sessions of a speaker that
\* restarts shows only routes it has announced itself, whatever its
\* predecessors have left and however late they are withdrawn.
THEOREM OldRoutesGone ==
    ASSUME Restart, ~RetainAttrs
    PROVE  Spec => []NoStaleRoutes
  <1>1. Init => LeakInv /\ RouteInv
    <2> SUFFICES ASSUME Init PROVE HeldInv /\ OwnRoutes
      BY SMT, Z3 DEF LeakInv, RouteInv
    <2>1. Turns /\ OwnPush
      BY BgpAssumption DEF Init, Turns, OwnPush, Negotiating, Idle
    <2>2. OneEntry /\ Held /\ OwnRoutes
      BY Zenon DEF Init, OneEntry, Held, Matching, Absent, Visible, RibInit, Negotiating,
         OwnRoutes, IsLive
    <2> QED
      BY <2>1, <2>2 DEF HeldInv
  <1>2. LiveInv /\ LiveInv' /\ LeakInv /\ RouteInv /\ [Next]_vars => LeakInv' /\ RouteInv'
    BY NextLeak, NextOwnRoutes, CrossedStays DEF LiveInv, LeakInv, RouteInv
  <1>3. LiveInv /\ RouteInv => NoStaleRoutes
    <2> SUFFICES ASSUME LiveInv, RouteInv, NEW s \in Peers, crossed = {},
                        IsLive(s), Ready(s)
                 PROVE  Visible(id[s]) \subseteq announced[s]
      BY ZenonT(30) DEF NoStaleRoutes
    <2>1. push[s].kind = "none"
      BY DEF Ready, Idle
    <2>2. active[id[s]] \subseteq
             announced[s] \cup (IF push[s].kind = "withdraw" THEN push[s].pfx ELSE {})
      BY Zenon DEF RouteInv, OwnRoutes
    <2>3. active[id[s]] \subseteq announced[s]
      BY <2>1, <2>2, Zenon
    <2> QED
      BY <2>3, Zenon DEF Visible
  <1> QED
    BY <1>1, <1>2, <1>3, LiveInvariant, PTL DEF Spec

-----------------------------------------------------------------------------
(***************************************************************************)
(* BgpConfig, for any configurations, speakers, connections and number of  *)
(* reloads: a session that has heard all it was told of and goes on is one *)
(* the present configuration has a matching entry for.                     *)
(*                                                                         *)
(* It rests on the last configuration in a connection's queue being the    *)
(* unit's, and on the unit's fitting the connection when the queue is      *)
(* empty, unless the latest one was dropped because the queue was full.    *)
(***************************************************************************)

ConnState ==
    [pc : {"none", "open", "up", "gone"}, addr : Addrs \cup {0},
     key : Keys1 \cup {1}, asn : RemoteAsns \cup {0}, own : UnitConfigs,
     attached : BOOLEAN, mail : Seq(UnitConfigs), missed : BOOLEAN,
     told : BOOLEAN, cut : BOOLEAN]

\* The configuration b is, for a connection q, the one it was accepted with.
Fits(q, b) ==
    /\ Configured(b, q.key)
    /\ SamePeer(b.peers[q.key], q.own.peers[q.key])
    /\ SameUnit(b, q.own)

\* What a connection q is like while b is the configuration of the unit.
Fine(q, b) ==
    q.pc \in {"open", "up"} =>
        /\ Contains(q.key, q.addr)
        /\ q.pc = "up" => AsnAllowed(q.own.peers[q.key], q.asn)
        /\ ~q.cut /\ ~q.told /\ ~q.missed =>
              IF q.mail = <<>> THEN Fits(q, b) ELSE q.mail[Len(q.mail)] = b

ConfigInv ==
    /\ bgp \in UnitConfigs
    /\ peer \in [Conns -> ConnState]
    /\ \A c \in Conns : Fine(peer[c], bgp)

-----------------------------------------------------------------------------

LEMMA NoConnType ==
    ASSUME bgp \in UnitConfigs
    PROVE  /\ NoConn \in ConnState
           /\ NoConn.pc = "none" /\ NoConn.mail = <<>> /\ ~NoConn.told
  <1>1. <<>> \in Seq(UnitConfigs)
    OBVIOUS
  <1> QED
    BY <1>1, Zenon DEF NoConn, ConnState

LEMMA InitConfig == ConfigInit => ConfigInv
  BY NoConnType, Zenon DEF ConfigInit, ConfigInv, Fine

\* A step of one connection.
LEMMA OneConn ==
    ASSUME ConfigInv, NEW c \in Conns, NEW q \in ConnState, Fine(q, bgp),
           peer' = [peer EXCEPT ![c] = q], bgp' = bgp
    PROVE  ConfigInv'
  <1> DEFINE F(p) == Fine(p, bgp)
  <1>1. bgp' \in UnitConfigs /\ peer' \in [Conns -> ConnState]
    BY DEF ConfigInv
  <1>2. \A d \in Conns : peer'[d] = IF d = c THEN q ELSE peer[d]
    BY DEF ConfigInv
  <1>3. \A d \in Conns : F(peer[d])
    BY DEF ConfigInv
  <1>4. F(q)
    OBVIOUS
  <1> HIDE DEF F
  <1>5. \A d \in Conns : F(peer'[d])
    BY <1>2, <1>3, <1>4, Zenon
  <1> QED
    BY <1>1, <1>5, Zenon DEF F, ConfigInv

LEMMA StepAccept ==
    ASSUME ConfigInv, NEW c \in Conns, NEW a \in Addrs, NEW s,
           AcceptConn(c, a, s)
    PROVE  ConfigInv'
  <1>1. PICK k \in Get(bgp, a) : peer' = [peer EXCEPT ![c] = HandleConnection(a, k)]
    BY Zenon DEF AcceptConn
  <1> DEFINE q == HandleConnection(a, k)
             late == unitLoads > 0
  <1>3. k \in Keys1 /\ Configured(bgp, k) /\ Contains(k, a)
    BY DEF Get
  <1>4. bgp \in UnitConfigs /\ late \in BOOLEAN
    BY DEF ConfigInv
  <1>2. q \in ConnState /\ q.pc = "open" /\ q.addr = a /\ q.key = k /\ q.own = bgp
           /\ q.mail = <<>> /\ ~q.told
    BY <1>3, <1>4, NoConnType, Zenon DEF HandleConnection, ConnState
  <1>5. Fine(q, bgp)
    BY <1>2, <1>3, Zenon DEF Fine, Fits, SamePeer, SameUnit
  <1> HIDE DEF q
  <1> QED
    BY <1>1, <1>2, <1>5, OneConn, Zenon DEF AcceptConn, q

LEMMA StepOpen ==
    ASSUME ConfigInv, NEW c \in Conns, NEW n \in RemoteAsns, OpenMessage(c, n)
    PROVE  ConfigInv'
  <1> DEFINE me == peer[c]
             pc == IF AsnAllowed(me.own.peers[me.key], n) THEN "up" ELSE "gone"
             q == [me EXCEPT !.pc = pc, !.asn = n]
  <1>1. me \in ConnState /\ Fine(me, bgp) /\ me.pc = "open"
    BY Zenon DEF ConfigInv, OpenMessage
  <1>2. q \in ConnState /\ q.pc = pc /\ q.asn = n /\ q.own = me.own
           /\ q.key = me.key /\ q.addr = me.addr /\ q.cut = me.cut
           /\ q.told = me.told /\ q.mail = me.mail /\ q.missed = me.missed
    BY <1>1, Zenon DEF ConnState
  <1>3. peer' = [peer EXCEPT ![c] = q] /\ bgp' = bgp
    BY Zenon DEF OpenMessage
  <1> HIDE DEF q
  <1>4. Fine(q, bgp)
    BY <1>1, <1>2, Zenon DEF Fine, Fits
  <1> QED
    BY <1>2, <1>3, <1>4, OneConn, Zenon

\* A task that ends, or is attached.
LEMMA StepEnd ==
    ASSUME ConfigInv, NEW c \in Conns,
           AttachConn(c) \/ SessionEnds(c) \/ HeardEnd(c)
    PROVE  ConfigInv'
  <1> DEFINE me == peer[c]
  <1>1. me \in ConnState /\ Fine(me, bgp)
    BY DEF ConfigInv
  <1>2. CASE AttachConn(c)
    <2> DEFINE q == [me EXCEPT !.attached = TRUE]
    <2>1. q \in ConnState /\ q.pc = me.pc /\ q.asn = me.asn /\ q.own = me.own
             /\ q.key = me.key /\ q.addr = me.addr /\ q.cut = me.cut
             /\ q.told = me.told /\ q.mail = me.mail /\ q.missed = me.missed
      BY <1>1, Zenon DEF ConnState
    <2>2. peer' = [peer EXCEPT ![c] = q] /\ bgp' = bgp
      BY <1>2, Zenon DEF AttachConn
    <2> HIDE DEF q
    <2>3. Fine(q, bgp)
      BY <1>1, <2>1, Zenon DEF Fine, Fits
    <2> QED
      BY <2>1, <2>2, <2>3, OneConn, Zenon
  <1>3. CASE SessionEnds(c)
    <2> DEFINE q == [me EXCEPT !.pc = "gone"]
    <2>1. q \in ConnState /\ q.pc = "gone"
      BY <1>1 DEF ConnState
    <2>2. peer' = [peer EXCEPT ![c] = q] /\ bgp' = bgp
      BY <1>3 DEF SessionEnds
    <2> HIDE DEF q
    <2>3. Fine(q, bgp)
      BY <2>1, Zenon DEF Fine
    <2> QED
      BY <2>1, <2>2, <2>3, OneConn, Zenon
  <1>4. CASE HeardEnd(c)
    <2> DEFINE q == [me EXCEPT !.pc = "gone", !.told = TRUE]
    <2>1. q \in ConnState /\ q.pc = "gone"
      BY <1>1, Zenon DEF ConnState
    <2>2. peer' = [peer EXCEPT ![c] = q] /\ bgp' = bgp
      BY <1>4, Zenon DEF HeardEnd
    <2> HIDE DEF q
    <2>3. Fine(q, bgp)
      BY <2>1, Zenon DEF Fine
    <2> QED
      BY <2>1, <2>2, <2>3, OneConn, Zenon
  <1> QED
    BY <1>2, <1>3, <1>4

\* A task takes a configuration from its queue.  If it is the last, it is the
\* unit's.
LEMMA StepHeard ==
    ASSUME ConfigInv, NEW c \in Conns, Heard(c)
    PROVE  ConfigInv'
  <1> DEFINE me == peer[c]
             new == Head(me.mail)
             over == ~SameUnit(new, me.own) \/ ~Configured(new, me.key)
             changed == /\ Configured(new, me.key)
                        /\ ~SamePeer(new.peers[me.key], me.own.peers[me.key])
             pc == IF over THEN "gone" ELSE me.pc
             told == me.told \/ over \/ changed
             q == [me EXCEPT !.mail = Tail(me.mail), !.pc = pc, !.told = told]
  <1>1. me \in ConnState /\ Fine(me, bgp) /\ me.mail # <<>>
           /\ me.pc \in {"open", "up"}
    BY Zenon DEF ConfigInv, Heard, Handled
  <1>2. peer' = [peer EXCEPT ![c] = q] /\ bgp' = bgp
    BY Zenon DEF Heard
  <1>3. me.mail \in Seq(UnitConfigs) /\ Tail(me.mail) \in Seq(UnitConfigs)
    BY <1>1 DEF ConnState
  <1>4. told \in BOOLEAN /\ pc \in {"none", "open", "up", "gone"}
    BY <1>1, Zenon DEF ConnState
  <1> HIDE DEF told, pc
  <1>5. q \in ConnState /\ q.pc = pc /\ q.asn = me.asn /\ q.own = me.own
           /\ q.key = me.key /\ q.addr = me.addr /\ q.cut = me.cut
           /\ q.told = told /\ q.mail = Tail(me.mail) /\ q.missed = me.missed
    BY <1>1, <1>3, <1>4, Zenon DEF ConnState
  <1> HIDE DEF q
  <1>6. /\ Tail(me.mail) # <<>> => Tail(me.mail)[Len(Tail(me.mail))] = me.mail[Len(me.mail)]
        /\ Tail(me.mail) = <<>> => new = me.mail[Len(me.mail)]
    BY <1>1, <1>3, SMT, Z3
  <1>7. pc \in {"open", "up"} /\ ~told => Fits(q, new)
    BY <1>5, Zenon DEF pc, told, Fits
  <1>8. Fine(q, bgp)
    <2> SUFFICES ASSUME q.pc \in {"open", "up"} PROVE Fine(q, bgp)
      BY Zenon DEF Fine
    <2>1. pc = me.pc
      BY <1>5, Zenon DEF pc
    <2>2. Contains(q.key, q.addr) /\ (q.pc = "up" => AsnAllowed(q.own.peers[q.key], q.asn))
      BY <1>1, <1>5, <2>1, Zenon DEF Fine
    <2>3. ASSUME ~q.cut, ~q.told, ~q.missed
          PROVE  IF q.mail = <<>> THEN Fits(q, bgp) ELSE q.mail[Len(q.mail)] = bgp
      <3>1. ~me.cut /\ ~me.told /\ ~me.missed
        BY <1>5, <2>3, Zenon DEF told
      <3>2. me.mail[Len(me.mail)] = bgp
        BY <1>1, <3>1, Zenon DEF Fine
      <3> QED
        BY <1>5, <1>6, <1>7, <2>3, <3>2, Zenon
    <2> QED
      BY <2>2, <2>3, Zenon DEF Fine
  <1> QED
    BY <1>2, <1>5, <1>8, OneConn, Zenon

LEMMA StepReload ==
    ASSUME ConfigInv, NEW new \in UnitConfigs, ReloadUnit(new)
    PROVE  ConfigInv'
  <1> SUFFICES ASSUME NEW c \in Conns
               PROVE  peer'[c] \in ConnState /\ Fine(peer'[c], new)
    <2>1. bgp' = new /\ DOMAIN peer' = Conns /\ peer' = [c \in Conns |-> peer'[c]]
      BY Zenon DEF ReloadUnit
    <2> QED
      BY <2>1 DEF ConfigInv
  <1> DEFINE me == peer[c]
  <1>1. me \in ConnState /\ Fine(me, bgp)
    BY DEF ConfigInv
  <1> DEFINE room == Len(me.mail) < CloneQueueLen
  <1>2. CASE me.attached /\ room
    <2> DEFINE mail == Append(me.mail, new)
               q == [me EXCEPT !.mail = mail, !.missed = FALSE]
    <2>1. mail \in Seq(UnitConfigs) /\ mail # <<>> /\ mail[Len(mail)] = new
      BY <1>1 DEF ConnState
    <2> HIDE DEF mail
    <2>2. q \in ConnState /\ q.pc = me.pc /\ q.asn = me.asn /\ q.own = me.own
             /\ q.key = me.key /\ q.addr = me.addr /\ q.cut = me.cut
             /\ q.told = me.told /\ q.mail = mail
      BY <1>1, <2>1, Zenon DEF ConnState
    <2>3. peer'[c] = q
      BY <1>2, Zenon DEF ReloadUnit, Notified, mail
    <2> HIDE DEF q
    <2> QED
      BY <1>1, <2>1, <2>2, <2>3, Zenon DEF Fine
  <1>4. CASE me.attached /\ ~room
    <2> DEFINE q == [me EXCEPT !.missed = TRUE]
    <2>1. q \in ConnState /\ q.pc = me.pc /\ q.asn = me.asn /\ q.own = me.own
             /\ q.key = me.key /\ q.addr = me.addr /\ q.missed
      BY <1>1, Zenon DEF ConnState
    <2>2. peer'[c] = q
      BY <1>4, Zenon DEF ReloadUnit, Notified
    <2> HIDE DEF q
    <2> QED
      BY <1>1, <2>1, <2>2, Zenon DEF Fine
  <1>3. CASE ~me.attached
    <2> DEFINE cut == me.pc \in {"open", "up"}
               q == [me EXCEPT !.cut = cut]
    <2>1. cut \in BOOLEAN
      OBVIOUS
    <2> HIDE DEF cut
    <2>2. q \in ConnState /\ q.pc = me.pc /\ q.asn = me.asn /\ q.own = me.own
             /\ q.key = me.key /\ q.addr = me.addr /\ q.cut = cut
             /\ q.told = me.told
      BY <1>1, <2>1, Zenon DEF ConnState
    <2>3. peer'[c] = q
      BY <1>3, Zenon DEF ReloadUnit, cut
    <2> HIDE DEF q
    <2> QED
      BY <1>1, <2>2, <2>3, Zenon DEF Fine, cut
  <1> QED
    BY <1>2, <1>3, <1>4, Zenon

LEMMA StepTerminate ==
    ASSUME ConfigInv, TerminateUnit
    PROVE  ConfigInv'
  <1> SUFFICES ASSUME NEW c \in Conns
               PROVE  peer'[c] \in ConnState /\ Fine(peer'[c], bgp)
    <2>1. bgp' = bgp /\ DOMAIN peer' = Conns /\ peer' = [c \in Conns |-> peer'[c]]
      BY DEF TerminateUnit
    <2> QED
      BY <2>1 DEF ConfigInv
  <1> DEFINE me == peer[c]
             cut == me.pc \in {"open", "up"}
             q == [me EXCEPT !.cut = cut]
  <1>1. me \in ConnState /\ Fine(me, bgp) /\ cut \in BOOLEAN
    BY DEF ConfigInv
  <1> HIDE DEF cut
  <1>2. q \in ConnState /\ q.pc = me.pc /\ q.asn = me.asn /\ q.own = me.own
           /\ q.key = me.key /\ q.addr = me.addr /\ q.cut = cut
    BY <1>1 DEF ConnState
  <1>3. peer'[c] = q
    BY DEF TerminateUnit, cut
  <1> HIDE DEF q
  <1> QED
    BY <1>1, <1>2, <1>3, Zenon DEF Fine, cut

LEMMA NextConfig == ConfigInv /\ [ConfigNext]_configVars => ConfigInv'
  <1> SUFFICES ASSUME ConfigInv, [ConfigNext]_configVars PROVE ConfigInv'
    OBVIOUS
  <1>1. CASE UNCHANGED <<bgp, peer>>
    BY <1>1 DEF ConfigInv
  <1> QED
    BY <1>1, StepAccept, StepOpen, StepEnd, StepHeard, StepReload, StepTerminate, Zenon
    DEF ConfigNext, configVars, BindListener, AcceptFails, Listens

\* router_handler.rs:237-300, for any number of reloads and connections.
THEOREM SessionsStayConfigured == ConfigSpec => []SessionsConfigured
  <1>1. ConfigInv => SessionsConfigured
    <2> SUFFICES ASSUME ConfigInv, NEW c \in Conns, peer[c].pc = "up",
                        peer[c].mail = <<>>, ~peer[c].missed,
                        ~peer[c].told, ~peer[c].cut
                 PROVE  /\ Contains(peer[c].key, peer[c].addr)
                        /\ Fits(peer[c], bgp)
                        /\ AsnAllowed(bgp.peers[peer[c].key], peer[c].asn)
      BY Zenon DEF SessionsConfigured, Fits, SamePeer
    <2>1. /\ Contains(peer[c].key, peer[c].addr)
          /\ AsnAllowed(peer[c].own.peers[peer[c].key], peer[c].asn)
          /\ Fits(peer[c], bgp)
      BY Zenon DEF ConfigInv, Fine
    <2> QED
      BY <2>1, Zenon DEF Fits, SamePeer, AsnAllowed
  <1> QED
    BY <1>1, InitConfig, NextConfig, PTL DEF ConfigSpec
=============================================================================
