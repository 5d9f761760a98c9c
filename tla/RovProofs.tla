----------------------------- MODULE RovProofs ------------------------------
(***************************************************************************)
(* Proofs about Rov and BmpMachine.                                        *)
(***************************************************************************)
EXTENDS Rov, BmpMachine, TLAPS

(***************************************************************************)
(* Rov, for any VRPs, prefixes, origins and number of updates, insertions  *)
(* and changes of the server: the maximum lengths cached are those of the  *)
(* server as last told, and, with the VRP filter, a record that nothing is *)
(* about to look at again has the status its VRPs give it.                 *)
(*                                                                         *)
(* The invariant says, for each step of an update, a walk and an           *)
(* insertion, which records may still be out of date: those in hand, those *)
(* still to be visited, and those an older write put back.                 *)
(***************************************************************************)

RovRecords == [origin : Asns \cup {0}, rov : Statuses, active : BOOLEAN]
Verbs == {"Announce", "Withdraw"} \X Vrps
UpdStates == [kind : {"none", "Full", "Delta"}, verbs : SUBSET Verbs,
            step : {"verb", "filter", "match", "write"},
            at : Prefixes \cup {0}, recs : SUBSET (Prefixes \X RovRecords)]
Walks == [left : SUBSET Prefixes, at : Prefixes \cup {0}, rec : RovRecords,
          checked : BOOLEAN]

Jobs == [prefix : Prefixes, rec : RovRecords]

RovTypes ==
    /\ server \subseteq Vrps /\ synced \subseteq Vrps
    /\ fulls \in 0 .. MaxFull
    /\ upd \in UpdStates
    /\ held \subseteq Keys /\ maxlens \in [Keys -> [Prefixes -> Nat]]
    /\ rib \in [Prefixes -> RovRecords]
    /\ job \in {NoJob} \cup Jobs
    /\ walk \in [Fulls -> Walks]

\* What check_rov says, without the order in which it looks.
Holds(h, ml, p, k) ==
    k \in h /\ k[1] <= p /\ \E m \in Prefixes : ml[k][m] > 0
Verdict(h, ml, p, a) ==
    IF \E k \in h : k[1] <= p /\ k[2] = a
                    /\ \E m \in Prefixes : ml[k][m] > 0 /\ p <= m
    THEN "Valid"
    ELSE IF \E k \in h : Holds(h, ml, p, k) THEN "Invalid" ELSE "NotFound"

LEMMA CheckRovIs ==
    ASSUME NEW p \in Prefixes, NEW a
    PROVE  CheckRov(p, a) = Verdict(held, maxlens, p, a)
<1>1. Longest(p) \cup LessSpecifics(p) = Stored(p)
  BY DEF Longest, LessSpecifics
<1>2. (Matches(Longest(p), p, a) \/ Matches(LessSpecifics(p), p, a))
        <=> Matches(Stored(p), p, a)
  BY <1>1 DEF Matches
<1>3. (NotEmpty(Longest(p)) \/ NotEmpty(LessSpecifics(p)))
        <=> NotEmpty(Stored(p))
  BY <1>1 DEF NotEmpty
<1>4. Matches(Stored(p), p, a)
        <=> \E k \in held : k[1] <= p /\ k[2] = a
                    /\ \E m \in Prefixes : maxlens[k][m] > 0 /\ p <= m
  BY DEF Matches, Stored, List
<1>5. NotEmpty(Stored(p)) <=> \E k \in held : Holds(held, maxlens, p, k)
  BY DEF NotEmpty, Stored, List, Holds
<1> QED  BY <1>2, <1>3, <1>4, <1>5, Zenon DEF CheckRov, Verdict

LEMMA CheckRovIsPrimed ==
    ASSUME NEW p \in Prefixes, NEW a
    PROVE  CheckRov(p, a)' = Verdict(held', maxlens', p, a)
<1>1. (Longest(p) \cup LessSpecifics(p) = Stored(p))'
  BY DEF Longest, LessSpecifics
<1>2. (Matches(Longest(p), p, a) \/ Matches(LessSpecifics(p), p, a))'
        <=> Matches(Stored(p), p, a)'
  BY <1>1 DEF Matches
<1>3. (NotEmpty(Longest(p)) \/ NotEmpty(LessSpecifics(p)))'
        <=> NotEmpty(Stored(p))'
  BY <1>1 DEF NotEmpty
<1>4. Matches(Stored(p), p, a)'
        <=> \E k \in held' : k[1] <= p /\ k[2] = a
                    /\ \E m \in Prefixes : maxlens'[k][m] > 0 /\ p <= m
  BY DEF Matches, Stored, List
<1>5. NotEmpty(Stored(p))' <=> \E k \in held' : Holds(held', maxlens', p, k)
  BY DEF NotEmpty, Stored, List, Holds
<1> QED  BY <1>2, <1>3, <1>4, <1>5, Zenon DEF CheckRov, Verdict

LEMMA CheckRovType ==
    ASSUME NEW p, NEW a
    PROVE  CheckRov(p, a) \in Statuses
BY DEF CheckRov, Statuses

LEMMA NoneTyped ==
    /\ NoRoute \in RovRecords /\ NoUpd \in UpdStates /\ IdleWalk \in Walks
BY DEF NoRoute, NoUpd, IdleWalk, RovRecords, UpdStates, Walks, Statuses

LEMMA RovTypesInit == RovInit => RovTypes
BY RovAssumption, NoneTyped DEF RovInit, RovTypes, Fulls, Keys

LEMMA ListsTyped ==
    ASSUME RovTypes, NEW v \in Vrps
    PROVE  /\ v.prefix \in Prefixes /\ v.maxlen \in Prefixes /\ v.asn \in Asns
           /\ <<v.prefix, v.asn>> \in Keys
           /\ {OldList(v), Pushed(v), Removed(v)} \subseteq [Prefixes -> Nat]
<1>1. v.prefix \in Prefixes /\ v.maxlen \in Prefixes /\ v.asn \in Asns
      /\ <<v.prefix, v.asn>> \in Keys
  BY RovAssumption DEF Keys
<1>2. OldList(v) \in [Prefixes -> Nat]
  BY <1>1 DEF RovTypes, OldList
<1>3. OldList(v)[v.maxlen] \in Nat
  BY <1>1, <1>2
<1> DEFINE q == OldList(v)[v.maxlen] + 1
           r == IF OldList(v)[v.maxlen] > 0 THEN OldList(v)[v.maxlen] - 1 ELSE 0
<1>5. q \in Nat /\ r \in Nat
  BY <1>3
<1>6. /\ Pushed(v) = [OldList(v) EXCEPT ![v.maxlen] = q]
      /\ Removed(v) = [OldList(v) EXCEPT ![v.maxlen] = r]
  BY DEF Pushed, Removed
<1> HIDE DEF q, r
<1>7. Pushed(v) \in [Prefixes -> Nat] /\ Removed(v) \in [Prefixes -> Nat]
  BY <1>2, <1>5, <1>6, Zenon
<1> QED  BY <1>1, <1>2, <1>7

LEMMA RovTypesNext == RovTypes /\ [RovNext]_rovVars => RovTypes'
<1> SUFFICES ASSUME RovTypes, [RovNext]_rovVars PROVE RovTypes'
  OBVIOUS
<1> USE RovAssumption
<1>1. ASSUME NEW v \in Vrps, ServerChanges(v) PROVE RovTypes'
  BY <1>1, Zenon DEF ServerChanges, RovTypes, cacheVars, ribVars
<1>2. CASE RtrConnect \/ RetryWait \/ UpdateFails
  BY <1>2, Zenon DEF RtrConnect, RetryWait, UpdateFails, RovTypes, cacheVars, ribVars
<1>3. CASE FetchFull
  <2>1. upd' \in UpdStates
    BY <1>3, NoneTyped, Zenon DEF FetchFull, RovTypes, ResetVerbs, UpdStates, Verbs, NoUpd
  <2> QED  BY <1>3, <2>1 DEF FetchFull, RovTypes, ribVars
<1>4. CASE FetchDelta
  <2>1. upd' \in UpdStates
    BY <1>4, NoneTyped, ZenonT(30) DEF FetchDelta, RovTypes, SerialVerbs, UpdStates, Verbs, NoUpd
  <2> QED  BY <1>4, <2>1, Zenon DEF FetchDelta, RovTypes, ribVars
<1>5. CASE RtrTerminate
  BY <1>5, NoneTyped, Zenon DEF RtrTerminate, RovTypes, ribVars
<1>6. ASSUME NEW x \in upd.verbs, FullVerb(x) PROVE RovTypes'
  <2>1. x \in Verbs /\ x[2] \in Vrps /\ <<x[2].prefix, x[2].asn>> \in Keys
    BY DEF RovTypes, UpdStates, Verbs, Keys
  <2>2. upd' \in UpdStates
    BY <1>6, SMT, Z3 DEF FullVerb, RovTypes, UpdStates
  <2>3. held' \subseteq Keys /\ maxlens' \in [Keys -> [Prefixes -> Nat]]
    BY <1>6, <2>1, ListsTyped, Zenon DEF FullVerb, PutList, RovTypes
  <2> QED  BY <1>6, <2>2, <2>3, Zenon DEF FullVerb, RovTypes, ribVars, rtrVars
<1>7. ASSUME NEW x \in upd.verbs, DeltaStore(x) PROVE RovTypes'
  <2>1. x \in Verbs /\ x[2] \in Vrps /\ <<x[2].prefix, x[2].asn>> \in Keys
    BY DEF RovTypes, UpdStates, Verbs, Keys
  <2>2. upd' \in UpdStates
    BY <1>7, <2>1, Zenon DEF DeltaStore, RovTypes, UpdStates
  <2>3. held' \subseteq Keys
    BY <1>7, <2>1, Zenon DEF DeltaStore, PutList, RovTypes
  <2>4. maxlens' \in [Keys -> [Prefixes -> Nat]]
    <3>1. PICK list \in {OldList(x[2]), Pushed(x[2]), Removed(x[2])} : PutList(x[2], list)
      BY <1>7 DEF DeltaStore
    <3>2. list \in [Prefixes -> Nat]
      BY <2>1, ListsTyped, Zenon
    <3> QED  BY <3>1, <3>2, <2>1, Zenon DEF PutList, RovTypes
  <2> QED  BY <1>7, <2>2, <2>3, <2>4, Zenon DEF DeltaStore, RovTypes, ribVars, rtrVars
<1>8. CASE FullDone
  <2>1. walk' \in [Fulls -> Walks]
    BY <1>8, ZenonT(30) DEF FullDone, RovTypes, Walks, Fulls
  <2> QED  BY <1>8, <2>1, NoneTyped, Zenon DEF FullDone, RovTypes, rtrVars
<1>9. CASE DeltaFilter \/ DeltaReject \/ DeltaNext \/ DeltaDone
  <2>1. upd' \in UpdStates
    BY <1>9, NoneTyped, ZenonT(30) DEF DeltaFilter, DeltaReject, DeltaNext,
       DeltaDone, RovTypes, UpdStates
  <2> QED
    BY <1>9, <2>1, Zenon
    DEF DeltaFilter, DeltaReject, DeltaNext, DeltaDone, RovTypes, ribVars, rtrVars
<1>10. CASE DeltaMatch
  <2>1. upd' \in UpdStates
    <3>1. MatchPrefix(upd.at) \subseteq Prefixes \X RovRecords
      <4> SUFFICES ASSUME NEW y \in MatchPrefix(upd.at)
                   PROVE  y \in Prefixes \X RovRecords
        OBVIOUS
      <4>1. PICK q \in Prefixes : y = <<q, rib[q]>>
        BY DEF MatchPrefix
      <4> QED  BY <4>1 DEF RovTypes
    <3> QED  BY <1>10, <3>1, Zenon DEF DeltaMatch, RovTypes, UpdStates
  <2> QED  BY <1>10, <2>1, Zenon DEF DeltaMatch, RovTypes, ribVars, rtrVars
<1>11. ASSUME NEW x \in upd.recs, DeltaWrite(x) PROVE RovTypes'
  <2>1. x[1] \in Prefixes /\ x[2] \in RovRecords
    BY DEF RovTypes, UpdStates
  <2>2. Checked(x[1], x[2]) \in RovRecords
    BY <2>1, CheckRovType DEF Checked, RovRecords
  <2>3. upd' \in UpdStates
    BY <1>11, Zenon DEF DeltaWrite, RovTypes, UpdStates
  <2> QED  BY <1>11, <2>1, <2>2, <2>3, Zenon DEF DeltaWrite, RovTypes, rtrVars
<1>12. ASSUME NEW n \in Fulls, NEW p \in Prefixes, WalkRead(n, p) PROVE RovTypes'
  <2>1. walk' \in [Fulls -> Walks]
    <3> DEFINE stop == IF rib[p] = NoRoute THEN 0 ELSE p
    <3>1. rib[p] \in RovRecords /\ stop \in Prefixes \cup {0} /\ walk[n] \in Walks
      BY DEF RovTypes
    <3>2. walk'[n] = [left |-> walk[n].left \ {p}, at |-> stop, rec |-> rib[p],
                      checked |-> walk[n].checked]
      BY <1>12, <3>1, Zenon DEF WalkRead, RovTypes, Walks
    <3>3. walk'[n] \in Walks
      BY <3>1, <3>2 DEF Walks
    <3> QED  BY <1>12, <3>3, Zenon DEF WalkRead, RovTypes
  <2> QED  BY <1>12, <2>1, Zenon DEF WalkRead, RovTypes, rtrVars, cacheVars
<1>13. ASSUME NEW n \in Fulls, WalkCheck(n) PROVE RovTypes'
  <2>1. Checked(walk[n].at, walk[n].rec) \in RovRecords
    BY CheckRovType DEF Checked, RovRecords, RovTypes, Walks
  <2>2. walk' \in [Fulls -> Walks]
    BY <1>13, <2>1, ZenonT(30) DEF WalkCheck, RovTypes, Walks
  <2> QED  BY <1>13, <2>2, Zenon DEF WalkCheck, RovTypes, rtrVars, cacheVars
<1>14. ASSUME NEW n \in Fulls, WalkStore(n) PROVE RovTypes'
  <2>1. walk' \in [Fulls -> Walks]
    BY <1>14, NoneTyped, Zenon DEF WalkStore, RovTypes, Walks
  <2>2. rib' \in [Prefixes -> RovRecords]
    BY <1>14, Zenon DEF WalkStore, RovTypes, Walks
  <2> QED  BY <1>14, <2>1, <2>2, Zenon DEF WalkStore, RovTypes, rtrVars, cacheVars
<1>15. ASSUME NEW p \in Prefixes, NEW a \in Asns, FilterPayload(p, a) PROVE RovTypes'
  <2>1. job' \in Jobs
    BY <1>15, CheckRovType, NoneTyped, Zenon DEF FilterPayload, Checked, RovRecords, Jobs
  <2> QED  BY <1>15, <2>1, Zenon DEF FilterPayload, RovTypes, rtrVars, cacheVars
<1>16. ASSUME NEW p \in Prefixes, FilterWithdrawal(p) PROVE RovTypes'
  <2>1. job' \in Jobs
    BY <1>16, Zenon DEF FilterWithdrawal, RovTypes, RovRecords, Jobs
  <2> QED  BY <1>16, <2>1, Zenon DEF FilterWithdrawal, RovTypes, rtrVars, cacheVars
<1>17. CASE InsertPayload
  <2>1. rib' \in [Prefixes -> RovRecords]
    BY <1>17, Zenon DEF InsertPayload, RovTypes, RovRecords, Jobs
  <2> QED  BY <1>17, <2>1, NoneTyped, Zenon DEF InsertPayload, RovTypes, rtrVars, cacheVars
<1>18. CASE UNCHANGED rovVars
  BY <1>18, Zenon DEF RovTypes, rovVars, rtrVars, cacheVars, ribVars
<1> QED
  BY <1>1, <1>2, <1>3, <1>4, <1>5, <1>6, <1>7, <1>8, <1>9, <1>10, <1>11, <1>12,
     <1>13, <1>14, <1>15, <1>16, <1>17, <1>18, Zenon DEF RovNext

\* What an update may look like at each point of process_update.
UpdShape ==
    /\ upd.kind = "none" => upd = NoUpd
    /\ upd.kind = "Full" => fulls >= 1 /\ \A x \in upd.verbs : x[1] = "Announce"
    /\ upd.step # "verb" => upd.kind = "Delta"
    /\ upd.step # "write" => upd.recs = {}
    /\ \A v \in Vrps : <<"Announce", v>> \in upd.verbs => v \in synced
    /\ \A v \in Vrps : <<"Withdraw", v>> \in upd.verbs => v \notin synced

AllVrps == [prefix : Prefixes, maxlen : Prefixes, asn : Asns]
Copies(v) == maxlens[<<v.prefix, v.asn>>][v.maxlen]

\* The lists of the cache against the VRPs of the last update, an update under
\* way counted as far as it has come; before a second reset exactly.
CacheInv ==
    /\ rtr = "ended" => upd = NoUpd
    /\ fulls = 0 => /\ fresh /\ synced = {} /\ upd = NoUpd
                    /\ \A v \in AllVrps : Copies(v) = 0
    /\ \A v \in AllVrps : Copies(v) > 0 => <<v.prefix, v.asn>> \in held
    /\ rtr # "ended" =>
         /\ \A v \in synced : <<"Announce", v>> \notin upd.verbs => Copies(v) > 0
         /\ fulls <= 1 => \A v \in AllVrps :
              /\ Copies(v) <= 1
              /\ Copies(v) > 0 => v \in synced \/ <<"Withdraw", v>> \in upd.verbs
              /\ upd.kind = "Full" /\ <<"Announce", v>> \in upd.verbs => Copies(v) = 0

\* A route whose status will be looked at once more.
Pending(p) ==
    \/ upd.kind = "Full"
    \/ \E n \in Fulls : p \in walk[n].left \/ walk[n].at = p
    \/ upd.step \in {"filter", "match"} /\ upd.at <= p
    \/ \E x \in upd.recs : x[1] = p
Valid(p, rec) == rec.active => rec.rov = CheckRov(p, rec.origin)

WalkShape ==
    \A n \in Fulls : walk[n].at = 0 => walk[n].rec = NoRoute /\ ~walk[n].checked

StatusInv ==
    ~excused =>
      /\ \A p \in Prefixes : Valid(p, rib[p]) \/ Pending(p)
      /\ job # NoJob => \/ Valid(job.prefix, job.rec) \/ upd.kind = "Full"
                        \/ upd.step = "filter" /\ upd.at <= job.prefix
      /\ \A n \in Fulls :
            walk[n].checked => Valid(walk[n].at, walk[n].rec) \/ upd.kind = "Full"
      /\ upd.step # "verb" => \A n \in Fulls : walk[n] = IdleWalk

ContentInv ==
    ~lost => /\ \A p \in Prefixes : Content(rib[p]) = last[p]
             /\ DOMAIN last = Prefixes
             /\ \A x \in upd.recs : Content(x[2]) = last[x[1]]
             /\ \A n \in Fulls :
                   walk[n].at # 0 => Content(walk[n].rec) = last[walk[n].at]

LEMMA NoneIs ==
    /\ NoUpd.kind = "none" /\ NoUpd.verbs = {} /\ NoUpd.step = "verb"
    /\ NoUpd.at = 0 /\ NoUpd.recs = {}
    /\ IdleWalk.left = {} /\ IdleWalk.at = 0 /\ IdleWalk.rec = NoRoute
    /\ IdleWalk.checked = FALSE
    /\ NoRoute.active = FALSE /\ NoJob.prefix = 0
BY Zenon DEF NoUpd, IdleWalk, NoRoute, NoJob

LEMMA UpdShapeNext == RovTypes /\ UpdShape /\ [RovNext]_rovVars => UpdShape'
<1> SUFFICES ASSUME RovTypes, UpdShape, [RovNext]_rovVars PROVE UpdShape'
  OBVIOUS
<1> USE RovAssumption
<1>1. CASE UNCHANGED <<upd, synced, fulls>>
  BY <1>1, Zenon DEF UpdShape
<1>2. CASE FetchFull
  <2>1. /\ upd'.kind = "Full" /\ upd'.verbs = ResetVerbs /\ upd'.step = "verb"
        /\ upd'.recs = {} /\ synced' = server /\ fulls' >= 1
    BY <1>2 DEF FetchFull, NoUpd, RovTypes
  <2> QED  BY <2>1, Zenon DEF UpdShape, ResetVerbs
<1>3. CASE FetchDelta
  <2>1. /\ upd'.kind = "Delta" /\ upd'.verbs = SerialVerbs /\ upd'.step = "verb"
        /\ upd'.recs = {} /\ synced' = server
    BY <1>3, Zenon DEF FetchDelta, NoUpd, RovTypes
  <2> QED  BY <2>1, Zenon DEF UpdShape, SerialVerbs
<1>4. CASE RtrTerminate \/ FullDone \/ DeltaDone
  BY <1>4, NoneIs, Zenon DEF RtrTerminate, FullDone, DeltaDone, UpdShape
<1>5. ASSUME NEW x \in upd.verbs, FullVerb(x) PROVE UpdShape'
  BY <1>5, Zenon DEF FullVerb, UpdShape, RovTypes, UpdStates, rtrVars
<1>6. ASSUME NEW x \in upd.verbs, DeltaStore(x) PROVE UpdShape'
  BY <1>6, Zenon DEF DeltaStore, UpdShape, RovTypes, UpdStates, rtrVars
<1>7. CASE DeltaFilter \/ DeltaReject \/ DeltaMatch \/ DeltaNext
  BY <1>7, Zenon DEF DeltaFilter, DeltaReject, DeltaMatch, DeltaNext, UpdShape, RovTypes,
              UpdStates, rtrVars
<1>8. ASSUME NEW x \in upd.recs, DeltaWrite(x) PROVE UpdShape'
  BY <1>8, Zenon DEF DeltaWrite, UpdShape, RovTypes, UpdStates, rtrVars
<1>9. CASE \/ \E v \in Vrps : ServerChanges(v)
           \/ RtrConnect \/ RetryWait \/ UpdateFails
           \/ \E n \in Fulls : WalkCheck(n) \/ WalkStore(n)
                               \/ \E p \in Prefixes : WalkRead(n, p)
           \/ \E p \in Prefixes : FilterWithdrawal(p)
                                  \/ \E a \in Asns : FilterPayload(p, a)
           \/ InsertPayload
           \/ UNCHANGED rovVars
  <2>1. UNCHANGED <<upd, synced, fulls>>
    BY <1>9, Zenon DEF ServerChanges, RtrConnect, RetryWait, UpdateFails, WalkCheck,
                WalkStore, WalkRead, FilterWithdrawal, FilterPayload,
                InsertPayload, rovVars, cacheVars, rtrVars
  <2> QED  BY <1>1, <2>1
<1> QED
  BY <1>2, <1>3, <1>4, <1>5, <1>6, <1>7, <1>8, <1>9, Zenon DEF RovNext

LEMMA WalkShapeNext == RovTypes /\ WalkShape /\ [RovNext]_rovVars => WalkShape'
<1> SUFFICES ASSUME RovTypes, WalkShape, [RovNext]_rovVars PROVE WalkShape'
  OBVIOUS
<1> USE RovAssumption
<1>1. CASE FullDone
  BY <1>1 DEF FullDone, WalkShape, RovTypes, Walks
<1>2. ASSUME NEW n \in Fulls, NEW p \in Prefixes, WalkRead(n, p) PROVE WalkShape'
  <2>1. walk[n] \in Walks /\ walk[n].at = 0 /\ ~walk[n].checked
    BY <1>2, Zenon DEF WalkRead, WalkShape, RovTypes
  <2>2. /\ walk'[n].at = IF rib[p] = NoRoute THEN 0 ELSE p
        /\ walk'[n].rec = rib[p] /\ walk'[n].checked = walk[n].checked
        /\ \A m \in Fulls : m # n => walk'[m] = walk[m]
    BY <1>2, <2>1, Zenon DEF WalkRead, RovTypes, Walks
  <2> QED  BY <2>1, <2>2 DEF WalkShape
<1>3. ASSUME NEW n \in Fulls, WalkCheck(n) PROVE WalkShape'
  <2>1. walk \in [Fulls -> Walks]
    BY Zenon DEF RovTypes
  <2>2. walk'[n].at = walk[n].at /\ walk[n].at # 0
    BY <1>3, <2>1, Zenon DEF WalkCheck, Walks
  <2>3. \A m \in Fulls : m # n => walk'[m] = walk[m]
    BY <1>3, <2>1, Zenon DEF WalkCheck
  <2> QED  BY <2>2, <2>3, Zenon DEF WalkShape
<1>4. ASSUME NEW n \in Fulls, WalkStore(n) PROVE WalkShape'
  <2>1. /\ walk'[n] = [IdleWalk EXCEPT !.left = walk[n].left]
        /\ \A m \in Fulls : m # n => walk'[m] = walk[m]
    BY <1>4 DEF WalkStore, RovTypes, Walks
  <2>2. walk'[n].at = 0 /\ walk'[n].rec = NoRoute /\ walk'[n].checked = FALSE
    BY <2>1 DEF IdleWalk
  <2> QED  BY <2>1, <2>2, Zenon DEF WalkShape
<1>5. CASE UNCHANGED walk
  BY <1>5 DEF WalkShape
<1>6. CASE ~ \/ FullDone
             \/ \E n \in Fulls : WalkCheck(n) \/ WalkStore(n)
                               \/ \E p \in Prefixes : WalkRead(n, p)
  <2>1. UNCHANGED walk
    BY <1>6, Zenon DEF RovNext, ServerChanges, RtrConnect, RetryWait, UpdateFails, FetchFull,
                FetchDelta, RtrTerminate, FullVerb, DeltaStore, DeltaFilter,
                DeltaReject, DeltaMatch, DeltaWrite, DeltaNext, DeltaDone,
                FilterWithdrawal, FilterPayload, InsertPayload, rovVars, ribVars
  <2> QED  BY <1>5, <2>1
<1> QED  BY <1>1, <1>2, <1>3, <1>4, <1>6, Zenon

LEMMA CopiesPushed ==
    ASSUME RovTypes, NEW v \in Vrps, PutList(v, Pushed(v)), NEW w \in AllVrps
    PROVE  Copies(w)' = IF w = v THEN Copies(v) + 1 ELSE Copies(w)
<1>1. /\ v.prefix \in Prefixes /\ v.maxlen \in Prefixes /\ v.asn \in Asns
      /\ <<v.prefix, v.asn>> \in Keys /\ <<w.prefix, w.asn>> \in Keys
      /\ v \in AllVrps /\ w.maxlen \in Prefixes
  BY RovAssumption DEF Keys, AllVrps
<1>2. OldList(v) \in [Prefixes -> Nat] /\ Pushed(v) \in [Prefixes -> Nat]
  BY ListsTyped, Zenon
<1>3. Copies(w)' = IF <<w.prefix, w.asn>> = <<v.prefix, v.asn>>
                   THEN Pushed(v)[w.maxlen] ELSE Copies(w)
  BY <1>1, Zenon DEF PutList, Copies, RovTypes
<1>4. Pushed(v)[w.maxlen] = IF w.maxlen = v.maxlen THEN OldList(v)[v.maxlen] + 1
                            ELSE OldList(v)[w.maxlen]
  BY <1>1, <1>2, Zenon DEF Pushed
<1>5. w = v <=> <<w.prefix, w.asn>> = <<v.prefix, v.asn>> /\ w.maxlen = v.maxlen
  BY <1>1 DEF AllVrps
<1> QED  BY <1>3, <1>4, <1>5, Zenon DEF Copies, OldList

LEMMA CopiesRemoved ==
    ASSUME RovTypes, NEW v \in Vrps, PutList(v, Removed(v)), NEW w \in AllVrps
    PROVE  Copies(w)' = IF w = v THEN (IF Copies(v) > 0 THEN Copies(v) - 1 ELSE 0)
                        ELSE Copies(w)
<1>1. /\ v.prefix \in Prefixes /\ v.maxlen \in Prefixes /\ v.asn \in Asns
      /\ <<v.prefix, v.asn>> \in Keys /\ <<w.prefix, w.asn>> \in Keys
      /\ v \in AllVrps /\ w.maxlen \in Prefixes
  BY RovAssumption DEF Keys, AllVrps
<1>2. OldList(v) \in [Prefixes -> Nat] /\ Removed(v) \in [Prefixes -> Nat]
  BY ListsTyped, Zenon
<1>3. Copies(w)' = IF <<w.prefix, w.asn>> = <<v.prefix, v.asn>>
                   THEN Removed(v)[w.maxlen] ELSE Copies(w)
  BY <1>1, Zenon DEF PutList, Copies, RovTypes
<1>4. Removed(v)[w.maxlen] =
        IF w.maxlen = v.maxlen
        THEN (IF OldList(v)[v.maxlen] > 0 THEN OldList(v)[v.maxlen] - 1 ELSE 0)
        ELSE OldList(v)[w.maxlen]
  BY <1>1, <1>2, Zenon DEF Removed
<1>5. w = v <=> <<w.prefix, w.asn>> = <<v.prefix, v.asn>> /\ w.maxlen = v.maxlen
  BY <1>1 DEF AllVrps
<1> QED  BY <1>3, <1>4, <1>5, Zenon DEF Copies, OldList

LEMMA CopiesKept ==
    ASSUME RovTypes, NEW v \in Vrps, PutList(v, OldList(v))
    PROVE  maxlens' = maxlens
<1>1. <<v.prefix, v.asn>> \in Keys
  BY RovAssumption DEF Keys
<1> QED  BY <1>1 DEF PutList, OldList, RovTypes

LEMMA CacheInvNext ==
    RovTypes /\ UpdShape /\ CacheInv /\ [RovNext]_rovVars => CacheInv'
<1> SUFFICES ASSUME RovTypes, UpdShape, CacheInv, [RovNext]_rovVars PROVE CacheInv'
  OBVIOUS
<1>0. ASSUME NEW v \in AllVrps PROVE Copies(v) \in Nat
  <2>1. <<v.prefix, v.asn>> \in Keys /\ v.maxlen \in Prefixes
    BY RovAssumption DEF AllVrps, Keys
  <2>2. maxlens[<<v.prefix, v.asn>>] \in [Prefixes -> Nat]
    BY <2>1, SMT, Z3 DEF RovTypes
  <2> QED  BY <2>1, <2>2, Zenon DEF Copies
<1>v. Vrps \subseteq AllVrps
  BY RovAssumption DEF AllVrps
<1>n. \A n \in Nat : n > 0 <=> n # 0
  OBVIOUS
<1>c. maxlens' = maxlens => \A v : Copies(v)' = Copies(v)
  BY Zenon DEF Copies
<1>1. CASE \E v \in Vrps : ServerChanges(v)
  <2>1. UNCHANGED <<held, maxlens, fulls, synced, upd, fresh, rtr>>
    BY <1>1, Zenon DEF ServerChanges, cacheVars
  <2> QED  BY <2>1, <1>c, Zenon DEF CacheInv
<1>2. CASE RtrConnect \/ RetryWait \/ UpdateFails
  <2>1. /\ UNCHANGED <<held, maxlens, fulls, synced, upd>>
        /\ rtr # "ended" /\ rtr' # "ended"
    BY <1>2, Zenon DEF RtrConnect, RetryWait, UpdateFails, cacheVars
  <2>2. fresh => fresh'
    BY <1>2, Zenon DEF RtrConnect, RetryWait, UpdateFails
  <2> QED  BY <2>1, <2>2, <1>c, Zenon DEF CacheInv
<1>3. CASE FetchFull
  <2>1. /\ upd'.kind = "Full" /\ upd'.verbs = ResetVerbs /\ synced' = server
        /\ fulls' = fulls + 1 /\ fulls \in Nat /\ upd = NoUpd
        /\ rtr # "ended" /\ rtr' = rtr /\ UNCHANGED <<held, maxlens>>
    BY <1>3 DEF FetchFull, NoUpd, RovTypes
  <2>2. \A v \in server : <<"Announce", v>> \in ResetVerbs
    BY DEF ResetVerbs
  <2>3. fulls' # 0 /\ (fulls' <= 1 => fulls = 0)
    BY <2>1
  <2>4. fulls' <= 1 => \A v \in AllVrps :
            /\ Copies(v)' <= 1 /\ ~(Copies(v)' > 0) /\ Copies(v)' = 0
    <3> SUFFICES ASSUME fulls' <= 1, NEW v \in AllVrps PROVE Copies(v)' = 0
      OBVIOUS
    <3> QED  BY <2>1, <2>3, <1>c, Zenon DEF CacheInv
  <2> QED  BY <2>1, <2>2, <2>3, <2>4, <1>c, Zenon DEF CacheInv
<1>4. CASE FetchDelta
  <2>1. /\ upd'.kind = "Delta" /\ upd'.verbs = SerialVerbs /\ synced' = server
        /\ fulls' = fulls /\ upd = NoUpd /\ ~fresh
        /\ rtr # "ended" /\ rtr' = rtr /\ UNCHANGED <<held, maxlens>>
    BY <1>4, Zenon DEF FetchDelta, NoUpd, RovTypes
  <2>2. fulls # 0 /\ upd.verbs = {}
    BY <2>1, NoneIs, Zenon DEF CacheInv
  <2>3. \A v \in server : v \notin synced => <<"Announce", v>> \in SerialVerbs
    BY DEF SerialVerbs
  <2>4. \A v \in synced : v \notin server => <<"Withdraw", v>> \in SerialVerbs
    BY DEF SerialVerbs
  <2> QED  BY <2>1, <2>2, <2>3, <2>4, <1>0, Zenon DEF CacheInv, Copies
<1>5. CASE RtrTerminate
  BY <1>5, <1>0, Zenon DEF RtrTerminate, CacheInv, Copies
<1>6. ASSUME NEW x \in upd.verbs, FullVerb(x) PROVE CacheInv'
  <2>1. x = <<"Announce", x[2]>> /\ x[2] \in Vrps /\ x[2] \in synced
    BY <1>6 DEF FullVerb, UpdShape, RovTypes, UpdStates, Verbs
  <2>2. /\ UNCHANGED <<fulls, synced, fresh, rtr>> /\ PutList(x[2], Pushed(x[2]))
        /\ upd'.verbs = upd.verbs \ {x} /\ upd'.kind = upd.kind
        /\ upd.kind = "Full" /\ upd # NoUpd /\ held' = held \cup {<<x[2].prefix, x[2].asn>>}
    BY <1>6, NoneIs, Zenon DEF FullVerb, PutList, rtrVars, RovTypes, UpdStates
  <2>3. \A w \in AllVrps : Copies(w)' = IF w = x[2] THEN Copies(x[2]) + 1 ELSE Copies(w)
    BY <2>1, <2>2, CopiesPushed, Zenon
  <2>4. fulls # 0 /\ rtr # "ended"
    BY <2>2, Zenon DEF CacheInv
  <2>5. synced \subseteq AllVrps
    BY <1>v DEF RovTypes
  <2>6. \A v \in AllVrps : Copies(v)' > 0 => <<v.prefix, v.asn>> \in held'
    BY <2>1, <2>2, <2>3, <1>0, Zenon DEF CacheInv
  <2>7. \A v \in synced : <<"Announce", v>> \notin upd'.verbs => Copies(v)' > 0
    <3> SUFFICES ASSUME NEW v \in synced, <<"Announce", v>> \notin upd'.verbs
                 PROVE  Copies(v)' > 0
      BY Zenon
    <3>0. x = <<"Announce", v>> => v = x[2]
      OBVIOUS
    <3>1. v \in AllVrps /\ Copies(v) \in Nat /\ (v = x[2] \/ Copies(v) > 0)
      BY <3>0, <2>2, <2>4, <2>5, <1>0, Zenon DEF CacheInv
    <3>2. Copies(v)' = Copies(v) + 1 \/ (Copies(v)' = Copies(v) /\ Copies(v) > 0)
      BY <2>3, <3>1, Zenon
    <3> QED  BY <3>1, <3>2
  <2>8. fulls <= 1 => \A v \in AllVrps :
              /\ Copies(v)' <= 1
              /\ Copies(v)' > 0 => v \in synced \/ <<"Withdraw", v>> \in upd'.verbs
              /\ upd'.kind = "Full" /\ <<"Announce", v>> \in upd'.verbs => Copies(v)' = 0
    <3> SUFFICES ASSUME fulls <= 1, NEW v \in AllVrps
                 PROVE  /\ Copies(v)' <= 1
                        /\ Copies(v)' > 0 => v \in synced \/ <<"Withdraw", v>> \in upd'.verbs
                        /\ <<"Announce", v>> \in upd'.verbs => Copies(v)' = 0
      BY Zenon
    <3>1. /\ Copies(v) <= 1 /\ Copies(v) \in Nat
          /\ Copies(v) > 0 => v \in synced \/ <<"Withdraw", v>> \in upd.verbs
          /\ <<"Announce", v>> \in upd.verbs => Copies(v) = 0
      BY <2>2, <2>4, <1>0, Zenon DEF CacheInv
    <3>2. <<"Withdraw", v>> # x /\ (<<"Announce", v>> = x <=> v = x[2])
      BY <2>1
    <3>3. CASE v = x[2]
      <4>1. Copies(v) = 0 /\ Copies(v)' = Copies(v) + 1
        BY <2>1, <2>3, <3>1, <3>3, Zenon
      <4>2. Copies(v)' <= 1
        BY <4>1
      <4> QED  BY <2>1, <2>2, <3>2, <3>3, <4>2, Zenon
    <3>4. CASE v # x[2]
      BY <2>2, <2>3, <3>1, <3>2, <3>4, Zenon
    <3> QED  BY <3>3, <3>4, Zenon
  <2> QED  BY <2>2, <2>4, <2>6, <2>7, <2>8, Zenon DEF CacheInv
<1>7. ASSUME NEW x \in upd.verbs, DeltaStore(x) PROVE CacheInv'
  <2>1. x[2] \in Vrps /\ x = <<x[1], x[2]>>
    BY DEF RovTypes, UpdStates, Verbs
  <2>2. /\ UNCHANGED <<fulls, synced, fresh, rtr>>
        /\ upd'.verbs = upd.verbs \ {x} /\ upd'.kind = "Delta" /\ upd # NoUpd
        /\ held' = held \cup {<<x[2].prefix, x[2].asn>>}
    BY <1>7, NoneIs, Zenon DEF DeltaStore, PutList, rtrVars, RovTypes, UpdStates
  <2>3. fulls # 0 /\ rtr # "ended"
    BY <2>2, Zenon DEF CacheInv
  <2>4. synced \subseteq AllVrps /\ x[2] \in AllVrps
    BY <1>v, <2>1, Zenon DEF RovTypes
  <2>5. CASE x[1] = "Announce"
    <3>1. x[2] \in synced
      BY <2>1, <2>5, Zenon DEF UpdShape
    <3>2. \/ Copies(x[2]) > 0 /\ PutList(x[2], OldList(x[2]))
          \/ ~(Copies(x[2]) > 0) /\ PutList(x[2], Pushed(x[2]))
      BY <1>7, <2>5, Zenon DEF DeltaStore, Copies, OldList
    <3>3. \A w \in AllVrps :
             Copies(w)' = IF w = x[2] /\ Copies(w) = 0 THEN 1 ELSE Copies(w)
      <4>1. CASE Copies(x[2]) > 0 /\ PutList(x[2], OldList(x[2]))
        <5>1. \A w \in AllVrps : Copies(w)' = Copies(w)
          BY <4>1, <2>1, CopiesKept, Zenon DEF Copies
        <5> QED  BY <4>1, <5>1
      <4>2. CASE ~(Copies(x[2]) > 0) /\ PutList(x[2], Pushed(x[2]))
        <5>1. Copies(x[2]) = 0
          BY <4>2, <2>4, <1>0, <1>n, Zenon
        <5>2. \A w \in AllVrps : Copies(w)' = IF w = x[2] THEN 0 + 1 ELSE Copies(w)
          BY <4>2, <5>1, <2>1, CopiesPushed, Zenon
        <5>3. 0 + 1 = 1
          OBVIOUS
        <5> QED  BY <5>1, <5>2, <5>3, Zenon
      <4> QED  BY <3>2, <4>1, <4>2, Zenon
    <3>6. \A v \in AllVrps : Copies(v)' > 0 => <<v.prefix, v.asn>> \in held'
      BY <2>2, <3>3, <1>0, Zenon DEF CacheInv
    <3>7. \A v \in synced : <<"Announce", v>> \notin upd'.verbs => Copies(v)' > 0
      <4> SUFFICES ASSUME NEW v \in synced, <<"Announce", v>> \notin upd'.verbs
                   PROVE  Copies(v)' > 0
        BY Zenon
      <4>0. x = <<"Announce", v>> => v = x[2]
        OBVIOUS
      <4>1. v \in AllVrps /\ Copies(v) \in Nat /\ (v = x[2] \/ Copies(v) > 0)
        BY <4>0, <2>2, <2>3, <2>4, <2>5, <1>0, Zenon DEF CacheInv
      <4>2. Copies(v)' = 1 \/ (Copies(v)' = Copies(v) /\ Copies(v) > 0)
        BY <3>3, <4>1, <1>n, Zenon
      <4> QED  BY <4>2
    <3>8. fulls <= 1 => \A v \in AllVrps :
              /\ Copies(v)' <= 1
              /\ Copies(v)' > 0 => v \in synced \/ <<"Withdraw", v>> \in upd'.verbs
      <4> SUFFICES ASSUME fulls <= 1, NEW v \in AllVrps
                   PROVE  /\ Copies(v)' <= 1
                          /\ Copies(v)' > 0 => v \in synced \/ <<"Withdraw", v>> \in upd'.verbs
        BY Zenon
      <4>1. /\ Copies(v) <= 1 /\ Copies(v) \in Nat
            /\ Copies(v) > 0 => v \in synced \/ <<"Withdraw", v>> \in upd.verbs
        BY <2>3, <1>0, Zenon DEF CacheInv
      <4>2. <<"Withdraw", v>> # x
        BY <2>1, <2>5
      <4>3. Copies(v)' = Copies(v) \/ (v = x[2] /\ Copies(v)' = 1)
        BY <3>3, Zenon
      <4>4. Copies(v)' <= 1
        BY <4>1, <4>3
      <4> QED  BY <2>2, <3>1, <4>1, <4>2, <4>3, <4>4, Zenon
    <3> QED  BY <2>2, <2>3, <3>6, <3>7, <3>8, Zenon DEF CacheInv
  <2>6. CASE x[1] = "Withdraw"
    <3>1. x[2] \notin synced /\ PutList(x[2], Removed(x[2]))
      BY <1>7, <2>1, <2>6, Zenon DEF UpdShape, DeltaStore
    <3>2. \A w \in AllVrps :
            Copies(w)' = IF w = x[2] THEN (IF Copies(w) > 0 THEN Copies(w) - 1 ELSE 0)
                         ELSE Copies(w)
      BY <2>1, <3>1, CopiesRemoved, Zenon
    <3>6. \A v \in AllVrps : Copies(v)' > 0 => <<v.prefix, v.asn>> \in held'
      BY <2>2, <3>2, <1>0, Zenon DEF CacheInv
    <3>7. \A v \in synced : <<"Announce", v>> \notin upd'.verbs => Copies(v)' > 0
      <4> SUFFICES ASSUME NEW v \in synced, <<"Announce", v>> \notin upd'.verbs
                   PROVE  Copies(v)' > 0
        BY Zenon
      <4>1. v \in AllVrps /\ v # x[2] /\ <<"Announce", v>> # x
        BY <2>1, <2>4, <2>6, <3>1
      <4> QED  BY <2>2, <2>3, <3>2, <4>1, Zenon DEF CacheInv
    <3>8. fulls <= 1 => \A v \in AllVrps :
              /\ Copies(v)' <= 1
              /\ Copies(v)' > 0 => v \in synced \/ <<"Withdraw", v>> \in upd'.verbs
      <4> SUFFICES ASSUME fulls <= 1, NEW v \in AllVrps
                   PROVE  /\ Copies(v)' <= 1
                          /\ Copies(v)' > 0 => v \in synced \/ <<"Withdraw", v>> \in upd'.verbs
        BY Zenon
      <4>1. /\ Copies(v) <= 1 /\ Copies(v) \in Nat
            /\ Copies(v) > 0 => v \in synced \/ <<"Withdraw", v>> \in upd.verbs
        BY <2>3, <1>0, Zenon DEF CacheInv
      <4>2. <<"Withdraw", v>> = x <=> v = x[2]
        BY <2>1, <2>6
      <4>3. CASE v = x[2]
        <5>1. Copies(v)' = IF Copies(v) > 0 THEN Copies(v) - 1 ELSE 0
          BY <3>2, <4>3, Zenon
        <5>2. Copies(v)' <= 1 /\ ~(Copies(v)' > 0)
          BY <4>1, <5>1
        <5> QED  BY <5>2, Zenon
      <4>4. CASE v # x[2]
        BY <2>2, <3>2, <4>1, <4>2, <4>4, Zenon
      <4> QED  BY <4>3, <4>4, Zenon
    <3> QED  BY <2>2, <2>3, <3>6, <3>7, <3>8, Zenon DEF CacheInv
  <2> QED  BY <1>7, <2>5, <2>6, Zenon DEF DeltaStore
<1>8. CASE FullDone \/ DeltaDone
  <2>1. /\ UNCHANGED <<held, maxlens, fulls, synced, fresh, rtr>>
        /\ upd.verbs = {} /\ upd' = NoUpd
    BY <1>8, Zenon DEF FullDone, DeltaDone, rtrVars
  <2> QED  BY <2>1, NoneIs, Zenon DEF CacheInv, Copies
<1>9. CASE \/ DeltaFilter \/ DeltaReject \/ DeltaMatch \/ DeltaNext
           \/ \E x \in upd.recs : DeltaWrite(x)
  <2>1. /\ UNCHANGED <<held, maxlens, fulls, synced, fresh, rtr>>
        /\ upd.kind # "none" /\ upd'.verbs = upd.verbs /\ upd'.kind = upd.kind
    <3>1. upd.step # "verb"
      BY <1>9, Zenon DEF DeltaFilter, DeltaReject, DeltaMatch, DeltaNext, DeltaWrite
    <3> QED
      BY <1>9, <3>1, Zenon DEF DeltaFilter, DeltaReject, DeltaMatch, DeltaNext, DeltaWrite,
                rtrVars, RovTypes, UpdStates, UpdShape
  <2>2. upd # NoUpd
    BY <2>1, NoneIs, Zenon
  <2> QED  BY <2>1, <2>2, Zenon DEF CacheInv, Copies
<1>10. CASE \/ \E n \in Fulls : WalkCheck(n) \/ WalkStore(n)
                               \/ \E p \in Prefixes : WalkRead(n, p)
            \/ \E p \in Prefixes : FilterWithdrawal(p)
                                  \/ \E a \in Asns : FilterPayload(p, a)
            \/ InsertPayload
            \/ UNCHANGED rovVars
  <2>1. UNCHANGED <<held, maxlens, fulls, synced, fresh, rtr, upd>>
    BY <1>10, Zenon DEF WalkCheck, WalkStore, WalkRead, FilterWithdrawal, FilterPayload,
                 InsertPayload, rovVars, cacheVars, rtrVars
  <2> QED  BY <2>1, Zenon DEF CacheInv, Copies
<1> QED
  BY <1>1, <1>2, <1>3, <1>4, <1>5, <1>6, <1>7, <1>8, <1>9, <1>10, Zenon DEF RovNext

\* A change of the list of v's prefix concerns the routes within it.
LEMMA CheckRovWithin ==
    ASSUME RovTypes, NEW v \in Vrps, NEW list, PutList(v, list),
           NEW p \in Prefixes, NEW a, ~(v.prefix <= p)
    PROVE  CheckRov(p, a)' = CheckRov(p, a)
<1>1. <<v.prefix, v.asn>> \in Keys
  BY RovAssumption DEF Keys
<1>2. \A k \in held' : k[1] <= p => k \in held /\ maxlens'[k] = maxlens[k]
  BY <1>1 DEF PutList, RovTypes
<1>3. held \subseteq held'
  BY DEF PutList
<1>4. Verdict(held', maxlens', p, a) = Verdict(held, maxlens, p, a)
  BY <1>2, <1>3 DEF Verdict, Holds
<1> QED  BY <1>4, CheckRovIs, CheckRovIsPrimed

LEMMA CheckRovKept ==
    ASSUME UNCHANGED <<held, maxlens>>, NEW p, NEW a
    PROVE  CheckRov(p, a)' = CheckRov(p, a)
BY Zenon DEF CheckRov, Longest, LessSpecifics, Stored, Matches, NotEmpty, List

LEMMA CheckedValid == ASSUME NEW p, NEW rec \in RovRecords PROVE Valid(p, Checked(p, rec))
BY DEF Valid, Checked, RovRecords

\* A route that is left alone, with the lists as they are, stays valid.
LEMMA ValidStays ==
    ASSUME UNCHANGED <<held, maxlens>>
    PROVE  /\ \A p \in Prefixes :
                 rib'[p] = rib[p] => (Valid(p, rib[p])' <=> Valid(p, rib[p]))
           /\ job' = job => (Valid(job.prefix, job.rec)' <=> Valid(job.prefix, job.rec))
           /\ \A n \in Fulls : walk'[n] = walk[n] =>
                 (Valid(walk[n].at, walk[n].rec)' <=> Valid(walk[n].at, walk[n].rec))
BY CheckRovKept, ZenonT(30) DEF Valid

RovInv == RovTypes /\ UpdShape /\ WalkShape /\ CacheInv /\ ContentInv

LEMMA StatusInvNext ==
    ASSUME HasFilter, RovTypes, UpdShape, WalkShape, StatusInv, [RovNext]_rovVars
    PROVE  StatusInv'
<1> DEFINE Goal ==
      /\ \A p \in Prefixes : Valid(p, rib[p])' \/ Pending(p)'
      /\ job' # NoJob => \/ Valid(job.prefix, job.rec)' \/ upd'.kind = "Full"
                         \/ upd'.step = "filter" /\ upd'.at <= job'.prefix
      /\ \A n \in Fulls : walk'[n].checked =>
            Valid(walk[n].at, walk[n].rec)' \/ upd'.kind = "Full"
      /\ upd'.step # "verb" => \A n \in Fulls : walk'[n] = IdleWalk
<1>0. SUFFICES ASSUME ~excused' PROVE Goal
  BY Zenon DEF StatusInv
<1>s. /\ \A p \in Prefixes : Valid(p, rib[p]) \/ Pending(p)
      /\ job # NoJob => \/ Valid(job.prefix, job.rec) \/ upd.kind = "Full"
                        \/ upd.step = "filter" /\ upd.at <= job.prefix
      /\ \A n \in Fulls :
            walk[n].checked => Valid(walk[n].at, walk[n].rec) \/ upd.kind = "Full"
      /\ upd.step # "verb" => \A n \in Fulls : walk[n] = IdleWalk
  <2>1. ~excused
    BY <1>0, Zenon DEF RovNext, ServerChanges, RtrConnect, RetryWait, UpdateFails, FetchFull,
                FetchDelta, RtrTerminate, FullVerb, FullDone, WalkRead, WalkCheck,
                WalkStore, DeltaStore, DeltaFilter, DeltaReject, DeltaMatch, DeltaWrite,
                DeltaNext, DeltaDone, FilterWithdrawal, FilterPayload, InsertPayload,
                rovVars, raceVars
  <2> QED  BY <2>1, Zenon DEF StatusInv
<1>p. \A p \in Prefixes : Valid(p, rib[p]) \/ Pending(p)
  BY <1>s, Zenon
<1>j. job # NoJob => \/ Valid(job.prefix, job.rec) \/ upd.kind = "Full"
                     \/ upd.step = "filter" /\ upd.at <= job.prefix
  BY <1>s, Zenon
<1>w. \A n \in Fulls :
        walk[n].checked => Valid(walk[n].at, walk[n].rec) \/ upd.kind = "Full"
  BY <1>s, Zenon
<1>i. upd.step # "verb" => \A n \in Fulls : walk[n] = IdleWalk
  BY <1>s, Zenon
<1>1. CASE UNCHANGED <<upd, held, maxlens, ribVars>>
  <2>1. UNCHANGED <<upd, held, maxlens, rib, job, walk>>
    BY <1>1 DEF ribVars
  <2>2. \A p \in Prefixes : Pending(p)' <=> Pending(p)
    BY <2>1, Zenon DEF Pending
  <2> QED  BY <1>s, <2>1, <2>2, ValidStays, Zenon
<1>2. CASE FetchFull \/ FetchDelta
  <2>1. /\ UNCHANGED <<held, maxlens, rib, job, walk>> /\ upd = NoUpd
        /\ upd'.step = "verb" /\ upd'.recs = {}
    BY <1>2, Zenon DEF FetchFull, FetchDelta, NoUpd, ribVars
  <2>2. upd.kind = "none" /\ upd.step = "verb" /\ upd.recs = {}
    BY <2>1, NoneIs, Zenon
  <2>3. \A p \in Prefixes : Pending(p) => Pending(p)'
    BY <2>1, <2>2, Zenon DEF Pending
  <2> QED  BY <1>s, <2>1, <2>2, <2>3, ValidStays, Zenon
<1>3. CASE RtrTerminate
  <2>1. upd = NoUpd /\ upd' = upd
    BY <1>3, <1>0, Zenon DEF RtrTerminate
  <2> QED  BY <1>3, <2>1, <1>1, Zenon DEF RtrTerminate
<1>4. ASSUME NEW x \in upd.verbs, FullVerb(x)
      PROVE  upd'.kind = "Full" /\ upd'.step = "verb"
  BY <1>4, Zenon DEF FullVerb, RovTypes, UpdStates, UpdShape
<1>5. CASE FullDone
  <2>1. /\ job = NoJob /\ job' = job /\ \A n \in Fulls : walk[n] = IdleWalk
        /\ upd' = NoUpd /\ fulls \in Fulls
    <3>1. fulls >= 1 /\ fulls \in 0 .. MaxFull /\ MaxFull \in Nat
      BY <1>5, RovAssumption, Zenon DEF FullDone, UpdShape, RovTypes
    <3>2. fulls \in Fulls
      BY <3>1 DEF Fulls
    <3> QED  BY <1>5, <1>0, <3>2, Zenon DEF FullDone, Walking
  <2>2. /\ walk'[fulls].left = Prefixes
        /\ \A n \in Fulls : walk'[n].checked = FALSE
    BY <1>5, <2>1, NoneIs DEF FullDone, RovTypes, Walks
  <2> QED  BY <2>1, <2>2, NoneIs, Zenon DEF Pending
<1>6. ASSUME NEW x \in upd.verbs, DeltaStore(x) PROVE Goal
  <2>1. /\ x[2] \in Vrps /\ x[2].prefix \in Prefixes
        /\ upd.kind = "Delta" /\ upd.step = "verb" /\ upd.recs = {}
        /\ upd'.step = "filter" /\ upd'.at = x[2].prefix
        /\ UNCHANGED <<rib, job, walk>>
    <3>1. x[2] \in Vrps
      BY DEF RovTypes, UpdStates, Verbs
    <3>2. x[2].prefix \in Prefixes
      BY <3>1, RovAssumption
    <3>3. upd.kind = "Delta" /\ upd.step = "verb" /\ upd.recs = {}
      BY <1>6, Zenon DEF DeltaStore, RovTypes, UpdStates, UpdShape
    <3>4. /\ upd'.step = "filter" /\ upd'.at = x[2].prefix
          /\ UNCHANGED <<rib, job, walk>>
      BY <1>6 DEF DeltaStore, RovTypes, UpdStates, ribVars
    <3> QED  BY <3>1, <3>2, <3>3, <3>4
  <2>2. PICK list : PutList(x[2], list)
    BY <1>6, Zenon DEF DeltaStore
  <2>3. \A n \in Fulls : walk[n] = IdleWalk
    BY <1>6, <1>0, Zenon DEF DeltaStore, Walking
  <2>4. ASSUME NEW p \in Prefixes PROVE Valid(p, rib[p])
    <3>1. p # 0
      BY RovAssumption
    <3>2. ~Pending(p)
      BY <2>1, <2>3, <3>1, NoneIs, Zenon DEF Pending
    <3> QED  BY <1>p, <3>2, Zenon
  <2>5. ASSUME NEW p \in Prefixes PROVE Valid(p, rib[p])' \/ Pending(p)'
    <3>1. CASE x[2].prefix <= p
      BY <2>1, <3>1, Zenon DEF Pending
    <3>2. CASE ~(x[2].prefix <= p)
      <4>1. CheckRov(p, rib[p].origin)' = CheckRov(p, rib[p].origin)
        <5>1. \A a : CheckRov(p, a)' = CheckRov(p, a)
          BY <2>1, <2>2, <3>2, CheckRovWithin, Zenon
        <5> QED  BY <2>1, <5>1, Zenon
      <4> QED  BY <2>1, <2>4, <4>1, Zenon DEF Valid
    <3> QED  BY <3>1, <3>2, Zenon
  <2>6. job' # NoJob => \/ Valid(job.prefix, job.rec)'
                        \/ upd'.step = "filter" /\ upd'.at <= job'.prefix
    <3>1. job # NoJob => job.prefix \in Prefixes
      BY DEF RovTypes, Jobs
    <3> QED  BY <1>j, <2>1, <2>2, <3>1, CheckRovWithin, Zenon DEF Valid
  <2> QED  BY <2>1, <2>3, <2>5, <2>6, NoneIs, Zenon
<1>7. CASE DeltaFilter
  <2>1. /\ job = NoJob /\ UNCHANGED <<rib, job, walk, held, maxlens>>
        /\ upd.step = "filter" /\ upd'.step = "match" /\ upd'.at = upd.at
        /\ upd'.kind = upd.kind /\ upd'.recs = upd.recs
    BY <1>7, Zenon DEF DeltaFilter, RovTypes, UpdStates, ribVars
  <2>2. \A p \in Prefixes : Pending(p) => Pending(p)'
    BY <2>1, Zenon DEF Pending
  <2> QED  BY <1>s, <2>1, <2>2, NoneIs, ValidStays, Zenon
<1>8. CASE DeltaMatch
  <2>1. /\ UNCHANGED <<rib, job, walk, held, maxlens>> /\ upd.step = "match"
        /\ upd'.step = "write" /\ upd'.recs = MatchPrefix(upd.at) /\ upd.recs = {}
        /\ upd'.kind = upd.kind
    BY <1>8, Zenon DEF DeltaMatch, RovTypes, UpdStates, UpdShape, ribVars
  <2>2. ASSUME NEW p \in Prefixes PROVE Valid(p, rib[p])' \/ Pending(p)'
    <3>1. CASE Valid(p, rib[p])
      BY <2>1, <3>1, ValidStays, Zenon
    <3>2. CASE ~Valid(p, rib[p])
      <4>0. p # 0
        BY RovAssumption
      <4>1. upd.kind = "Full" \/ upd.at <= p
        BY <1>p, <1>i, <2>1, <3>2, <4>0, NoneIs, Zenon DEF Pending
      <4>2. rib[p].active
        BY <3>2 DEF Valid
      <4>3. upd.at <= p => <<p, rib[p]>> \in upd'.recs
        BY <2>1, <4>2, Zenon DEF MatchPrefix
      <4> QED  BY <2>1, <4>1, <4>3, Zenon DEF Pending
    <3> QED  BY <3>1, <3>2, Zenon
  <2> QED  BY <1>s, <2>1, <2>2, ValidStays, Zenon
<1>9. ASSUME NEW x \in upd.recs, DeltaWrite(x) PROVE Goal
  <2>1. /\ x[1] \in Prefixes /\ x[2] \in RovRecords
        /\ UNCHANGED <<job, walk, held, maxlens>> /\ upd.step = "write"
        /\ upd'.step = "write" /\ upd'.recs = upd.recs \ {x} /\ upd'.kind = upd.kind
        /\ rib' = [rib EXCEPT ![x[1]] = Checked(x[1], x[2])]
    BY <1>9, Zenon DEF DeltaWrite, RovTypes, UpdStates, UpdShape
  <2>2. ASSUME NEW p \in Prefixes PROVE Valid(p, rib[p])' \/ Pending(p)'
    <3>1. CASE p = x[1]
      <4>1. rib'[p] = Checked(p, x[2])
        BY <2>1, <3>1, Zenon DEF RovTypes
      <4>2. Valid(p, Checked(p, x[2]))
        BY <2>1, CheckedValid, Zenon
      <4> QED  BY <2>1, <4>1, <4>2, CheckRovKept, Zenon DEF Valid
    <3>2. CASE p # x[1]
      <4>1. rib'[p] = rib[p]
        BY <2>1, <3>2, Zenon DEF RovTypes
      <4>2. Pending(p) => Pending(p)'
        BY <2>1, <3>2, Zenon DEF Pending
      <4> QED  BY <1>p, <2>1, <4>1, <4>2, ValidStays, Zenon
    <3> QED  BY <3>1, <3>2, Zenon
  <2> QED  BY <1>s, <2>1, <2>2, ValidStays, Zenon
<1>10. CASE DeltaNext \/ DeltaDone
  <2>1. /\ UNCHANGED <<rib, job, walk, held, maxlens>> /\ upd.recs = {} /\ upd'.recs = {}
        /\ upd.step \in {"verb", "write"} /\ upd'.step = "verb" /\ upd.kind = "Delta"
    BY <1>10, NoneIs, Zenon DEF DeltaNext, DeltaDone, RovTypes, UpdStates, UpdShape, ribVars
  <2>2. \A p \in Prefixes : Pending(p) => Pending(p)'
    BY <2>1, Zenon DEF Pending
  <2> QED  BY <1>s, <2>1, <2>2, ValidStays, Zenon
<1>11. ASSUME NEW n \in Fulls, NEW p \in Prefixes, WalkRead(n, p) PROVE Goal
  <2>1. /\ walk[n] \in Walks /\ walk[n].at = 0 /\ ~walk[n].checked
        /\ walk[n] # IdleWalk
        /\ UNCHANGED <<rib, job, upd, held, maxlens>>
    BY <1>11, NoneIs, Zenon DEF WalkRead, WalkShape, RovTypes, cacheVars
  <2>2. /\ walk'[n].at = IF rib[p] = NoRoute THEN 0 ELSE p
        /\ walk'[n].left = walk[n].left \ {p} /\ walk'[n].checked = walk[n].checked
        /\ \A m \in Fulls : m # n => walk'[m] = walk[m]
    BY <1>11, <2>1, Zenon DEF WalkRead, RovTypes, Walks
  <2>3. upd.step = "verb"
    BY <1>i, <2>1, Zenon
  <2>4. ASSUME NEW q \in Prefixes PROVE Valid(q, rib[q])' \/ Pending(q)'
    <3>1. Valid(q, rib[q]) => Valid(q, rib[q])'
      BY <2>1, ValidStays, Zenon
    <3>2. ~Valid(q, rib[q]) => rib[q] # NoRoute
      BY NoneIs, Zenon DEF Valid
    <3>3. q # 0
      BY RovAssumption
    <3>4. ~Valid(q, rib[q]) /\ Pending(q) => Pending(q)'
      BY <2>1, <2>2, <3>2, <3>3, Zenon DEF Pending
    <3> QED  BY <1>p, <3>1, <3>4, Zenon
  <2>5. ASSUME NEW m \in Fulls, walk'[m].checked
        PROVE  Valid(walk[m].at, walk[m].rec)' \/ upd'.kind = "Full"
    <3>1. m # n /\ walk'[m] = walk[m]
      BY <2>1, <2>2, <2>5, Zenon
    <3> QED  BY <1>w, <2>1, <2>5, <3>1, ValidStays, Zenon
  <2> QED  BY <1>j, <2>1, <2>3, <2>4, <2>5, ValidStays, Zenon
<1>12. ASSUME NEW n \in Fulls, WalkCheck(n) PROVE Goal
  <2>1. /\ walk[n] \in Walks /\ walk[n] # IdleWalk
        /\ UNCHANGED <<rib, job, upd, held, maxlens>>
    BY <1>12, NoneIs, Zenon DEF WalkCheck, RovTypes, cacheVars
  <2>2. /\ walk'[n].at = walk[n].at /\ walk'[n].left = walk[n].left
        /\ walk'[n].rec = Checked(walk[n].at, walk[n].rec)
        /\ \A m \in Fulls : m # n => walk'[m] = walk[m]
    BY <1>12, <2>1, Zenon DEF WalkCheck, RovTypes, Walks
  <2>3. upd.step = "verb"
    BY <1>i, <2>1, Zenon
  <2>4. Valid(walk[n].at, Checked(walk[n].at, walk[n].rec))
    BY <2>1, CheckedValid, Zenon DEF Walks
  <2>5. ASSUME NEW m \in Fulls, walk'[m].checked
        PROVE  Valid(walk[m].at, walk[m].rec)' \/ upd'.kind = "Full"
    <3>1. CASE m = n
      <4>1. walk'[m].at = walk[n].at /\ walk'[m].rec = Checked(walk[n].at, walk[n].rec)
        BY <2>2, <3>1
      <4> HIDE DEF Goal
      <4> QED  BY <2>1, <2>4, <4>1, CheckRovKept, Zenon DEF Valid
    <3>2. CASE m # n
      BY <1>w, <2>1, <2>2, <2>5, <3>2, ValidStays, Zenon
    <3> QED  BY <3>1, <3>2, Zenon
  <2>6. ASSUME NEW q \in Prefixes PROVE Pending(q) => Pending(q)'
    BY <2>1, <2>2, Zenon DEF Pending
  <2> QED  BY <1>p, <1>j, <2>1, <2>3, <2>5, <2>6, ValidStays, Zenon
<1>13. ASSUME NEW n \in Fulls, WalkStore(n) PROVE Goal
  <2>1. /\ walk[n] \in Walks /\ walk[n] # IdleWalk /\ walk[n].at \in Prefixes
        /\ walk[n].checked /\ UNCHANGED <<job, upd, held, maxlens>>
    BY <1>13, NoneIs, Zenon DEF WalkStore, RovTypes, cacheVars, WalkShape, Walks
  <2>2. /\ walk'[n] = [IdleWalk EXCEPT !.left = walk[n].left]
        /\ \A m \in Fulls : m # n => walk'[m] = walk[m]
        /\ rib' = [rib EXCEPT ![walk[n].at] = walk[n].rec]
    BY <1>13, <2>1, Zenon DEF WalkStore, RovTypes, Walks
  <2>3. walk'[n].left = walk[n].left /\ walk'[n].checked = FALSE
    BY <2>2 DEF IdleWalk
  <2>4. upd.step = "verb"
    BY <1>i, <2>1, Zenon
  <2>5. ASSUME NEW q \in Prefixes PROVE Valid(q, rib[q])' \/ Pending(q)'
    <3>1. CASE q = walk[n].at
      <4>1. rib'[q] = walk[n].rec
        BY <2>1, <2>2, <3>1, Zenon DEF RovTypes
      <4>2. Valid(q, walk[n].rec) \/ upd'.kind = "Full"
        BY <1>w, <2>1, <3>1, Zenon
      <4> QED  BY <2>1, <4>1, <4>2, CheckRovKept, Zenon DEF Valid, Pending
    <3>2. CASE q # walk[n].at
      <4>1. rib'[q] = rib[q]
        BY <2>1, <2>2, <3>2, Zenon DEF RovTypes
      <4>2. Pending(q) => Pending(q)'
        BY <2>1, <2>2, <2>3, <3>2, Zenon DEF Pending
      <4> QED  BY <1>p, <2>1, <4>1, <4>2, ValidStays, Zenon
    <3> QED  BY <3>1, <3>2, Zenon
  <2>6. ASSUME NEW m \in Fulls, walk'[m].checked
        PROVE  Valid(walk[m].at, walk[m].rec)' \/ upd'.kind = "Full"
    <3>1. m # n /\ walk'[m] = walk[m]
      BY <2>2, <2>3, <2>6, Zenon
    <3> QED  BY <1>w, <2>1, <2>6, <3>1, ValidStays, Zenon
  <2> QED  BY <1>j, <2>1, <2>4, <2>5, <2>6, ValidStays, Zenon
<1>14. CASE \E p \in Prefixes : FilterWithdrawal(p) \/ \E a \in Asns : FilterPayload(p, a)
  <2>1. UNCHANGED <<rib, walk, upd, held, maxlens>>
    BY <1>14, Zenon DEF FilterWithdrawal, FilterPayload, cacheVars
  <2>2. Valid(job.prefix, job.rec)'
    <3>1. ASSUME NEW p \in Prefixes, FilterWithdrawal(p) PROVE job'.rec.active = FALSE
      BY <3>1, Zenon DEF FilterWithdrawal, RovTypes, RovRecords
    <3>2. ASSUME NEW p \in Prefixes, NEW a \in Asns, FilterPayload(p, a)
          PROVE  Valid(job'.prefix, job'.rec)
      <4>1. [NoRoute EXCEPT !.origin = a, !.active = TRUE] \in RovRecords
        BY NoneTyped, Zenon DEF RovRecords
      <4> QED  BY <3>2, <4>1, CheckedValid, Zenon DEF FilterPayload
    <3> QED  BY <1>14, <2>1, <3>1, <3>2, CheckRovKept, Zenon DEF Valid
  <2>3. \A p \in Prefixes : Pending(p)' <=> Pending(p)
    BY <2>1, Zenon DEF Pending
  <2> QED  BY <1>p, <1>w, <1>i, <2>1, <2>2, <2>3, ValidStays, Zenon
<1>15. CASE InsertPayload
  <2>1. /\ job \in Jobs /\ job # NoJob /\ job' = NoJob
        /\ UNCHANGED <<walk, upd, held, maxlens>>
    BY <1>15, Zenon DEF InsertPayload, RovTypes, cacheVars
  <2>2. ASSUME NEW q \in Prefixes PROVE Pending(q) <=> Pending(q)'
    BY <2>1, Zenon DEF Pending
  <2>3. ASSUME NEW q \in Prefixes PROVE Valid(q, rib[q])' \/ Pending(q)'
    <3>1. CASE q # job.prefix
      <4>1. rib'[q] = rib[q]
        BY <1>15, <3>1, Zenon DEF InsertPayload, RovTypes
      <4> QED  BY <1>p, <2>1, <2>2, <4>1, ValidStays, Zenon
    <3>2. CASE q = job.prefix /\ job.rec.active
      <4>1. rib'[q] = job.rec
        BY <1>15, <3>2, Zenon DEF InsertPayload, RovTypes
      <4>2. Valid(q, job.rec) \/ Pending(q)'
        BY <1>j, <2>1, <3>2, Zenon DEF Pending
      <4> QED  BY <2>1, <4>1, <4>2, CheckRovKept, Zenon DEF Valid
    <3>3. CASE q = job.prefix /\ ~job.rec.active
      <4>1. rib'[q].active = FALSE
        BY <1>15, <3>3, Zenon DEF InsertPayload, RovTypes, RovRecords
      <4> QED  BY <4>1 DEF Valid
    <3> QED  BY <3>1, <3>2, <3>3, Zenon
  <2> QED  BY <1>w, <1>i, <2>1, <2>3, ValidStays, Zenon
<1>16. CASE \/ \E v \in Vrps : ServerChanges(v)
            \/ RtrConnect \/ RetryWait \/ UpdateFails \/ UNCHANGED rovVars
  BY <1>1, <1>16, Zenon DEF ServerChanges, RtrConnect, RetryWait, UpdateFails, rovVars,
                cacheVars
<1>17. CASE DeltaReject
  BY <1>0, <1>17, Zenon DEF DeltaReject
<1>18. ASSUME NEW x \in upd.verbs, FullVerb(x) PROVE Goal
  <2>1. UNCHANGED <<job, walk>>
    BY <1>18 DEF FullVerb, ribVars
  <2> QED  BY <1>4, <1>18, Zenon DEF Pending
<1> QED
  BY <1>2, <1>3, <1>5, <1>6, <1>7, <1>8, <1>9, <1>10, <1>11, <1>12, <1>13, <1>14,
     <1>15, <1>16, <1>17, <1>18, Zenon DEF RovNext

LEMMA ContentInvNext ==
    ASSUME RovTypes, UpdShape, WalkShape, ContentInv, [RovNext]_rovVars
    PROVE  ContentInv'
<1> DEFINE Goal ==
      /\ \A p \in Prefixes : Content(rib[p])' = last'[p]
      /\ DOMAIN last' = Prefixes
      /\ \A x \in upd'.recs : Content(x[2]) = last'[x[1]]
      /\ \A n \in Fulls : walk'[n].at # 0 =>
                              Content(walk[n].rec)' = last'[walk'[n].at]
<1>0. SUFFICES ASSUME ~lost' PROVE Goal
  BY Zenon DEF ContentInv, Content
<1>s. /\ \A p \in Prefixes : Content(rib[p]) = last[p]
      /\ DOMAIN last = Prefixes
      /\ \A x \in upd.recs : Content(x[2]) = last[x[1]]
      /\ \A n \in Fulls : walk[n].at # 0 => Content(walk[n].rec) = last[walk[n].at]
  <2>1. ~lost
    BY <1>0, Zenon DEF RovNext, ServerChanges, RtrConnect, RetryWait, UpdateFails, FetchFull,
                FetchDelta, RtrTerminate, FullVerb, FullDone, WalkRead, WalkCheck,
                WalkStore, DeltaStore, DeltaFilter, DeltaReject, DeltaMatch, DeltaWrite,
                DeltaNext, DeltaDone, FilterWithdrawal, FilterPayload, InsertPayload,
                rovVars, raceVars
  <2> QED  BY <2>1, Zenon DEF ContentInv
<1>p. \A p \in Prefixes : Content(rib[p]) = last[p]
  BY <1>s, Zenon
<1>w. \A n \in Fulls : walk[n].at # 0 => Content(walk[n].rec) = last[walk[n].at]
  BY <1>s, Zenon
<1>c. ASSUME NEW p, NEW rec \in RovRecords PROVE Content(Checked(p, rec)) = Content(rec)
  BY DEF Content, Checked, RovRecords
<1>1. CASE UNCHANGED <<rib, last, walk>> /\ upd'.recs \subseteq upd.recs
  BY <1>1, <1>s, Zenon DEF Content
<1>2. CASE DeltaMatch
  <2>1. UNCHANGED <<rib, last, walk>> /\ upd'.recs = MatchPrefix(upd.at)
    BY <1>2, Zenon DEF DeltaMatch, ribVars, raceVars, RovTypes, UpdStates
  <2>2. \A x \in MatchPrefix(upd.at) : x[1] \in Prefixes /\ x[2] = rib[x[1]]
    BY DEF MatchPrefix
  <2> QED  BY <1>s, <2>1, <2>2, Zenon DEF Content
<1>3. ASSUME NEW x \in upd.recs, DeltaWrite(x) PROVE Goal
  <2>1. /\ x[1] \in Prefixes /\ x[2] \in RovRecords /\ UNCHANGED <<walk, last>>
        /\ upd'.recs = upd.recs \ {x}
        /\ rib' = [rib EXCEPT ![x[1]] = Checked(x[1], x[2])]
    BY <1>3, Zenon DEF DeltaWrite, RovTypes, UpdStates, raceVars
  <2>2. ASSUME NEW p \in Prefixes PROVE Content(rib'[p]) = last[p]
    <3>1. CASE p # x[1]
      BY <1>p, <2>1, <3>1, Zenon DEF RovTypes
    <3>2. CASE p = x[1]
      <4>1. rib'[p] = Checked(x[1], x[2])
        BY <2>1, <3>2, Zenon DEF RovTypes
      <4>2. Content(Checked(x[1], x[2])) = Content(x[2])
        BY <1>c, <2>1, Zenon
      <4>3. Content(x[2]) = last[x[1]]
        BY <1>s, <1>3, Zenon
      <4> QED  BY <3>2, <4>1, <4>2, <4>3, Zenon
    <3> QED  BY <3>1, <3>2, Zenon
  <2> QED  BY <1>s, <2>1, <2>2, Zenon DEF Content
<1>4. CASE FullDone
  <2>1. /\ UNCHANGED <<rib, last>> /\ upd'.recs = {}
        /\ walk' = [walk EXCEPT ![fulls] = [@ EXCEPT !.left = Prefixes]]
    BY <1>4, NoneIs, Zenon DEF FullDone, raceVars
  <2>2. walk \in [Fulls -> Walks]
    BY Zenon DEF RovTypes
  <2>3. ASSUME NEW n \in Fulls PROVE walk'[n].at = walk[n].at /\ walk'[n].rec = walk[n].rec
    <3>1. CASE n # fulls
      BY <2>1, <2>2, <3>1, Zenon
    <3>2. CASE n = fulls
      <4>1. walk'[n] = [walk[n] EXCEPT !.left = Prefixes] /\ walk[n] \in Walks
        BY <2>1, <2>2, <3>2, Zenon
      <4> QED  BY <4>1, Zenon DEF Walks
    <3> QED  BY <3>1, <3>2, Zenon
  <2> QED  BY <1>s, <2>1, <2>3, Zenon DEF Content
<1>5. ASSUME NEW n \in Fulls, NEW p \in Prefixes, WalkRead(n, p) PROVE Goal
  <2>0. walk \in [Fulls -> Walks]
    BY Zenon DEF RovTypes
  <2>1. /\ walk'[n].at = IF rib[p] = NoRoute THEN 0 ELSE p
        /\ walk'[n].rec = rib[p] /\ UNCHANGED <<rib, last, upd>>
        /\ \A m \in Fulls : m # n => walk'[m] = walk[m]
    BY <1>5, <2>0, Zenon DEF WalkRead, Walks, raceVars, cacheVars
  <2>2. ASSUME NEW m \in Fulls, walk'[m].at # 0
        PROVE  Content(walk'[m].rec) = last[walk'[m].at]
    <3>1. CASE m = n
      <4>1. walk'[m].at = p /\ walk'[m].rec = rib[p]
        BY <2>1, <2>2, <3>1, Zenon
      <4> QED  BY <1>p, <4>1, Zenon
    <3>2. CASE m # n
      BY <1>w, <2>1, <2>2, <3>2, Zenon
    <3> QED  BY <3>1, <3>2, Zenon
  <2> QED  BY <1>s, <2>1, <2>2, Zenon DEF Content
<1>6. ASSUME NEW n \in Fulls, WalkCheck(n) PROVE Goal
  <2>1. /\ walk'[n].at = walk[n].at /\ walk[n].rec \in RovRecords
        /\ walk'[n].rec = Checked(walk[n].at, walk[n].rec)
        /\ UNCHANGED <<rib, last, upd>>
        /\ \A m \in Fulls : m # n => walk'[m] = walk[m]
    BY <1>6, Zenon DEF WalkCheck, RovTypes, Walks, raceVars, cacheVars
  <2>2. Content(walk'[n].rec) = Content(walk[n].rec)
    BY <1>c, <2>1
  <2> QED  BY <1>s, <2>1, <2>2, Zenon DEF Content
<1>7. ASSUME NEW n \in Fulls, WalkStore(n) PROVE Goal
  <2>1. /\ walk[n].at # 0 /\ walk[n].at \in Prefixes /\ UNCHANGED <<last, upd>>
        /\ walk'[n] = [IdleWalk EXCEPT !.left = walk[n].left]
        /\ \A m \in Fulls : m # n => walk'[m] = walk[m]
        /\ rib' = [rib EXCEPT ![walk[n].at] = walk[n].rec]
    BY <1>7, Zenon DEF WalkStore, RovTypes, Walks, WalkShape, raceVars, cacheVars
  <2>2. walk'[n].at = 0
    BY <2>1, Zenon DEF IdleWalk
  <2>3. ASSUME NEW p \in Prefixes PROVE Content(rib'[p]) = last[p]
    <3>1. CASE p # walk[n].at
      BY <1>p, <2>1, <3>1, Zenon DEF RovTypes
    <3>2. CASE p = walk[n].at
      <4>1. rib'[p] = walk[n].rec
        BY <2>1, <3>2, Zenon DEF RovTypes
      <4>2. walk[n].at # 0
        BY <2>1, Zenon
      <4>3. Content(walk[n].rec) = last[walk[n].at]
        BY <1>w, <4>2, Zenon
      <4> QED  BY <3>2, <4>1, <4>3, SMT
    <3> QED  BY <3>1, <3>2, Zenon
  <2>4. UNCHANGED <<last, upd>> /\ \A m \in Fulls : m # n => walk'[m] = walk[m]
    BY <2>1, Zenon
  <2> QED  BY <1>s, <2>2, <2>3, <2>4, Zenon DEF Content
<1>8. CASE InsertPayload
  <2>1. /\ job \in Jobs /\ UNCHANGED <<walk, upd>>
        /\ ~IsCaptured(job.prefix)
        /\ rib' = [rib EXCEPT ![job.prefix] =
                      IF job.rec.active THEN job.rec ELSE [@ EXCEPT !.active = FALSE]]
        /\ last' = [last EXCEPT ![job.prefix] =
                      [origin |-> IF job.rec.active THEN job.rec.origin ELSE @.origin,
                       active |-> job.rec.active]]
    BY <1>0, <1>8, Zenon DEF InsertPayload, RovTypes, cacheVars
  <2>2. job.prefix \in Prefixes /\ job.rec \in RovRecords
    BY <2>1, Zenon DEF Jobs
  <2>3. \A p : p # job.prefix => last'[p] = last[p]
    BY <2>1
  <2>4. ASSUME NEW p \in Prefixes PROVE Content(rib'[p]) = last'[p]
    <3>1. CASE p # job.prefix
      BY <1>s, <2>1, <3>1, Zenon DEF RovTypes
    <3>2. CASE p = job.prefix
      <4>1. rib[p] \in RovRecords /\ last[p] = Content(rib[p])
        BY <1>s, Zenon DEF RovTypes
      <4>2. rib'[p] = IF job.rec.active THEN job.rec ELSE [rib[p] EXCEPT !.active = FALSE]
        BY <2>1, <3>2, Zenon DEF RovTypes
      <4>3. last'[p] = [origin |-> IF job.rec.active THEN job.rec.origin
                                   ELSE last[p].origin, active |-> job.rec.active]
        BY <1>s, <2>1, <3>2, Zenon
      <4>4. last[p].origin = rib[p].origin
        BY <4>1 DEF Content
      <4>5. Content([rib[p] EXCEPT !.active = FALSE])
              = [origin |-> rib[p].origin, active |-> FALSE]
        BY <4>1 DEF Content, RovRecords
      <4>6. CASE job.rec.active
        BY <4>2, <4>3, <4>6, <2>2, Zenon DEF Content, RovRecords
      <4>7. CASE ~job.rec.active
        <5>1. job.rec.active = FALSE
          BY <4>7, <2>2, Zenon DEF RovRecords
        <5> QED  BY <4>2, <4>3, <4>4, <4>5, <5>1, Zenon
      <4> QED  BY <4>6, <4>7, Zenon
    <3> QED  BY <3>1, <3>2, Zenon
  <2>5. /\ \A x \in upd.recs : x[1] # job.prefix
        /\ \A n \in Fulls : walk[n].at # job.prefix
    BY <2>1, Zenon DEF IsCaptured
  <2>6. DOMAIN last' = Prefixes
    BY <1>s, <2>1, Zenon
  <2>7. ASSUME NEW x \in upd'.recs PROVE Content(x[2]) = last'[x[1]]
    BY <1>s, <2>1, <2>3, <2>5, Zenon
  <2>8. ASSUME NEW n \in Fulls, walk'[n].at # 0
        PROVE  Content(walk'[n].rec) = last'[walk'[n].at]
    BY <1>w, <2>1, <2>3, <2>5, <2>8, Zenon
  <2> QED  BY <2>4, <2>6, <2>7, <2>8, Zenon DEF Content
<1>9. CASE ~ \/ DeltaMatch \/ FullDone \/ InsertPayload
             \/ \E x \in upd.recs : DeltaWrite(x)
             \/ \E n \in Fulls : WalkCheck(n) \/ WalkStore(n)
                               \/ \E p \in Prefixes : WalkRead(n, p)
  <2>1. UNCHANGED <<rib, last, walk>>
    BY <1>9, Zenon DEF RovNext, ServerChanges, RtrConnect, RetryWait, UpdateFails, FetchFull,
                FetchDelta, RtrTerminate, FullVerb, DeltaStore, DeltaFilter,
                DeltaReject, DeltaNext, DeltaDone, FilterWithdrawal, FilterPayload,
                rovVars, ribVars, raceVars
  <2>2. upd'.recs \subseteq upd.recs
    <3>1. CASE upd' = upd
      BY <3>1
    <3>2. CASE upd'.recs = {}
      BY <3>2
    <3>3. CASE upd'.recs = upd.recs
      BY <3>3
    <3>4. CASE \/ RtrTerminate \/ DeltaDone \/ FetchFull \/ FetchDelta
      BY <3>2, <3>4, NoneIs, Zenon DEF RtrTerminate, DeltaDone, FetchFull, FetchDelta, NoUpd
    <3>5. CASE \/ DeltaFilter \/ DeltaReject \/ DeltaNext
               \/ \E x \in upd.verbs : FullVerb(x) \/ DeltaStore(x)
      BY <3>3, <3>5, ZenonT(30) DEF DeltaFilter, DeltaReject, DeltaNext, FullVerb, DeltaStore,
                       RovTypes, UpdStates
    <3>6. CASE \/ \E v \in Vrps : ServerChanges(v)
               \/ RtrConnect \/ RetryWait \/ UpdateFails
               \/ \E p \in Prefixes : FilterWithdrawal(p)
                                      \/ \E a \in Asns : FilterPayload(p, a)
               \/ UNCHANGED rovVars
      BY <3>1, <3>6, Zenon DEF ServerChanges, RtrConnect, RetryWait, UpdateFails,
                FilterWithdrawal, FilterPayload, rovVars, cacheVars
    <3> QED  BY <1>9, <3>4, <3>5, <3>6, Zenon DEF RovNext
  <2> QED  BY <1>1, <2>1, <2>2, Zenon
<1> QED  BY <1>2, <1>3, <1>4, <1>5, <1>6, <1>7, <1>8, <1>9, Zenon

LEMMA RovInvInit == RovInit => RovInv /\ StatusInv
<1> SUFFICES ASSUME RovInit PROVE RovInv /\ StatusInv
  OBVIOUS
<1>1. RovTypes
  BY RovTypesInit
<1>2. UpdShape
  BY NoneIs DEF RovInit, UpdShape
<1>3. WalkShape
  BY NoneIs DEF RovInit, WalkShape
<1>4. CacheInv
  <2>1. \A v \in AllVrps : Copies(v) = 0
    BY DEF RovInit, Copies, AllVrps, Keys
  <2> QED  BY <2>1 DEF RovInit, CacheInv
<1>5. ContentInv
  BY NoneIs, Zenon DEF RovInit, ContentInv
<1>6. StatusInv
  BY NoneIs, Zenon DEF RovInit, StatusInv, Valid
<1> QED  BY <1>1, <1>2, <1>3, <1>4, <1>5, <1>6 DEF RovInv

LEMMA RovInvNext == RovInv /\ [RovNext]_rovVars => RovInv'
BY RovTypesNext, UpdShapeNext, WalkShapeNext, CacheInvNext, ContentInvNext, Zenon DEF RovInv

\* check_rov against RFC 6811: process_update keeps the lists of the cache in
\* step with the VRPs of the server, for every set of prefixes, origins and
\* VRPs and any number of resets and serial updates.
THEOREM RovFollowsTheServer == RovSpec => []RovFollowsServer
<1>1. RovInit => RovInv
  BY RovInvInit
<1>2. RovInv => RovFollowsServer
  <2> SUFFICES ASSUME RovInv, upd = NoUpd, rtr # "ended",
                      NEW p \in Prefixes, NEW a \in Asns
               PROVE  /\ Rfc6811(synced, p, a) = "Valid" => CheckRov(p, a) = "Valid"
                      /\ fulls <= 1 => CheckRov(p, a) = Rfc6811(synced, p, a)
    BY DEF RovFollowsServer
  <2> USE RovAssumption
  <2>1. synced \subseteq AllVrps /\ held \subseteq Keys
    BY DEF RovInv, RovTypes, AllVrps
  <2>2. \A v \in synced : Copies(v) > 0 /\ <<v.prefix, v.asn>> \in held
    BY <2>1, NoneIs, Zenon DEF RovInv, CacheInv
  <2>3. fulls <= 1 => \A v \in AllVrps : Copies(v) > 0 => v \in synced
    BY NoneIs, Zenon DEF RovInv, CacheInv
  <2>4. ASSUME NEW k \in held, NEW m \in Prefixes, maxlens[k][m] > 0
        PROVE  \E v \in AllVrps : /\ v.prefix = k[1] /\ v.asn = k[2] /\ v.maxlen = m
                                  /\ Copies(v) > 0
    <3>1. k \in Keys
      BY <2>1
    <3>2. k = <<k[1], k[2]>> /\ k[1] \in Prefixes /\ k[2] \in Asns
      BY <3>1 DEF Keys
    <3> DEFINE v == [prefix |-> k[1], maxlen |-> m, asn |-> k[2]]
    <3>3. v \in AllVrps /\ v.prefix = k[1] /\ v.asn = k[2] /\ v.maxlen = m
      BY <3>2 DEF AllVrps
    <3>4. Copies(v) > 0
      BY <2>4, <3>2, <3>3, Zenon DEF Copies
    <3> QED  BY <3>3, <3>4, Zenon
  <2>5. ASSUME NEW v \in synced
        PROVE  LET k == <<v.prefix, v.asn>>
               IN  k \in held /\ v.maxlen \in Prefixes /\ maxlens[k][v.maxlen] > 0
    BY <2>1, <2>2, Zenon DEF Copies, AllVrps
  <2>6. Rfc6811(synced, p, a) = "Valid" => Verdict(held, maxlens, p, a) = "Valid"
    BY <2>5, Zenon DEF Rfc6811, Verdict
  <2>7. CASE fulls <= 1
    <3>1. Verdict(held, maxlens, p, a) = "Valid" => Rfc6811(synced, p, a) = "Valid"
      BY <2>3, <2>4, <2>7, Z3, SMT DEF Rfc6811, Verdict
    <3>2. (\E k \in held : Holds(held, maxlens, p, k))
             <=> {v \in synced : v.prefix <= p} # {}
      BY <2>3, <2>4, <2>5, <2>7, Zenon DEF Holds
    <3> QED  BY <2>6, <3>1, <3>2, CheckRovIs, Zenon DEF Rfc6811, Verdict
  <2> QED  BY <2>6, <2>7, CheckRovIs, Zenon
<1> QED  BY <1>1, <1>2, RovInvNext, PTL DEF RovSpec

\* The statuses in the rib and the routes themselves, under the walks of
\* resets, the serial updates and the route updates of process_update,
\* filter_payload and insert_payload.  The Roto script has a filter for VRP
\* updates: without one nothing takes the lock that keeps a route update out
\* between the check and the insertion of a route.
THEOREM StatusesSettle == ASSUME HasFilter PROVE RovSpec => []StatusSettled
<1> DEFINE Inv == RovInv /\ StatusInv
<1>1. RovInit => Inv
  BY RovInvInit
<1>2. Inv /\ [RovNext]_rovVars => Inv'
  BY RovInvNext, StatusInvNext, Zenon DEF RovInv
<1>3. Inv => StatusSettled
  <2> SUFFICES ASSUME Inv PROVE StatusSettled
    OBVIOUS
  <2>1. ASSUME ~excused, upd = NoUpd, job = NoJob, \A n \in Fulls : ~Walking(n),
               NEW p \in Prefixes
        PROVE  Valid(p, rib[p])
    <3>1. ~Pending(p)
      BY <2>1, RovAssumption, NoneIs, Zenon DEF Pending, Walking
    <3> QED  BY <2>1, <3>1, Zenon DEF StatusInv
  <2> QED  BY <2>1, Zenon DEF StatusSettled, Valid, RovInv, ContentInv
<1> HIDE DEF Inv
<1>4. RovSpec => []Inv
  BY <1>1, <1>2, PTL DEF RovSpec
<1> QED  BY <1>3, <1>4, PTL

-----------------------------------------------------------------------------
(***************************************************************************)
(* BmpMachine, for any number of peers, views, families and messages: the  *)
(* dump ends only when every family that came first in an UPDATE has been  *)
(* ended.                                                                  *)
(*                                                                         *)
(* It rests on the markers a peer state owes covering the families that    *)
(* its header has announced first.  A peer state that is synthesized from a sibling owes the    *)
(* sibling's markers and no less, and its header has announced nothing     *)
(* before.                                                                 *)
(***************************************************************************)

PeerState ==
    [four : BOOLEAN, eor : BOOLEAN, owes : SUBSET (Fams \X Views), up : BOOLEAN]

MachineTypes ==
    /\ table \in [Headers -> PeerState]
    /\ due \in [Headers -> SUBSET Fams]
    /\ behind \in [Headers -> SUBSET Fams]

\* What a header has announced and not ended, and not only behind another
\* family, is owed by its peer state.
Owed ==
    \A h \in Headers :
        /\ ~table[h].up => due[h] = {}
        /\ \A f \in due[h] \ behind[h] : <<f, h.view>> \in table[h].owes

MachineInv == MachineTypes /\ Owed

-----------------------------------------------------------------------------

LEMMA InitMachine == FsmInit => MachineInv
  BY DEF FsmInit, MachineInv, MachineTypes, Owed, PeerState, NoPeer

\* A header's new peer state, and what it has announced, in one step.
LEMMA OneHeader ==
    ASSUME MachineInv, NEW h \in Headers, NEW ps \in PeerState, ps.up,
           NEW D \in SUBSET Fams, NEW B \in SUBSET Fams,
           \A f \in D \ B : <<f, h.view>> \in ps.owes,
           table' = [table EXCEPT ![h] = ps],
           due' = [due EXCEPT ![h] = D], behind' = [behind EXCEPT ![h] = B]
    PROVE  MachineInv'
  <1>1. MachineTypes'
    BY DEF MachineInv, MachineTypes
  <1>2. Owed'
    BY DEF MachineInv, MachineTypes, Owed
  <1> QED
    BY <1>1, <1>2 DEF MachineInv

\* An update leaves a peer state that owes what has been announced.
LEMMA UpdateOwed ==
    ASSUME MachineInv, NEW h \in Headers, NEW u \in Updates,
           NEW k \in Source(h),
           \/ /\ ParsedAs(table[k], u) = {}
              /\ table' = [table EXCEPT ![h] = table[k]]
           \/ \E w \in ParsedAs(table[k], u) :
                table' = [table EXCEPT ![h] =
                             Processed([table[k] EXCEPT !.four = w], h, u)],
           due' = [due EXCEPT ![h] = Due(h, u)],
           behind' = [behind EXCEPT ![h] = Behind(h, u)]
    PROVE  MachineInv'
  <1> DEFINE ps == table[k]
  <1>1. k \in Headers /\ ps \in PeerState /\ ps.up
    BY DEF Source, Up, Siblings, MachineInv, MachineTypes
  <1>2. /\ u.fam \in Fams /\ u.kind \in {"announce", "withdraw", "eor", "garbled"}
        /\ u.parses \subseteq BOOLEAN
        /\ u.kind # "garbled" => u.parses # {}
        /\ u.also \subseteq Fams
        /\ h.view \in Views
    BY Zenon DEF Updates, Headers
  <1>3. due[h] \in SUBSET Fams /\ behind[h] \in SUBSET Fams
    BY DEF MachineInv, MachineTypes
  \* The source owes what h has announced: it is h, or h has announced nothing.
  <1>4. \A f \in due[h] \ behind[h] : <<f, h.view>> \in ps.owes
    BY DEF MachineInv, Owed, Source, Up, Siblings
  <1>5. CASE ParsedAs(ps, u) = {}
    <2>1. u.kind = "garbled"
      BY <1>1, <1>2, <1>5, Zenon DEF ParsedAs, PeerState
    <2>2. table' = [table EXCEPT ![h] = ps]
      BY <1>5
    <2>3. Due(h, u) = due[h]
      BY <2>1 DEF Due
    <2>4. Behind(h, u) = behind[h] \cap due[h]
      BY <2>1, <2>3 DEF Behind
    <2>5. /\ behind[h] \cap due[h] \in SUBSET Fams
          /\ \A f \in due[h] \ (behind[h] \cap due[h]) : <<f, h.view>> \in ps.owes
      BY <1>3, <1>4, Zenon
    <2> QED
      BY <1>1, <1>3, <2>2, <2>3, <2>4, <2>5, OneHeader, Zenon
  <1>6. CASE ParsedAs(ps, u) # {}
    <2>1. PICK w \in ParsedAs(ps, u) :
             table' = [table EXCEPT ![h] = Processed([ps EXCEPT !.four = w], h, u)]
      BY <1>6, Zenon
    <2> DEFINE q == [ps EXCEPT !.four = w]
               new == Processed(q, h, u)
    <2>2. q \in PeerState /\ q.up /\ q.owes = ps.owes /\ q.eor = ps.eor
      BY <1>1, <1>2, Zenon DEF ParsedAs, PeerState
    <2>0. table' = [table EXCEPT ![h] = new]
      BY <2>1
    <2>3. CASE u.kind = "eor"
      <3>1. new = [q EXCEPT !.owes = @ \ {Marker(h, u)}]
        BY <2>3, Zenon DEF Processed
      <3>2. new \in PeerState /\ new.up /\ new.owes = ps.owes \ {<<u.fam, h.view>>}
        BY <2>2, <3>1, ZenonT(30) DEF PeerState, Marker
      <3>3. Due(h, u) = due[h] \ {u.fam}
        BY <2>3 DEF Due
      <3> DEFINE D == due[h] \ {u.fam}
                 B == behind[h] \cap D
      <3>4. D \in SUBSET Fams /\ B \in SUBSET Fams
        BY <1>3, Zenon
      <3>5. \A f \in D \ B : <<f, h.view>> \in new.owes
        <4>1. \A f \in D \ B : f \in due[h] \ behind[h] /\ f # u.fam
          BY Zenon
        <4> QED
          BY <1>4, <3>2, <4>1, Zenon
      <3>6. Behind(h, u) = B
        BY <2>3, <3>3 DEF Behind
      <3> HIDE DEF new, D, B
      <3> QED
        BY <2>0, <3>2, <3>3, <3>4, <3>5, <3>6, OneHeader, Zenon DEF D
    <2>4. CASE u.kind = "announce" /\ ps.eor
      <3>1. new = [q EXCEPT !.owes = @ \cup {Marker(h, u)}]
        BY <2>2, <2>4, Zenon DEF Processed
      <3> DEFINE O == q.owes \cup {Marker(h, u)}
      <3>a. O \in SUBSET (Fams \X Views)
        BY <1>2, <2>2 DEF PeerState, Marker
      <3>b. new = [q EXCEPT !.owes = O]
        BY <3>1
      <3>c. O = ps.owes \cup {<<u.fam, h.view>>}
        BY <2>2 DEF Marker
      <3> HIDE DEF O, q
      <3>2. /\ new \in PeerState /\ new.up /\ new.eor
            /\ new.owes = ps.owes \cup {<<u.fam, h.view>>}
        BY <2>2, <2>4, <3>a, <3>b, <3>c, Zenon DEF PeerState
      <3>3. table'[h] = new
        BY <2>0 DEF MachineInv, MachineTypes
      <3> DEFINE D == due[h] \cup {u.fam} \cup u.also
                 B == (behind[h] \cup (u.also \ due[h])) \ {u.fam}
      <3>4. Due(h, u) = D /\ Behind(h, u) = B
        BY <2>4, <3>2, <3>3, Zenon DEF Due, Behind
      <3>f. D \in SUBSET Fams /\ B \in SUBSET Fams
        BY <1>2, <1>3, Zenon
      \* What is behind none is the first family, or was owed before.
      <3>5. \A f \in D \ B : <<f, h.view>> \in new.owes
        <4>1. \A f \in D \ B : f = u.fam \/ f \in due[h] \ behind[h]
          BY Zenon
        <4> QED
          BY <1>4, <3>2, <4>1, Zenon
      <3> HIDE DEF new, D, B
      <3> QED
        BY <2>0, <3>2, <3>4, <3>5, <3>f, OneHeader, Zenon
    <2>5. CASE u.kind # "eor" /\ ~(u.kind = "announce" /\ ps.eor)
      <3>1. new = q
        BY <2>2, <2>5, Zenon DEF Processed
      <3>2. table'[h] = q
        BY <2>1, <3>1, Zenon DEF MachineInv, MachineTypes
      <3>3. Due(h, u) = due[h]
        BY <2>2, <2>5, <3>2, Zenon DEF Due
      <3>4. table' = [table EXCEPT ![h] = q]
        BY <2>1, <3>1, Zenon
      <3> DEFINE B == behind[h] \cap due[h]
      <3>5. B \in SUBSET Fams /\ \A f \in due[h] \ B : <<f, h.view>> \in q.owes
        BY <1>3, <1>4, <2>2, Zenon
      <3>6. due' = [due EXCEPT ![h] = due[h]]
        BY <3>3
      <3>7. Behind(h, u) = B
        BY <2>2, <2>5, <3>2, <3>3, Zenon DEF Behind
      <3> HIDE DEF q, B
      <3> QED
        BY <1>3, <2>2, <3>4, <3>5, <3>6, <3>7, OneHeader, Zenon
    <2> QED
      BY <2>3, <2>4, <2>5, Zenon
  <1> QED
    BY <1>5, <1>6

LEMMA NextMachine == MachineInv /\ [FsmNext]_fsmVars => MachineInv'
  <1> SUFFICES ASSUME MachineInv, [FsmNext]_fsmVars PROVE MachineInv'
    OBVIOUS
  <1>1. CASE UNCHANGED <<table, history>>
    BY <1>1, Zenon DEF MachineInv, MachineTypes, Owed, history
  <1>2. CASE /\ table' = [h \in Headers |-> NoPeer]
             /\ due' = [h \in Headers |-> {}]
             /\ behind' = due'
    BY <1>2, Zenon DEF MachineInv, MachineTypes, Owed, PeerState, NoPeer
  <1>3. ASSUME NEW h \in Headers, NEW four \in BOOLEAN, NEW eor \in BOOLEAN,
               UpNotification(h, four, eor)
        PROVE  MachineInv'
    <2> DEFINE ps == [four |-> four, eor |-> eor, owes |-> {}, up |-> TRUE]
    <2>1. ps \in PeerState /\ ps.up
      BY DEF PeerState
    <2>2. due[h] = {}
      BY <1>3, Zenon DEF UpNotification, Up, Owed, MachineInv
    <2>3. due' = [due EXCEPT ![h] = {}]
      BY <1>3, <2>2, Zenon DEF UpNotification, history, MachineTypes, MachineInv
    <2>6. /\ behind' = [behind EXCEPT ![h] = behind[h]]
          /\ behind[h] \in SUBSET Fams
      BY <1>3, Zenon DEF UpNotification, history, MachineTypes, MachineInv
    <2>5. /\ {} \in SUBSET Fams
          /\ \A f \in {} \ behind[h] : <<f, h.view>> \in ps.owes
      OBVIOUS
    <2>4. table' = [table EXCEPT ![h] = ps]
      BY <1>3, Zenon DEF UpNotification
    <2> HIDE DEF ps
    <2> QED
      BY <2>1, <2>3, <2>4, <2>5, <2>6, OneHeader, Zenon
  <1>4. ASSUME NEW h \in Headers, DownNotification(h)
        PROVE  MachineInv'
    BY <1>4, Zenon DEF DownNotification, MachineInv, MachineTypes, Owed, PeerState, NoPeer
  <1>5. ASSUME NEW h \in Headers, NEW u \in Updates, MonitoringMessage(h, u)
        PROVE  MachineInv'
    BY <1>5, UpdateOwed, Zenon DEF MonitoringMessage
  <1> QED
    BY <1>1, <1>2, <1>3, <1>4, <1>5, Zenon DEF FsmNext, fsmVars, Bind, Rebind,
       UnitEnds, Connected, StreamEnds, RejectedByScript, NotInitiation,
       AfterTermination, InitiationAgain, StatisticsReport, InitiationFirst,
       TerminationMessage, Ignored, InvalidMessage, Unaffected, history

\* Dumping::route_monitoring_preprocessing, for any number of peers: the
\* machine goes on to Updating only when every peer that sends End-of-RIB has
\* sent it for each family, but for those it only announced behind another one.
THEOREM DumpsEndComplete == FsmSpec => DumpFinished
  <1>1. ASSUME MachineInv, MachineInv', [FsmNext]_fsmVars,
               fsm = "dumping", fsm' = "updating"
        PROVE  \A h \in Headers : due'[h] \subseteq behind'[h]
    <2>1. \A k \in Headers : table'[k].owes = {}
      BY <1>1, Zenon DEF FsmNext, fsmVars, Bind, Rebind, UnitEnds, Connected,
         StreamEnds, RejectedByScript, NotInitiation, AfterTermination,
         InitiationAgain, StatisticsReport, InitiationFirst,
         TerminationMessage, Ignored, InvalidMessage, Unaffected,
         UpNotification, DownNotification, MonitoringMessage, NoneLeft,
         history
    <2> QED
      BY <1>1, <2>1, Zenon DEF MachineInv, Owed
  <1>2. MachineInv /\ MachineInv' /\ [FsmNext]_fsmVars =>
            [fsm = "dumping" /\ fsm' = "updating" =>
                \A h \in Headers : due'[h] \subseteq behind'[h]]_fsmVars
    BY <1>1
  <1> QED
    BY <1>2, InitMachine, NextMachine, PTL DEF FsmSpec, DumpFinished
=============================================================================
