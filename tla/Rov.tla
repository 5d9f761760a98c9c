---- MODULE Rov ----
(***************************************************************************)
(* Route origin validation: the rtr-in unit (src/units/rtr/client.rs), the *)
(* VRP cache and check_rov (src/units/rib_unit/rpki.rs), and what the rib  *)
(* unit does with an RTR reset or serial update (process_update and        *)
(* filter_payload in src/units/rib_unit/unit.rs).                          *)
(*                                                                         *)
(* The prefixes are nested in each other and known by their lengths,       *)
(* counted from one; what covers a route always is such a chain.  Routes   *)
(* come from one peer and have an origin; the Roto filter rib_in_pre calls *)
(* check_rov and accepts.                                                  *)
(* Router keys and ASPAs are only stored and left out.                     *)
(***************************************************************************)
EXTENDS Naturals, FiniteSets

CONSTANTS Prefixes,     \* lengths of the prefixes
          Asns,         \* origins
          Vrps,         \* [prefix, maxlen, asn] the server may have
          HasFilter,    \* the Roto script has a filter for VRP updates
          MaxServer,    \* bound: changes at the server
          MaxInsert,    \* bound: route updates
          MaxFull       \* bound: cache resets

ASSUME RovAssumption ==
    /\ Prefixes \subseteq Nat \ {0}
    /\ Vrps \subseteq [prefix : Prefixes, maxlen : Prefixes, asn : Asns]
    /\ HasFilter \in BOOLEAN
    /\ {MaxServer, MaxInsert, MaxFull} \subseteq Nat

VARIABLES server,     \* the VRPs of the relying party software
          changes,    \* changes of them so far
          rtr,        \* the RTR client: connect, session, wait or ended
          fresh,      \* the client has no state: the next update is a reset
          synced,     \* the server's VRPs as of the last update
          upd,        \* the update the rib unit works on
          fulls,      \* resets so far
          held,       \* (prefix, origin) with a record in the VrpStore
          maxlens,    \* their MaxLenLists, as multiplicities
          rib,        \* the route of each prefix
          job,        \* the route update being filtered
          inserts,    \* route updates so far
          walk,       \* the validation walk of each reset
          excused,    \* a race or verdict after which a status may be wrong
          last,       \* what the route updates made of each prefix (history)
          lost        \* a record read before an update is written after it

rtrVars == <<server, changes, rtr, fresh, synced>>
cacheVars == <<upd, fulls, held, maxlens>>
ribVars == <<rib, job, inserts, walk>>
raceVars == <<excused, last, lost>>
rovVars == <<rtrVars, cacheVars, ribVars, raceVars>>

Statuses == {"NotChecked", "NotFound", "Valid", "Invalid"}
NoRoute == [origin |-> 0, rov |-> "NotChecked", active |-> FALSE]
Content(rec) == [origin |-> rec.origin, active |-> rec.active]
NoUpd == [kind |-> "none", verbs |-> {}, step |-> "verb", at |-> 0,
          recs |-> {}]
NoJob == [prefix |-> 0, rec |-> NoRoute]
Fulls == 1 .. MaxFull
IdleWalk == [left |-> {}, at |-> 0, rec |-> NoRoute, checked |-> FALSE]
Keys == Prefixes \X Asns

-----------------------------------------------------------------------------
(* check_rov *)

\* The longest match: the record list of the longest stored prefix, emptied
\* ones included, then the less specific ones.
Stored(p) == {k \in held : k[1] <= p}
Longest(p) == {k \in Stored(p) : \A l \in Stored(p) : l[1] <= k[1]}
LessSpecifics(p) == Stored(p) \ Longest(p)
List(k) == {m \in Prefixes : maxlens[k][m] > 0}
Matches(ks, p, a) == \E k \in ks : k[2] = a /\ \E m \in List(k) : p <= m
AnyHeld(ks) == ks # {}
NotEmpty(ks) == \E k \in ks : List(k) # {}

CheckRovByRecords(p, a) ==
    LET valid == \/ Matches(Longest(p), p, a)
                 \/ Matches(LessSpecifics(p), p, a)
        covered == AnyHeld(Longest(p)) \/ AnyHeld(LessSpecifics(p))
    IN  IF valid THEN "Valid" ELSE IF covered THEN "Invalid" ELSE "NotFound"
CheckRov(p, a) ==
    LET valid == \/ Matches(Longest(p), p, a)
                 \/ Matches(LessSpecifics(p), p, a)
        covered == NotEmpty(Longest(p)) \/ NotEmpty(LessSpecifics(p))
    IN  IF valid THEN "Valid" ELSE IF covered THEN "Invalid" ELSE "NotFound"

Checked(p, rec) == [rec EXCEPT !.rov = CheckRov(p, rec.origin)]

RovInit ==
    /\ server = {} /\ changes = 0
    /\ rtr = "connect" /\ fresh = TRUE /\ synced = {}
    /\ upd = NoUpd /\ fulls = 0
    /\ held = {} /\ maxlens = [k \in Keys |-> [m \in Prefixes |-> 0]]
    /\ rib = [p \in Prefixes |-> NoRoute]
    /\ job = NoJob /\ inserts = 0
    /\ walk = [n \in Fulls |-> IdleWalk]
    /\ excused = FALSE /\ lost = FALSE
    /\ last = [p \in Prefixes |-> Content(NoRoute)]

Walking(n) == walk[n] # IdleWalk
IsCaptured(p) ==
    \/ \E x \in upd.recs : x[1] = p
    \/ \E n \in Fulls : walk[n].at = p

-----------------------------------------------------------------------------
(* The rtr-in unit *)

ServerChanges(v) ==
    /\ changes < MaxServer /\ changes' = changes + 1
    /\ server' = IF v \in server THEN server \ {v} ELSE server \cup {v}
    /\ UNCHANGED <<rtr, fresh, synced, cacheVars, ribVars, raceVars>>

\* connect: a client without state; a failure waits for the next attempt.
RtrConnect ==
    /\ rtr = "connect"
    /\ rtr' \in {"session", "wait"} /\ fresh' = TRUE
    /\ UNCHANGED <<server, changes, synced, cacheVars, ribVars, raceVars>>
RetryWait ==
    /\ rtr = "wait" /\ rtr' = "connect"
    /\ UNCHANGED <<server, changes, fresh, synced, cacheVars, ribVars, raceVars>>

\* update: a reset if there is no state or the server wants one, else the
\* differences; push_update only takes announcements in a reset.  The client
\* goes on when the rib unit is done with the update.
ResetVerbs == {"Announce"} \X server
SerialVerbs ==
    ({"Announce"} \X (server \ synced)) \cup ({"Withdraw"} \X (synced \ server))

FetchFull ==
    /\ rtr = "session" /\ upd = NoUpd /\ fulls < MaxFull
    /\ upd' = [NoUpd EXCEPT !.kind = "Full", !.verbs = ResetVerbs]
    /\ synced' = server /\ fresh' = FALSE /\ fulls' = fulls + 1
    /\ UNCHANGED <<server, changes, rtr, held, maxlens, ribVars, raceVars>>
FetchDelta ==
    /\ rtr = "session" /\ upd = NoUpd /\ ~fresh /\ server # synced
    /\ upd' = [NoUpd EXCEPT !.kind = "Delta", !.verbs = SerialVerbs]
    /\ synced' = server
    /\ UNCHANGED <<server, changes, rtr, fresh, fulls, held, maxlens, ribVars,
                   raceVars>>
UpdateFails ==
    /\ rtr = "session" /\ upd = NoUpd /\ rtr' = "wait"
    /\ UNCHANGED <<server, changes, fresh, synced, cacheVars, ribVars, raceVars>>

\* Termination drops the future of the client, and with it an update whose
\* handling awaits the delivery of the filter's output.
RtrTerminate ==
    /\ rtr # "ended" /\ rtr' = "ended"
    /\ upd = NoUpd \/ upd.step = "match"
    /\ upd' = NoUpd
    /\ excused' = (excused \/ upd # NoUpd)
    /\ UNCHANGED <<server, changes, fresh, synced, fulls, held, maxlens,
                   ribVars, last, lost>>

-----------------------------------------------------------------------------
(* The rib unit: Update::Rtr *)

PutList(v, list) ==
    /\ held' = held \cup {<<v.prefix, v.asn>>}
    /\ maxlens' = [maxlens EXCEPT ![<<v.prefix, v.asn>>] = list]
OldList(v) == maxlens[<<v.prefix, v.asn>>]
Pushed(v) == [OldList(v) EXCEPT ![v.maxlen] = @ + 1]
Removed(v) ==
    [OldList(v) EXCEPT ![v.maxlen] = IF @ > 0 THEN @ - 1 ELSE 0]

\* A reset pushes each VRP to the list that is there.
FullVerb(x) ==
    /\ upd.kind = "Full" /\ x \in upd.verbs
    /\ PutList(x[2], Pushed(x[2]))
    /\ upd' = [upd EXCEPT !.verbs = @ \ {x}]
    /\ UNCHANGED <<rtrVars, fulls, ribVars, raceVars>>
FullDoneUnwalked ==
    /\ upd.kind = "Full" /\ upd.verbs = {}
    /\ upd' = NoUpd
    /\ UNCHANGED <<rtrVars, fulls, held, maxlens, ribVars, raceVars>>

\* Then it spawns the walk.  A route checked before, by a route update or by an
\* earlier walk, may be stored after the new walk has been there.
FullDone ==
    /\ upd.kind = "Full" /\ upd.verbs = {}
    /\ walk' = [walk EXCEPT ![fulls].left = Prefixes]
    /\ upd' = NoUpd
    /\ excused' = (excused \/ job # NoJob \/ \E n \in Fulls : Walking(n))
    /\ UNCHANGED <<rtrVars, fulls, held, maxlens, rib, job, inserts, last, lost>>

\* The walk reads a route, validates it and writes it back, in any state it has
\* now.
WalkRead(n, p) ==
    /\ walk[n].at = 0 /\ p \in walk[n].left
    /\ walk' = [walk EXCEPT ![n].left = @ \ {p},
                            ![n].at = IF rib[p] = NoRoute THEN 0 ELSE p,
                            ![n].rec = rib[p]]
    /\ UNCHANGED <<rtrVars, cacheVars, rib, job, inserts, raceVars>>
WalkCheck(n) ==
    /\ walk[n].at # 0 /\ ~walk[n].checked
    /\ walk' = [walk EXCEPT ![n].rec = Checked(walk[n].at, @),
                            ![n].checked = TRUE]
    /\ UNCHANGED <<rtrVars, cacheVars, rib, job, inserts, raceVars>>
WalkStore(n) ==
    /\ walk[n].checked
    /\ rib' = [rib EXCEPT ![walk[n].at] = walk[n].rec]
    /\ walk' = [walk EXCEPT ![n] = [IdleWalk EXCEPT !.left = walk[n].left]]
    /\ UNCHANGED <<rtrVars, cacheVars, job, inserts, raceVars>>

\* One VRP of a serial update.
DeltaStore(x) ==
    /\ upd.kind = "Delta" /\ upd.step = "verb" /\ x \in upd.verbs
    /\ \/ /\ x[1] = "Announce"
          /\ PutList(x[2], IF OldList(x[2])[x[2].maxlen] > 0
                           THEN OldList(x[2]) ELSE Pushed(x[2]))
       \/ /\ x[1] = "Withdraw"
          /\ PutList(x[2], Removed(x[2]))
    /\ upd' = [upd EXCEPT !.verbs = @ \ {x}, !.at = x[2].prefix,
                          !.step = IF HasFilter THEN "filter" ELSE "match"]
    /\ excused' = (excused \/ \E n \in Fulls : Walking(n))
    /\ UNCHANGED <<rtrVars, fulls, ribVars, last, lost>>

\* The filter for VRP updates runs under the lock of the Roto context, which a
\* route update holds from its check to its insertion.  A rejected VRP stays in
\* the cache, but no route is validated.
DeltaFilter ==
    /\ upd.step = "filter" /\ job = NoJob
    /\ upd' = [upd EXCEPT !.step = "match"]
    /\ UNCHANGED <<rtrVars, fulls, held, maxlens, ribVars, raceVars>>
DeltaReject ==
    /\ upd.step = "filter" /\ job = NoJob
    /\ upd' = [upd EXCEPT !.step = "verb"]
    /\ excused' = TRUE
    /\ UNCHANGED <<rtrVars, fulls, held, maxlens, ribVars, last, lost>>

\* The routes of the VRP's prefix and the more specific ones, as they are now,
\* are validated and written back one after the other.
MatchPrefix(at) ==
    {<<p, rib[p]>> : p \in {q \in Prefixes : at <= q /\ rib[q].active}}
DeltaMatch ==
    /\ upd.step = "match"
    /\ upd' = [upd EXCEPT !.step = "write", !.recs = MatchPrefix(upd.at)]
    /\ UNCHANGED <<rtrVars, fulls, held, maxlens, ribVars, raceVars>>
DeltaWrite(x) ==
    /\ upd.step = "write" /\ x \in upd.recs
    /\ rib' = [rib EXCEPT ![x[1]] = Checked(x[1], x[2])]
    /\ upd' = [upd EXCEPT !.recs = @ \ {x}]
    /\ UNCHANGED <<rtrVars, fulls, held, maxlens, job, inserts, walk, raceVars>>
DeltaNext ==
    /\ upd.step = "write" /\ upd.recs = {}
    /\ upd' = [upd EXCEPT !.step = "verb", !.at = 0]
    /\ UNCHANGED <<rtrVars, fulls, held, maxlens, ribVars, raceVars>>
DeltaDone ==
    /\ upd.kind = "Delta" /\ upd.step = "verb" /\ upd.verbs = {}
    /\ upd' = NoUpd
    /\ UNCHANGED <<rtrVars, fulls, held, maxlens, ribVars, raceVars>>

-----------------------------------------------------------------------------
(* The rib unit: routes *)

\* filter_payload takes the lock and calls rib_in_pre, which checks the route.
FilterPayload(p, a) ==
    /\ job = NoJob /\ inserts < MaxInsert /\ inserts' = inserts + 1
    /\ job' = [prefix |-> p, rec |->
                 Checked(p, [NoRoute EXCEPT !.origin = a, !.active = TRUE])]
    /\ UNCHANGED <<rtrVars, cacheVars, rib, walk, raceVars>>
FilterWithdrawal(p) ==
    /\ job = NoJob /\ inserts < MaxInsert /\ inserts' = inserts + 1
    /\ rib[p].active
    /\ job' = [prefix |-> p, rec |-> [rib[p] EXCEPT !.active = FALSE]]
    /\ UNCHANGED <<rtrVars, cacheVars, rib, walk, raceVars>>

\* insert_payload and the release of the lock.  What a walk or a serial update
\* has read and not yet written back will overwrite it.
InsertPayload ==
    /\ job # NoJob
    /\ rib' = [rib EXCEPT ![job.prefix] =
                  IF job.rec.active THEN job.rec ELSE [@ EXCEPT !.active = FALSE]]
    /\ job' = NoJob
    /\ last' = [last EXCEPT ![job.prefix] =
                   [origin |-> IF job.rec.active THEN job.rec.origin ELSE @.origin,
                    active |-> job.rec.active]]
    /\ lost' = (lost \/ IsCaptured(job.prefix))
    /\ UNCHANGED <<rtrVars, cacheVars, inserts, walk, excused>>

RovNext ==
    \/ \E v \in Vrps : ServerChanges(v)
    \/ RtrConnect \/ RetryWait \/ FetchFull \/ FetchDelta \/ UpdateFails
    \/ RtrTerminate
    \/ \E x \in upd.verbs : FullVerb(x) \/ DeltaStore(x)
    \/ FullDone \/ DeltaFilter \/ DeltaReject \/ DeltaMatch
    \/ \E x \in upd.recs : DeltaWrite(x)
    \/ DeltaNext \/ DeltaDone
    \/ \E n \in Fulls : WalkCheck(n) \/ WalkStore(n)
                        \/ \E p \in Prefixes : WalkRead(n, p)
    \/ \E p \in Prefixes : FilterWithdrawal(p)
                           \/ \E a \in Asns : FilterPayload(p, a)
    \/ InsertPayload

RovSpec == RovInit /\ [][RovNext]_rovVars

-----------------------------------------------------------------------------
(* Properties *)

\* RFC 6811, section 2.
Rfc6811(vs, p, a) ==
    LET covering == {v \in vs : v.prefix <= p}
    IN  IF \E v \in covering : v.asn = a /\ p <= v.maxlen THEN "Valid"
        ELSE IF covering # {} THEN "Invalid" ELSE "NotFound"

\* rpki.rs:159-235 with unit.rs:848-1110: between two updates check_rov never
\* fails a route that the VRPs of the server authorise, and until the client
\* has to start over it says exactly what RFC 6811 says for them, also for VRPs
\* that were withdrawn and left an empty list behind.
RovFollowsServer ==
    upd = NoUpd /\ rtr # "ended" =>
        \A p \in Prefixes, a \in Asns :
            /\ Rfc6811(synced, p, a) = "Valid" => CheckRov(p, a) = "Valid"
            /\ fulls <= 1 => CheckRov(p, a) = Rfc6811(synced, p, a)

\* unit.rs:955-1010 and 1147-1265: when updates and walks are done, every route
\* carries the status that check_rov gives it now, however route updates and
\* serial updates interleaved.  Excepted is what the code does not guard: a
\* route that was checked before a reset, any update during a walk; and a
\* verdict of the user.  And validation only ever changes the status: the rib
\* has the routes that the route updates made, until one of them falls between
\* the reading and the writing of a record by a walk or a serial update.
StatusSettled ==
    /\ /\ ~excused /\ upd = NoUpd /\ job = NoJob
       /\ \A n \in Fulls : ~Walking(n)
       => \A p \in Prefixes :
             rib[p].active => rib[p].rov = CheckRov(p, rib[p].origin)
    /\ ~lost => \A p \in Prefixes : Content(rib[p]) = last[p]
====
