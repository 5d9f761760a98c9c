----------------------------- MODULE BgpSessions -----------------------------
(***************************************************************************)
(* The connections one BGP speaker makes to bgp-tcp-in, its entry in the   *)
(* ingress register, its statistics and its routes in the RIB.             *)
(*                                                                         *)
(* A connection is accepted under a tentative id of its own.  When the     *)
(* session is negotiated it looks for an entry of the same speaker, in     *)
(* whatever state, and takes over its id, withdrawing what is left of the  *)
(* routes; it then throws out the session found in live_sessions, puts     *)
(* itself there and marks its entry Connected.  A session that ends        *)
(* withdraws its routes and removes the entry unless live_sessions shows   *)
(* that a newer session has taken the id over.  All of this happens in     *)
(* steps between which other connections' tasks run.                       *)
(*                                                                         *)
(* Peers, the parameter of RibStore, is the set of connections; register() *)
(* hands out one id per connection, so a connection is also the name of    *)
(* its tentative id.  Sessions of different speakers, that is of different *)
(* (remote_addr, remote_asn), share nothing and are left out.              *)
(***************************************************************************)
EXTENDS RibStore

CONSTANT Restart   \* the speaker opens a connection only after it has
                   \* stopped using its previous one

ASSUME BgpAssumption == Restart \in BOOLEAN /\ "none" \notin Peers

VARIABLES
    register,   \* the register's entries
    at,         \* how far each connection's task is
    id,         \* session_ingress_id
    live,       \* live_sessions: the session of the speaker
    old,        \* the session a connection found there
    aborted,    \* the tasks that have been aborted
    push,       \* the update a task is pushing into the rib unit
    stats,      \* the ids in the BgpPeerStatsRegistry
    newest,     \* the connection made last
    announced,  \* the routes the speaker has announced on each (history)
    crossed     \* the connections that began to negotiate before another one
                \* had finished (history)

historyVars == <<newest, announced, crossed>>
vars == <<register, at, id, live, old, aborted, push, stats, historyVars,
          ribVars>>

\* An entry has the tuple of the speaker or, when it was made by a mere change
\* of state, has not.
Absent == [state |-> "absent", tuple |-> FALSE]
Entries == [state : {"absent", "connected", "disconnected"}, tuple : BOOLEAN]

Idle == [kind |-> "none", id |-> "none", pfx |-> {}]
Pushing(kind, i, X) == [kind |-> kind, id |-> i, pfx |-> X]

\* The steps of a task that has been told SessionNegotiated, and all steps.
Negotiating == {"collide", "replace", "evict", "insert", "mark"}
Steps == Negotiating \cup {"new", "open", "up", "cleanup", "gone"}

Init ==
    /\ RibInit
    /\ register = [i \in Peers |-> Absent]
    /\ at = [s \in Peers |-> "new"]
    /\ id = [s \in Peers |-> s]
    /\ live = "none"
    /\ old = [s \in Peers |-> "none"]
    /\ aborted = {}
    /\ push = [s \in Peers |-> Idle]
    /\ stats = {}
    /\ newest = "none"
    /\ announced = [s \in Peers |-> {}]
    /\ crossed = {}

-----------------------------------------------------------------------------

WithState(i, s) == [register EXCEPT ![i].state = s]

\* find_existing_bgp_session looks at the tuple only.
Matching == {i \in Peers : register[i].tuple}

\* A task goes on when its update has been passed on.
Ready(s) == push[s] = Idle

\* What the speaker has in flight when it connects again has long arrived.
Accept(s) ==
    /\ at[s] = "new"
    /\ Restart => \A t \in Peers : push[t].kind \notin {"announce", "withdraw"}
    /\ at' = [at EXCEPT ![s] = "open"]
    /\ newest' = s
    /\ UNCHANGED <<register, id, live, old, aborted, push, stats, announced,
                   crossed, ribVars>>

\* (Mutant) An id is taken over with the routes it has.
NegotiateSilently(s) ==
    /\ at[s] = "open"
    /\ Restart => newest = s
    /\ at' = [at EXCEPT ![s] = "collide"]
    /\ crossed' = IF \E t \in Peers : at[t] \in Negotiating
                  THEN crossed \cup {s} ELSE crossed
    /\ \/ \E i \in Matching : id' = [id EXCEPT ![s] = i]
       \/ Matching = {} /\ UNCHANGED id
    /\ UNCHANGED <<register, live, old, aborted, push, stats, newest,
                   announced, ribVars>>

\* SessionNegotiated: an entry of the speaker is taken over.
Negotiate(s) ==
    /\ at[s] = "open"
    /\ Restart => newest = s
    /\ at' = [at EXCEPT ![s] = "collide"]
    /\ crossed' = IF \E t \in Peers : at[t] \in Negotiating
                  THEN crossed \cup {s} ELSE crossed
    /\ \/ \E i \in Matching :
            /\ id' = [id EXCEPT ![s] = i]
            /\ push' = [push EXCEPT ![s] = Pushing("down", i, {})]
       \/ Matching = {} /\ UNCHANGED <<id, push>>
    /\ UNCHANGED <<register, live, old, aborted, stats, newest, announced,
                   ribVars>>

\* The session in live_sessions is taken out.
Collide(s) ==
    /\ at[s] = "collide"
    /\ Ready(s)
    /\ live' = "none"
    /\ old' = [old EXCEPT ![s] = live]
    /\ at' = [at EXCEPT ![s] = IF live = "none" THEN "insert" ELSE "replace"]
    /\ UNCHANGED <<register, id, aborted, push, stats, historyVars, ribVars>>

\* Its task is aborted.  If it has another id, that id's routes go ...
Replace(s) ==
    /\ at[s] = "replace"
    /\ aborted' = aborted \cup {old[s]}
    /\ \/ /\ id[old[s]] # id[s]
          /\ push' = [push EXCEPT ![s] = Pushing("down", id[old[s]], {})]
          /\ at' = [at EXCEPT ![s] = "evict"]
       \/ /\ id[old[s]] = id[s]
          /\ at' = [at EXCEPT ![s] = "insert"]
          /\ UNCHANGED push
    /\ UNCHANGED <<register, id, live, old, stats, historyVars, ribVars>>

\* ... and then its entry.
Evict(s) ==
    /\ at[s] = "evict"
    /\ Ready(s)
    /\ register' = [register EXCEPT ![id[old[s]]] = Absent]
    /\ at' = [at EXCEPT ![s] = "insert"]
    /\ UNCHANGED <<id, live, old, aborted, push, stats, historyVars, ribVars>>

Insert(s) ==
    /\ at[s] = "insert"
    /\ live' = s
    /\ at' = [at EXCEPT ![s] = "mark"]
    /\ UNCHANGED <<register, id, old, aborted, push, stats, historyVars,
                   ribVars>>

\* The entry is completed and the statistics are looked up or created.
MarkConnected(s) ==
    /\ at[s] = "mark"
    /\ register' = [register EXCEPT ![id[s]] =
                       [state |-> "connected", tuple |-> TRUE]]
    /\ stats' = stats \cup {id[s]}
    /\ at' = [at EXCEPT ![s] = "up"]
    /\ UNCHANGED <<id, live, old, aborted, push, historyVars, ribVars>>

UpdateMessage(s, x) ==
    /\ at[s] = "up"
    /\ Ready(s)
    /\ Restart => newest = s
    /\ \/ /\ push' = [push EXCEPT ![s] = Pushing("announce", id[s], {x})]
          /\ announced' = [announced EXCEPT ![s] = @ \cup {x}]
       \/ /\ push' = [push EXCEPT ![s] = Pushing("withdraw", id[s], {x})]
          /\ announced' = [announced EXCEPT ![s] = @ \ {x}]
    /\ UNCHANGED <<register, at, id, live, old, aborted, stats, newest,
                   crossed, ribVars>>

\* The connection is lost, or given up for any other reason.  A session that is
\* still the one in live_sessions takes itself out, marks its entry and starts
\* to withdraw its routes.
End(s) ==
    /\ Ready(s)
    /\ \/ /\ at[s] = "open" \/ (at[s] = "up" /\ live # s)
          /\ at' = [at EXCEPT ![s] = "gone"]
          /\ UNCHANGED <<register, live, push>>
       \/ /\ at[s] = "up" /\ live = s
          /\ at' = [at EXCEPT ![s] = "cleanup"]
          /\ live' = "none"
          /\ register' = WithState(id[s], "disconnected")
          /\ push' = [push EXCEPT ![s] = Pushing("down", id[s], {})]
    /\ announced' = [announced EXCEPT ![s] = {}]
    /\ UNCHANGED <<id, old, aborted, stats, newest, crossed, ribVars>>

\* (Mutant) Ownership is not checked again.
ReclaimedNever(s) == FALSE

\* Whether the session in live_sessions uses the id of s.
Reclaimed(s) == live # "none" /\ id[live] = id[s]

\* (Mutant) The statistics are forgotten.
CleanupKeepsStats(s) ==
    /\ at[s] = "cleanup"
    /\ Ready(s)
    /\ at' = [at EXCEPT ![s] = "gone"]
    /\ \/ Reclaimed(s) /\ UNCHANGED register
       \/ ~Reclaimed(s) /\ register' = [register EXCEPT ![id[s]] = Absent]
    /\ UNCHANGED <<id, live, old, aborted, push, stats, historyVars, ribVars>>

\* Entry and statistics are removed unless a newer session uses the id.
Cleanup(s) ==
    /\ at[s] = "cleanup"
    /\ Ready(s)
    /\ at' = [at EXCEPT ![s] = "gone"]
    /\ \/ Reclaimed(s) /\ UNCHANGED <<register, stats>>
       \/ /\ ~Reclaimed(s)
          /\ register' = [register EXCEPT ![id[s]] = Absent]
          /\ stats' = stats \ {id[s]}
    /\ UNCHANGED <<id, live, old, aborted, push, historyVars, ribVars>>

\* (Mutant) A task that is told to stop looks only between two updates.
AbortWhenIdle(s) ==
    /\ s \in aborted
    /\ at[s] = "up" /\ Ready(s)
    /\ at' = [at EXCEPT ![s] = "gone"]
    /\ announced' = [announced EXCEPT ![s] = {}]
    /\ UNCHANGED <<register, id, live, old, aborted, push, stats, newest,
                   crossed, ribVars>>

\* An aborted task stops where it waits.  The update it was pushing is applied
\* all the same if the rib unit has got hold of it.
Abort(s) ==
    /\ s \in aborted
    /\ at[s] = "up" \/ ~Ready(s)
    /\ at[s] # "gone"
    /\ at' = [at EXCEPT ![s] = "gone"]
    /\ \/ UNCHANGED push
       \/ push' = [push EXCEPT ![s] = Idle]
    /\ announced' = [announced EXCEPT ![s] = {}]
    /\ UNCHANGED <<register, id, live, old, aborted, stats, newest,
                   crossed, ribVars>>

\* The rib unit applies an update.  A route for an id that was withdrawn marks
\* the entry Connected as well.
RibApply(s) ==
    LET u == push[s]
    IN  /\ ~Ready(s)
        /\ \/ u.kind = "announce" /\ InsertActive(u.id, u.pfx)
           \/ u.kind = "withdraw" /\ InsertWithdrawn(u.id, u.pfx)
           \/ u.kind = "down" /\ WithdrawForIngresses({u.id})
        /\ register' = IF u.kind = "announce" /\ u.id \in withdrawn
                       THEN WithState(u.id, "connected") ELSE register
        /\ push' = [push EXCEPT ![s] = Idle]
        /\ UNCHANGED <<at, id, live, old, aborted, stats, historyVars>>

-----------------------------------------------------------------------------

\* What a task does without being told to by the speaker.
Task(s) ==
    \/ Collide(s) \/ Replace(s) \/ Evict(s) \/ Insert(s) \/ MarkConnected(s)
    \/ Cleanup(s) \/ Abort(s) \/ RibApply(s)

Next ==
    \E s \in Peers :
        \/ Accept(s) \/ Negotiate(s) \/ End(s) \/ Task(s)
        \/ \E x \in Prefixes : UpdateMessage(s, x)

Spec == Init /\ [][Next]_vars

\* An aborted task is dropped the next time it waits, whatever else it may
\* have left to do.
FairSpec ==
    /\ Spec
    /\ \A s \in Peers : WF_vars(Task(s)) /\ WF_vars(Abort(s))

-----------------------------------------------------------------------------
(***************************************************************************)
(* Properties.                                                             *)
(***************************************************************************)

TasksOK ==
    /\ at \in [Peers -> Steps]
    /\ id \in [Peers -> Peers]
    /\ old \in [Peers -> Peers \cup {"none"}]
    /\ \A s \in Peers : at[s] \in {"replace", "evict"} => old[s] # "none"

UpdatesOK ==
    /\ push \in [Peers -> [kind : {"none", "announce", "withdraw", "down"},
                           id : Peers \cup {"none"}, pfx : SUBSET Prefixes]]
    /\ \A s \in Peers : push[s].kind # "none" => push[s].id # "none"

SharedOK ==
    /\ register \in [Peers -> Entries]
    /\ live \in Peers \cup {"none"}
    /\ aborted \subseteq Peers
    /\ stats \subseteq Peers
    /\ newest \in Peers \cup {"none"}
    /\ announced \in [Peers -> SUBSET Prefixes]
    /\ crossed \subseteq Peers

\* Every variable has its type, a task that replaces a session has found one,
\* and an update under way has an id.
TypeOK == RibTypeOK /\ TasksOK /\ UpdatesOK /\ SharedOK

\* A session that is up and in live_sessions.
IsLive(s) == live = s /\ at[s] = "up"

\* No connection is left, and nothing of one under way.
AllGone == \A s \in Peers : at[s] \in {"new", "gone"} /\ Ready(s)

Clean == stats = {} /\ \A i \in Peers : register[i] = Absent /\ Visible(i) = {}

\* As long as connections have negotiated one after the other, the session in
\* live_sessions has its entry, Connected, and its statistics: no teardown of
\* an older session takes them away.
LiveRegistered ==
    \A s \in Peers : crossed = {} /\ IsLive(s) =>
        /\ register[id[s]] = [state |-> "connected", tuple |-> TRUE]
        /\ id[s] \in stats

\* As long as connections have negotiated one after the other, nothing is left
\* of them when they are gone: no entry, no statistics, no route.
NothingLeaks == crossed = {} /\ AllGone => Clean

\* A session in live_sessions shows no route that it has not announced itself:
\* those of its predecessor have been withdrawn.
NoStaleRoutes ==
    \A s \in Peers : crossed = {} /\ IsLive(s) /\ Ready(s) =>
        Visible(id[s]) \subseteq announced[s]

\* A session that is thrown out is gone in the end, even if its task is in the
\* middle of an update.
AbortedGone ==
    \A s \in Peers : s \in aborted ~> at[s] = "gone"
=============================================================================
