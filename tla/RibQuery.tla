------------------------------ MODULE RibQuery ------------------------------
(***************************************************************************)
(* Readers of the rib unit's store: searches and full dumps over HTTP, and *)
(* the table dumps of bmp-tcp-out, while routes, per-peer withdrawals with *)
(* their compaction walk and the ingress register change under them.       *)
(*                                                                         *)
(* A prefix is a node of a binary tree numbered from the root, 1 being /0: *)
(* the children of n are 2n and 2n + 1.  A route is a record that is not   *)
(* withdrawn.  Its path attributes, and with them the answer of every      *)
(* filter that only looks at the record, are one value.  A peer's AS       *)
(* stands for all that the register knows of it (AS, address, RIB type);   *)
(* 0 is a peer the register does not have.                                 *)
(***************************************************************************)
EXTENDS Integers, FiniteSets

CONSTANTS
    Nodes,        \* prefixes
    Muis,         \* ingress ids of peers
    Attrs,        \* values of the attributes, positive
    PeerAsns,     \* positive
    Filters,      \* queries: [mui, asn, attr, more, less], 0 being no filter
    Https, Collectors, Searches,  \* tasks, each serving one request
    StartRoutes,  \* the routes in the store when the requests come in
    MaxDumps,     \* MAX_CONCURRENT_DUMPS
    ChunkLen,     \* DUMP_KEY_CHUNK
    FlushAt,      \* FLUSH_AT
    MaxEvents     \* bound: requests, and changes of the store and register

Dumpers == Https \cup Collectors
Readers == Dumpers \cup Searches
RouteSet == [node : Nodes, mui : Muis, attr : Attrs]

ASSUME QueryAssumption ==
    /\ IsFiniteSet(Https) /\ IsFiniteSet(Collectors)
    /\ Https \cap Collectors = {}
    /\ Searches \cap (Https \cup Collectors) = {}
    /\ MaxDumps \in Nat
    /\ StartRoutes \subseteq RouteSet
    /\ PeerAsns # {}

AnyRoute == [mui |-> 0, asn |-> 0, attr |-> 0, more |-> TRUE, less |-> FALSE]
NoCompaction == [ids |-> {}, todo |-> {}, pend |-> {}]

VARIABLES
    routes,    \* the records that say Active
    flagged,   \* the muis marked withdrawn
    keys,      \* the prefixes in the tree
    info,      \* the register: the AS of every peer
    compaction, \* the compaction walk in progress
    slots,     \* ACTIVE_DUMPS
    task,      \* the readers
    edits,     \* changes of the store and the register so far
    ever,      \* routes that were visible during a request (history)
    always,    \* routes that were visible all through it (history)
    asns       \* the AS a peer had, at any time during it (history)

storeVars == <<routes, flagged, keys, info, compaction, edits>>
queryVars == <<storeVars, slots, task, ever, always, asns>>

Seen == {t \in routes : t.mui \notin flagged}

QueryInit ==
    /\ routes = StartRoutes
    /\ flagged = {}
    /\ keys = {t.node : t \in StartRoutes}
    /\ info = [m \in Muis |-> CHOOSE a \in PeerAsns : TRUE]
    /\ compaction = NoCompaction
    /\ slots = 0
    /\ task = [r \in Readers |->
                  [pc |-> "idle", cur |-> 0, node |-> 1, filter |-> AnyRoute,
                   info |-> info, todo |-> {}, chunk |-> 0, batch |-> {},
                   out |-> {}]]
    /\ edits = 0
    /\ ever = [r \in Readers |-> {}]
    /\ always = [r \in Readers |-> {}]
    /\ asns = [r \in Readers |-> [m \in Muis |-> {}]]

Requests == {r \in Readers : task[r].pc # "idle"}
Bounded == edits + Cardinality(Requests) < MaxEvents

-----------------------------------------------------------------------------
(***************************************************************************)
(* Changes of the store and of the register.                               *)
(***************************************************************************)

Change ==
    /\ Bounded
    /\ edits' = edits + 1
    /\ UNCHANGED <<slots, task>>

\* flush_compaction: what is noted is overwritten by withdrawn records.
Overwritten(pend) ==
    {t \in routes : \A u \in pend : <<u.node, u.mui>> # <<t.node, t.mui>>}

\* insert_prefix with an active route: the flag of its peer is cleared.
Announce(t) ==
    /\ Change
    /\ routes' = Overwritten({t}) \cup {t}
    /\ keys' = keys \cup {t.node}
    /\ flagged' = flagged \ {t.mui}
    /\ UNCHANGED <<info, compaction>>

Withdraw(t) ==
    /\ Change
    /\ routes' = routes \ {t}
    /\ UNCHANGED <<flagged, keys, info, compaction>>

\* remove_for_ingresses waits for withdraw_lock.
RemoveIngress(m) ==
    /\ Change
    /\ compaction.ids = {}
    /\ routes' = {t \in routes : t.mui # m}
    /\ flagged' = flagged \ {m}
    /\ UNCHANGED <<keys, info, compaction>>

\* A peer is registered, updated, or (AS 0) taken out of the register.
ChangeInfo(m, a) ==
    /\ Change
    /\ info' = [info EXCEPT ![m] = a]
    /\ UNCHANGED <<routes, flagged, keys, compaction>>

\* withdraw_for_ingresses without retain_withdrawn_attributes, under
\* withdraw_lock: the store is walked first.
WithdrawIngresses(S) ==
    /\ Change
    /\ compaction.ids = {}
    /\ compaction' = [ids |-> S, todo |-> keys, pend |-> {}]
    /\ UNCHANGED <<routes, flagged, keys, info>>

\* The walk reads one prefix, and notes it for every id with a record there.
\* When enough are noted they are flushed.
CompactRead(n) ==
    LET pend == compaction.pend
                    \cup {t \in routes : t.node = n /\ t.mui \in compaction.ids}
    IN  /\ n \in compaction.todo
        /\ IF Cardinality(pend) >= FlushAt
           THEN /\ routes' = Overwritten(pend)
                /\ compaction' = [compaction EXCEPT !.todo = @ \ {n}, !.pend = {}]
           ELSE /\ UNCHANGED routes
                /\ compaction' = [compaction EXCEPT !.todo = @ \ {n},
                                                   !.pend = pend]
        /\ UNCHANGED <<flagged, keys, info, edits, slots, task>>

\* The rest is flushed, and the flags are set.
CompactEnd ==
    /\ compaction.ids # {}
    /\ compaction.todo = {}
    /\ routes' = Overwritten(compaction.pend)
    /\ flagged' = flagged \cup compaction.ids
    /\ compaction' = NoCompaction
    /\ UNCHANGED <<keys, info, edits, slots, task>>

-----------------------------------------------------------------------------
(***************************************************************************)
(* Slots.                                                                  *)
(***************************************************************************)

Goes(r, pc) == task' = [task EXCEPT ![r].pc = pc]

\* A task takes up a request.
Begins(r) ==
    /\ task[r].pc = "idle"
    /\ Bounded

\* stream_all_routes: try_enter reads the count ...
TryEnter(r, f) ==
    /\ r \in Https
    /\ Begins(r)
    /\ task' = [task EXCEPT ![r].pc = "cas", ![r].cur = slots, ![r].filter = f]
    /\ UNCHANGED <<storeVars, slots>>

\* ... and gives up at the cap, ...
Refused(r) ==
    /\ task[r].pc = "cas"
    /\ task[r].cur >= MaxDumps
    /\ Goes(r, "refused")
    /\ UNCHANGED <<storeVars, slots>>

\* Mutant: the count is stored without a comparison.
TakeSlotUnchecked(r) ==
    /\ task[r].pc = "cas"
    /\ task[r].cur < MaxDumps
    /\ slots' = task[r].cur + 1
    /\ Goes(r, "info")
    /\ UNCHANGED storeVars

\* ... or takes a slot if the count is still what it read, ...
TakeSlot(r) ==
    /\ task[r].pc = "cas"
    /\ task[r].cur < MaxDumps
    /\ slots = task[r].cur
    /\ slots' = task[r].cur + 1
    /\ Goes(r, "info")
    /\ UNCHANGED storeVars

\* ... or looks again.
CasFails(r) ==
    /\ task[r].pc = "cas"
    /\ task[r].cur < MaxDumps
    /\ task' = [task EXCEPT ![r].cur = slots]
    /\ UNCHANGED <<storeVars, slots>>

\* A collector is never refused.
Enter(r) ==
    /\ r \in Collectors
    /\ Begins(r)
    /\ slots' = slots + 1
    /\ Goes(r, "keys")
    /\ UNCHANGED storeVars

-----------------------------------------------------------------------------
(***************************************************************************)
(* The dump.                                                               *)
(***************************************************************************)

\* cloned_info, before anything is read.
CloneInfo(r) ==
    /\ r \in Https
    /\ task[r].pc = "info"
    /\ task' = [task EXCEPT ![r].pc = "keys", ![r].info = info]
    /\ UNCHANGED <<storeVars, slots>>

\* The keys, and no records.
CollectKeys(r) ==
    /\ task[r].pc = "keys"
    /\ task' = [task EXCEPT ![r].pc = "fetch", ![r].todo = keys]
    /\ UNCHANGED <<storeVars, slots>>

\* get_records_for_prefix, for one key of the chunk.
Fetch(r, n) ==
    /\ task[r].pc = "fetch"
    /\ n \in task[r].todo
    /\ task[r].chunk < ChunkLen
    /\ task' = [task EXCEPT ![r].todo = @ \ {n}, ![r].chunk = @ + 1,
                            ![r].batch = @ \cup {t \in Seen : t.node = n}]
    /\ UNCHANGED <<storeVars, slots>>

\* apply_filter.  A peer filter lets through what the register did not have.
Passes(f, known, t) ==
    /\ f.mui \in {0, t.mui}
    /\ f.asn = 0 \/ known[t.mui] \in {0, f.asn}
    /\ f.attr \in {0, t.attr}

Chunked(r) == task[r].chunk = ChunkLen \/ task[r].todo = {}

\* Mutant: the walk stops at a chunk without anything to write.
EmitUntilEmpty(r) ==
    LET sent == {t \in task[r].batch : Passes(task[r].filter, task[r].info, t)}
        over == task[r].todo = {} \/ sent = {}
    IN  /\ task[r].pc = "fetch"
        /\ Chunked(r)
        /\ task' = [task EXCEPT ![r].out = @ \cup sent, ![r].batch = {},
                                ![r].chunk = 0,
                                ![r].pc = IF over THEN "done" ELSE @]
        /\ slots' = IF over THEN slots - 1 ELSE slots
        /\ UNCHANGED storeVars

\* The chunk is filtered and written.  After the last one the slot is given
\* back.
Emit(r) ==
    LET over == task[r].todo = {}
    IN  /\ task[r].pc = "fetch"
        /\ Chunked(r)
        /\ task' = [task EXCEPT
               ![r].out = @ \cup {t \in task[r].batch :
                                     Passes(task[r].filter, task[r].info, t)},
               ![r].batch = {}, ![r].chunk = 0,
               ![r].pc = IF over THEN "done" ELSE @]
        /\ slots' = IF over THEN slots - 1 ELSE slots
        /\ UNCHANGED storeVars

\* The client is gone or has not read for STREAM_WRITE_STALL, or the dump is
\* older than DUMP_MAX_DURATION: the answer ends here.
CutShort(r) ==
    /\ task[r].pc = "fetch"
    /\ Chunked(r)
    /\ Goes(r, "cut")
    /\ slots' = slots - 1
    /\ UNCHANGED storeVars

-----------------------------------------------------------------------------
(***************************************************************************)
(* The search.                                                             *)
(***************************************************************************)

Covers(n, k) == \E e \in 0 .. k : k \div (2 ^ e) = n

\* The store's match: the prefix itself, and on request what it covers and
\* what covers it.
Matched(n, f, t) ==
    /\ f.mui \in {0, t.mui}
    /\ \/ t.node = n
       \/ f.more /\ Covers(n, t.node)
       \/ f.less /\ Covers(t.node, n)

\* search_ipv4unicast.  What asks for the whole table has to be a dump.
SearchStart(r, n, f) ==
    /\ r \in Searches
    /\ Begins(r)
    /\ ~(n = 1 /\ f.more)
    /\ task' = [task EXCEPT ![r].pc = "match", ![r].node = n, ![r].filter = f]
    /\ UNCHANGED <<storeVars, slots>>

\* One call of match_prefix, taken as one read of the store.
SearchMatch(r) ==
    /\ task[r].pc = "match"
    /\ task' = [task EXCEPT ![r].pc = "filter",
           ![r].batch = {t \in Seen : Matched(task[r].node, task[r].filter, t)}]
    /\ UNCHANGED <<storeVars, slots>>

\* SearchResult::new has taken the register after the records.
SearchFilter(r) ==
    /\ r \in Searches
    /\ task[r].pc = "filter"
    /\ task' = [task EXCEPT ![r].pc = "done", ![r].batch = {},
                            ![r].out = {t \in task[r].batch :
                                           Passes(task[r].filter, info, t)}]
    /\ UNCHANGED <<storeVars, slots>>

-----------------------------------------------------------------------------

Running(r) == task[r].pc \notin {"idle", "refused", "done", "cut"}

\* The histories, from the request on.
Remember ==
    /\ ever' = [r \in Readers |-> IF task[r].pc = "idle" THEN Seen'
                                  ELSE IF Running(r) THEN ever[r] \cup Seen'
                                  ELSE ever[r]]
    /\ always' = [r \in Readers |-> IF task[r].pc = "idle" THEN Seen'
                                    ELSE IF Running(r) THEN always[r] \cap Seen'
                                    ELSE always[r]]
    /\ asns' = [r \in Readers |-> [m \in Muis |->
                  IF task[r].pc = "idle" THEN {info'[m]}
                  ELSE IF Running(r) THEN asns[r][m] \cup {info'[m]}
                  ELSE asns[r][m]]]

StoreStep ==
    \/ \E n \in Nodes, m \in Muis, a \in Attrs :
           Announce([node |-> n, mui |-> m, attr |-> a])
    \/ \E t \in routes : Withdraw(t)
    \/ \E m \in Muis : RemoveIngress(m)
    \/ \E m \in Muis, a \in PeerAsns \cup {0} : ChangeInfo(m, a)
    \/ \E S \in SUBSET Muis \ {{}} : WithdrawIngresses(S)
    \/ \E n \in compaction.todo : CompactRead(n)
    \/ CompactEnd

ReaderStep ==
    \E r \in Readers :
        \/ \E f \in Filters : TryEnter(r, f)
        \/ Refused(r) \/ TakeSlot(r) \/ CasFails(r) \/ Enter(r)
        \/ CloneInfo(r) \/ CollectKeys(r)
        \/ \E n \in task[r].todo : Fetch(r, n)
        \/ Emit(r) \/ CutShort(r)
        \/ \E n \in Nodes, f \in Filters : SearchStart(r, n, f)
        \/ SearchMatch(r) \/ SearchFilter(r)

QueryNext == (StoreStep \/ ReaderStep) /\ Remember

QuerySpec == QueryInit /\ [][QueryNext]_queryVars

-----------------------------------------------------------------------------
(***************************************************************************)
(* Properties.                                                             *)
(***************************************************************************)

\* ACTIVE_DUMPS is the number of dumps in flight, however the try_enter and
\* drop of several dumps interleave, and no more than MAX_CONCURRENT_DUMPS of
\* them came over HTTP.
SlotsHeld ==
    /\ slots = Cardinality({r \in Dumpers :
                               task[r].pc \in {"info", "keys", "fetch"}})
    /\ Cardinality({r \in Https :
                       task[r].pc \in {"info", "keys", "fetch"}}) <= MaxDumps

\* What a request asks for, given the routes and what is to be said of peers.
Asked(r, T, OfPeer(_)) ==
    {t \in T :
       LET f == task[r].filter
       IN  /\ r \in Searches => Matched(task[r].node, f, t)
           /\ f.mui = 0 \/ f.mui = t.mui
           /\ f.attr = 0 \/ f.attr = t.attr
           /\ f.asn = 0 \/ OfPeer(t.mui)}

\* A finished answer (search_routes, write_jsonl_stream, the walk of a bmp-out
\* dump) has every route that was there and was asked for all the time the
\* request took, and only routes that were there at some time, of a peer that
\* was as asked for, or was not in the register, at some time.
AnswersFaithful ==
    \A r \in Readers : task[r].pc = "done" =>
        LET f == task[r].filter
            Always(m) == asns[r][m] = {f.asn}
            Once(m) == asns[r][m] \cap {0, f.asn} # {}
        IN  /\ Asked(r, always[r], Always) \subseteq task[r].out
            /\ task[r].out \subseteq Asked(r, ever[r], Once)
=============================================================================
