----------------------------- MODULE PeerStats -----------------------------
(***************************************************************************)
(* The statistics of a BGP peer (src/ingress/peer_stats.rs): the tasks of  *)
(* its sessions, which count, and the emitter, which reports.  Sessions    *)
(* that follow each other under one ingress id share the counters.  A      *)
(* session that is replaced is aborted, and stops where it waits next.     *)
(*                                                                         *)
(* Counters that are never touched are left out.  The aggregate is an      *)
(* atomic, the map of the families is behind a lock, and each access to    *)
(* one of them is a step.                                                  *)
(***************************************************************************)
EXTENDS Integers, FiniteSets

CONSTANTS Families,
          Counts,       \* updates: sets adds and subs of <<family, routes>>
          CounterMax,   \* the largest value of a counter TLV
          MaxSessions,  \* bound: sessions, one after the other
          MaxCounted    \* bound: updates

ASSUME StatAssumption ==
    /\ IsFiniteSet(Families)
    /\ \A u \in Counts : /\ u.adds \subseteq Families \X Nat
                         /\ u.subs \subseteq Families \X Nat
    /\ CounterMax \in Nat /\ MaxSessions \in Nat /\ MaxCounted \in Nat

VARIABLES total,     \* adj_rib_in_routes
          perFam,    \* adj_rib_in_per_afi_safi
          rejected,  \* prefixes_rejected
          counter,   \* the tasks of the sessions
          current,   \* the session negotiated last
          shared,    \* the registry has the counters, the register the peer
          counted,   \* updates so far
          emitter,   \* the emitter and its snapshot
          announced, \* routes announced by the current session (history)
          mixed      \* a replaced session has counted (history)

counterVars == <<total, perFam, rejected>>
statVars == <<counterVars, counter, current, shared, counted, emitter,
              announced, mixed>>

Zero == [f \in Families |-> 0]
NoCount == [pc |-> "none", adds |-> {}, subs |-> {}, now |-> <<>>, agg |-> 0]
NoReport == [rejected |-> 0, total |-> 0, fams |-> Zero, torn |-> FALSE]

StatInit ==
    /\ total = 0 /\ perFam = Zero /\ rejected = 0
    /\ counter = [s \in 1 .. MaxSessions |-> NoCount]
    /\ current = 0 /\ shared = FALSE /\ counted = 0
    /\ emitter = [pc |-> "wait", snap |-> NoReport]
    /\ announced = 0 /\ mixed = FALSE

\* Whoever subtracts holds the lock between its two steps.
Unlocked == \A s \in 1 .. MaxSessions : counter[s].pc # "store"

\* A task that waits for the next message.
Waits(s) ==
    counter[s].pc = "ready" /\ counter[s].adds = {} /\ counter[s].subs = {}

\* What a step of a session does to the histories and to a snapshot under way.
Counting(s) ==
    /\ mixed' = (mixed \/ s # current)
    /\ emitter' = [emitter EXCEPT !.snap.torn = @ \/ emitter.pc = "fams"]
    /\ UNCHANGED <<current, shared>>

-----------------------------------------------------------------------------

\* A session is negotiated: the entry is looked up or made, and the gauges are
\* set to zero, the aggregate first ...
Negotiated(s) ==
    /\ s = current + 1
    /\ current' = s
    /\ shared' = TRUE
    /\ total' = 0
    /\ perFam' = IF shared THEN perFam ELSE Zero
    /\ rejected' = IF shared THEN rejected ELSE 0
    /\ counter' = [counter EXCEPT ![s].pc = "clear"]
    /\ emitter' = [emitter EXCEPT !.snap.torn = @ \/ emitter.pc = "fams"]
    /\ UNCHANGED <<counted, announced, mixed>>

\* ... and then the families.
ClearFams(s) ==
    /\ counter[s].pc = "clear"
    /\ Unlocked
    /\ perFam' = Zero
    /\ counter' = [counter EXCEPT ![s].pc = "ready"]
    /\ announced' = 0
    /\ Counting(s)
    /\ UNCHANGED <<total, rejected, counted>>

\* An update that the filter accepts, its routes counted per family.
CountUpdate(s, u) ==
    /\ Waits(s)
    /\ counted < MaxCounted /\ counted' = counted + 1
    /\ counter' = [counter EXCEPT ![s].adds = u.adds, ![s].subs = u.subs]
    /\ UNCHANGED <<counterVars, current, shared, emitter, announced,
                   mixed>>

\* An update that the filter rejects.
CountRejected(s, n) ==
    /\ Waits(s)
    /\ counted < MaxCounted /\ counted' = counted + 1
    /\ rejected' = rejected + n
    /\ Counting(s)
    /\ UNCHANGED <<total, perFam, counter, announced>>

\* add_adj_rib_in: the aggregate ...
AddTotal(s, x) ==
    /\ counter[s].pc = "ready" /\ x \in counter[s].adds
    /\ total' = total + x[2]
    /\ counter' = [counter EXCEPT ![s].pc = "put", ![s].now = x]
    /\ announced' = announced + x[2]
    /\ Counting(s)
    /\ UNCHANGED <<perFam, rejected, counted>>

\* ... and then the family.
AddFam(s) ==
    /\ counter[s].pc = "put"
    /\ Unlocked
    /\ perFam' = [perFam EXCEPT ![counter[s].now[1]] = @ + counter[s].now[2]]
    /\ counter' = [counter EXCEPT ![s].pc = "ready",
                                  ![s].adds = @ \ {counter[s].now}]
    /\ Counting(s)
    /\ UNCHANGED <<total, rejected, counted, announced>>

\* (Mutant) All that is withdrawn is taken off the aggregate.
TakenAll(f, n) == n

\* What sub_adj_rib_in can take off a family, and then off the aggregate.
Taken(f, n) == IF perFam[f] < n THEN perFam[f] ELSE n

\* sub_adj_rib_in, when the announcements are counted: the family, and the
\* aggregate is read ...
SubFam(s, x) ==
    /\ counter[s].pc = "ready" /\ counter[s].adds = {} /\ x \in counter[s].subs
    /\ Unlocked
    /\ perFam' = [perFam EXCEPT ![x[1]] = IF @ < x[2] THEN 0 ELSE @ - x[2]]
    /\ counter' = [counter EXCEPT ![s].pc = "store", ![s].agg = total,
                                  ![s].now = <<x[1], Taken(x[1], x[2])>>,
                                  ![s].subs = @ \ {x}]
    /\ Counting(s)
    /\ UNCHANGED <<total, rejected, counted, announced>>

\* ... and written.
SubTotal(s) ==
    LET dec == counter[s].now[2]
    IN  /\ counter[s].pc = "store"
        /\ total' = IF counter[s].agg < dec THEN 0 ELSE counter[s].agg - dec
        /\ counter' = [counter EXCEPT ![s].pc = "ready", ![s].agg = 0]
        /\ Counting(s)
        /\ UNCHANGED <<perFam, rejected, counted, announced>>

\* A replaced session stops.
Aborted(s) ==
    /\ Waits(s) /\ s # current
    /\ counter' = [counter EXCEPT ![s] = NoCount]
    /\ UNCHANGED <<counterVars, current, shared, counted, emitter,
                   announced, mixed>>

\* A session that ends by itself takes the counters out of the registry, and
\* the peer out of the register.
SessionOver(s) ==
    /\ Waits(s) /\ s = current
    /\ counter' = [counter EXCEPT ![s] = NoCount]
    /\ shared' = FALSE
    /\ UNCHANGED <<counterVars, current, counted, emitter, announced,
                   mixed>>

-----------------------------------------------------------------------------

\* snapshot: the atomics ...
SnapTotal ==
    /\ emitter.pc = "wait" /\ shared
    /\ emitter' = [pc |-> "fams", snap |->
                     [NoReport EXCEPT !.rejected = rejected, !.total = total,
                        !.torn = \E s \in 1 .. MaxSessions :
                                    ~Waits(s) /\ counter[s].pc # "none"]]
    /\ UNCHANGED <<counterVars, counter, current, shared, counted,
                   announced, mixed>>

\* ... and the families.
SnapFams ==
    /\ emitter.pc = "fams" /\ Unlocked
    /\ emitter' = [emitter EXCEPT !.pc = "emit", !.snap.fams = perFam]
    /\ UNCHANGED <<counterVars, counter, current, shared, counted,
                   announced, mixed>>

\* build_stats_body: counters have 32 bits.
StatsBody(snap) ==
    [snap EXCEPT !.rejected = IF @ > CounterMax THEN CounterMax ELSE @]

\* Update::PeerStats with the body, or nothing if the peer is not connected
\* any more.
EmitStats ==
    /\ emitter.pc = "emit"
    /\ emitter' = [pc |-> "wait", snap |-> NoReport]
    /\ UNCHANGED <<counterVars, counter, current, shared, counted, announced,
                   mixed>>

StatNext ==
    \/ \E s \in 1 .. MaxSessions :
         \/ Negotiated(s) \/ ClearFams(s) \/ AddFam(s) \/ SubTotal(s)
         \/ Aborted(s) \/ SessionOver(s) \/ CountRejected(s, 2)
         \/ \E u \in Counts : CountUpdate(s, u)
         \/ \E x \in counter[s].adds : AddTotal(s, x)
         \/ \E x \in counter[s].subs : SubFam(s, x)
    \/ SnapTotal \/ SnapFams \/ EmitStats

StatSpec == StatInit /\ [][StatNext]_statVars

-----------------------------------------------------------------------------

\* The sum of the families, each of their routes counted once.
Counted(fams) == UNION {{f} \X (1 .. fams[f]) : f \in DOMAIN fams}
Sums(n, fams) == n = Cardinality(Counted(fams))

\* As long as no replaced session has counted, the aggregate of add_adj_rib_in,
\* sub_adj_rib_in and reset_adj_rib_in is the sum of the families whenever the
\* session waits, and no more than the session has announced, though
\* withdrawals of unknown routes saturate; and so it is in every report whose
\* snapshot no count interrupted (EmitStats).
GaugesAgree ==
    ~mixed =>
        /\ shared /\ Waits(current) => Sums(total, perFam) /\ total <= announced
        /\ emitter.pc = "emit" /\ ~emitter.snap.torn =>
              LET body == StatsBody(emitter.snap)
              IN  Sums(body.total, body.fams)
=============================================================================
