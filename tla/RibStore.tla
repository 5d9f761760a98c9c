------------------------------ MODULE RibStore -------------------------------
(***************************************************************************)
(* The route store of the rib unit, as rib.rs uses it.  A record is keyed  *)
(* by (prefix, mui), the mui being the IngressId of the peer that sent the *)
(* route.  A record has a status of its own, and on top of it the store    *)
(* keeps one withdrawn flag per mui that overrides the status of every     *)
(* record of that mui.                                                     *)
(*                                                                         *)
(*   active     for every peer the prefixes whose record says Active       *)
(*   withdrawn  the peers whose per-mui flag is set                        *)
(*                                                                         *)
(* The unicast and multicast trees, the v4 and v6 halves of the flag and   *)
(* the path attributes are left out: no unit ever withdraws a single       *)
(* address family, and attributes do not decide which routes are present.  *)
(***************************************************************************)
CONSTANTS Peers,        \* the IngressIds of monitored peers
          Prefixes,
          RetainAttrs   \* the option retain_withdrawn_attributes

ASSUME RetainAssumption == RetainAttrs \in BOOLEAN

VARIABLES active, withdrawn

ribVars == <<active, withdrawn>>

RibTypeOK ==
    /\ active \in [Peers -> SUBSET Prefixes]
    /\ withdrawn \in SUBSET Peers

RibInit ==
    /\ active = [p \in Peers |-> {}]
    /\ withdrawn = {}

\* What a reader of the store sees: the flag overrides the records.
Visible(p) == IF p \in withdrawn THEN {} ELSE active[p]

\* mark_ingress_active clears the flag and touches no record.
MarkIngressActive(p) ==
    /\ withdrawn' = withdrawn \ {p}
    /\ UNCHANGED active

\* insert_prefix, status Active: a set flag is cleared first, whatever other
\* records it was hiding.
InsertActive(p, S) ==
    /\ withdrawn' = withdrawn \ {p}
    /\ active' = [active EXCEPT ![p] = @ \cup S]

\* insert_prefix, status Withdrawn.  With RetainAttrs the record is marked
\* (mark_mui_as_withdrawn_for_prefix), without it an existing record is
\* overwritten by an empty one; neither touches the flag.
InsertWithdrawn(p, S) ==
    /\ active' = [active EXCEPT ![p] = @ \ S]
    /\ UNCHANGED withdrawn

\* Mutant: the records are not compacted.
WithdrawWithoutCompaction(S) ==
    /\ withdrawn' = withdrawn \cup S
    /\ UNCHANGED active

\* withdraw_for_ingresses: the flag is set for every id.  Without RetainAttrs
\* the records are first compacted into empty Withdrawn ones.
WithdrawForIngresses(S) ==
    /\ withdrawn' = withdrawn \cup S
    /\ active' = [p \in Peers |->
                     IF p \in S /\ ~RetainAttrs THEN {} ELSE active[p]]

\* remove_for_ingresses: records and flag are gone.
RemoveForIngresses(S) ==
    /\ withdrawn' = withdrawn \ S
    /\ active' = [p \in Peers |-> IF p \in S THEN {} ELSE active[p]]
=============================================================================
