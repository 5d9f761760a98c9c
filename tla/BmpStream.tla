------------------------------ MODULE BmpStream ------------------------------
(***************************************************************************)
(* What a collector that speaks BMP (RFC 7854) may see on one connection   *)
(* to the bmp-tcp-out unit, and nothing about how the unit produces it.    *)
(*                                                                         *)
(*   up      the peers whose last Peer Up has not been followed by a Peer  *)
(*           Down                                                          *)
(*   view    for every peer the prefixes the collector holds for it        *)
(*   faults  the peers about which a message came that it cannot place     *)
(*                                                                         *)
(* A Peer Up is legal only for a peer that is down, every other message    *)
(* only for a peer that is up.  A legal stream causes no fault.  BmpOut,   *)
(* the model of the unit, is shown to implement this specification.        *)
(***************************************************************************)
CONSTANTS Peers, Prefixes

VARIABLES up, view, faults

streamVars == <<up, view, faults>>

StreamInit ==
    /\ up = {}
    /\ view = [p \in Peers |-> {}]
    /\ faults = {}

PeerUp(p) ==
    /\ p \notin up
    /\ up' = up \cup {p}
    /\ view' = [view EXCEPT ![p] = {}]
    /\ UNCHANGED faults

Announce(p, S) ==
    /\ p \in up
    /\ view' = [view EXCEPT ![p] = @ \cup S]
    /\ UNCHANGED <<up, faults>>

Withdraw(p, S) ==
    /\ p \in up
    /\ view' = [view EXCEPT ![p] = @ \ S]
    /\ UNCHANGED <<up, faults>>

PeerDown(p) ==
    /\ p \in up
    /\ up' = up \ {p}
    /\ view' = [view EXCEPT ![p] = {}]
    /\ UNCHANGED faults

StreamNext ==
    \E p \in Peers :
        \/ PeerUp(p)
        \/ PeerDown(p)
        \/ \E S \in SUBSET Prefixes : Announce(p, S) \/ Withdraw(p, S)

StreamSpec == StreamInit /\ [][StreamNext]_streamVars
=============================================================================
