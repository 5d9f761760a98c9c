---- MODULE MCRoutes ----
(***************************************************************************)
(* What happens to routes between a connection and a reader, checked part  *)
(* by part: the BMP state machine, route origin validation, readers of the *)
(* store, the statistics of BGP peers and the packing of a table dump.  The *)
(* parts share no state, so a behaviour is one of one part.                *)
(***************************************************************************)
EXTENDS Rov, BmpMachine, RibQuery, PeerStats, Aggregator, TLC

VARIABLE side

Sides == {"bmp", "rov", "query", "stats", "dump"}
routesVars == <<side, fsmVars, rovVars, queryVars, statVars, aggVars>>

\* A VRP of the covering prefix, and one of the covered prefix.
MCVrps == {[prefix |-> 1, maxlen |-> 2, asn |-> 1],
           [prefix |-> 2, maxlen |-> 2, asn |-> 2]}

\* A query for the routes of the peers of an AS, and one for routes of a peer
\* with given attributes, with what covers the prefix.
MCFilters ==
    {[mui |-> 0, asn |-> 1, attr |-> 0, more |-> TRUE, less |-> FALSE],
     [mui |-> 1, asn |-> 0, attr |-> 1, more |-> FALSE, less |-> TRUE]}

\* The parts share no state: their sets are permuted apart.
RoutesSymmetry == Permutations(Https) \cup Permutations(MonPeers)

MCStartRoutes ==
    [node : {1, 2}, mui : {1}, attr : {1}]
        \cup [node : {2}, mui : {2}, attr : {1}]

\* Announcements, withdrawals of more than there is, and both in one update.
MCCounts ==
    {[adds |-> {<<"v4", 2>>, <<"v6", 1>>}, subs |-> {}],
     [adds |-> {}, subs |-> {<<"v6", 2>>}],
     [adds |-> {<<"v6", 2>>}, subs |-> {<<"v4", 1>>}]}

\* Two upstreams with a session to the same neighbour, and a table dump.
MCInfo ==
    [a |-> [type |-> "bmp", kind |-> "GlobalInstance", rib |-> "InPre",
           addr |-> 1, asn |-> 1, pd |-> ZeroPd, parent |-> "r1"],
     b |-> [type |-> "bmp", kind |-> "GlobalInstance", rib |-> "InPre",
           addr |-> 1, asn |-> 1, pd |-> ZeroPd, parent |-> "r2"],
     m |-> [type |-> "mrt", kind |-> "unset", rib |-> "none",
           addr |-> 2, asn |-> 2, pd |-> ZeroPd, parent |-> "r3"]]

MCPrefixLen ==
    [x1 |-> [v4 |-> TRUE, len |-> 24], x2 |-> [v4 |-> TRUE, len |-> 20],
     x3 |-> [v4 |-> TRUE, len |-> 32], y1 |-> [v4 |-> FALSE, len |-> 48],
     y2 |-> [v4 |-> FALSE, len |-> 47]]

\* No routes, and attributes that with two prefixes fill an UPDATE, and that do not fit one
\* or any; one list of attributes hashes like another of its length.
Other(n) ==
    [code |-> "other", len |-> n, form |-> "wire", nh |-> NoHop, whole |-> TRUE]

Reach(f, n) ==
    [code |-> "reach", len |-> 25, form |-> f,
     nh |-> [addr |-> n, len |-> 16], whole |-> TRUE]

MCHash(pas) == Len(pas)

MCInputs ==
    {[r \in ({"a"} \X {"x1", "x2", "x3"}) \cup ({"b"} \X {"x1", "y1"})
                \cup ({"m"} \X {"y1", "y2"}) |->
        CASE r[1] = "a" -> <<Other(fa[r[2]])>>
          [] r = <<"b", "x1">> -> <<Other(big)>>
          [] r = <<"b", "y1">> -> <<Reach("wire", "h1"), Other(40)>>
          [] r = <<"m", "y1">> -> <<Reach("mrt", "h2"), Other(40)>>
          [] OTHER -> <<Reach("mrt", "h2"), Other(40), [Other(9) EXCEPT !.whole = FALSE]>>] :
       fa \in [{"x1", "x2", "x3"} -> {4064, 4065}], big \in {40, 5000, 65600}}
        \cup {<<>>}

\* The tables are ones the collector can tell back.
ASSUME MCLegible == Legible

\* Bounds: the listener stays as it is while a router is connected.  The store
\* changes under one request: readers only meet in the slots, which do not
\* depend on it.
RoutesBound ==
    /\ fsm # "none" => lsn = "listening"
    /\ edits > 0 => Cardinality(Requests) = 1

RoutesInit ==
    /\ side \in Sides
    /\ FsmInit /\ RovInit /\ QueryInit /\ StatInit /\ AggInit
    /\ side # "dump" => input = <<>>

RoutesNext ==
    /\ UNCHANGED side
    /\ \/ /\ side = "bmp" /\ FsmNext
          /\ UNCHANGED <<rovVars, queryVars, statVars, aggVars>>
       \/ /\ side = "rov" /\ RovNext
          /\ UNCHANGED <<fsmVars, queryVars, statVars, aggVars>>
       \/ /\ side = "query" /\ QueryNext
          /\ UNCHANGED <<fsmVars, rovVars, statVars, aggVars>>
       \/ /\ side = "stats" /\ StatNext
          /\ UNCHANGED <<fsmVars, rovVars, queryVars, aggVars>>
       \/ /\ side = "dump" /\ AggNext
          /\ UNCHANGED <<fsmVars, rovVars, queryVars, statVars>>

RoutesSpec == RoutesInit /\ [][RoutesNext]_routesVars
====
