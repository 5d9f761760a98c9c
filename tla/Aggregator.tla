---- MODULE Aggregator ----
(***************************************************************************)
(* The table dump of bmp-tcp-out as it is put on the wire: the blocking    *)
(* task that walks the store hands every route to the RouteAggregator of   *)
(* bmp_tcp_out/bmp_builder.rs, which packs the prefixes of one peer, family *)
(* and attribute set into one BGP UPDATE, within the size of a BGP message *)
(* and a memory budget.  A path attribute is its kind and its length; a    *)
(* message is what a collector can read back from its bytes.               *)
(***************************************************************************)
EXTENDS Integers, Sequences, FiniteSets, FiniteSetsExt

CONSTANTS
    Info,        \* ingress id -> its entry in the register; kind is "unset"
                 \* where the source names no peer type
    PrefixLen,   \* prefix -> [v4, len]
    Hops,        \* the next hops
    Inputs,      \* the tables to dump: functions from <<id, prefix>> to the
                 \* path attributes the source of the route delivered
    Hash(_),     \* what hash_pa_blob returns for a list of attributes
    FanIn,       \* fan_in_peer_distinguisher
    MaxBytes     \* DUMP_AGGREGATOR_MAX_BYTES

\* A path attribute: [code, len, form, nh, whole], len the encoded length.
PathAttribute ==
    [code : {"reach", "unreach", "other"}, len : Nat, form : {"wire", "mrt", "bad"},
     nh : [addr : Hops \cup {"none", "empty"}, len : Nat], whole : BOOLEAN]

ASSUME AggAssumption ==
    /\ MaxBytes \in Nat
    /\ \A x \in DOMAIN PrefixLen : PrefixLen[x].len \in Nat
    /\ \A t \in Inputs :
          /\ DOMAIN t \subseteq (DOMAIN Info) \X (DOMAIN PrefixLen)
          /\ \A r \in DOMAIN t : t[r] \in Seq(PathAttribute)

VARIABLES
    input,       \* the table of this walk
    stage,        \* "walking", "done" (flush_all returned), "gone" (no client)
    todo,        \* routes the walk has yet to hand over
    groups,      \* RouteAggregator.groups
    buffered,    \* RouteAggregator.buffered_bytes
    sent         \* messages the sink took

aggVars == <<input, stage, todo, groups, buffered, sent>>

MAX_BGP_UPDATE_LEN == 4096
LengthField == 65536          \* the length of a BGP message is a u16
AGG_MEM_PER_PREFIX == 32
AGG_MEM_PER_GROUP == 128
NoHop == [addr |-> "none", len |-> 16]
Misread == [addr |-> "misread", len |-> 16]
EmptyHop == [addr |-> "empty", len |-> 0]
ZeroPd == "zero"
NoParent == "none"

----------------------------------------------------------------------------
(* The per-peer header.                                                    *)

RibFlags(rib) ==
    CASE rib = "InPre" -> {} [] rib = "OutPre" -> {"O"}
      [] rib = "OutPost" -> {"L", "O"} [] OTHER -> {"L"}

\* The tag stands for its upstream: it is never zero, and two upstreams have
\* one only if their 64-bit hashes collide.
FanInTag(parent) == parent

PeerInfoForEmit(id) ==
    [kind |-> IF Info[id].kind = "unset" THEN "GlobalInstance" ELSE Info[id].kind,
     flags |-> RibFlags(Info[id].rib),
     addr |-> Info[id].addr, asn |-> Info[id].asn,
     pd |-> IF FanIn /\ Info[id].parent # NoParent /\ Info[id].pd = ZeroPd
            THEN FanInTag(Info[id].parent) ELSE Info[id].pd]

----------------------------------------------------------------------------
(* Path attributes.                                                        *)

NlriLen(x) == 1 + (PrefixLen[x].len + 7) \div 8

IsV4(x) == PrefixLen[x].v4

\* The attributes before the first that runs past the end of the list.
Whole(pas) ==
    SubSeq(pas, 1, Min({Len(pas) + 1} \cup {i \in DOMAIN pas : ~ pas[i].whole}) - 1)

\* Rewrites the MP_REACH_NLRI of a table dump, which holds a next hop only,
\* into what an UPDATE has; all else is passed on as it is.  One that is what
\* an UPDATE has starts with a zero, which is read as the next hop's length.
NormalizeMrtMpReach(pas, x) ==
    [i \in DOMAIN pas |->
        IF i <= Len(Whole(pas)) /\ pas[i].code = "reach" /\ pas[i].form # "bad"
        THEN LET nh == IF pas[i].form = "mrt" THEN pas[i].nh ELSE EmptyHop
                 value == 2 + 1 + 1 + nh.len + 1 + NlriLen(x)
             IN [pas[i] EXCEPT !.form = "wire", !.nh = nh,
                               !.len = value + IF value > 255 THEN 4 ELSE 3]
        ELSE pas[i]]

\* What the store holds for a route: dumps are normalised on the way in.
Blob(r) ==
    IF Info[r[1]].type = "mrt" /\ ~ IsV4(r[2])
    THEN NormalizeMrtMpReach(input[r], r[2]) ELSE input[r]

\* The octets of the attributes that are passed on.
PaLen(pas) ==
    LET upto[n \in 0 .. Len(pas)] ==
            IF n = 0 THEN 0
            ELSE upto[n - 1] + IF pas[n].code = "other" THEN pas[n].len ELSE 0
    IN upto[Len(pas)]

\* Drops MP_REACH_NLRI and MP_UNREACH_NLRI and keeps the next hop of the last
\* MP_REACH_NLRI; the octets of an unnormalised one are read at wrong offsets.
\* The attributes kept are told by their place in the list and their content.
FilterPa(pas) ==
    LET read == Whole(pas)
        reach == {i \in DOMAIN read : read[i].code = "reach" /\ read[i].form # "bad"}
    IN [pa |-> [i \in {j \in DOMAIN read : read[j].code = "other"} |-> read[i]],
        len |-> PaLen(read),
        nh |-> IF reach = {} THEN NoHop
               ELSE IF read[Max(reach)].form = "wire" THEN read[Max(reach)].nh
               ELSE Misread]

\* The octets of the prefixes in a message.
NlriTotal(xs) == Cardinality(UNION {{x} \X (1 .. NlriLen(x)) : x \in xs})

----------------------------------------------------------------------------
(* Messages.                                                               *)

\* The octets of an UPDATE: BGP header, the two length fields, attributes,
\* for IPv6 an MP_REACH_NLRI with a header of h octets, and the prefixes.
UpdateLen(v4, f, nlri, h) ==
    19 + 2 + 2 + f.len + nlri
       + IF v4 THEN 0 ELSE h + 2 + 1 + 1 + f.nh.len + 1

Message(id, xs, v4, f, len, how) ==
    [header |-> PeerInfoForEmit(id), prefixes |-> xs, pa |-> f.pa,
     nh |-> IF v4 THEN NoHop ELSE f.nh,
     len |-> len, field |-> len % LengthField, how |-> how]

\* build_aggregated_route_monitoring: MP_REACH_NLRI has an extended length.
Aggregated(id, g) ==
    LET f == FilterPa(g.raw)
    IN Message(id, g.prefixes, g.v4, f,
               UpdateLen(g.v4, f, NlriTotal(g.prefixes), 4), "group")

\* build_mp_reach_nlri for one prefix: a short length where it fits.
MpReachHeader(nh, x) ==
    IF 2 + 1 + 1 + nh.len + 1 + NlriLen(x) > 255 THEN 4 ELSE 3

SingleUnchecked(id, x, pas) ==
    LET f == FilterPa(pas)
    IN {Message(id, {x}, IsV4(x), f,
                UpdateLen(IsV4(x), f, NlriLen(x), MpReachHeader(f.nh, x)), "single")}

\* build_bgp_update: a route whose UPDATE would not fit the length field is
\* dropped.
Single(id, x, pas) ==
    LET f == FilterPa(pas)
        len == UpdateLen(IsV4(x), f, NlriLen(x), MpReachHeader(f.nh, x))
    IN IF len > LengthField - 1 THEN {}
       ELSE {Message(id, {x}, IsV4(x), f, len, "single")}

----------------------------------------------------------------------------
(* Groups.                                                                 *)

NewGroup(pas, v4) ==
    [raw |-> pas, v4 |-> v4, prefixes |-> {}, nlri |-> 0,
     base |-> UpdateLen(v4, FilterPa(pas), 0, 4)]

Push(g, x) ==
    [g EXCEPT !.prefixes = @ \cup {x}, !.nlri = @ + NlriLen(x)]

ResetPrefixes(g) == [g EXCEPT !.prefixes = {}, !.nlri = 0]

Cost(g) == AGG_MEM_PER_GROUP + Cardinality(g.prefixes) * AGG_MEM_PER_PREFIX

EmitGroup(id, g) == IF g.prefixes = {} THEN {} ELSE {Aggregated(id, g)}

Without(G, K) == [k \in DOMAIN G \ K |-> G[k]]

\* The cost of all groups with these keys.
CostOf(G, K) ==
    AGG_MEM_PER_GROUP * Cardinality(K)
        + AGG_MEM_PER_PREFIX * Cardinality(UNION {{k} \X G[k].prefixes : k \in K})

\* The sets of groups evict_until_under_budget may take out when bytes are
\* charged: the fullest first, until at most half the budget is held.
Evictions(G, bytes) ==
    IF bytes <= MaxBytes THEN {{}}
    ELSE {K \in SUBSET DOMAIN G :
            /\ \A k \in K, j \in DOMAIN G \ K :
                  Cardinality(G[k].prefixes) >= Cardinality(G[j].prefixes)
            /\ bytes - CostOf(G, K) <= MaxBytes \div 2 \/ K = DOMAIN G
            /\ \E last \in K :
                  /\ \A k \in K : Cardinality(G[k].prefixes) >= Cardinality(G[last].prefixes)
                  /\ bytes - CostOf(G, K \ {last}) > MaxBytes \div 2}

EvictUntilUnderBudget(G, bytes, out) ==
    \E K \in Evictions(G, bytes) :
        /\ groups' = Without(G, K)
        /\ buffered' = bytes - CostOf(G, K)
        /\ sent' = out \cup UNION {EmitGroup(k[1], G[k]) : k \in K}

----------------------------------------------------------------------------

AggInit ==
    /\ input \in Inputs
    /\ stage = "walking" /\ todo = DOMAIN input
    /\ groups = <<>> /\ buffered = 0 /\ sent = {}

JoinsAnyway(key, pas, v4) ==
    IF key \in DOMAIN groups THEN groups[key] ELSE NewGroup(pas, v4)

\* The group a route with these attributes joins under this key, and what is
\* emitted first: a group of other attributes with the same hash.
Joins(key, pas, v4) ==
    IF key \in DOMAIN groups /\ groups[key].raw = pas
    THEN groups[key] ELSE NewGroup(pas, v4)

Displaced(key, pas) ==
    IF key \in DOMAIN groups /\ groups[key].raw # pas
    THEN EmitGroup(key[1], groups[key]) ELSE {}

\* RouteAggregator::add.  The walk has put the peer in the map before.
Add(r) ==
    LET x == r[2]
        pas == Blob(r)
        key == <<r[1], IsV4(x), Hash(pas)>>
        held == {key} \cap DOMAIN groups
        group == Joins(key, pas, IsV4(x))
        full == /\ group.prefixes # {}
                /\ group.base + group.nlri + NlriLen(x) > MAX_BGP_UPDATE_LEN
        room == IF full THEN ResetPrefixes(group) ELSE group
        out == sent \cup Displaced(key, pas)
                    \cup (IF full THEN EmitGroup(r[1], group) ELSE {})
        rest == Without(groups, held)
        bytes == buffered - CostOf(groups, held)
    IN /\ stage = "walking" /\ r \in todo
       /\ todo' = todo \ {r}
       /\ IF room.prefixes = {} /\ room.base + NlriLen(x) > MAX_BGP_UPDATE_LEN
          THEN /\ groups' = rest /\ buffered' = bytes
               /\ sent' = out \cup Single(r[1], x, pas)
          ELSE EvictUntilUnderBudget(
                  [k \in DOMAIN rest \cup {key} |->
                      IF k = key THEN Push(room, x) ELSE rest[k]],
                  bytes + Cost(Push(room, x)), out)
       /\ UNCHANGED <<input, stage>>

FlushAll ==
    /\ stage = "walking" /\ todo = {}
    /\ sent' = sent \cup UNION {EmitGroup(k[1], groups[k]) : k \in DOMAIN groups}
    /\ groups' = <<>> /\ buffered' = 0
    /\ stage' = "done"
    /\ UNCHANGED <<input, todo>>

\* The sink reports that the client is gone: the walk stops, nothing is
\* flushed, and what the channel holds is dropped with it.
ClientGone ==
    /\ stage = "walking"
    /\ stage' = "gone" /\ groups' = <<>> /\ buffered' = 0
    /\ UNCHANGED <<input, todo, sent>>

AggNext == (\E r \in todo : Add(r)) \/ FlushAll \/ ClientGone

AggSpec == AggInit /\ [][AggNext]_aggVars

----------------------------------------------------------------------------
(* Properties.                                                             *)

\* What a collector should read for a route: the peer, the attributes that are
\* not about reachability, and for IPv6 the next hop the source announced.
Expected(r) ==
    LET nhs == {input[r][i].nh : i \in {j \in DOMAIN input[r] : input[r][j].code = "reach"}}
    IN [header |-> PeerInfoForEmit(r[1]), prefix |-> r[2],
        pa |-> [i \in {j \in DOMAIN input[r] : input[r][j].code = "other" /\ input[r][j].whole}
                    |-> input[r][i]],
        nh |-> IF IsV4(r[2]) \/ nhs = {} THEN NoHop ELSE CHOOSE h \in nhs : TRUE]

\* Tables that can be told back from what is restreamed: only the last
\* attribute of a list can be cut off, the MP_REACH_NLRI of an IPv6 route have
\* one next hop and the format of their source, and the headers of two peers
\* with a route to one prefix differ.
Legible ==
    \A t \in Inputs : \A r \in DOMAIN t :
        /\ \A i \in DOMAIN t[r] : ~ t[r][i].whole => i = Len(t[r])
        /\ ~ IsV4(r[2]) =>
              \A i \in DOMAIN t[r] : t[r][i].code = "reach" =>
                  /\ t[r][i].whole
                  /\ t[r][i].form = IF Info[r[1]].type = "mrt" THEN "mrt" ELSE "wire"
                  /\ \A j \in DOMAIN t[r] :
                        t[r][j].code = "reach" => t[r][j].nh = t[r][i].nh
        /\ \A q \in DOMAIN t :
              q[2] = r[2] /\ PeerInfoForEmit(q[1]) = PeerInfoForEmit(r[1]) => q = r

ReadBack ==
    UNION {{[header |-> m.header, prefix |-> x, pa |-> m.pa, nh |-> m.nh] :
              x \in m.prefixes} : m \in sent}

Open(r) ==
    \E k \in DOMAIN groups :
        k[1] = r[1] /\ r[2] \in groups[k].prefixes /\ groups[k].raw = Blob(r)

TooLong(r) == Single(r[1], r[2], Blob(r)) = {}

\* Aggregation neither loses, invents nor mixes up routes: what the collector
\* has read are routes of the table, under their own peer's header, with their
\* own attributes and next hop; a route the walk has not handed over has not
\* been read; and one it has is read or waits in a group, never both, unless
\* no UPDATE can hold it.  Peers of different upstreams with one address must
\* therefore differ in their headers (RouteAggregator, filter_pa_from_raw,
\* normalize_mrt_mp_reach, build_peer_info_for_emit).
RoutesConserved ==
    /\ ReadBack \subseteq {Expected(r) : r \in DOMAIN input \ todo}
    /\ stage # "gone" =>
          \A r \in DOMAIN input :
              LET read == Expected(r) \in ReadBack
              IN IF r \in todo THEN ~ read /\ ~ Open(r)
                 ELSE (read /\ ~ Open(r)) \/ (~ read /\ (Open(r) \/ TooLong(r)))
    /\ stage = "done" =>
          \A r \in DOMAIN input : Expected(r) \in ReadBack \/ TooLong(r)

\* Every UPDATE states its own length, which aggregation keeps within what a
\* peer without extended messages accepts, and the aggregator charges exactly
\* the groups it holds and is within its budget when add returns.
SizesAccounted ==
    /\ \A m \in sent :
          m.field = m.len /\ (m.how = "group" => m.len <= MAX_BGP_UPDATE_LEN)
    /\ buffered = CostOf(groups, DOMAIN groups)
    /\ buffered <= MaxBytes
====
