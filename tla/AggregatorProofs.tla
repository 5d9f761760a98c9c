-------------------------- MODULE AggregatorProofs --------------------------
(***************************************************************************)
(* Proofs about Aggregator, for any table, hash and budget.                *)
(*                                                                         *)
(* First the octets: every group holds routes handed over with the         *)
(* attributes of its key, its octet count is that of its routes, what is   *)
(* charged is the sum over the groups and within the budget, and a message *)
(* states its length and fits 4096 octets.                                 *)
(*                                                                         *)
(* Then the routes: what was sent is exactly the routes handed over that   *)
(* neither wait in a group nor are too long. With input that can be read   *)
(* (Legible) every route handed over is sent, once, with its attributes.   *)
(***************************************************************************)
EXTENDS Aggregator, FiniteSetTheorems, TLAPS

\* A set of numbers has a smallest one.
LEMMA Smallest ==
    ASSUME NEW T, T \subseteq Nat, T # {}
    PROVE  \E m \in T : \A n \in T : m <= n
<1> DEFINE R == OpToRel(<, Nat)
<1>1. PICK m \in T : \A n \in T : ~(<<n, m>> \in R)
    <2> HIDE DEF R
    <2>1. IsWellFoundedOn(R, Nat)
        BY NatLessThanWellFounded, Zenon DEF R
    <2> QED
        BY <2>1, WFMin, Zenon
<1>2. \A n \in T : ~(n < m)
    BY <1>1, Zenon DEF OpToRel
<1> QED
    BY <1>2

\* A bounded one has a largest.
LEMMA Largest ==
    ASSUME NEW n \in Nat, NEW T, T \subseteq 1 .. n, T # {}
    PROVE  \E m \in T : \A i \in T : i <= m
<1> DEFINE S == {n - i : i \in T}
<1>1. S \subseteq Nat /\ S # {}
    <2>1. \A i \in T : n - i \in Nat
        OBVIOUS
    <2>2. \E i \in T : n - i \in S
        BY Zenon
    <2> QED
        BY <2>1, <2>2
<1>2. PICK d \in S : \A e \in S : d <= e
    <2> HIDE DEF S
    <2> QED
        BY <1>1, Smallest, Zenon
<1>3. PICK m \in T : d = n - m
    OBVIOUS
<1>4. ASSUME NEW i \in T PROVE i <= m
    <2>1. n - m <= n - i /\ i \in Nat /\ m \in Nat
        BY <1>2, <1>3
    <2> QED
        BY <2>1
<1> QED
    BY <1>4

\* The length of a list of attributes is a number.
LEMMA PaLenNat ==
    ASSUME NEW pas, Len(pas) \in Nat, \A i \in 1 .. Len(pas) : pas[i].len \in Nat
    PROVE  PaLen(pas) \in Nat
<1> DEFINE N == Len(pas)
           Part(i) == IF pas[i].code = "other" THEN pas[i].len ELSE 0
           Adds(f, m) == f = [n \in 0 .. m |-> IF n = 0 THEN 0 ELSE f[n - 1] + Part(n)]
           Upto == CHOOSE f : Adds(f, N)
           Bad == {m \in 0 .. N : ~\E f : Adds(f, m)}
           Odd == {m \in 0 .. N : Upto[m] \notin Nat}
<1>1. PaLen(pas) = Upto[N]
    BY DEF PaLen
<1>2. \A i \in 1 .. N : Part(i) \in Nat
    OBVIOUS
<1>2a. N \in Nat
    OBVIOUS
<1> HIDE DEF N, Part
<1>3. Bad = {}
    <2> SUFFICES ASSUME Bad # {} PROVE FALSE
        OBVIOUS
    <2>0. Bad \subseteq Nat
        BY <1>2a
    <2>1. PICK m \in Bad : \A n \in Bad : m <= n
        <3> HIDE DEF Bad
        <3> QED
            BY <2>0, Smallest, Zenon
    <2>2. CASE m = 0
        <3>1. Adds([n \in 0 .. 0 |-> 0], 0)
            OBVIOUS
        <3> QED
            BY <2>2, <3>1, Zenon
    <2>3. CASE m # 0
        <3>1. m - 1 \in 0 .. N /\ m \in Nat /\ ~(m <= m - 1)
            BY <1>2a, <2>3
        <3>2. PICK f : Adds(f, m - 1)
            BY <2>1, <3>1
        <3> DEFINE g == [n \in 0 .. m |-> IF n = 0 THEN 0 ELSE f[n - 1] + Part(n)]
        <3>3. ASSUME NEW n \in 0 .. m, n # 0 PROVE f[n - 1] = g[n - 1]
            BY <3>1, <3>2, <3>3
        <3>4. Adds(g, m)
            BY <3>3, Zenon
        <3> QED
            BY <3>4, Zenon
    <2> QED
        BY <2>2, <2>3
<1>4. Adds(Upto, N)
    <2>1. \E f : Adds(f, N)
        BY <1>3, <1>2a, SMTT(30)
    <2> HIDE DEF Adds
    <2> QED
        BY <2>1
<1> HIDE DEF Upto
<1>5. Odd = {}
    <2> SUFFICES ASSUME Odd # {} PROVE FALSE
        OBVIOUS
    <2>0. Odd \subseteq Nat
        BY <1>2a
    <2>1. PICK m \in Odd : \A n \in Odd : m <= n
        <3> HIDE DEF Odd
        <3> QED
            BY <2>0, Smallest, Zenon
    <2>2. m # 0 /\ m - 1 \in 0 .. N /\ Upto[m] = Upto[m - 1] + Part(m)
        BY <1>4, <1>2a, <2>1
    <2>3. Upto[m - 1] \in Nat
        BY <1>2a, <2>1, <2>2
    <2>4. m \in 1 .. N
        BY <1>2a, <2>2
    <2> QED
        BY <1>2, <2>2, <2>3, <2>4
<1> QED
    BY <1>1, <1>5, <1>2a

-----------------------------------------------------------------------------
(* Sums as numbers of elements. *)

Blocks(S, h) == UNION {{x} \X h[x] : x \in S}

LEMMA BlocksFinite ==
    ASSUME NEW S, NEW h, IsFiniteSet(S), \A x \in S : IsFiniteSet(h[x])
    PROVE  IsFiniteSet(Blocks(S, h)) /\ Cardinality(Blocks(S, h)) \in Nat
<1> DEFINE Of == [x \in S |-> {x} \X h[x]]
           All == {{x} \X h[x] : x \in S}
<1>1. Of \in Surjection(S, All)
    BY Zenon DEF Surjection
<1>2. IsFiniteSet(All)
    BY <1>1, FS_Surjection
<1>3. ASSUME NEW T \in All PROVE IsFiniteSet(T)
    <2>1. PICK x \in S : T = {x} \X h[x]
        OBVIOUS
    <2>2. IsFiniteSet({x})
        BY FS_Singleton, Zenon
    <2> QED
        BY <2>1, <2>2, FS_Product
<1> HIDE DEF All
<1>4. IsFiniteSet(UNION All)
    BY <1>2, <1>3, FS_UNION
<1>5. IsFiniteSet(Blocks(S, h))
    BY <1>4 DEF Blocks, All
<1> QED
    BY <1>5, FS_CardinalityType

LEMMA BlocksSplit ==
    ASSUME NEW S, NEW h, NEW K \in SUBSET S, IsFiniteSet(S), \A x \in S : IsFiniteSet(h[x])
    PROVE  Cardinality(Blocks(S, h))
               = Cardinality(Blocks(K, h)) + Cardinality(Blocks(S \ K, h))
<1> DEFINE A == Blocks(K, h)
           B == Blocks(S \ K, h)
<1>1. IsFiniteSet(K) /\ IsFiniteSet(S \ K)
    BY FS_Subset
<1>2. /\ IsFiniteSet(A) /\ Cardinality(A) \in Nat
      /\ IsFiniteSet(B) /\ Cardinality(B) \in Nat
    BY <1>1, BlocksFinite
<1>3. Blocks(S, h) = A \cup B
    BY DEF Blocks
<1>4. A \cap B = {}
    BY DEF Blocks
<1> HIDE DEF A, B
<1>5. Cardinality(A \cup B) = Cardinality(A) + Cardinality(B) - Cardinality(A \cap B)
    BY <1>2, FS_Union
<1>6. Cardinality(A \cap B) = 0
    BY <1>4, FS_EmptySet, Zenon
<1>7. Cardinality(A) + Cardinality(B) - 0 = Cardinality(A) + Cardinality(B)
    BY <1>2
<1> QED
    BY <1>3, <1>5, <1>6, <1>7, Zenon DEF A, B

LEMMA BlocksOne ==
    ASSUME NEW x, NEW h, IsFiniteSet(h[x])
    PROVE  Cardinality(Blocks({x}, h)) = Cardinality(h[x])
<1>1. Blocks({x}, h) = {x} \X h[x]
    BY DEF Blocks
<1>2. IsFiniteSet({x}) /\ Cardinality({x}) = 1
    BY FS_Singleton, Zenon
<1>3. Cardinality({x} \X h[x]) = 1 * Cardinality(h[x])
    BY <1>2, FS_Product
<1>4. Cardinality(h[x]) \in Nat
    BY FS_CardinalityType
<1>5. 1 * Cardinality(h[x]) = Cardinality(h[x])
    BY <1>4
<1> QED
    BY <1>1, <1>3, <1>5, Zenon

Names == DOMAIN PrefixLen

LEMMA NlriLenNat == ASSUME NEW x \in Names PROVE NlriLen(x) \in Nat
<1>1. PrefixLen[x].len \in Nat
    BY AggAssumption DEF Names
<1> QED
    BY <1>1 DEF NlriLen

\* A prefix more makes a message longer by its own length.
LEMMA NlriTotalAdd ==
    ASSUME NEW xs \in SUBSET Names, IsFiniteSet(xs), NEW x \in Names, x \notin xs
    PROVE  /\ NlriTotal(xs) \in Nat
           /\ NlriTotal(xs \cup {x}) = NlriTotal(xs) + NlriLen(x)
<1> DEFINE h == [y \in Names |-> 1 .. NlriLen(y)]
<1>1. \A ys \in SUBSET Names : NlriTotal(ys) = Cardinality(Blocks(ys, h))
    <2> TAKE ys \in SUBSET Names
    <2>1. {{y} \X (1 .. NlriLen(y)) : y \in ys} = {{y} \X h[y] : y \in ys}
        BY Zenon
    <2> QED
        BY <2>1, Zenon DEF NlriTotal, Blocks
<1>2. ASSUME NEW y \in Names
      PROVE  IsFiniteSet(h[y]) /\ Cardinality(h[y]) = NlriLen(y)
    <2>1. NlriLen(y) \in Nat /\ h[y] = 1 .. NlriLen(y)
        BY NlriLenNat
    <2>2. IsFiniteSet(1 .. NlriLen(y)) /\ Cardinality(1 .. NlriLen(y)) = NlriLen(y)
        BY <2>1, FS_Interval
    <2> QED
        BY <2>1, <2>2
<1> HIDE DEF h
<1>3. IsFiniteSet(xs \cup {x}) /\ (xs \cup {x}) \ xs = {x}
    BY FS_AddElement
<1>4. Cardinality(Blocks(xs \cup {x}, h))
          = Cardinality(Blocks(xs, h)) + Cardinality(Blocks((xs \cup {x}) \ xs, h))
    BY <1>2, <1>3, BlocksSplit, Zenon
<1>5. Cardinality(Blocks({x}, h)) = NlriLen(x)
    BY <1>2, BlocksOne, SMT, Z3
<1>6. Cardinality(Blocks(xs, h)) \in Nat
    BY <1>2, BlocksFinite
<1> QED
    BY <1>1, <1>3, <1>4, <1>5, <1>6, Zenon

LEMMA NlriTotalNone == NlriTotal({}) = 0
<1>1. UNION {{x} \X (1 .. NlriLen(x)) : x \in {}} = {}
    OBVIOUS
<1> QED
    BY <1>1, FS_EmptySet, Zenon DEF NlriTotal

Costed(G) == IsFiniteSet(DOMAIN G) /\ \A k \in DOMAIN G : IsFiniteSet(G[k].prefixes)

\* The cost of groups is that of some of them and that of the others.
LEMMA CostSplit ==
    ASSUME NEW G, Costed(G), NEW K \in SUBSET DOMAIN G
    PROVE  /\ CostOf(G, K) \in Nat /\ CostOf(G, DOMAIN G \ K) \in Nat
           /\ CostOf(G, DOMAIN G) = CostOf(G, K) + CostOf(G, DOMAIN G \ K)
<1> DEFINE D == DOMAIN G
           h == [k \in D |-> G[k].prefixes]
           C(S) == Cardinality(UNION {{k} \X G[k].prefixes : k \in S})
<1>1. \A S \in SUBSET D : C(S) = Cardinality(Blocks(S, h))
    <2> TAKE S \in SUBSET D
    <2>1. {{k} \X G[k].prefixes : k \in S} = {{k} \X h[k] : k \in S}
        BY Zenon
    <2> QED
        BY <2>1, Zenon DEF Blocks
<1>2. IsFiniteSet(D) /\ \A k \in D : IsFiniteSet(h[k])
    BY DEF Costed
<1>3. \A S : CostOf(G, S) = 128 * Cardinality(S) + 32 * C(S)
    BY DEF CostOf, AGG_MEM_PER_GROUP, AGG_MEM_PER_PREFIX
<1>4. K \in SUBSET D /\ D \ K \in SUBSET D /\ D \in SUBSET D
    OBVIOUS
<1> HIDE DEF D, h, C
<1>5. /\ IsFiniteSet(K) /\ IsFiniteSet(D \ K)
      /\ Cardinality(K) \in Nat /\ Cardinality(D \ K) \in Nat
    BY <1>2, <1>4, FS_Subset, FS_CardinalityType, Zenon
<1>6. C(K) \in Nat /\ C(D \ K) \in Nat
    BY <1>1, <1>2, <1>4, <1>5, BlocksFinite, Zenon
<1>7. C(D) = C(K) + C(D \ K)
    BY <1>1, <1>2, <1>4, BlocksSplit
<1>8. Cardinality(D) = Cardinality(K) + Cardinality(D \ K)
    <2>1. D = K \cup (D \ K) /\ K \cap (D \ K) = {}
        BY <1>4
    <2>2. Cardinality(K \cup (D \ K))
              = Cardinality(K) + Cardinality(D \ K) - Cardinality(K \cap (D \ K))
        BY <1>5, FS_Union
    <2>3. Cardinality(K \cap (D \ K)) = 0
        BY <2>1, FS_EmptySet, Zenon
    <2>4. Cardinality(K) + Cardinality(D \ K) - 0 = Cardinality(K) + Cardinality(D \ K)
        BY <1>5
    <2> QED
        BY <2>1, <2>2, <2>3, <2>4, Zenon
<1>9. CostOf(G, K) \in Nat /\ CostOf(G, D \ K) \in Nat
    BY <1>3, <1>5, <1>6
<1>10. CostOf(G, D) = CostOf(G, K) + CostOf(G, D \ K)
    <2>1. CostOf(G, D) = 128 * (Cardinality(K) + Cardinality(D \ K)) + 32 * (C(K) + C(D \ K))
        BY <1>3, <1>7, <1>8
    <2> QED
        BY <1>3, <1>5, <1>6, <2>1
<1> QED
    BY <1>9, <1>10 DEF D

LEMMA CostSame ==
    ASSUME NEW G, NEW H, NEW K, \A k \in K : G[k] = H[k]
    PROVE  CostOf(G, K) = CostOf(H, K)
<1>1. {{k} \X G[k].prefixes : k \in K} = {{k} \X H[k].prefixes : k \in K}
    OBVIOUS
<1> QED
    BY <1>1, Zenon DEF CostOf

LEMMA CostOne ==
    ASSUME NEW G, NEW k, IsFiniteSet(G[k].prefixes)
    PROVE  CostOf(G, {k}) = Cost(G[k])
<1> DEFINE B == UNION {{j} \X G[j].prefixes : j \in {k}}
           h == [j \in {k} |-> G[j].prefixes]
<1>1. B = Blocks({k}, h) /\ h[k] = G[k].prefixes
    BY DEF Blocks
<1>2. Cardinality(B) = Cardinality(G[k].prefixes)
    <2> HIDE DEF B, h
    <2> QED
        BY <1>1, BlocksOne
<1>3. Cardinality({k}) = 1
    BY FS_Singleton, Zenon
<1>4. CostOf(G, {k}) = 128 * Cardinality({k}) + 32 * Cardinality(B)
    BY DEF CostOf, AGG_MEM_PER_GROUP, AGG_MEM_PER_PREFIX
<1>5. Cardinality(G[k].prefixes) \in Nat
    BY FS_CardinalityType
<1> HIDE DEF B
<1> QED
    BY <1>2, <1>3, <1>4, <1>5 DEF Cost, AGG_MEM_PER_GROUP, AGG_MEM_PER_PREFIX

LEMMA CostNone == ASSUME NEW G PROVE CostOf(G, {}) = 0
<1>1. UNION {{k} \X G[k].prefixes : k \in {}} = {}
    OBVIOUS
<1>2. Cardinality({}) = 0
    BY FS_EmptySet, Zenon
<1>3. CostOf(G, {}) = 128 * Cardinality({}) + 32 * Cardinality({})
    BY <1>1 DEF CostOf, AGG_MEM_PER_GROUP, AGG_MEM_PER_PREFIX
<1> QED
    BY <1>2, <1>3

-----------------------------------------------------------------------------
(* Attributes. *)

LEMMA WholeType ==
    ASSUME NEW pas \in Seq(PathAttribute)
    PROVE  Whole(pas) \in Seq(PathAttribute)
<1> DEFINE S == {Len(pas) + 1} \cup {i \in DOMAIN pas : ~pas[i].whole}
           m == Min(S)
<1>1. Len(pas) \in Nat /\ DOMAIN pas = 1 .. Len(pas)
    OBVIOUS
<1>2. S \subseteq 1 .. Len(pas) + 1 /\ S # {} /\ S \subseteq Nat
    BY <1>1
<1>3. m \in S
    <2> HIDE DEF S
    <2>1. \E x \in S : \A y \in S : x <= y
        BY <1>2, Smallest, Zenon
    <2> QED
        BY <2>1 DEF Min
<1>4. m - 1 \in 0 .. Len(pas)
    <2> HIDE DEF S, m
    <2> QED
        BY <1>1, <1>2, <1>3
<1>5. Whole(pas) = SubSeq(pas, 1, m - 1)
    BY DEF Whole
<1> HIDE DEF m
<1>6. \A i \in 1 .. m - 1 : pas[i] \in PathAttribute
    BY <1>1, <1>4
<1>7. SubSeq(pas, 1, m - 1) \in Seq(PathAttribute)
    BY <1>1, <1>4, <1>6
<1> QED
    BY <1>5, <1>7

LEMMA BlobType ==
    ASSUME input \in Inputs, NEW r \in DOMAIN input
    PROVE  Blob(r) \in Seq(PathAttribute)
<1>1. input[r] \in Seq(PathAttribute) /\ r[2] \in Names
    BY AggAssumption DEF Names
<1>2. ASSUME NEW pas \in Seq(PathAttribute), NEW x \in Names
      PROVE  NormalizeMrtMpReach(pas, x) \in Seq(PathAttribute)
    <2> DEFINE hop(i) == IF pas[i].form = "mrt" THEN pas[i].nh ELSE EmptyHop
               value(i) == 2 + 1 + 1 + hop(i).len + 1 + NlriLen(x)
               len(i) == value(i) + IF value(i) > 255 THEN 4 ELSE 3
    <2>1. ASSUME NEW i \in 1 .. Len(pas)
          PROVE  NormalizeMrtMpReach(pas, x)[i] \in PathAttribute
        <3>1. pas[i] \in PathAttribute /\ i \in DOMAIN pas
            OBVIOUS
        <3>5. hop(i) \in [addr : Hops \cup {"none", "empty"}, len : Nat]
            <4>1. EmptyHop \in [addr : Hops \cup {"none", "empty"}, len : Nat]
                BY DEF EmptyHop
            <4>2. pas[i].nh \in [addr : Hops \cup {"none", "empty"}, len : Nat]
                BY <3>1, Zenon DEF PathAttribute
            <4> QED
                BY <4>1, <4>2, Zenon
        <3> HIDE DEF hop
        <3>2. hop(i).len \in Nat /\ NlriLen(x) \in Nat
            BY <3>5, NlriLenNat
        <3>3. len(i) \in Nat
            <4>1. value(i) \in Nat
                BY <3>2, SMTT(30)
            <4> HIDE DEF value
            <4> QED
                BY <4>1
        <3>4. \/ NormalizeMrtMpReach(pas, x)[i] = pas[i]
              \/ NormalizeMrtMpReach(pas, x)[i]
                    = [pas[i] EXCEPT !.form = "wire", !.nh = hop(i), !.len = len(i)]
            BY <3>1, Zenon DEF NormalizeMrtMpReach, hop
        <3> HIDE DEF len
        <3> QED
            BY <3>1, <3>3, <3>4, <3>5, Zenon DEF PathAttribute
    <2>2. NormalizeMrtMpReach(pas, x)
              = [i \in 1 .. Len(pas) |-> NormalizeMrtMpReach(pas, x)[i]]
        BY DEF NormalizeMrtMpReach
    <2> QED
        BY <2>1, <2>2
<1> QED
    BY <1>1, <1>2 DEF Blob

\* What filter_pa_from_raw returns has a length.
LEMMA FilterPaType ==
    ASSUME NEW pas \in Seq(PathAttribute)
    PROVE  FilterPa(pas).len \in Nat /\ FilterPa(pas).nh.len \in Nat
<1> DEFINE read == Whole(pas)
           reach == {i \in DOMAIN read : read[i].code = "reach" /\ read[i].form # "bad"}
<1>1. read \in Seq(PathAttribute)
    BY WholeType
<1>2. Len(read) \in Nat /\ DOMAIN read = 1 .. Len(read)
    BY <1>1
<1>3. \A i \in 1 .. Len(read) : read[i].len \in Nat /\ read[i].nh.len \in Nat
    <2> TAKE i \in 1 .. Len(read)
    <2>1. read[i] \in PathAttribute
        BY <1>1
    <2> QED
        BY <2>1 DEF PathAttribute
<1>4. PaLen(read) \in Nat
    BY <1>2, <1>3, PaLenNat, Zenon
<1>5. reach # {} => Max(reach) \in reach
    <2> SUFFICES ASSUME reach # {} PROVE Max(reach) \in reach
        BY Zenon
    <2>1. reach \subseteq 1 .. Len(read)
        BY <1>2
    <2> HIDE DEF reach
    <2>2. \E m \in reach : \A i \in reach : i <= m
        BY <1>2, <2>1, Largest, Zenon
    <2>3. \E m \in reach : \A i \in reach : m >= i
        BY <1>2, <2>1, <2>2
    <2> QED
        BY <2>3 DEF Max
<1>6. /\ FilterPa(pas).len = PaLen(read)
      /\ FilterPa(pas).nh = IF reach = {} THEN NoHop
               ELSE IF read[Max(reach)].form = "wire" THEN read[Max(reach)].nh
               ELSE Misread
    BY Zenon DEF FilterPa
<1>7. reach # {} => read[Max(reach)].nh.len \in Nat
    BY <1>2, <1>3, <1>5, Zenon
<1> HIDE DEF read, reach
<1> QED
    BY <1>4, <1>6, <1>7 DEF NoHop, Misread

-----------------------------------------------------------------------------
(* The invariant. *)

KeyOf(r) == <<r[1], IsV4(r[2]), Hash(Blob(r))>>

Grouped ==
    [raw : Seq(PathAttribute), v4 : {IsV4(x) : x \in Names}, prefixes : SUBSET Names,
     nlri : Nat, base : Nat]

\* A group that holds no more than an UPDATE takes, of routes handed over.
Sized(g) ==
    /\ g \in Grouped
    /\ IsFiniteSet(g.prefixes)
    /\ g.nlri = NlriTotal(g.prefixes)
    /\ g.base = UpdateLen(g.v4, FilterPa(g.raw), 0, 4)

Holds(k, g) ==
    \A x \in g.prefixes :
        /\ <<k[1], x>> \in DOMAIN input \ todo
        /\ Blob(<<k[1], x>>) = g.raw /\ IsV4(x) = g.v4 /\ k = KeyOf(<<k[1], x>>)

GroupOK(k, g) ==
    /\ Sized(g) /\ Holds(k, g)
    /\ g.prefixes # {}
    /\ g.base + g.nlri <= MAX_BGP_UPDATE_LEN

MessageOK(m) ==
    m.field = m.len /\ (m.how = "group" => m.len <= MAX_BGP_UPDATE_LEN)

AggTypes ==
    /\ input \in Inputs /\ todo \subseteq DOMAIN input
    /\ stage \in {"walking", "done", "gone"}

GroupsOK ==
    /\ IsFiniteSet(DOMAIN groups)
    /\ \A k \in DOMAIN groups : GroupOK(k, groups[k])

Charged == buffered = CostOf(groups, DOMAIN groups) /\ buffered <= MaxBytes

AggInv ==
    /\ AggTypes /\ GroupsOK /\ Charged
    /\ \A m \in sent : MessageOK(m)

LEMMA UpdateLenNat ==
    ASSUME NEW v4, NEW f, f.len \in Nat, f.nh.len \in Nat, NEW n \in Nat, NEW h \in Nat
    PROVE  /\ UpdateLen(v4, f, n, h) \in Nat
           /\ UpdateLen(v4, f, n, h) = UpdateLen(v4, f, 0, h) + n
<1>1. CASE v4
    BY <1>1 DEF UpdateLen
<1>2. CASE ~v4
    BY <1>2 DEF UpdateLen
<1> QED
    BY <1>1, <1>2

\* A message of a group states its length, within what any peer accepts.
LEMMA AggregatedOK ==
    ASSUME NEW id, NEW g, Sized(g), g.base + g.nlri <= MAX_BGP_UPDATE_LEN
    PROVE  MessageOK(Aggregated(id, g))
<1> DEFINE f == FilterPa(g.raw)
           n == NlriTotal(g.prefixes)
           l == UpdateLen(g.v4, f, n, 4)
           m == Aggregated(id, g)
<1>1. f.len \in Nat /\ f.nh.len \in Nat
    BY FilterPaType DEF Sized, Grouped
<1>2. n \in Nat /\ g.base + n <= 4096 /\ g.base = UpdateLen(g.v4, f, 0, 4)
    BY DEF Sized, Grouped, MAX_BGP_UPDATE_LEN
<1>3. m.len = l /\ m.field = l % LengthField
    BY DEF Aggregated, Message
<1> HIDE DEF n, f, m
<1>4. l \in Nat /\ l <= 4096
    BY <1>1, <1>2, UpdateLenNat
<1>5. l % LengthField = l
    <2> HIDE DEF l
    <2> QED
        BY <1>4 DEF LengthField
<1> HIDE DEF l
<1> QED
    BY <1>3, <1>4, <1>5 DEF MessageOK, m, MAX_BGP_UPDATE_LEN

\* So does that of a single route.
LEMMA SingleOK ==
    ASSUME NEW id, NEW x \in Names, NEW pas \in Seq(PathAttribute), NEW m \in Single(id, x, pas)
    PROVE  MessageOK(m)
<1> DEFINE f == FilterPa(pas)
           h == MpReachHeader(f.nh, x)
           l == UpdateLen(IsV4(x), f, NlriLen(x), h)
<1>1. f.len \in Nat /\ f.nh.len \in Nat /\ NlriLen(x) \in Nat
    BY FilterPaType, NlriLenNat
<1>2. h \in Nat
    BY DEF MpReachHeader
<1>3. ~(l > LengthField - 1) /\ m = Message(id, {x}, IsV4(x), f, l, "single")
    BY DEF Single
<1> HIDE DEF f, h
<1>4. l \in Nat
    BY <1>1, <1>2, UpdateLenNat, Zenon
<1> HIDE DEF l
<1>5. l % LengthField = l
    BY <1>3, <1>4 DEF LengthField
<1>6. m.len = l /\ m.field = l % LengthField /\ m.how = "single"
    BY <1>3 DEF Message
<1> QED
    BY <1>5, <1>6 DEF MessageOK

\* What is left after an eviction is charged, within the budget.
LEMMA EvictCharged ==
    ASSUME NEW G, Costed(G), NEW K \in Evictions(G, CostOf(G, DOMAIN G))
    PROVE  /\ K \in SUBSET DOMAIN G
           /\ CostOf(G, DOMAIN G) - CostOf(G, K) = CostOf(Without(G, K), DOMAIN Without(G, K))
           /\ CostOf(G, DOMAIN G) - CostOf(G, K) <= MaxBytes
<1> DEFINE b == CostOf(G, DOMAIN G)
           c == CostOf(G, K)
           d == CostOf(G, DOMAIN G \ K)
<1>0. MaxBytes \in Nat
    BY AggAssumption
<1>1. K \in SUBSET DOMAIN G
    BY DEF Evictions
<1>2. c \in Nat /\ d \in Nat /\ b = c + d
    BY <1>1, CostSplit
<1>3. \/ b <= MaxBytes
      \/ b - c <= MaxBytes \div 2
      \/ K = DOMAIN G
    BY DEF Evictions
<1>4. K = DOMAIN G => d = 0
    <2> SUFFICES ASSUME K = DOMAIN G PROVE d = 0
        OBVIOUS
    <2>1. DOMAIN G \ K = {}
        OBVIOUS
    <2> QED
        BY <2>1, CostNone
<1>5. b - c <= MaxBytes
    <2> HIDE DEF b, c, d
    <2> QED
        BY <1>0, <1>2, <1>3, <1>4
<1>6. DOMAIN Without(G, K) = DOMAIN G \ K /\ \A k \in DOMAIN G \ K : Without(G, K)[k] = G[k]
    BY DEF Without
<1>7. CostOf(Without(G, K), DOMAIN G \ K) = d
    BY <1>6, CostSame
<1>8. b - c = d
    <2> HIDE DEF b, c, d
    <2> QED
        BY <1>2
<1> QED
    BY <1>1, <1>5, <1>6, <1>7, <1>8, Zenon

LEMMA InputSame ==
    ASSUME input' = input
    PROVE  /\ \A r : Blob(r)' = Blob(r)
           /\ \A r : KeyOf(r)' = KeyOf(r)
<1>1. \A r : Blob(r)' = Blob(r)
    BY DEF Blob
<1> QED
    BY <1>1 DEF KeyOf

\* A group stays what it is when the walk goes on.
LEMMA GroupStays ==
    ASSUME NEW k, NEW g, GroupOK(k, g), input' = input, todo' \subseteq todo
    PROVE  GroupOK(k, g)'
<1>1. Holds(k, g)'
    BY InputSame DEF GroupOK, Holds
<1> QED
    BY <1>1 DEF GroupOK, Sized

-----------------------------------------------------------------------------
(* RouteAggregator::add. *)

LEMMA NewCounts ==
    ASSUME NEW pas \in Seq(PathAttribute), NEW x \in Names
    PROVE  LET g == NewGroup(pas, IsV4(x))
           IN Sized(g) /\ g.raw = pas /\ g.v4 = IsV4(x) /\ g.prefixes = {}
<1> DEFINE g == NewGroup(pas, IsV4(x))
           b == UpdateLen(IsV4(x), FilterPa(pas), 0, 4)
<1>1. b \in Nat
    BY FilterPaType, UpdateLenNat
<1>2. g = [raw |-> pas, v4 |-> IsV4(x), prefixes |-> {}, nlri |-> 0, base |-> b]
    BY DEF NewGroup
<1>3. g \in Grouped
    <2> HIDE DEF b, g
    <2> QED
        BY <1>1, <1>2 DEF Grouped
<1>4. IsFiniteSet({}) /\ NlriTotal({}) = 0
    BY FS_EmptySet, NlriTotalNone
<1>5. /\ g.raw = pas /\ g.v4 = IsV4(x) /\ g.prefixes = {} /\ g.nlri = 0
      /\ g.base = UpdateLen(g.v4, FilterPa(g.raw), 0, 4)
    <2> HIDE DEF g
    <2> QED
        BY <1>2
<1> HIDE DEF g
<1> QED
    BY <1>3, <1>4, <1>5, Zenon DEF Sized, g

LEMMA ResetCounts ==
    ASSUME NEW g, Sized(g)
    PROVE  LET h == ResetPrefixes(g)
           IN Sized(h) /\ h.raw = g.raw /\ h.v4 = g.v4 /\ h.prefixes = {} /\ h.base = g.base
<1> DEFINE h == ResetPrefixes(g)
<1>1. h = [g EXCEPT !.prefixes = {}, !.nlri = 0]
    BY DEF ResetPrefixes
<1>2. g \in Grouped
    BY DEF Sized
<1>3. IsFiniteSet({}) /\ NlriTotal({}) = 0
    BY FS_EmptySet, NlriTotalNone
<1> HIDE DEF h
<1>4. /\ h \in Grouped /\ h.raw = g.raw /\ h.v4 = g.v4 /\ h.base = g.base
      /\ h.prefixes = {} /\ h.nlri = 0
    BY <1>1, <1>2, Zenon DEF Grouped
<1>5. Sized(h)
    BY <1>3, <1>4 DEF Sized
<1> QED
    BY <1>4, <1>5 DEF h

LEMMA PushCounts ==
    ASSUME NEW g, Sized(g), NEW x \in Names, x \notin g.prefixes
    PROVE  LET h == Push(g, x)
           IN /\ Sized(h) /\ h.raw = g.raw /\ h.v4 = g.v4 /\ h.base = g.base
              /\ h.prefixes = g.prefixes \cup {x} /\ h.nlri = g.nlri + NlriLen(x)
<1> DEFINE h == Push(g, x)
           n == g.nlri + NlriLen(x)
           P == g.prefixes \cup {x}
<1>1. h = [g EXCEPT !.prefixes = P, !.nlri = n]
    BY DEF Push
<1>2. g \in Grouped /\ g.prefixes \in SUBSET Names /\ g.nlri \in Nat /\ IsFiniteSet(g.prefixes)
    BY DEF Sized, Grouped
<1>3. n \in Nat /\ P \in SUBSET Names
    BY <1>2, NlriLenNat
<1>4. n = NlriTotal(P)
    BY <1>2, NlriTotalAdd, Zenon DEF Sized
<1>5. IsFiniteSet(P)
    BY <1>2, FS_AddElement
<1> HIDE DEF n, h, P
<1>6. /\ h \in Grouped /\ h.raw = g.raw /\ h.v4 = g.v4 /\ h.base = g.base
      /\ h.prefixes = P /\ h.nlri = n
    BY <1>1, <1>2, <1>3, Zenon DEF Grouped
<1>7. Sized(h)
    BY <1>4, <1>5, <1>6, Zenon DEF Sized
<1> QED
    BY <1>6, <1>7, Zenon DEF h, n, P

\* The groups with this one under its key.
WithGroup(key, g) ==
    [k \in DOMAIN Without(groups, {key} \cap DOMAIN groups) \cup {key} |->
        IF k = key THEN g ELSE Without(groups, {key} \cap DOMAIN groups)[k]]

\* A route starts a group of its own, after the group that had its key was
\* emitted, or joins that group; or it is too long for any group.
LEMMA AddCases ==
    ASSUME AggTypes, GroupsOK, NEW r \in todo, Add(r)
    PROVE  LET key == KeyOf(r)
               held == {key} \cap DOMAIN groups
           IN \E g, M :
                 /\ Sized(g) /\ g.raw = Blob(r) /\ g.v4 = IsV4(r[2])
                 /\ \/ g.prefixes = {} /\ M = UNION {EmitGroup(k[1], groups[k]) : k \in held}
                    \/ /\ key \in DOMAIN groups /\ g = groups[key] /\ M = {}
                       /\ ~(g.base + g.nlri + NlriLen(r[2]) > MAX_BGP_UPDATE_LEN)
                 /\ \/ /\ g.prefixes = {} /\ g.base + NlriLen(r[2]) > MAX_BGP_UPDATE_LEN
                       /\ groups' = Without(groups, held)
                       /\ buffered' = buffered - CostOf(groups, held)
                       /\ sent' = (sent \cup M) \cup Single(r[1], r[2], Blob(r))
                    \/ /\ ~(g.prefixes = {} /\ g.base + NlriLen(r[2]) > MAX_BGP_UPDATE_LEN)
                       /\ EvictUntilUnderBudget(WithGroup(key, Push(g, r[2])),
                              buffered - CostOf(groups, held) + Cost(Push(g, r[2])), sent \cup M)
<1> DEFINE x == r[2]
           pas == Blob(r)
           key == KeyOf(r)
           held == {key} \cap DOMAIN groups
           group == Joins(key, pas, IsV4(x))
           full == /\ group.prefixes # {}
                   /\ group.base + group.nlri + NlriLen(x) > MAX_BGP_UPDATE_LEN
           room == IF full THEN ResetPrefixes(group) ELSE group
           M == Displaced(key, pas) \cup (IF full THEN EmitGroup(r[1], group) ELSE {})
<1>1. r \in DOMAIN input /\ input \in Inputs
    BY DEF AggTypes
<1>2. r[2] \in Names /\ r = <<r[1], r[2]>>
    BY <1>1, AggAssumption DEF Names
<1>3. pas \in Seq(PathAttribute)
    BY <1>1, BlobType
<1>4. key = <<r[1], IsV4(x), Hash(pas)>> /\ key[1] = r[1] /\ key[2] = IsV4(x)
    BY DEF KeyOf
<1>5. \/ /\ room.prefixes = {} /\ room.base + NlriLen(x) > MAX_BGP_UPDATE_LEN
         /\ groups' = Without(groups, held)
         /\ buffered' = buffered - CostOf(groups, held)
         /\ sent' = (sent \cup M) \cup Single(r[1], x, pas)
      \/ /\ ~(room.prefixes = {} /\ room.base + NlriLen(x) > MAX_BGP_UPDATE_LEN)
         /\ EvictUntilUnderBudget(WithGroup(key, Push(room, x)),
                buffered - CostOf(groups, held) + Cost(Push(room, x)), sent \cup M)
    <2>1. (sent \cup Displaced(key, pas)) \cup (IF full THEN EmitGroup(r[1], group) ELSE {})
              = sent \cup M
        <3> HIDE DEF group, full, key, pas
        <3> QED
            OBVIOUS
    <2> HIDE DEF M
    <2> QED
        BY <2>1, Zenon DEF Add, KeyOf, WithGroup
<1>6. ASSUME key \in DOMAIN groups, groups[key].raw = pas
      PROVE  /\ group = groups[key] /\ Sized(group) /\ group.prefixes # {}
             /\ group.raw = pas /\ group.v4 = IsV4(x) /\ Displaced(key, pas) = {}
             /\ held = {key}
    <2>1. group = groups[key] /\ Displaced(key, pas) = {} /\ held = {key}
        BY <1>6 DEF Joins, Displaced
    <2>2. GroupOK(key, groups[key])
        BY <1>6 DEF GroupsOK
    <2>3. PICK y \in groups[key].prefixes : IsV4(y) = groups[key].v4 /\ key = KeyOf(<<key[1], y>>)
        BY <2>2, Zenon DEF GroupOK, Holds
    <2>4. groups[key].v4 = key[2]
        <3>1. KeyOf(<<key[1], y>>)[2] = IsV4(y)
            BY DEF KeyOf
        <3> QED
            BY <2>3, <3>1, Zenon
    <2> HIDE DEF group, key, held
    <2> QED
        BY <1>4, <1>6, <2>1, <2>2, <2>4, Zenon DEF GroupOK
<1>7. ASSUME ~(key \in DOMAIN groups /\ groups[key].raw = pas)
      PROVE  /\ Sized(group) /\ group.raw = pas /\ group.v4 = IsV4(x) /\ group.prefixes = {}
             /\ Displaced(key, pas) = UNION {EmitGroup(k[1], groups[k]) : k \in held}
    <2>1. group = NewGroup(pas, IsV4(x))
        BY <1>7 DEF Joins
    <2>2. Displaced(key, pas) = UNION {EmitGroup(k[1], groups[k]) : k \in held}
        <3> HIDE DEF key, pas
        <3>1. CASE key \in DOMAIN groups
            BY <1>7, <3>1 DEF Displaced
        <3>2. CASE key \notin DOMAIN groups
            BY <3>2 DEF Displaced
        <3> QED
            BY <3>1, <3>2
    <2> HIDE DEF group, key, held, pas
    <2> QED
        BY <1>2, <1>3, <2>1, <2>2, NewCounts, Zenon
<1>8. /\ Sized(room) /\ room.raw = pas /\ room.v4 = IsV4(x)
      /\ \/ room.prefixes = {} /\ M = UNION {EmitGroup(k[1], groups[k]) : k \in held}
         \/ /\ key \in DOMAIN groups /\ room = groups[key] /\ M = {}
            /\ ~(room.base + room.nlri + NlriLen(x) > MAX_BGP_UPDATE_LEN)
    <2>1. CASE key \in DOMAIN groups /\ groups[key].raw = pas /\ full
        <3>1. room = ResetPrefixes(group) /\ M = EmitGroup(r[1], group)
            BY <1>6, <2>1, Zenon
        <3>2. EmitGroup(r[1], group) = UNION {EmitGroup(k[1], groups[k]) : k \in held}
            BY <1>4, <1>6, <2>1, Zenon
        <3> HIDE DEF group, key, held, pas, room, M, full
        <3> QED
            BY <1>6, <2>1, <3>1, <3>2, ResetCounts, Zenon
    <2>2. CASE key \in DOMAIN groups /\ groups[key].raw = pas /\ ~full
        <3>1. room = group /\ M = {}
            BY <1>6, <2>2, Zenon
        <3>2. group.prefixes # {} /\ group = groups[key]
            BY <1>6, <2>2, Zenon
        <3>3. ~(group.base + group.nlri + NlriLen(x) > MAX_BGP_UPDATE_LEN)
            BY <2>2, <3>2, Zenon
        <3> HIDE DEF group, key, held, pas, room, M, full
        <3> QED
            BY <1>6, <2>2, <3>1, <3>2, <3>3, Zenon
    <2>3. CASE ~(key \in DOMAIN groups /\ groups[key].raw = pas)
        <3>1. ~full
            BY <1>7, <2>3, Zenon
        <3>2. room = group /\ M = Displaced(key, pas)
            BY <3>1, Zenon
        <3> HIDE DEF group, key, held, pas, room, M, full
        <3> QED
            BY <1>7, <2>3, <3>2, Zenon
    <2> HIDE DEF group, key, held, pas, room, M, full
    <2> QED
        BY <2>1, <2>2, <2>3, Zenon
<1> HIDE DEF room, M, group, full, pas, key, held
<1> QED
    BY <1>5, <1>8, Zenon DEF key, pas, held

LEMMA RouteType ==
    ASSUME AggTypes, NEW r \in todo
    PROVE  /\ r \in DOMAIN input /\ input \in Inputs /\ r = <<r[1], r[2]>> /\ r[2] \in Names
           /\ KeyOf(r)[1] = r[1] /\ Blob(r) \in Seq(PathAttribute) /\ NlriLen(r[2]) \in Nat
<1>1. r \in DOMAIN input /\ input \in Inputs
    BY DEF AggTypes
<1>2. r = <<r[1], r[2]>> /\ r[2] \in Names
    BY <1>1, AggAssumption DEF Names
<1>3. Blob(r) \in Seq(PathAttribute) /\ NlriLen(r[2]) \in Nat
    BY <1>1, <1>2, BlobType, NlriLenNat
<1>4. KeyOf(r)[1] = r[1]
    BY DEF KeyOf
<1> QED
    BY <1>1, <1>2, <1>3, <1>4, Zenon

\* The group a route has joined is one that an UPDATE can hold.
LEMMA PushedOK ==
    ASSUME AggTypes, GroupsOK, NEW r \in todo, input' = input, todo' = todo \ {r},
           NEW g, Sized(g), g.raw = Blob(r), g.v4 = IsV4(r[2]),
           \/ g.prefixes = {}
           \/ /\ KeyOf(r) \in DOMAIN groups /\ g = groups[KeyOf(r)]
              /\ ~(g.base + g.nlri + NlriLen(r[2]) > MAX_BGP_UPDATE_LEN),
           ~(g.prefixes = {} /\ g.base + NlriLen(r[2]) > MAX_BGP_UPDATE_LEN)
    PROVE  /\ GroupOK(KeyOf(r), Push(g, r[2]))'
           /\ Push(g, r[2]).prefixes = g.prefixes \cup {r[2]} /\ r[2] \notin g.prefixes
<1> DEFINE x == r[2]
<1>a. PICK key : key = KeyOf(r)
    OBVIOUS
<1>b. PICK h : h = Push(g, x)
    OBVIOUS
<1>1. /\ r \in DOMAIN input /\ input \in Inputs /\ r = <<r[1], x>> /\ x \in Names
      /\ key[1] = r[1] /\ NlriLen(x) \in Nat
    BY <1>a, RouteType, Zenon
<1>2. Holds(key, g)
    <2>1. CASE g.prefixes = {}
        BY <2>1, Zenon DEF Holds
    <2>2. CASE key \in DOMAIN groups /\ g = groups[key]
        BY <2>2, Zenon DEF GroupsOK, GroupOK
    <2> QED
        BY <1>a, <2>1, <2>2, Zenon
<1>3. x \notin g.prefixes
    BY <1>1, <1>2, Zenon DEF Holds
<1>4. /\ Sized(h) /\ h.raw = g.raw /\ h.v4 = g.v4 /\ h.base = g.base
      /\ h.prefixes = g.prefixes \cup {x} /\ h.nlri = g.nlri + NlriLen(x)
    BY <1>1, <1>3, <1>b, PushCounts, SMT, Z3
<1>5. h.base + h.nlri <= MAX_BGP_UPDATE_LEN
    <2>1. g.nlri \in Nat /\ g.base \in Nat /\ (g.prefixes = {} => g.nlri = 0)
        BY NlriTotalNone, Zenon DEF Sized, Grouped
    <2>2. g.base + g.nlri + NlriLen(x) <= MAX_BGP_UPDATE_LEN
        BY <1>1, <2>1 DEF MAX_BGP_UPDATE_LEN
    <2> QED
        BY <1>1, <1>4, <2>1, <2>2, SMT, Z3
<1>6. Holds(key, h)'
    <2>1. \A q : Blob(q)' = Blob(q) /\ KeyOf(q)' = KeyOf(q)
        BY InputSame, Zenon
    <2> SUFFICES ASSUME NEW y \in h.prefixes
                 PROVE  /\ <<key[1], y>> \in DOMAIN input \ (todo \ {r})
                        /\ Blob(<<key[1], y>>) = h.raw /\ IsV4(y) = h.v4
                        /\ key = KeyOf(<<key[1], y>>)
        BY <2>1, Zenon DEF Holds
    <2>2. CASE y = x
        BY <1>1, <1>4, <1>a, <2>2, Zenon
    <2>3. CASE y \in g.prefixes
        BY <1>2, <1>4, <2>3, Zenon DEF Holds
    <2> QED
        BY <1>4, <2>2, <2>3, Zenon
<1>7. Sized(h)'
    BY <1>4, Zenon DEF Sized
<1>8. GroupOK(key, h)'
    BY <1>4, <1>5, <1>6, <1>7, Zenon DEF GroupOK
<1> QED
    BY <1>3, <1>4, <1>8, <1>a, <1>b, InputSame, Zenon

\* The charge for the groups follows what is put in for what was there.
LEMMA Recharged ==
    ASSUME GroupsOK, buffered = CostOf(groups, DOMAIN groups), NEW key
    PROVE  LET held == {key} \cap DOMAIN groups
           IN /\ buffered - CostOf(groups, held) = CostOf(groups, DOMAIN groups \ {key})
              /\ buffered - CostOf(groups, held) \in Nat
              /\ buffered - CostOf(groups, held) <= buffered
              /\ \A g : IsFiniteSet(g.prefixes) =>
                    /\ Costed(WithGroup(key, g))
                    /\ buffered - CostOf(groups, held) + Cost(g)
                          = CostOf(WithGroup(key, g), DOMAIN WithGroup(key, g))
<1> DEFINE held == {key} \cap DOMAIN groups
           b == buffered
           c == CostOf(groups, held)
           d == CostOf(groups, DOMAIN groups \ {key})
<1>1. Costed(groups)
    BY DEF GroupsOK, GroupOK, Sized, Costed
<1>2. DOMAIN groups \ held = DOMAIN groups \ {key} /\ held \in SUBSET DOMAIN groups
    OBVIOUS
<1>3. c \in Nat /\ d \in Nat /\ b = c + d
    BY <1>1, <1>2, CostSplit, Zenon
<1>4. b - c = d /\ d <= b
    <2> HIDE DEF b, c, d
    <2> QED
        BY <1>3
<1>5. ASSUME NEW g, IsFiniteSet(g.prefixes)
      PROVE  /\ Costed(WithGroup(key, g))
             /\ d + Cost(g) = CostOf(WithGroup(key, g), DOMAIN WithGroup(key, g))
    <2> DEFINE G == WithGroup(key, g)
    <2>1. /\ DOMAIN G = DOMAIN groups \cup {key} /\ G[key] = g
          /\ \A k \in DOMAIN groups \ {key} : G[k] = groups[k]
        BY DEF WithGroup, Without
    <2> HIDE DEF G
    <2>2. Costed(G)
        BY <1>1, <1>5, <2>1, FS_AddElement, ZenonT(30) DEF Costed
    <2>3. {key} \in SUBSET DOMAIN G /\ DOMAIN G \ {key} = DOMAIN groups \ {key}
        BY <2>1
    <2>4. /\ CostOf(G, {key}) \in Nat
          /\ CostOf(G, DOMAIN G) = CostOf(G, {key}) + CostOf(G, DOMAIN groups \ {key})
        BY <2>2, <2>3, CostSplit, Zenon
    <2>5. CostOf(G, {key}) = Cost(g)
        BY <1>5, <2>1, CostOne
    <2>6. CostOf(G, DOMAIN groups \ {key}) = d
        BY <2>1, CostSame
    <2> HIDE DEF d
    <2>7. CostOf(G, DOMAIN G) = d + Cost(g)
        BY <1>3, <2>4, <2>5, <2>6, SMT, Z3
    <2> QED
        BY <2>2, <2>7 DEF G
<1> HIDE DEF d
<1> QED
    BY <1>3, <1>4, <1>5, Zenon DEF d

LEMMA EmitOK ==
    ASSUME NEW k, NEW g, GroupOK(k, g), NEW m \in EmitGroup(k[1], g)
    PROVE  MessageOK(m)
BY AggregatedOK DEF GroupOK, EmitGroup

\* Once a route has joined its group, every group is one an UPDATE can hold.
LEMMA JoinedOK ==
    ASSUME AggTypes, GroupsOK, NEW r \in todo, input' = input, todo' = todo \ {r},
           NEW g, Sized(g), g.raw = Blob(r), g.v4 = IsV4(r[2]),
           \/ g.prefixes = {}
           \/ /\ KeyOf(r) \in DOMAIN groups /\ g = groups[KeyOf(r)]
              /\ ~(g.base + g.nlri + NlriLen(r[2]) > MAX_BGP_UPDATE_LEN),
           ~(g.prefixes = {} /\ g.base + NlriLen(r[2]) > MAX_BGP_UPDATE_LEN),
           NEW G, G = WithGroup(KeyOf(r), Push(g, r[2]))
    PROVE  /\ DOMAIN G = DOMAIN groups \cup {KeyOf(r)} /\ G[KeyOf(r)] = Push(g, r[2])
           /\ \A k \in DOMAIN groups \ {KeyOf(r)} : G[k] = groups[k]
           /\ \A k \in DOMAIN G : GroupOK(k, G[k])'
<1>1. PICK key : key = KeyOf(r)
    OBVIOUS
<1>2. PICK h : h = Push(g, r[2])
    OBVIOUS
<1>4. GroupOK(key, h)'
    <2>1. GroupOK(KeyOf(r), Push(g, r[2]))'
        BY PushedOK, Zenon
    <2> QED
        BY <1>1, <1>2, <2>1, InputSame, Zenon
<1>5. /\ DOMAIN G = DOMAIN groups \cup {key} /\ G[key] = h
      /\ \A k \in DOMAIN groups \ {key} : G[k] = groups[k]
    BY <1>1, <1>2, Zenon DEF WithGroup, Without
<1>6. \A k \in DOMAIN G : GroupOK(k, G[k])'
    <2> TAKE k \in DOMAIN G
    <2>1. CASE k = key
        BY <1>4, <1>5, <2>1, Zenon
    <2>2. CASE k # key
        <3>1. PICK j : j = groups[k]
            OBVIOUS
        <3>2. GroupOK(k, j) /\ G[k] = j
            BY <1>5, <2>2, <3>1, Zenon DEF GroupsOK
        <3>3. GroupOK(k, j)'
            BY <3>2, GroupStays, Zenon
        <3> QED
            BY <3>2, <3>3, Zenon
    <2> QED
        BY <2>1, <2>2, Zenon
<1> QED
    BY <1>1, <1>2, <1>5, <1>6, Zenon

LEMMA AggAdd ==
    ASSUME AggInv, NEW r \in todo, Add(r)
    PROVE  AggInv'
<1> DEFINE held == {KeyOf(r)} \cap DOMAIN groups
           b == buffered - CostOf(groups, held)
<1>1. AggTypes /\ GroupsOK /\ Charged /\ \A m \in sent : MessageOK(m)
    BY DEF AggInv
<1>2. todo' = todo \ {r} /\ input' = input /\ stage' = stage
    BY Zenon DEF Add
<1>3. AggTypes'
    BY <1>1, <1>2 DEF AggTypes
<1>4. PICK g, M :
         /\ Sized(g) /\ g.raw = Blob(r) /\ g.v4 = IsV4(r[2])
         /\ \/ g.prefixes = {} /\ M = UNION {EmitGroup(k[1], groups[k]) : k \in held}
            \/ /\ KeyOf(r) \in DOMAIN groups /\ g = groups[KeyOf(r)] /\ M = {}
               /\ ~(g.base + g.nlri + NlriLen(r[2]) > MAX_BGP_UPDATE_LEN)
         /\ \/ /\ g.prefixes = {} /\ g.base + NlriLen(r[2]) > MAX_BGP_UPDATE_LEN
               /\ groups' = Without(groups, held)
               /\ buffered' = b
               /\ sent' = (sent \cup M) \cup Single(r[1], r[2], Blob(r))
            \/ /\ ~(g.prefixes = {} /\ g.base + NlriLen(r[2]) > MAX_BGP_UPDATE_LEN)
               /\ EvictUntilUnderBudget(WithGroup(KeyOf(r), Push(g, r[2])),
                      b + Cost(Push(g, r[2])), sent \cup M)
    BY <1>1, AddCases, ZenonT(30)
<1>5. \A m \in M : MessageOK(m)
    BY <1>1, <1>4, EmitOK, SMT, Z3 DEF GroupsOK
<1>6. /\ b = CostOf(groups, DOMAIN groups \ {KeyOf(r)}) /\ b \in Nat /\ b <= buffered
      /\ \A h : IsFiniteSet(h.prefixes) =>
            /\ Costed(WithGroup(KeyOf(r), h))
            /\ b + Cost(h) = CostOf(WithGroup(KeyOf(r), h), DOMAIN WithGroup(KeyOf(r), h))
    BY <1>1, Recharged, Zenon DEF Charged
<1>7. CASE /\ groups' = Without(groups, held)
           /\ buffered' = b
           /\ sent' = (sent \cup M) \cup Single(r[1], r[2], Blob(r))
    <2>1. /\ DOMAIN groups' = DOMAIN groups \ {KeyOf(r)}
          /\ \A k \in DOMAIN groups' : k \in DOMAIN groups /\ groups'[k] = groups[k]
        BY <1>7 DEF Without
    <2>2. GroupsOK'
        <3>1. IsFiniteSet(DOMAIN groups')
            BY <1>1, <2>1, FS_RemoveElement, SMT, Z3 DEF GroupsOK
        <3>2. ASSUME NEW k \in DOMAIN groups' PROVE GroupOK(k, groups[k])'
            <4>1. PICK h : h = groups[k]
                OBVIOUS
            <4>2. GroupOK(k, h)
                BY <1>1, <2>1, <4>1 DEF GroupsOK
            <4>3. GroupOK(k, h)'
                BY <1>2, <4>2, GroupStays
            <4> QED
                BY <2>1, <4>1, <4>3, SMT, Z3
        <3> QED
            BY <3>1, <3>2 DEF GroupsOK
    <2>3. Charged'
        <3>1. CostOf(groups', DOMAIN groups \ {KeyOf(r)})
                  = CostOf(groups, DOMAIN groups \ {KeyOf(r)})
            BY <2>1, CostSame
        <3>2. buffered' = CostOf(groups', DOMAIN groups')
            BY <1>6, <1>7, <2>1, <3>1, Zenon
        <3>3. buffered' <= MaxBytes
            <4>1. buffered <= MaxBytes /\ MaxBytes \in Nat
                BY <1>1, AggAssumption DEF Charged
            <4>2. buffered \in Nat
                BY <1>1, CostSplit, Zenon DEF Charged, GroupsOK, GroupOK, Sized, Costed
            <4> HIDE DEF b
            <4> QED
                BY <1>6, <1>7, <4>1, <4>2, SMT, Z3
        <3> QED
            BY <3>2, <3>3 DEF Charged
    <2>4. \A m \in sent' : MessageOK(m)
        BY <1>1, <1>5, <1>7, RouteType, SingleOK, Zenon
    <2> QED
        BY <1>3, <2>2, <2>3, <2>4, SMT, Z3 DEF AggInv
<1>8. CASE /\ ~(g.prefixes = {} /\ g.base + NlriLen(r[2]) > MAX_BGP_UPDATE_LEN)
           /\ EvictUntilUnderBudget(WithGroup(KeyOf(r), Push(g, r[2])),
                  b + Cost(Push(g, r[2])), sent \cup M)
    <2>1. PICK h : h = Push(g, r[2])
        OBVIOUS
    <2>2. PICK G : G = WithGroup(KeyOf(r), Push(g, r[2]))
        OBVIOUS
    <2>5. KeyOf(r) \in DOMAIN G /\ G[KeyOf(r)] = h
        BY <2>1, <2>2 DEF WithGroup
    <2>6. \A k \in DOMAIN G : GroupOK(k, G[k])'
        BY <1>1, <1>2, <1>4, <1>8, <2>2, JoinedOK, ZenonT(30)
    <2>7. IsFiniteSet(h.prefixes)
        BY <2>5, <2>6 DEF GroupOK, Sized
    <2>8. Costed(G) /\ b + Cost(h) = CostOf(G, DOMAIN G)
        BY <1>6, <2>1, <2>2, <2>7, ZenonT(30)
    <2>9. PICK K \in Evictions(G, CostOf(G, DOMAIN G)) :
             /\ groups' = Without(G, K)
             /\ buffered' = CostOf(G, DOMAIN G) - CostOf(G, K)
             /\ sent' = (sent \cup M) \cup UNION {EmitGroup(k[1], G[k]) : k \in K}
        BY <1>8, <2>1, <2>2, <2>8, SMT, Z3 DEF EvictUntilUnderBudget
    <2>10. /\ K \in SUBSET DOMAIN G
           /\ buffered' = CostOf(groups', DOMAIN groups')
           /\ buffered' <= MaxBytes
        BY <2>8, <2>9, EvictCharged, Zenon
    <2>11. DOMAIN groups' = DOMAIN G \ K /\ \A k \in DOMAIN G \ K : groups'[k] = G[k]
        BY <2>9 DEF Without
    <2>12. GroupsOK'
        <3>1. IsFiniteSet(DOMAIN groups')
            BY <2>8, <2>11, FS_Subset, Zenon DEF Costed
        <3>2. ASSUME NEW k \in DOMAIN groups' PROVE GroupOK(k, groups[k])'
            <4>1. PICK j : j = G[k]
                OBVIOUS
            <4>2. GroupOK(k, j)' /\ groups'[k] = j
                BY <2>6, <2>11, <4>1
            <4> QED
                BY <4>2
        <3> QED
            BY <3>1, <3>2 DEF GroupsOK
    <2>13. \A m \in sent' : MessageOK(m)
        <3>1. ASSUME NEW k \in K, NEW m \in EmitGroup(k[1], G[k]) PROVE MessageOK(m)
            BY <2>6, <2>10, <3>1, AggregatedOK, Zenon DEF GroupOK, Sized, EmitGroup
        <3> QED
            BY <1>1, <1>5, <2>9, <3>1, Zenon
    <2> QED
        BY <1>3, <2>10, <2>12, <2>13, SMT, Z3 DEF AggInv, Charged
<1> HIDE DEF b, held
<1> QED
    BY <1>4, <1>7, <1>8, Zenon

\* The aggregator's books are right, whatever the table.
THEOREM AggregatorInvariant == AggSpec => []AggInv
<1>1. AggInit => AggInv
    <2> SUFFICES ASSUME AggInit PROVE AggInv
        OBVIOUS
    <2>1. AggTypes
        BY DEF AggInit, AggTypes
    <2>2. DOMAIN groups = {}
        BY DEF AggInit
    <2>3. GroupsOK
        BY <2>2, FS_EmptySet DEF GroupsOK
    <2>4. Charged
        BY <2>2, CostNone, AggAssumption DEF Charged, AggInit
    <2> QED
        BY <2>1, <2>3, <2>4 DEF AggInv, AggInit
<1>2. AggInv /\ [AggNext]_aggVars => AggInv'
    <2> SUFFICES ASSUME AggInv, [AggNext]_aggVars PROVE AggInv'
        OBVIOUS
    <2>1. CASE \E r \in todo : Add(r)
        BY <2>1, AggAdd
    <2>2. ASSUME groups' = <<>>, buffered' = 0, input' = input, todo' = todo,
                 stage' \in {"done", "gone"}, \A m \in sent' : MessageOK(m)
          PROVE  AggInv'
        <3>1. DOMAIN groups' = {}
            BY <2>2
        <3>2. GroupsOK'
            BY <3>1, FS_EmptySet DEF GroupsOK
        <3>3. Charged'
            BY <2>2, <3>1, CostNone, AggAssumption DEF Charged
        <3>4. AggTypes'
            BY <2>2 DEF AggInv, AggTypes
        <3> QED
            BY <2>2, <3>2, <3>3, <3>4 DEF AggInv
    <2>3. CASE FlushAll
        <3>1. \A m \in sent' : MessageOK(m)
            BY <2>3, EmitOK DEF FlushAll, AggInv, GroupsOK
        <3> QED
            BY <2>2, <2>3, <3>1 DEF FlushAll
    <2>4. CASE ClientGone
        BY <2>2, <2>4, SMT, Z3 DEF ClientGone, AggInv
    <2>5. CASE UNCHANGED aggVars
        BY <2>5, InputSame DEF aggVars, AggInv, AggTypes, GroupsOK, GroupOK,
           Holds, Sized, Charged
    <2> QED
        BY <2>1, <2>3, <2>4, <2>5 DEF AggNext
<1> QED
    BY <1>1, <1>2, PTL DEF AggSpec

\* Every UPDATE of the dump states its own length, the aggregated ones fit any
\* peer, and the charge for the groups held is exact and within the budget
\* (RouteAggregator::add, evict_until_under_budget, build_bgp_update).
THEOREM SizesAreAccounted == AggSpec => []SizesAccounted
<1>1. AggInv => SizesAccounted
    BY DEF AggInv, MessageOK, Charged, SizesAccounted
<1> QED
    BY <1>1, AggregatorInvariant, PTL

-----------------------------------------------------------------------------
(* What a collector reads back. *)

\* If only the last attribute is cut off, the others are the whole ones.
LEMMA WholeIs ==
    ASSUME NEW pas \in Seq(PathAttribute),
           \A i \in DOMAIN pas : ~pas[i].whole => i = Len(pas)
    PROVE  /\ DOMAIN Whole(pas) = {i \in DOMAIN pas : pas[i].whole}
           /\ \A i \in DOMAIN Whole(pas) : Whole(pas)[i] = pas[i]
           /\ \A i \in DOMAIN pas : pas[i].whole => i <= Len(Whole(pas))
<1>1. PICK n \in Nat : n = Len(pas) /\ DOMAIN pas = 1 .. n
    OBVIOUS
<1>2. PICK m \in Nat : /\ m = n \/ m = n + 1
                       /\ m - 1 \in 0 .. n
                       /\ Whole(pas) = SubSeq(pas, 1, m - 1)
                       /\ \A i \in 1 .. n : pas[i].whole <=> i <= m - 1
    <2> DEFINE S == {n + 1} \cup {i \in 1 .. n : ~pas[i].whole}
    <2>1. Whole(pas) = SubSeq(pas, 1, Min(S) - 1)
        BY <1>1 DEF Whole
    <2>2. CASE \A i \in 1 .. n : pas[i].whole
        <3>1. S = {n + 1}
            BY <2>2
        <3>2. Min({n + 1}) = n + 1
            BY DEF Min
        <3>3. Whole(pas) = SubSeq(pas, 1, (n + 1) - 1)
            BY <2>1, <3>1, <3>2, Zenon
        <3> QED
            BY <2>2, <3>3
    <2>3. CASE \E i \in 1 .. n : ~pas[i].whole
        <3>1. n \in 1 .. n /\ ~pas[n].whole
            BY <1>1, <2>3
        <3>2. \A i \in 1 .. n : ~pas[i].whole => i = n
            BY <1>1
        <3>3. S = {n, n + 1}
            BY <3>1, <3>2
        <3>4. Min({n, n + 1}) = n
            BY DEF Min
        <3>5. Whole(pas) = SubSeq(pas, 1, n - 1)
            BY <2>1, <3>3, <3>4, Zenon
        <3>6. \A i \in 1 .. n : pas[i].whole <=> i <= n - 1
            <4> TAKE i \in 1 .. n
            <4>1. CASE i = n
                BY <3>1, <4>1
            <4>2. CASE i # n
                BY <3>2, <4>2
            <4> QED
                BY <4>1, <4>2
        <3> QED
            BY <3>1, <3>5, <3>6
    <2> QED
        BY <2>2, <2>3, Zenon
<1>3. /\ SubSeq(pas, 1, m - 1) \in Seq(PathAttribute)
      /\ Len(SubSeq(pas, 1, m - 1)) = m - 1
      /\ \A i \in 1 .. m - 1 : SubSeq(pas, 1, m - 1)[i] = pas[i]
    <2>1. \A i \in 1 .. m - 1 : pas[i] \in PathAttribute
        BY <1>1, <1>2
    <2>2. /\ SubSeq(pas, 1, m - 1) \in Seq(PathAttribute)
          /\ Len(SubSeq(pas, 1, m - 1)) = IF 1 <= m - 1 THEN m - 1 - 1 + 1 ELSE 0
          /\ \A i \in 1 .. m - 1 - 1 + 1 : SubSeq(pas, 1, m - 1)[i] = pas[1 + i - 1]
        BY <2>1
    <2> QED
        BY <1>1, <1>2, <2>2
<1>4. DOMAIN Whole(pas) = 1 .. m - 1 /\ Len(Whole(pas)) = m - 1
    BY <1>2, <1>3
<1>5. {i \in DOMAIN pas : pas[i].whole} = 1 .. m - 1
    BY <1>1, <1>2
<1>6. \A i \in DOMAIN Whole(pas) : Whole(pas)[i] = pas[i]
    BY <1>2, <1>3, <1>4, Zenon
<1> QED
    BY <1>1, <1>2, <1>4, <1>5, <1>6, Zenon

\* What the store holds differs from what was delivered in the form of the
\* MP_REACH_NLRI of a table dump only.
LEMMA BlobIs ==
    ASSUME Legible, input \in Inputs, NEW r \in DOMAIN input
    PROVE  /\ DOMAIN Blob(r) = DOMAIN input[r] /\ Len(Blob(r)) = Len(input[r])
           /\ \A i \in DOMAIN input[r] :
                 /\ Blob(r)[i].whole = input[r][i].whole
                 /\ Blob(r)[i].code = input[r][i].code
                 /\ Blob(r)[i].nh = input[r][i].nh
                 /\ Blob(r)[i].code = "other" => Blob(r)[i] = input[r][i]
                 /\ ~IsV4(r[2]) /\ Blob(r)[i].code = "reach" => Blob(r)[i].form = "wire"
<1> DEFINE p == input[r]
           b == Blob(r)
<1>1. p \in Seq(PathAttribute) /\ b \in Seq(PathAttribute)
    BY BlobType, AggAssumption, SMT, Z3
<1>2. \A i \in DOMAIN p : ~p[i].whole => i = Len(p)
    BY DEF Legible
<1>3. \A i \in DOMAIN p : p[i].whole => i <= Len(Whole(p))
    <2> HIDE DEF p
    <2> QED
        BY <1>1, <1>2, WholeIs, Zenon
<1>4. \A i \in DOMAIN p : ~IsV4(r[2]) /\ p[i].code = "reach" =>
          p[i].whole /\ p[i].form = IF Info[r[1]].type = "mrt" THEN "mrt" ELSE "wire"
    BY DEF Legible
<1>5. CASE Info[r[1]].type = "mrt" /\ ~IsV4(r[2])
    <2>1. b = NormalizeMrtMpReach(p, r[2])
        BY <1>5 DEF Blob
    <2> HIDE DEF p, b
    <2>2. DOMAIN b = DOMAIN p
        BY <2>1, Zenon DEF NormalizeMrtMpReach
    <2>3. ASSUME NEW i \in DOMAIN p
          PROVE  /\ b[i].whole = p[i].whole /\ b[i].code = p[i].code /\ b[i].nh = p[i].nh
                 /\ b[i].code = "other" => b[i] = p[i]
                 /\ b[i].code = "reach" => b[i].form = "wire"
        <3>1. p[i] \in PathAttribute
            BY <1>1
        <3>2. CASE p[i].code = "reach"
            <4>1. i <= Len(Whole(p)) /\ p[i].form = "mrt"
                BY <1>3, <1>4, <1>5, <3>2, Zenon
            <4>2. \E l : b[i] = [p[i] EXCEPT !.form = "wire", !.nh = p[i].nh, !.len = l]
                BY <2>1, <3>2, <4>1, Zenon DEF NormalizeMrtMpReach
            <4>3. PICK l : b[i] = [p[i] EXCEPT !.form = "wire", !.nh = p[i].nh, !.len = l]
                BY <4>2, Zenon
            <4> QED
                BY <3>1, <3>2, <4>3 DEF PathAttribute
        <3>3. CASE p[i].code # "reach"
            <4>1. b[i] = p[i]
                BY <2>1, <3>3, Zenon DEF NormalizeMrtMpReach
            <4> QED
                BY <3>3, <4>1
        <3> QED
            BY <3>2, <3>3, Zenon
    <2>4. Len(b) = Len(p)
        BY <1>1, <2>2
    <2> QED
        BY <2>2, <2>3, <2>4, Zenon DEF p, b
<1>6. CASE ~(Info[r[1]].type = "mrt" /\ ~IsV4(r[2]))
    <2>1. b = p
        BY <1>6 DEF Blob
    <2>2. \A i \in DOMAIN p : ~IsV4(r[2]) /\ p[i].code = "reach" => p[i].form = "wire"
        BY <1>4, <1>6, Zenon
    <2> HIDE DEF p, b
    <2> QED
        BY <2>1, <2>2, Zenon DEF p, b
<1> QED
    BY <1>5, <1>6, Zenon

\* What is restreamed for a route.
Carried(r) ==
    [header |-> PeerInfoForEmit(r[1]), prefix |-> r[2], pa |-> FilterPa(Blob(r)).pa,
     nh |-> IF IsV4(r[2]) THEN NoHop ELSE FilterPa(Blob(r)).nh]

\* It is what the source delivered.
LEMMA CarriedExpected ==
    ASSUME Legible, input \in Inputs, NEW r \in DOMAIN input
    PROVE  Carried(r) = Expected(r)
<1>1. PICK p : p = input[r]
    OBVIOUS
<1>2. PICK b : b = Blob(r)
    OBVIOUS
<1>3. PICK read : read = Whole(b)
    OBVIOUS
<1>4. p \in Seq(PathAttribute) /\ b \in Seq(PathAttribute)
    BY <1>1, <1>2, BlobType, AggAssumption
<1>5. /\ DOMAIN b = DOMAIN p /\ Len(b) = Len(p)
      /\ \A i \in DOMAIN p :
            /\ b[i].whole = p[i].whole /\ b[i].code = p[i].code /\ b[i].nh = p[i].nh
            /\ b[i].code = "other" => b[i] = p[i]
            /\ ~IsV4(r[2]) /\ b[i].code = "reach" => b[i].form = "wire"
    BY <1>1, <1>2, BlobIs, Zenon
<1>6. /\ \A i \in DOMAIN p : ~p[i].whole => i = Len(p)
      /\ ~IsV4(r[2]) => \A i \in DOMAIN p : p[i].code = "reach" =>
            p[i].whole /\ \A j \in DOMAIN p : p[j].code = "reach" => p[j].nh = p[i].nh
    BY <1>1 DEF Legible
<1>7. \A i \in DOMAIN b : ~b[i].whole => i = Len(b)
    BY <1>5, <1>6, Zenon
<1>8. DOMAIN read = {i \in DOMAIN p : p[i].whole} /\ \A i \in DOMAIN read : read[i] = b[i]
    <2>1. DOMAIN read = {i \in DOMAIN b : b[i].whole} /\ \A i \in DOMAIN read : read[i] = b[i]
        BY <1>3, <1>4, <1>7, WholeIs, Zenon
    <2> QED
        BY <1>5, <2>1, Zenon
<1> DEFINE reach == {i \in DOMAIN read : read[i].code = "reach" /\ read[i].form # "bad"}
           kept == {i \in DOMAIN read : read[i].code = "other"}
           whole == {j \in DOMAIN p : p[j].code = "other" /\ p[j].whole}
           nhs == {p[i].nh : i \in {j \in DOMAIN p : p[j].code = "reach"}}
<1>9. [i \in kept |-> read[i]] = [i \in whole |-> p[i]]
    <2>1. kept = whole
        BY <1>5, <1>8, ZenonT(30)
    <2>2. \A i \in whole : read[i] = p[i]
        BY <1>5, <1>8, ZenonT(30)
    <2> HIDE DEF kept, whole
    <2> QED
        BY <2>1, <2>2
<1>10. FilterPa(b).pa = [i \in kept |-> read[i]]
    BY <1>3, Zenon DEF FilterPa
<1>11. FilterPa(b).nh = IF reach = {} THEN NoHop
            ELSE IF read[Max(reach)].form = "wire" THEN read[Max(reach)].nh ELSE Misread
    BY <1>3, Zenon DEF FilterPa
<1>12. ASSUME ~IsV4(r[2])
       PROVE  FilterPa(b).nh = IF nhs = {} THEN NoHop ELSE CHOOSE h \in nhs : TRUE
    <2>1. reach = {j \in DOMAIN p : p[j].code = "reach"}
        <3>1. ASSUME NEW j \in DOMAIN p, p[j].code = "reach" PROVE j \in reach
            BY <1>5, <1>6, <1>8, <1>12, <3>1, SMT, Z3
        <3>2. ASSUME NEW j \in reach PROVE j \in DOMAIN p /\ p[j].code = "reach"
            BY <1>5, <1>8, Zenon
        <3> HIDE DEF reach
        <3> QED
            BY <3>1, <3>2, SMT, Z3
    <2>2. CASE reach = {}
        <3>1. nhs = {}
            BY <2>1, <2>2
        <3> HIDE DEF nhs, reach
        <3> QED
            BY <1>11, <2>2, <3>1
    <2>3. CASE reach # {}
        <3>1. PICK m : m = Max(reach)
            BY Zenon
        <3>2. m \in reach
            <4>1. Len(read) \in Nat /\ DOMAIN read = 1 .. Len(read)
                BY <1>3, <1>4, WholeType
            <4>2. reach \subseteq 1 .. Len(read)
                BY <4>1
            <4> HIDE DEF reach
            <4>3. \E n \in reach : \A i \in reach : i <= n
                BY <2>3, <4>1, <4>2, Largest, Zenon
            <4>4. \E n \in reach : \A i \in reach : n >= i
                BY <4>1, <4>2, <4>3
            <4> QED
                BY <3>1, <4>4 DEF Max
        <3>3. m \in DOMAIN p /\ p[m].code = "reach"
            BY <2>1, <3>2
        <3>4. m \in DOMAIN read /\ read[m] = b[m]
            BY <1>8, <3>2, Zenon
        <3>5. read[m].form = "wire" /\ read[m].nh = p[m].nh
            BY <1>5, <1>12, <3>3, <3>4, Zenon
        <3>6. p[m].nh \in nhs /\ \A h \in nhs : h = p[m].nh
            BY <1>6, <1>12, <3>3, Zenon
        <3> HIDE DEF nhs, reach
        <3>7. (CHOOSE h \in nhs : TRUE) = p[m].nh /\ nhs # {}
            BY <3>6
        <3> QED
            BY <1>11, <2>3, <3>1, <3>5, <3>7, Zenon
    <2> HIDE DEF reach
    <2> QED
        BY <2>2, <2>3, Zenon
<1>13. Expected(r) = [header |-> PeerInfoForEmit(r[1]), prefix |-> r[2],
                      pa |-> [i \in whole |-> p[i]],
                      nh |-> IF IsV4(r[2]) \/ nhs = {} THEN NoHop ELSE CHOOSE h \in nhs : TRUE]
    BY <1>1, Zenon DEF Expected
<1>14. Carried(r) = [header |-> PeerInfoForEmit(r[1]), prefix |-> r[2],
                     pa |-> FilterPa(b).pa,
                     nh |-> IF IsV4(r[2]) THEN NoHop ELSE FilterPa(b).nh]
    BY <1>2, Zenon DEF Carried
<1> HIDE DEF nhs, whole, kept, reach
<1>15. FilterPa(b).pa = [i \in whole |-> p[i]]
    BY <1>9, <1>10
<1>16. (IF IsV4(r[2]) THEN NoHop ELSE FilterPa(b).nh)
           = (IF IsV4(r[2]) \/ nhs = {} THEN NoHop ELSE CHOOSE h \in nhs : TRUE)
    BY <1>12
<1>17. PICK pa, nh : /\ pa = FilterPa(b).pa
                     /\ nh = IF IsV4(r[2]) THEN NoHop ELSE FilterPa(b).nh
    OBVIOUS
<1>18. Carried(r) = [header |-> PeerInfoForEmit(r[1]), prefix |-> r[2], pa |-> pa, nh |-> nh]
    BY <1>14, <1>17, Zenon
<1>19. Expected(r) = [header |-> PeerInfoForEmit(r[1]), prefix |-> r[2], pa |-> pa, nh |-> nh]
    <2>1. pa = [i \in whole |-> p[i]]
        BY <1>15, <1>17, Zenon
    <2>2. nh = IF IsV4(r[2]) \/ nhs = {} THEN NoHop ELSE CHOOSE h \in nhs : TRUE
        BY <1>16, <1>17, Zenon
    <2> QED
        BY <1>13, <2>1, <2>2, Zenon
<1> QED
    BY <1>18, <1>19, Zenon

\* Two routes are never read as one.
LEMMA ExpectedDiffer ==
    ASSUME Legible, input \in Inputs, NEW r \in DOMAIN input, NEW q \in DOMAIN input,
           Expected(r) = Expected(q)
    PROVE  r = q
<1>1. \A s : Expected(s).header = PeerInfoForEmit(s[1]) /\ Expected(s).prefix = s[2]
    BY Zenon DEF Expected
<1>2. PeerInfoForEmit(r[1]) = PeerInfoForEmit(q[1]) /\ r[2] = q[2]
    BY <1>1
<1> QED
    BY <1>2, Zenon DEF Legible

-----------------------------------------------------------------------------
(* Conservation. *)

ReadOf(m) ==
    {[header |-> m.header, prefix |-> x, pa |-> m.pa, nh |-> m.nh] : x \in m.prefixes}

Read(M) == UNION {ReadOf(m) : m \in M}

RoutesOf(G, K) == UNION {{<<k[1], x>> : x \in G[k].prefixes} : k \in K}

\* Messages that carry these routes and nothing else.
Tells(M, S) == Read(M) = {Carried(r) : r \in S}

Waiting == RoutesOf(groups, DOMAIN groups)

\* A route handed over has been sent unless it waits or no UPDATE can hold it.
Passed == {r \in DOMAIN input \ todo : ~TooLong(r) /\ r \notin Waiting}

ConserveInv ==
    /\ Read(sent) \subseteq {Carried(r) : r \in DOMAIN input \ todo}
    /\ stage # "gone" => Tells(sent, Passed)
    /\ stage = "done" => todo = {} /\ DOMAIN groups = {}

LEMMA TellsBoth ==
    ASSUME NEW M, NEW S, NEW N, NEW T, Tells(M, S), Tells(N, T)
    PROVE  Tells(M \cup N, S \cup T)
<1>1. Read(M \cup N) = Read(M) \cup Read(N)
    BY DEF Read
<1> QED
    BY <1>1 DEF Tells

LEMMA TellsNone == Tells({}, {})
BY DEF Tells, Read

\* A group of routes of the table, which an UPDATE can hold.
Made(k, g) ==
    \A x \in g.prefixes :
        /\ <<k[1], x>> \in DOMAIN input
        /\ Blob(<<k[1], x>>) = g.raw /\ IsV4(x) = g.v4 /\ k = KeyOf(<<k[1], x>>)

Fits(k, g) == Sized(g) /\ Made(k, g) /\ g.base + g.nlri <= MAX_BGP_UPDATE_LEN

LEMMA OKFits == ASSUME NEW k, NEW g, GroupOK(k, g) PROVE Fits(k, g)
BY DEF GroupOK, Holds, Made, Fits

LEMMA OKFitsNext ==
    ASSUME NEW k, NEW g, GroupOK(k, g)', input' = input
    PROVE  Fits(k, g)
<1>1. Made(k, g)
    BY InputSame, Zenon DEF GroupOK, Holds, Made
<1> QED
    BY <1>1, Zenon DEF GroupOK, Fits, Sized

\* The message of a group carries the routes it was made from.
LEMMA EmitTells ==
    ASSUME NEW k, NEW g, Made(k, g)
    PROVE  Tells(EmitGroup(k[1], g), {<<k[1], x>> : x \in g.prefixes})
<1> DEFINE m == Aggregated(k[1], g)
           S == {<<k[1], x>> : x \in g.prefixes}
<1>1. CASE g.prefixes = {}
    <2>1. EmitGroup(k[1], g) = {} /\ S = {}
        BY <1>1 DEF EmitGroup
    <2> QED
        BY <2>1, TellsNone
<1>2. CASE g.prefixes # {}
    <2>1. EmitGroup(k[1], g) = {m}
        BY <1>2 DEF EmitGroup
    <2>2. /\ m.header = PeerInfoForEmit(k[1]) /\ m.prefixes = g.prefixes
          /\ m.pa = FilterPa(g.raw).pa /\ m.nh = IF g.v4 THEN NoHop ELSE FilterPa(g.raw).nh
        BY Zenon DEF Aggregated, Message
    <2> HIDE DEF m
    <2>3. \A x \in g.prefixes :
             Carried(<<k[1], x>>) = [header |-> m.header, prefix |-> x, pa |-> m.pa, nh |-> m.nh]
        <3> TAKE x \in g.prefixes
        <3>1. Blob(<<k[1], x>>) = g.raw /\ IsV4(x) = g.v4
            BY DEF Made
        <3>2. <<k[1], x>>[1] = k[1] /\ <<k[1], x>>[2] = x
            OBVIOUS
        <3> QED
            BY <2>2, <3>1, <3>2, Zenon DEF Carried
    <2>4. Read({m}) = ReadOf(m)
        BY DEF Read
    <2>5. ReadOf(m) = {Carried(<<k[1], x>>) : x \in g.prefixes}
        BY <2>2, <2>3, Zenon DEF ReadOf
    <2>6. {Carried(r) : r \in S} = {Carried(<<k[1], x>>) : x \in g.prefixes}
        BY Zenon
    <2> QED
        BY <2>1, <2>4, <2>5, <2>6, Zenon DEF Tells
<1> QED
    BY <1>1, <1>2, SMT, Z3

LEMMA EmitAllTells ==
    ASSUME NEW G, NEW K, \A k \in K : Made(k, G[k])
    PROVE  Tells(UNION {EmitGroup(k[1], G[k]) : k \in K}, RoutesOf(G, K))
<1>1. \A k \in K : Read(EmitGroup(k[1], G[k])) = {Carried(<<k[1], x>>) : x \in G[k].prefixes}
    <2> TAKE k \in K
    <2>1. Tells(EmitGroup(k[1], G[k]), {<<k[1], x>> : x \in G[k].prefixes})
        BY EmitTells, Zenon
    <2> QED
        BY <2>1, Zenon DEF Tells
<1>2. Read(UNION {EmitGroup(k[1], G[k]) : k \in K})
          = UNION {Read(EmitGroup(k[1], G[k])) : k \in K}
    BY DEF Read
<1> DEFINE A == Read(UNION {EmitGroup(k[1], G[k]) : k \in K})
           B == {Carried(r) : r \in RoutesOf(G, K)}
<1>3. ASSUME NEW c \in A PROVE c \in B
    <2>1. PICK k \in K : c \in Read(EmitGroup(k[1], G[k]))
        BY <1>2
    <2>2. PICK x \in G[k].prefixes : c = Carried(<<k[1], x>>)
        BY <1>1, <2>1, Zenon
    <2>3. <<k[1], x>> \in RoutesOf(G, K)
        BY DEF RoutesOf
    <2> QED
        BY <2>2, <2>3
<1>4. ASSUME NEW c \in B PROVE c \in A
    <2>1. PICK r \in RoutesOf(G, K) : c = Carried(r)
        OBVIOUS
    <2>2. PICK k \in K : \E x \in G[k].prefixes : r = <<k[1], x>>
        BY DEF RoutesOf
    <2>3. c \in Read(EmitGroup(k[1], G[k]))
        BY <1>1, <2>1, <2>2, Zenon
    <2> QED
        BY <1>2, <2>3
<1>5. A = B
    <2> HIDE DEF A, B
    <2> QED
        BY <1>3, <1>4
<1> QED
    BY <1>5 DEF Tells

\* So does that of a single route.
LEMMA SingleTells ==
    ASSUME NEW r \in DOMAIN input, r = <<r[1], r[2]>>
    PROVE  Tells(Single(r[1], r[2], Blob(r)), IF TooLong(r) THEN {} ELSE {r})
<1> DEFINE M == Single(r[1], r[2], Blob(r))
<1>1. CASE TooLong(r)
    BY <1>1, TellsNone DEF TooLong
<1>2. CASE ~TooLong(r)
    <2>1. M # {}
        BY <1>2 DEF TooLong
    <2>2. PICK l : M = {Message(r[1], {r[2]}, IsV4(r[2]), FilterPa(Blob(r)), l, "single")}
        BY <2>1, Zenon DEF Single
    <2>3. PICK m : m = Message(r[1], {r[2]}, IsV4(r[2]), FilterPa(Blob(r)), l, "single")
        OBVIOUS
    <2>4. /\ m.header = PeerInfoForEmit(r[1]) /\ m.prefixes = {r[2]}
          /\ m.pa = FilterPa(Blob(r)).pa
          /\ m.nh = IF IsV4(r[2]) THEN NoHop ELSE FilterPa(Blob(r)).nh
        BY <2>3, Zenon DEF Message
    <2>5. Carried(r) = [header |-> m.header, prefix |-> r[2], pa |-> m.pa, nh |-> m.nh]
        BY <2>4, Zenon DEF Carried
    <2>6. Read({m}) = {Carried(r)}
        BY <2>4, <2>5 DEF Read, ReadOf
    <2>7. M = {m}
        BY <2>2, <2>3, Zenon
    <2> QED
        BY <1>2, <2>6, <2>7 DEF Tells
<1> QED
    BY <1>1, <1>2, Zenon

\* A route of a group can be sent on its own.
LEMMA GroupedFits ==
    ASSUME NEW k, NEW g, Fits(k, g), NEW x \in g.prefixes
    PROVE  <<k[1], x>> \in DOMAIN input /\ ~TooLong(<<k[1], x>>)
<1> DEFINE q == <<k[1], x>>
           f == FilterPa(g.raw)
           h == MpReachHeader(f.nh, x)
           n == NlriLen(x)
           l == UpdateLen(g.v4, f, n, h)
           xs == g.prefixes \ {x}
<1>1. q \in DOMAIN input /\ Blob(q) = g.raw /\ IsV4(x) = g.v4
    BY DEF Fits, Made
<1>2. g \in Grouped /\ IsFiniteSet(g.prefixes) /\ g.nlri = NlriTotal(g.prefixes)
      /\ g.base = UpdateLen(g.v4, f, 0, 4)
    BY DEF Fits, Sized
<1>3. /\ g.prefixes \in SUBSET Names /\ g.nlri \in Nat /\ g.base \in Nat /\ x \in Names
      /\ g.raw \in Seq(PathAttribute)
    BY <1>2 DEF Grouped
<1>4. f.len \in Nat /\ f.nh.len \in Nat /\ n \in Nat
    BY <1>3, FilterPaType, NlriLenNat, Zenon
<1>5. n <= g.nlri
    <2>1. xs \in SUBSET Names /\ IsFiniteSet(xs) /\ x \notin xs
        BY <1>2, <1>3, FS_Subset, Zenon
    <2>2. NlriTotal(xs) \in Nat /\ NlriTotal(xs \cup {x}) = NlriTotal(xs) + n
        BY <1>3, <2>1, NlriTotalAdd, Zenon
    <2>3. xs \cup {x} = g.prefixes
        OBVIOUS
    <2> HIDE DEF xs, n
    <2> QED
        BY <1>2, <1>4, <2>2, <2>3
<1>6. h \in 3 .. 4
    BY DEF MpReachHeader
<1>7. l \in Nat /\ l <= 4096
    <2>1. g.base + g.nlri <= 4096
        BY DEF Fits, MAX_BGP_UPDATE_LEN
    <2>2. l \in Nat /\ l <= UpdateLen(g.v4, f, n, 4)
        <3> HIDE DEF f, n, h
        <3>1. CASE g.v4
            BY <1>4, <1>6, <3>1, SMT, Z3 DEF UpdateLen
        <3>2. CASE ~g.v4
            BY <1>4, <1>6, <3>2, SMT, Z3 DEF UpdateLen
        <3> QED
            BY <3>1, <3>2, Zenon
    <2>3. UpdateLen(g.v4, f, n, 4) = g.base + n
        BY <1>2, <1>4, UpdateLenNat, SMT, Z3
    <2> HIDE DEF l, n, f
    <2> QED
        BY <1>3, <1>4, <1>5, <2>1, <2>2, <2>3, SMT, Z3
<1>8. q[1] = k[1] /\ q[2] = x
    OBVIOUS
<1>9. ~(l > LengthField - 1)
    <2> HIDE DEF l
    <2> QED
        BY <1>7 DEF LengthField
<1>10. Single(k[1], x, g.raw) = {Message(k[1], {x}, g.v4, f, l, "single")}
    <2>1. Single(k[1], x, g.raw) = IF l > LengthField - 1 THEN {}
              ELSE {Message(k[1], {x}, g.v4, f, l, "single")}
        BY <1>1, Zenon DEF Single
    <2> HIDE DEF l, f
    <2> QED
        BY <1>9, <2>1, Zenon
<1> HIDE DEF q, l, f
<1>11. ~TooLong(q)
    BY <1>1, <1>8, <1>10, Zenon DEF TooLong
<1> QED
    BY <1>1, <1>11, SMT, Z3 DEF q

LEMMA RoutesFit ==
    ASSUME NEW G, NEW K, \A k \in K : Fits(k, G[k]), NEW q \in RoutesOf(G, K)
    PROVE  q \in DOMAIN input /\ ~TooLong(q)
<1>1. PICK k \in K : \E x \in G[k].prefixes : q = <<k[1], x>>
    BY DEF RoutesOf
<1> QED
    BY <1>1, GroupedFits, SMT, Z3

\* A route is in one group only.
LEMMA RoutesSplit ==
    ASSUME NEW G, \A k \in DOMAIN G : Fits(k, G[k]), NEW K \in SUBSET DOMAIN G
    PROVE  /\ RoutesOf(G, DOMAIN G) = RoutesOf(G, K) \cup RoutesOf(G, DOMAIN G \ K)
           /\ RoutesOf(G, K) \cap RoutesOf(G, DOMAIN G \ K) = {}
<1>1. RoutesOf(G, DOMAIN G) = RoutesOf(G, K) \cup RoutesOf(G, DOMAIN G \ K)
    BY DEF RoutesOf
<1>2. ASSUME NEW q \in RoutesOf(G, K), q \in RoutesOf(G, DOMAIN G \ K) PROVE FALSE
    <2>1. PICK k \in K : \E x \in G[k].prefixes : q = <<k[1], x>>
        BY DEF RoutesOf
    <2>2. PICK j \in DOMAIN G \ K : \E y \in G[j].prefixes : q = <<j[1], y>>
        BY <1>2, SMT, Z3 DEF RoutesOf
    <2>3. k = KeyOf(q) /\ j = KeyOf(q)
        BY <2>1, <2>2 DEF Fits, Made
    <2> QED
        BY <2>3, SMT, Z3
<1> QED
    BY <1>1, <1>2, SMT, Z3

LEMMA ConserveAdd ==
    ASSUME AggInv, ConserveInv, NEW r \in todo, Add(r)
    PROVE  ConserveInv'
<1> DEFINE key == KeyOf(r)
           held == {key} \cap DOMAIN groups
           H == DOMAIN input \ todo
           P == {q \in H \cup {r} : ~TooLong(q) /\ q \notin Waiting'}
<1>1. AggTypes /\ GroupsOK
    BY DEF AggInv
<1>2. todo' = todo \ {r} /\ input' = input /\ stage' = stage /\ stage = "walking"
    BY Zenon DEF Add
<1>3. Tells(sent, Passed)
    BY <1>2 DEF ConserveInv
<1>4. /\ r \in DOMAIN input /\ r = <<r[1], r[2]>> /\ key[1] = r[1]
      /\ (DOMAIN input \ todo)' = H \cup {r}
    <2>1. r \in DOMAIN input /\ r = <<r[1], r[2]>> /\ key[1] = r[1]
        BY <1>1, RouteType
    <2> QED
        BY <1>2, <2>1
<1>5. SUFFICES Tells(sent', P)
    <2>1. \A q : Carried(q)' = Carried(q) /\ TooLong(q)' = TooLong(q)
        BY <1>2, InputSame, Zenon DEF Carried, TooLong
    <2>2. Passed' = P
        BY <1>2, <1>4, <2>1, Zenon DEF Passed
    <2> HIDE DEF P
    <2>3. Read(sent') = {Carried(q) : q \in Passed'}
        BY <1>5, <2>2 DEF Tells
    <2>4. Passed' \subseteq (DOMAIN input \ todo)'
        BY DEF Passed
    <2>5. Tells(sent, Passed)'
        BY <2>1, <2>3, Zenon DEF Tells, Read, ReadOf
    <2>6. (Read(sent) \subseteq {Carried(q) : q \in DOMAIN input \ todo})'
        BY <2>4, <2>5, SMT, Z3 DEF Tells
    <2> QED
        BY <1>2, <2>5, <2>6, Zenon DEF ConserveInv
<1>6. \A k \in DOMAIN groups : Fits(k, groups[k])
    BY <1>1, OKFits, SMT, Z3 DEF GroupsOK
<1>7. \A k \in DOMAIN groups : Made(k, groups[k])
    BY <1>6 DEF Fits
<1>8. Waiting \subseteq H /\ \A q \in Waiting : ~TooLong(q)
    <2>1. Waiting \subseteq H
        BY <1>1, SMT, Z3 DEF Waiting, RoutesOf, GroupsOK, GroupOK, Holds
    <2>2. \A q \in Waiting : ~TooLong(q)
        BY <1>6, RoutesFit DEF Waiting
    <2> QED
        BY <2>1, <2>2, SMT, Z3
<1>9. /\ Waiting = RoutesOf(groups, held) \cup RoutesOf(groups, DOMAIN groups \ held)
      /\ RoutesOf(groups, held) \cap RoutesOf(groups, DOMAIN groups \ held) = {}
    <2>1. held \in SUBSET DOMAIN groups
        OBVIOUS
    <2> HIDE DEF held
    <2> QED
        BY <1>6, <2>1, RoutesSplit, Zenon DEF Waiting
<1>10. PICK g, M :
         /\ Sized(g) /\ g.raw = Blob(r) /\ g.v4 = IsV4(r[2])
         /\ \/ g.prefixes = {} /\ M = UNION {EmitGroup(k[1], groups[k]) : k \in held}
            \/ /\ key \in DOMAIN groups /\ g = groups[key] /\ M = {}
               /\ ~(g.base + g.nlri + NlriLen(r[2]) > MAX_BGP_UPDATE_LEN)
         /\ \/ /\ g.prefixes = {} /\ g.base + NlriLen(r[2]) > MAX_BGP_UPDATE_LEN
               /\ groups' = Without(groups, held)
               /\ buffered' = buffered - CostOf(groups, held)
               /\ sent' = (sent \cup M) \cup Single(r[1], r[2], Blob(r))
            \/ /\ ~(g.prefixes = {} /\ g.base + NlriLen(r[2]) > MAX_BGP_UPDATE_LEN)
               /\ EvictUntilUnderBudget(WithGroup(key, Push(g, r[2])),
                      buffered - CostOf(groups, held) + Cost(Push(g, r[2])), sent \cup M)
    BY <1>1, AddCases, Zenon
<1>11. ASSUME g.prefixes = {}
       PROVE  Tells(M, RoutesOf(groups, held))
    <2>1. M = UNION {EmitGroup(k[1], groups[k]) : k \in held}
        <3>1. key \in DOMAIN groups => groups[key].prefixes # {}
            BY <1>1 DEF GroupsOK, GroupOK
        <3> HIDE DEF key, held
        <3> QED
            BY <1>10, <1>11, <3>1, Zenon
    <2>2. \A k \in held : Made(k, groups[k])
        BY <1>7
    <2> HIDE DEF held
    <2> QED
        BY <2>1, <2>2, EmitAllTells, Zenon
<1>12. CASE /\ g.prefixes = {} /\ groups' = Without(groups, held)
            /\ sent' = (sent \cup M) \cup Single(r[1], r[2], Blob(r))
    <2>1. Waiting' = RoutesOf(groups, DOMAIN groups \ held)
        BY <1>12 DEF Waiting, RoutesOf, Without
    <2>2. PICK X : X = IF TooLong(r) THEN {} ELSE {r}
        BY Zenon
    <2>3. Tells(Single(r[1], r[2], Blob(r)), X)
        BY <1>4, <2>2, SingleTells, Zenon
    <2>4. Tells(sent', (Passed \cup RoutesOf(groups, held)) \cup X)
        BY <1>3, <1>11, <1>12, <2>3, TellsBoth, Zenon
    <2>5. P = (Passed \cup RoutesOf(groups, held)) \cup X
        <3> HIDE DEF held
        <3>1. r \notin Waiting
            BY <1>8, SMT, Z3
        <3> QED
            BY <1>8, <1>9, <2>1, <2>2, <3>1, Zenon DEF Passed
    <2> QED
        BY <2>4, <2>5, SMT, Z3
<1>13. CASE /\ ~(g.prefixes = {} /\ g.base + NlriLen(r[2]) > MAX_BGP_UPDATE_LEN)
            /\ EvictUntilUnderBudget(WithGroup(key, Push(g, r[2])),
                   buffered - CostOf(groups, held) + Cost(Push(g, r[2])), sent \cup M)
    <2>1. PICK G : G = WithGroup(KeyOf(r), Push(g, r[2]))
        OBVIOUS
    <2>2. /\ DOMAIN G = DOMAIN groups \cup {key} /\ G[key] = Push(g, r[2])
          /\ \A k \in DOMAIN groups \ {key} : G[k] = groups[k]
        BY <2>1, Zenon DEF WithGroup, Without
    <2>3. \A k \in DOMAIN G : GroupOK(k, G[k])'
        BY <1>1, <1>2, <1>10, <1>13, <2>1, JoinedOK, ZenonT(30)
    <2>4. \A k \in DOMAIN G : Fits(k, G[k])
        <3> TAKE k \in DOMAIN G
        <3>1. PICK j : j = G[k]
            OBVIOUS
        <3>2. GroupOK(k, j)'
            BY <2>3, <3>1
        <3> QED
            BY <1>2, <3>1, <3>2, OKFitsNext, SMT, Z3
    <2>5. Push(g, r[2]).prefixes = g.prefixes \cup {r[2]}
        BY <1>1, <1>2, <1>10, <1>13, PushedOK, Zenon
    <2>6. PICK K \in SUBSET DOMAIN G :
             /\ groups' = Without(G, K)
             /\ sent' = (sent \cup M) \cup UNION {EmitGroup(k[1], G[k]) : k \in K}
        <3>1. \E K \in Evictions(G, buffered - CostOf(groups, held) + Cost(Push(g, r[2]))) :
                 /\ groups' = Without(G, K)
                 /\ sent' = (sent \cup M) \cup UNION {EmitGroup(k[1], G[k]) : k \in K}
            BY <1>13, <2>1, SMT, Z3 DEF EvictUntilUnderBudget
        <3>2. ASSUME NEW c, NEW K \in Evictions(G, c) PROVE K \in SUBSET DOMAIN G
            BY DEF Evictions
        <3> QED
            BY <3>1, <3>2, ZenonT(30)
    <2>7. Waiting' = RoutesOf(G, DOMAIN G \ K)
        BY <2>6 DEF Waiting, RoutesOf, Without
    <2>8. Tells(UNION {EmitGroup(k[1], G[k]) : k \in K}, RoutesOf(G, K))
        BY <2>4, <2>6, EmitAllTells, Zenon DEF Fits
    <2>9. /\ RoutesOf(G, DOMAIN G) = RoutesOf(G, K) \cup RoutesOf(G, DOMAIN G \ K)
          /\ RoutesOf(G, K) \cap RoutesOf(G, DOMAIN G \ K) = {}
        BY <2>4, <2>6, RoutesSplit, Zenon
    <2>10. \A q \in RoutesOf(G, DOMAIN G) : ~TooLong(q)
        BY <2>4, RoutesFit, SMT, Z3
    <2>11. RoutesOf(G, DOMAIN G)
              = RoutesOf(groups, DOMAIN groups \ held) \cup {<<r[1], y>> : y \in g.prefixes \cup {r[2]}}
        BY <1>4, <2>2, <2>5, SMT, Z3 DEF RoutesOf
    <2>12. PICK S : /\ Tells(M, S)
                    /\ RoutesOf(G, DOMAIN G) \cup S = Waiting \cup {r}
                    /\ RoutesOf(G, DOMAIN G) \cap S = {}
        <3>1. CASE g.prefixes = {}
            <4>1. RoutesOf(G, DOMAIN G) = RoutesOf(groups, DOMAIN groups \ held) \cup {r}
                BY <1>4, <2>11, <3>1, Zenon
            <4>2. r \notin Waiting
                BY <1>8
            <4> HIDE DEF held, key
            <4> WITNESS RoutesOf(groups, held)
            <4> QED
                BY <1>9, <1>11, <3>1, <4>1, <4>2, Zenon
        <3>2. CASE g.prefixes # {}
            <4>1. M = {} /\ held = {key} /\ g = groups[key]
                BY <1>10, <3>2, ZenonT(30)
            <4>2. RoutesOf(groups, held) = {<<r[1], y>> : y \in g.prefixes}
                BY <1>4, <4>1, SMT, Z3 DEF RoutesOf
            <4>3. RoutesOf(G, DOMAIN G) = Waiting \cup {r}
                <5> HIDE DEF held, key
                <5> QED
                    BY <1>4, <1>9, <2>11, <4>2, Zenon
            <4> WITNESS {}
            <4> QED
                BY <4>1, <4>3, TellsNone, SMT, Z3
        <3> QED
            BY <3>1, <3>2, Zenon
    <2>13. Tells(sent', (Passed \cup S) \cup RoutesOf(G, K))
        BY <1>3, <2>6, <2>8, <2>12, TellsBoth, ZenonT(30)
    <2>14. P = (Passed \cup S) \cup RoutesOf(G, K)
        <3>1. r \notin Waiting
            BY <1>8
        <3>2. \A q \in S : q \in Waiting \/ q = r
            BY <2>12, SMT, Z3
        <3>3. \A q \in S : q \in H \cup {r} /\ ~TooLong(q) /\ q \notin Waiting'
            <4>1. \A q \in S : q \in Waiting
                <5>1. r \in RoutesOf(G, DOMAIN G)
                    BY <1>4, <2>11, SMT, Z3
                <5> QED
                    BY <2>12, <3>2, <5>1, SMT, Z3
            <4>2. \A q \in S : q \notin Waiting'
                BY <2>7, <2>9, <2>12, SMT, Z3
            <4> QED
                BY <1>8, <4>1, <4>2, SMT, Z3
        <3>4. \A q \in RoutesOf(G, K) : q \in H \cup {r} /\ ~TooLong(q) /\ q \notin Waiting'
            BY <1>8, <2>7, <2>9, <2>10, <2>12, ZenonT(30)
        <3>5. \A q \in Passed : q \in H \cup {r} /\ ~TooLong(q) /\ q \notin Waiting'
            BY <2>7, <2>9, <2>12, SMT, Z3 DEF Passed
        <3>6. \A q \in P : q \in Passed \/ q \in S \/ q \in RoutesOf(G, K)
            BY <2>7, <2>9, <2>12, Zenon DEF Passed
        <3> QED
            BY <3>3, <3>4, <3>5, <3>6, ZenonT(30)
    <2> QED
        BY <2>13, <2>14, SMT, Z3
<1> HIDE DEF P, H, held, key
<1> QED
    BY <1>10, <1>12, <1>13, Zenon

LEMMA ConserveFlush ==
    ASSUME AggInv, ConserveInv, FlushAll
    PROVE  ConserveInv'
<1>1. /\ input' = input /\ todo' = todo /\ todo = {} /\ stage' = "done" /\ stage = "walking"
      /\ DOMAIN groups' = {}
      /\ sent' = sent \cup UNION {EmitGroup(k[1], groups[k]) : k \in DOMAIN groups}
    BY DEF FlushAll
<1>2. \A k \in DOMAIN groups : Fits(k, groups[k])
    BY OKFits, SMT, Z3 DEF AggInv, GroupsOK
<1>3. Tells(UNION {EmitGroup(k[1], groups[k]) : k \in DOMAIN groups}, Waiting)
    BY <1>2, EmitAllTells DEF Fits, Waiting
<1>4. Tells(sent', Passed \cup Waiting)
    BY <1>1, <1>3, TellsBoth, Zenon DEF ConserveInv
<1>5. \A q \in Waiting : q \in DOMAIN input /\ ~TooLong(q)
    BY <1>2, RoutesFit DEF Waiting
<1>6. \A q : Carried(q)' = Carried(q) /\ TooLong(q)' = TooLong(q)
    BY <1>1, InputSame, Zenon DEF Carried, TooLong
<1>7. Waiting' = {}
    BY <1>1, SMT, Z3 DEF Waiting, RoutesOf
<1>8. Passed' = Passed \cup Waiting
    <2>1. Passed' = {q \in DOMAIN input : ~TooLong(q)}
        BY <1>1, <1>6, <1>7, SMT, Z3 DEF Passed
    <2> QED
        BY <1>1, <1>5, <2>1, SMT, Z3 DEF Passed
<1>9. Tells(sent, Passed)'
    BY <1>4, <1>6, <1>8, Zenon DEF Tells, Read, ReadOf
<1>10. (Read(sent) \subseteq {Carried(q) : q \in DOMAIN input \ todo})'
    BY <1>9 DEF Tells, Passed
<1> QED
    BY <1>1, <1>9, <1>10, Zenon DEF ConserveInv

LEMMA ConserveSame ==
    ASSUME ConserveInv, input' = input, todo' = todo, sent' = sent,
           stage' = "gone" \/ (stage' = stage /\ groups' = groups)
    PROVE  ConserveInv'
<1>1. \A q : Carried(q)' = Carried(q) /\ TooLong(q)' = TooLong(q)
    BY InputSame, Zenon DEF Carried, TooLong
<1>2. (Read(sent) \subseteq {Carried(q) : q \in DOMAIN input \ todo})'
    BY <1>1, Zenon DEF ConserveInv, Read, ReadOf
<1>3. CASE stage' = "gone"
    BY <1>2, <1>3, SMT, Z3 DEF ConserveInv
<1>4. CASE stage' = stage /\ groups' = groups
    <2>1. Passed' = Passed
        BY <1>1, <1>4, SMT, Z3 DEF Passed, Waiting, RoutesOf
    <2>2. stage # "gone" => Tells(sent, Passed)'
        BY <1>1, <2>1, Zenon DEF ConserveInv, Tells, Read, ReadOf
    <2> QED
        BY <1>2, <1>4, <2>2, SMT, Z3 DEF ConserveInv
<1> QED
    BY <1>3, <1>4

\* What has been sent is exactly what was handed over and neither waits in a
\* group nor is too long, whatever the table.
THEOREM ConservationInvariant == AggSpec => []ConserveInv
<1>1. AggInit => ConserveInv
    <2> SUFFICES ASSUME AggInit PROVE ConserveInv
        OBVIOUS
    <2>1. Read(sent) = {} /\ Passed = {} /\ stage = "walking"
        BY DEF AggInit, Read, Passed
    <2> QED
        BY <2>1 DEF ConserveInv, Tells
<1>2. AggInv /\ ConserveInv /\ [AggNext]_aggVars => ConserveInv'
    <2> SUFFICES ASSUME AggInv, ConserveInv, [AggNext]_aggVars PROVE ConserveInv'
        OBVIOUS
    <2>1. CASE \E r \in todo : Add(r)
        BY <2>1, ConserveAdd
    <2>2. CASE FlushAll
        BY <2>2, ConserveFlush
    <2>3. CASE ClientGone
        BY <2>3, ConserveSame DEF ClientGone
    <2>4. CASE UNCHANGED aggVars
        BY <2>4, ConserveSame DEF aggVars
    <2> QED
        BY <2>1, <2>2, <2>3, <2>4, SMT, Z3 DEF AggNext
<1> QED
    BY <1>1, <1>2, AggregatorInvariant, PTL DEF AggSpec

\* Aggregation neither loses, invents nor mixes up routes, for any table that
\* can be told back at all (Legible), any hash function and any memory budget
\* (RouteAggregator, filter_pa_from_raw, normalize_mrt_mp_reach,
\* build_peer_info_for_emit).
THEOREM RoutesAreConserved == ASSUME Legible PROVE AggSpec => []RoutesConserved
<1>1. AggInv /\ ConserveInv => RoutesConserved
    <2> SUFFICES ASSUME AggInv, ConserveInv PROVE RoutesConserved
        OBVIOUS
    <2>1. AggTypes /\ GroupsOK /\ input \in Inputs
        BY DEF AggInv, AggTypes
    <2>2. \A r \in DOMAIN input : Carried(r) = Expected(r)
        BY <2>1, CarriedExpected, SMT, Z3
    <2>3. ReadBack = Read(sent)
        BY DEF ReadBack, Read, ReadOf
    <2>4. ReadBack \subseteq {Expected(r) : r \in DOMAIN input \ todo}
        BY <2>2, <2>3 DEF ConserveInv
    <2>5. \A r \in DOMAIN input : Open(r) <=> r \in Waiting
        <3> TAKE r \in DOMAIN input
        <3>1. r = <<r[1], r[2]>>
            BY <2>1, AggAssumption
        <3>2. ASSUME Open(r) PROVE r \in Waiting
            BY <3>1, <3>2, SMT, Z3 DEF Open, Waiting, RoutesOf
        <3>3. ASSUME r \in Waiting PROVE Open(r)
            <4>1. PICK k \in DOMAIN groups : \E x \in groups[k].prefixes : r = <<k[1], x>>
                BY <3>3, SMT, Z3 DEF Waiting, RoutesOf
            <4>2. k[1] = r[1] /\ r[2] \in groups[k].prefixes /\ <<k[1], r[2]>> = r
                BY <4>1
            <4>3. Blob(r) = groups[k].raw
                BY <2>1, <4>2, Zenon DEF GroupsOK, GroupOK, Holds
            <4> QED
                BY <4>2, <4>3 DEF Open
        <3> QED
            BY <3>2, <3>3
    <2>6. ASSUME stage # "gone", NEW r \in DOMAIN input
          PROVE  Expected(r) \in ReadBack <=> r \in Passed
        <3>1. ReadBack = {Carried(q) : q \in Passed}
            BY <2>3, <2>6 DEF ConserveInv, Tells
        <3>2. Passed \subseteq DOMAIN input
            BY DEF Passed
        <3>3. ASSUME NEW q \in Passed, Expected(r) = Carried(q) PROVE r = q
            <4>1. Expected(r) = Expected(q)
                BY <2>2, <3>2, <3>3, SMT, Z3
            <4> QED
                BY <2>1, <3>2, <4>1, ExpectedDiffer, SMT, Z3
        <3> QED
            BY <2>2, <3>1, <3>2, <3>3, SMT, Z3
    <2>7. ASSUME stage # "gone", NEW r \in DOMAIN input
          PROVE  IF r \in todo THEN ~(Expected(r) \in ReadBack) /\ ~Open(r)
                 ELSE \/ Expected(r) \in ReadBack /\ ~Open(r)
                      \/ ~(Expected(r) \in ReadBack) /\ (Open(r) \/ TooLong(r))
        <3>1. r \in Waiting => r \notin todo
            BY <2>1 DEF Waiting, RoutesOf, GroupsOK, GroupOK, Holds
        <3>2. r \in Passed <=> r \notin todo /\ ~TooLong(r) /\ r \notin Waiting
            BY DEF Passed
        <3>3. (Expected(r) \in ReadBack <=> r \in Passed) /\ (Open(r) <=> r \in Waiting)
            BY <2>5, <2>6, <2>7, SMT, Z3
        <3> QED
            BY <3>1, <3>2, <3>3, Zenon
    <2>8. ASSUME stage = "done", NEW r \in DOMAIN input
          PROVE  Expected(r) \in ReadBack \/ TooLong(r)
        <3>1. todo = {} /\ Waiting = {}
            BY <2>8 DEF ConserveInv, Waiting, RoutesOf
        <3>2. ~TooLong(r) => r \in Passed
            BY <3>1 DEF Passed
        <3> QED
            BY <2>6, <2>8, <3>2, SMT, Z3
    <2> QED
        BY <2>4, <2>7, <2>8, Zenon DEF RoutesConserved
<1> QED
    BY <1>1, AggregatorInvariant, ConservationInvariant, PTL
=============================================================================
