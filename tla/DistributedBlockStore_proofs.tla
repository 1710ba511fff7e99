-------------------- MODULE DistributedBlockStore_proofs --------------------
(* Theorems about DistributedBlockStore.                                   *)
EXTENDS DistributedBlockStore, FiniteSetTheorems, WellFoundedInduction, TLAPS

-----------------------------------------------------------------------------
(* The containers.                                                         *)

\* Every operation keeps the three containers in agreement.
LEMMA StoreStep == StoreInv /\ [Next]_vars => StoreInv'
<1> SUFFICES ASSUME StoreInv, [Next]_vars PROVE StoreInv'
  OBVIOUS
<1> USE NodeAssumption DEF StoreInv, TypeOK, RingOwned
<1>1. ASSUME NEW id \in NodeId, NEW vids \in VirtualIds, NEW capacity \in Capacity,
             add_dbs_node(id, vids, capacity)
      PROVE  StoreInv'
  <2>1. vids \subseteq Point
    BY DEF VirtualIds
  <2>2. ring' = ring \cup vids
    BY <1>1 DEF add_dbs_node
  <2>3. /\ DOMAIN virtual_to_real' = DOMAIN virtual_to_real \cup vids
        /\ virtual_to_real' \in [DOMAIN virtual_to_real' -> NodeId]
        /\ \A v \in DOMAIN virtual_to_real' :
              virtual_to_real'[v] = IF v \in vids THEN id ELSE virtual_to_real[v]
    BY <1>1 DEF add_dbs_node, Owned
  <2>4. Figures(capacity) \in Entry
    BY DEF Figures, Entry
  <2>5. /\ DOMAIN node_capacities' = DOMAIN node_capacities \cup {id}
        /\ node_capacities' \in [DOMAIN node_capacities' -> Entry]
    <3> HIDE DEF Entry
    <3> QED
      BY <1>1, <2>4 DEF add_dbs_node
  <2> QED
    BY <2>1, <2>2, <2>3, <2>5
<1>2. ASSUME NEW id \in NodeId, remove_dbs_node(id)
      PROVE  StoreInv'
  <2> DEFINE mine == {v \in DOMAIN virtual_to_real : virtual_to_real[v] = id}
  <2>1. /\ ring' = ring \ mine
        /\ DOMAIN virtual_to_real' = DOMAIN virtual_to_real \ mine
        /\ \A v \in DOMAIN virtual_to_real' : virtual_to_real'[v] = virtual_to_real[v]
        /\ virtual_to_real' \in [DOMAIN virtual_to_real' -> NodeId]
    BY <1>2 DEF remove_dbs_node
  <2>2. /\ DOMAIN node_capacities' = DOMAIN node_capacities \ {id}
        /\ node_capacities' \in [DOMAIN node_capacities' -> Entry]
    BY <1>2 DEF remove_dbs_node
  <2> QED
    BY <2>1, <2>2
<1>3. ASSUME NEW id \in NodeId, NEW capacity \in Capacity,
             update_dbs_node_capacity(id, capacity)
      PROVE  StoreInv'
  <2>1. [node_capacities[id] EXCEPT !.capacity = capacity] \in Entry
    BY <1>3 DEF update_dbs_node_capacity, Entry
  <2>2. node_capacities' = [node_capacities EXCEPT
                              ![id] = [node_capacities[id] EXCEPT !.capacity = capacity]]
    BY <1>3 DEF update_dbs_node_capacity
  <2> HIDE DEF Entry
  <2>3. /\ DOMAIN node_capacities' = DOMAIN node_capacities
        /\ node_capacities' \in [DOMAIN node_capacities' -> Entry]
    BY <1>3, <2>1, <2>2 DEF update_dbs_node_capacity
  <2> QED
    BY <1>3, <2>3 DEF update_dbs_node_capacity
<1>4. CASE UNCHANGED vars
  BY <1>4 DEF vars
<1> QED
  BY <1>1, <1>2, <1>3, <1>4 DEF Next

\* The ring, the owners and the capacities agree, whatever nodes come, come
\* back, take over a virtual id or go: no lookup reads a missing entry.
THEOREM StoreCorrect == Spec => []StoreInv
<1>1. Init => StoreInv
  <2> SUFFICES ASSUME NEW vids \in VirtualIds, NEW capacity \in Capacity,
                      ring = vids,
                      virtual_to_real = [v \in vids |-> Self],
                      node_capacities = [n \in {Self} |-> Figures(capacity)]
               PROVE  StoreInv
    BY DEF Init
  <2>1. vids \subseteq Point
    BY DEF VirtualIds
  <2>2. Figures(capacity) \in Entry
    BY NodeAssumption DEF Figures, Entry
  <2> HIDE DEF Entry
  <2> QED
    BY <2>1, <2>2, NodeAssumption DEF StoreInv, TypeOK, RingOwned
<1> QED
  BY <1>1, StoreStep, PTL DEF Spec

-----------------------------------------------------------------------------
(* The walk round the ring.                                                *)

\* A set of naturals that is not empty has a least element.
LEMMA LeastIsLeast ==
  ASSUME NEW S \in SUBSET Nat, S # {}
  PROVE  Least(S) \in S /\ \A q \in S : Least(S) <= q
<1>1. IsWellFoundedOn(OpToRel(<, Nat), Nat)
  BY NatLessThanWellFounded
<1>2. PICK n \in S : \A m \in S : ~(<<m, n>> \in OpToRel(<, Nat))
  BY <1>1, WFMin, Zenon
<1>3. \A m \in S : ~(m < n)
  BY <1>2 DEF OpToRel
<1>4. n \in S /\ \A m \in S : n <= m
  BY <1>3
<1> QED
  BY <1>4 DEF Least

\* The lookups over any ring R.
Geq(R, p) ==
    LET later == {q \in R : q >= p}
    IN  IF later # {} THEN Least(later) ELSE Least(R)
Gt(R, p) ==
    LET later == {q \in R : q > p}
    IN  IF later # {} THEN Least(later) ELSE Least(R)

\* Geq is the first of R at or after p, and R's first when all come before p.
LEMMA GeqIs ==
  ASSUME NEW R \in SUBSET Nat, R # {}, NEW p \in Nat
  PROVE  /\ Geq(R, p) \in R
         /\ \A q \in R : /\ Geq(R, p) >= p => ~(p <= q /\ q < Geq(R, p))
                         /\ Geq(R, p) < p => Geq(R, p) <= q /\ q < p
<1> DEFINE later == {q \in R : q >= p}
<1>1. later \in SUBSET Nat /\ later \in SUBSET R /\ \A q \in R : q \in later <=> q >= p
  OBVIOUS
<1>2. Geq(R, p) = IF later # {} THEN Least(later) ELSE Least(R)
  BY DEF Geq
<1>3. Least(R) \in R /\ \A q \in R : Least(R) <= q
  BY LeastIsLeast
<1>4. later # {} => Least(later) \in later /\ \A q \in later : Least(later) <= q
  BY <1>1, LeastIsLeast
<1> HIDE DEF later
<1>5. CASE later # {}
  <2> DEFINE v == Geq(R, p)
  <2>1. v \in later /\ \A q \in later : v <= q
    BY <1>2, <1>4, <1>5
  <2> HIDE DEF v
  <2>2. v \in R /\ v >= p
    BY <1>1, <2>1
  <2>3. \A q \in R : q >= p => v <= q
    BY <1>1, <2>1
  <2>4. \A q \in R : q \in Nat
    OBVIOUS
  <2>5. \A q \in R : /\ v >= p => ~(p <= q /\ q < v)
                     /\ v < p => v <= q /\ q < p
    BY <2>2, <2>3, <2>4
  <2> QED
    BY <2>2, <2>5 DEF v
<1>6. CASE later = {}
  <2>1. Geq(R, p) = Least(R) /\ \A q \in R : ~(q >= p)
    BY <1>1, <1>2, <1>6
  <2> QED
    BY <1>3, <2>1
<1> QED
  BY <1>5, <1>6

\* Gt is the first of R after p, and R's first when none is.
LEMMA GtIs ==
  ASSUME NEW R \in SUBSET Nat, R # {}, NEW p \in Nat
  PROVE  /\ Gt(R, p) \in R
         /\ \A q \in R : /\ Gt(R, p) > p => ~(p < q /\ q < Gt(R, p))
                         /\ Gt(R, p) <= p => Gt(R, p) <= q /\ q <= p
<1> DEFINE later == {q \in R : q > p}
<1>1. later \in SUBSET Nat /\ later \in SUBSET R /\ \A q \in R : q \in later <=> q > p
  OBVIOUS
<1>2. Gt(R, p) = IF later # {} THEN Least(later) ELSE Least(R)
  BY DEF Gt
<1>3. Least(R) \in R /\ \A q \in R : Least(R) <= q
  BY LeastIsLeast
<1>4. later # {} => Least(later) \in later /\ \A q \in later : Least(later) <= q
  BY <1>1, LeastIsLeast
<1> HIDE DEF later
<1>5. CASE later # {}
  <2> DEFINE v == Gt(R, p)
  <2>1. v \in later /\ \A q \in later : v <= q
    BY <1>2, <1>4, <1>5
  <2> HIDE DEF v
  <2>2. v \in R /\ v > p
    BY <1>1, <2>1
  <2>3. \A q \in R : q > p => v <= q
    BY <1>1, <2>1
  <2>4. \A q \in R : q \in Nat
    OBVIOUS
  <2>5. \A q \in R : /\ v > p => ~(p < q /\ q < v)
                     /\ v <= p => v <= q /\ q <= p
    BY <2>2, <2>3, <2>4
  <2> QED
    BY <2>2, <2>5 DEF v
<1>6. CASE later = {}
  <2>1. Gt(R, p) = Least(R) /\ \A q \in R : ~(q > p)
    BY <1>1, <1>2, <1>6
  <2> QED
    BY <1>3, <2>1
<1> QED
  BY <1>5, <1>6

\* The walk on any ring R.
WalkOn(R, block) ==
    LET p1 == Geq(R, block)
        p2 == Gt(R, p1)
        p3 == Gt(R, p2)
        p4 == Gt(R, p3)
        p5 == Gt(R, p4)
    IN  << p1, p2, p3, p4, p5 >>

\* Its five positions, each the successor of the one before.
LEMMA WalkSteps ==
  ASSUME NEW R \in SUBSET Nat, R # {}, NEW block \in Nat
  PROVE  /\ WalkOn(R, block) \in Seq(R)
         /\ Len(WalkOn(R, block)) = 5
         /\ \A i \in 1 .. 5 : WalkOn(R, block)[i] \in R
         /\ WalkOn(R, block)[1] = Geq(R, block)
         /\ \A i \in 1 .. 4 : WalkOn(R, block)[i + 1] = Gt(R, WalkOn(R, block)[i])
<1> DEFINE p1 == Geq(R, block)
           p2 == Gt(R, p1)
           p3 == Gt(R, p2)
           p4 == Gt(R, p3)
           p5 == Gt(R, p4)
<1>1. p1 \in R
  BY GeqIs
<1>2. \A p \in R : Gt(R, p) \in R
  BY GtIs
<1>3. WalkOn(R, block) = << p1, p2, p3, p4, p5 >>
  BY DEF WalkOn
<1>4. p2 = Gt(R, p1) /\ p3 = Gt(R, p2) /\ p4 = Gt(R, p3) /\ p5 = Gt(R, p4) /\ p1 = Geq(R, block)
  OBVIOUS
<1> HIDE DEF p1, p2, p3, p4, p5
<1>5. p2 \in R /\ p3 \in R /\ p4 \in R /\ p5 \in R
  BY <1>1, <1>2, <1>4
<1>6. WalkOn(R, block) \in Seq(R) /\ Len(WalkOn(R, block)) = 5
  BY <1>1, <1>3, <1>5
<1>7. WalkOn(R, block)[1] = Geq(R, block)
  BY <1>3, <1>4
<1>8. ASSUME NEW i \in 1 .. 5 PROVE WalkOn(R, block)[i] \in R
  <2>1. i = 1 \/ i = 2 \/ i = 3 \/ i = 4 \/ i = 5
    OBVIOUS
  <2> QED
    BY <1>1, <1>3, <1>5, <2>1
<1>9. ASSUME NEW i \in 1 .. 4 PROVE WalkOn(R, block)[i + 1] = Gt(R, WalkOn(R, block)[i])
  <2>1. CASE i = 1
    BY <1>3, <1>4, <2>1
  <2>2. CASE i = 2
    BY <1>3, <1>4, <2>2
  <2>3. CASE i = 3
    BY <1>3, <1>4, <2>3
  <2>4. CASE i = 4
    BY <1>3, <1>4, <2>4
  <2> QED
    BY <2>1, <2>2, <2>3, <2>4
<1> QED
  BY <1>6, <1>7, <1>8, <1>9

\* The module's walk is the walk on the present ring.
LEMMA WalkIs ==
  ASSUME ring \subseteq Point, ring # {}, NEW block \in Point
  PROVE  Walk(block) = WalkOn(ring, block)
<1>1. ring \in SUBSET Nat /\ ring \subseteq Point /\ block \in Nat
  BY PointAssumption DEF Point
<1>2. LowerBound[block] = Geq(ring, block)
  BY DEF LowerBound, Geq
<1>3. \A p \in ring : After[p] = Gt(ring, p) /\ Gt(ring, p) \in ring
  <2> TAKE p \in ring
  <2>1. p \in Point /\ p \in Nat
    BY <1>1
  <2>2. After[p] = Gt(ring, p)
    BY <2>1 DEF After, Gt
  <2> QED
    BY <1>1, <2>1, <2>2, GtIs
<1>4. Geq(ring, block) \in ring
  BY <1>1, GeqIs
<1> QED
  BY <1>2, <1>3, <1>4 DEF Walk, WalkOn

\* No lookup on a ring that is not empty reads a position without an owner
\* or an owner without figures, on any ring that the operations can build.
THEOREM LookupSafe == Spec => []WalkOwned
<1>1. StoreInv => WalkOwned
  <2> SUFFICES ASSUME StoreInv, ring # {}, NEW block \in Point, NEW i \in 1 .. 5
               PROVE  /\ Walk(block)[i] \in DOMAIN virtual_to_real
                      /\ virtual_to_real[Walk(block)[i]] \in DOMAIN node_capacities
    BY DEF WalkOwned
  <2>1. ring \subseteq Point /\ ring \in SUBSET Nat /\ block \in Nat
    BY PointAssumption DEF StoreInv, TypeOK, Point
  <2>2. Walk(block)[i] \in ring
    BY <2>1, WalkIs, WalkSteps
  <2> QED
    BY <2>2 DEF StoreInv, RingOwned
<1> QED
  BY <1>1, StoreCorrect, PTL

-----------------------------------------------------------------------------
(* What is kept of a walk.                                                 *)

\* The recursion of Those.
Found(seq, S) ==
    LET found[i \in 0 .. Len(seq)] ==
            IF i = 0 THEN << >>
            ELSE IF seq[i] \in S THEN Append(found[i - 1], seq[i])
            ELSE found[i - 1]
    IN  found

\* One step of it.
Keep(seq, S, i, kept) == IF seq[i] \in S THEN Append(kept, seq[i]) ELSE kept

\* g is the recursion of Those carried to position n.
Carried(seq, S, n, g) ==
    g = [i \in 0 .. n |-> IF i = 0 THEN << >> ELSE Keep(seq, S, i, g[i - 1])]

\* The recursion can be carried to any position: at the least one it could not
\* reach, it is the one before with a step more.
LEMMA FoundExists ==
  ASSUME NEW seq, NEW S, NEW n \in Nat
  PROVE  \E g : Carried(seq, S, n, g)
<1> DEFINE Bad == {k \in Nat : ~\E g : Carried(seq, S, k, g)}
<1> SUFFICES ASSUME Bad # {} PROVE FALSE
  OBVIOUS
<1> DEFINE m == Least(Bad)
<1>1. m \in Bad /\ \A q \in Bad : m <= q
  BY LeastIsLeast
<1> HIDE DEF m
<1>2. m \in Nat
  BY <1>1
<1>3. m # 0
  <2> SUFFICES ASSUME m = 0 PROVE FALSE
    OBVIOUS
  <2> DEFINE z == [i \in 0 .. 0 |-> << >>]
  <2>1. z = [i \in 0 .. 0 |-> IF i = 0 THEN << >> ELSE Keep(seq, S, i, z[i - 1])]
    OBVIOUS
  <2>2. Carried(seq, S, 0, z)
    BY <2>1 DEF Carried
  <2> QED
    BY <1>1, <2>2
<1>4. PICK g : Carried(seq, S, m - 1, g)
  BY <1>1, <1>2, <1>3
<1> DEFINE h == [i \in 0 .. m |-> IF i = m THEN Keep(seq, S, m, g[m - 1]) ELSE g[i]]
           k == [i \in 0 .. m |-> IF i = 0 THEN << >> ELSE Keep(seq, S, i, h[i - 1])]
<1>5. ASSUME NEW i \in 0 .. m PROVE h[i] = k[i]
  <2>1. CASE i = m
    <3>1. h[m] = Keep(seq, S, m, g[m - 1]) /\ h[m - 1] = g[m - 1]
      BY <1>2, <1>3
    <3>2. k[m] = Keep(seq, S, m, h[m - 1])
      BY <1>2, <1>3
    <3> QED
      BY <2>1, <3>1, <3>2
  <2>2. CASE i # m /\ i = 0
    BY <1>2, <1>3, <1>4, <2>2 DEF Carried
  <2>3. CASE i # m /\ i # 0
    <3>1. i \in 1 .. m - 1 /\ h[i] = g[i] /\ h[i - 1] = g[i - 1]
      BY <1>2, <1>3, <2>3
    <3>2. g[i] = Keep(seq, S, i, g[i - 1])
      BY <1>2, <1>4, <3>1 DEF Carried
    <3> QED
      BY <2>3, <3>1, <3>2
  <2> QED
    BY <2>1, <2>2, <2>3
<1>6. h = k
  BY <1>5
<1>7. Carried(seq, S, m, h)
  BY <1>6 DEF Carried
<1> QED
  BY <1>1, <1>7

\* So Those follows its steps.
LEMMA FoundSteps ==
  ASSUME NEW seq, Len(seq) \in Nat, NEW S
  PROVE  /\ Those(seq, S) = Found(seq, S)[Len(seq)]
         /\ Found(seq, S)[0] = << >>
         /\ \A i \in 1 .. Len(seq) : Found(seq, S)[i] = Keep(seq, S, i, Found(seq, S)[i - 1])
<1>1. PICK g : Carried(seq, S, Len(seq), g)
  BY FoundExists
<1>2. g = [i \in 0 .. Len(seq) |->
              IF i = 0 THEN << >>
              ELSE IF seq[i] \in S THEN Append(g[i - 1], seq[i])
              ELSE g[i - 1]]
  BY <1>1 DEF Carried, Keep
<1> DEFINE f == Found(seq, S)
<1>3. f = [i \in 0 .. Len(seq) |->
              IF i = 0 THEN << >>
              ELSE IF seq[i] \in S THEN Append(f[i - 1], seq[i])
              ELSE f[i - 1]]
  BY <1>2 DEF Found
<1>4. Those(seq, S) = f[Len(seq)]
  BY DEF Those, Found
<1> HIDE DEF f
<1>5. f[0] = << >>
  BY <1>3
<1>6. \A i \in 1 .. Len(seq) : f[i] = Keep(seq, S, i, f[i - 1])
  <2> TAKE i \in 1 .. Len(seq)
  <2>1. i \in 0 .. Len(seq) /\ i # 0
    OBVIOUS
  <2>2. f[i] = IF seq[i] \in S THEN Append(f[i - 1], seq[i]) ELSE f[i - 1]
    BY <1>3, <2>1
  <2> QED
    BY <2>2 DEF Keep
<1> QED
  BY <1>4, <1>5, <1>6 DEF f

\* Induction up to n, with the set A for the predicate: the least i outside A
\* would have a predecessor in A.
LEMMA UpTo ==
  ASSUME NEW n \in Nat, NEW A, 0 \in A, \A i \in 0 .. n - 1 : i \in A => i + 1 \in A
  PROVE  \A i \in 0 .. n : i \in A
<1> DEFINE Bad == {i \in 0 .. n : i \notin A}
<1> SUFFICES ASSUME Bad # {} PROVE FALSE
  OBVIOUS
<1> DEFINE m == Least(Bad)
<1>1. m \in Bad /\ \A q \in Bad : m <= q
  <2>1. Bad \in SUBSET Nat
    OBVIOUS
  <2> QED
    BY <2>1, LeastIsLeast
<1> HIDE DEF m
<1>2. m \in 1 .. n /\ m \notin A
  BY <1>1
<1>3. m - 1 \in 0 .. n - 1 /\ m - 1 \in A
  <2>1. m - 1 \in 0 .. n - 1 /\ ~(m <= m - 1)
    BY <1>2
  <2> QED
    BY <1>1, <2>1
<1>4. (m - 1) + 1 = m
  BY <1>2
<1> QED
  BY <1>2, <1>3, <1>4

\* What is kept is made of elements of the sequence.
LEMMA FoundType ==
  ASSUME NEW T, NEW seq \in Seq(T), NEW S
  PROVE  \A i \in 0 .. Len(seq) : Found(seq, S)[i] \in Seq(T)
<1> DEFINE f == Found(seq, S)
           A == {i \in 0 .. Len(seq) : f[i] \in Seq(T)}
<1>1. /\ f[0] = << >>
      /\ \A i \in 1 .. Len(seq) : f[i] = Keep(seq, S, i, f[i - 1])
  BY FoundSteps
<1> HIDE DEF f
<1>2. 0 \in A
  <2>1. 0 \in 0 .. Len(seq)
    OBVIOUS
  <2>2. << >> \in Seq(T)
    OBVIOUS
  <2>3. f[0] \in Seq(T)
    BY <1>1, <2>2, Zenon
  <2> QED
    BY <2>1, <2>3
<1>3. ASSUME NEW i \in 0 .. Len(seq) - 1, i \in A PROVE i + 1 \in A
  <2>1. i + 1 \in 1 .. Len(seq) /\ (i + 1) - 1 = i
    OBVIOUS
  <2>2. f[i + 1] = Keep(seq, S, i + 1, f[i])
    BY <1>1, <2>1
  <2>3. seq[i + 1] \in T
    BY <2>1
  <2>4. Keep(seq, S, i + 1, f[i]) \in Seq(T)
    BY <1>3, <2>3 DEF Keep
  <2> QED
    BY <2>1, <2>2, <2>4
<1>4. \A i \in 0 .. Len(seq) : i \in A
  <2> HIDE DEF A
  <2> QED
    BY <1>2, <1>3, UpTo
<1> QED
  BY <1>4 DEF f

\* What is kept of a sequence extended by x.
LEMMA ThoseAppend ==
  ASSUME NEW T, NEW seq \in Seq(T), NEW x \in T, NEW S
  PROVE  Those(Append(seq, x), S) = IF x \in S THEN Append(Those(seq, S), x) ELSE Those(seq, S)
<1> DEFINE n == Len(seq)
           longer == Append(seq, x)
           f == Found(seq, S)
           g == Found(longer, S)
           A == {i \in 0 .. n : g[i] = f[i]}
<1>1. /\ Those(seq, S) = f[n]
      /\ f[0] = << >>
      /\ \A i \in 1 .. n : f[i] = Keep(seq, S, i, f[i - 1])
  BY FoundSteps
<1>2. longer \in Seq(T) /\ Len(longer) = n + 1 /\ longer[n + 1] = x /\ \A i \in 1 .. n : longer[i] = seq[i]
  OBVIOUS
<1>3. /\ Those(longer, S) = g[n + 1]
      /\ g[0] = << >>
      /\ \A i \in 1 .. n + 1 : g[i] = Keep(longer, S, i, g[i - 1])
  <2> HIDE DEF longer, n
  <2> QED
    BY FoundSteps, <1>2
<1>4. n \in Nat
  OBVIOUS
<1> HIDE DEF f, g, longer, n
<1>5. 0 \in A
  BY <1>1, <1>3, <1>4
<1>6. ASSUME NEW i \in 0 .. n - 1, i \in A PROVE i + 1 \in A
  <2>1. i + 1 \in 1 .. n /\ i + 1 \in 1 .. n + 1 /\ (i + 1) - 1 = i
    BY <1>4
  <2>2. f[i + 1] = Keep(seq, S, i + 1, f[i]) /\ g[i + 1] = Keep(longer, S, i + 1, g[i])
    BY <1>1, <1>3, <2>1
  <2> QED
    BY <1>2, <1>4, <1>6, <2>1, <2>2 DEF Keep
<1>7. n \in A
  <2>1. \A i \in 0 .. n : i \in A
    <3> HIDE DEF A
    <3> QED
      BY <1>4, <1>5, <1>6, UpTo
  <2> QED
    BY <1>4, <2>1
<1>8. g[n + 1] = Keep(longer, S, n + 1, g[n])
  BY <1>3, <1>4
<1> QED
  BY <1>1, <1>2, <1>3, <1>7, <1>8 DEF Keep, longer

\* Keeping the elements of U and of those the elements of R.
LEMMA ThoseTwice ==
  ASSUME NEW T, NEW seq \in Seq(T), NEW U, NEW R
  PROVE  Those(Those(seq, U), R) = Those(seq, U \cap R)
<1> DEFINE n == Len(seq)
           f == Found(seq, U)
           g == Found(seq, U \cap R)
           A == {i \in 0 .. n : Those(f[i], R) = g[i]}
<1>1. /\ Those(seq, U) = f[n]
      /\ f[0] = << >>
      /\ \A i \in 1 .. n : f[i] = Keep(seq, U, i, f[i - 1])
  BY FoundSteps
<1>2. /\ Those(seq, U \cap R) = g[n]
      /\ g[0] = << >>
      /\ \A i \in 1 .. n : g[i] = Keep(seq, U \cap R, i, g[i - 1])
  BY FoundSteps
<1>3. n \in Nat /\ \A i \in 1 .. n : seq[i] \in T
  OBVIOUS
<1>4. \A i \in 0 .. n : f[i] \in Seq(T)
  BY FoundType
<1> HIDE DEF f, g, n
<1>5. Those(<< >>, R) = << >>
  BY FoundSteps
<1>6. 0 \in A
  BY <1>1, <1>2, <1>3, <1>5
<1>7. ASSUME NEW i \in 0 .. n - 1, i \in A PROVE i + 1 \in A
  <2>1. i + 1 \in 1 .. n /\ i + 1 \in 0 .. n /\ (i + 1) - 1 = i /\ i \in 0 .. n
    BY <1>3
  <2>2. f[i + 1] = Keep(seq, U, i + 1, f[i]) /\ g[i + 1] = Keep(seq, U \cap R, i + 1, g[i])
    BY <1>1, <1>2, <2>1
  <2>3. f[i] \in Seq(T) /\ seq[i + 1] \in T
    BY <1>3, <1>4, <2>1
  <2>4. Those(f[i], R) = g[i]
    BY <1>7
  <2>5. Those(f[i + 1], R) = g[i + 1]
    <3>1. CASE seq[i + 1] \in U
      <4>1. f[i + 1] = Append(f[i], seq[i + 1])
        BY <2>2, <3>1 DEF Keep
      <4>2. \A s \in Seq(T), x \in T :
               Those(Append(s, x), R) = IF x \in R THEN Append(Those(s, R), x) ELSE Those(s, R)
        BY ThoseAppend
      <4>3. Those(f[i + 1], R) = IF seq[i + 1] \in R THEN Append(g[i], seq[i + 1]) ELSE g[i]
        BY <2>3, <2>4, <4>1, <4>2
      <4> QED
        BY <2>2, <3>1, <4>3 DEF Keep
    <3>2. CASE seq[i + 1] \notin U
      BY <2>2, <2>4, <3>2 DEF Keep
    <3> QED
      BY <3>1, <3>2
  <2> QED
    BY <2>1, <2>5
<1>8. \A i \in 0 .. n : i \in A
  <2> HIDE DEF A
  <2> QED
    BY <1>3, <1>6, <1>7, UpTo
<1> QED
  BY <1>1, <1>2, <1>3, <1>8

\* What is kept early on is a prefix of what is kept in the end.
LEMMA ThosePrefix ==
  ASSUME NEW T, NEW seq \in Seq(T), NEW S, NEW k \in 0 .. Len(seq)
  PROVE  IsPrefix(Found(seq, S)[k], Those(seq, S))
<1> DEFINE n == Len(seq)
           f == Found(seq, S)
           Ahead(s, t) == Len(s) <= Len(t) /\ \A i \in 1 .. Len(s) : s[i] = t[i]
           A == {i \in 0 .. n - k : Ahead(f[k], f[k + i])}
<1>1. /\ Those(seq, S) = f[n]
      /\ \A i \in 1 .. n : f[i] = Keep(seq, S, i, f[i - 1])
  BY FoundSteps
<1>2. \A i \in 0 .. n : f[i] \in Seq(T)
  BY FoundType
<1>3. n \in Nat /\ k \in 0 .. n /\ \A i \in 1 .. n : seq[i] \in T
  OBVIOUS
<1> HIDE DEF f, n
<1>4. 0 \in A
  <2>1. k + 0 = k /\ f[k] \in Seq(T)
    BY <1>2, <1>3
  <2> QED
    BY <1>3, <2>1
<1>5. ASSUME NEW i \in 0 .. (n - k) - 1, i \in A PROVE i + 1 \in A
  <2> DEFINE j == k + i
  <2>1. j + 1 \in 1 .. n /\ (j + 1) - 1 = j /\ j \in 0 .. n /\ j + 1 = k + (i + 1) /\ i + 1 \in 0 .. n - k
    BY <1>3
  <2>2. f[j + 1] = Keep(seq, S, j + 1, f[j])
    BY <1>1, <2>1
  <2>3. f[j] \in Seq(T) /\ f[k] \in Seq(T) /\ seq[j + 1] \in T
    BY <1>2, <1>3, <2>1
  <2>4. Ahead(f[k], f[j])
    BY <1>5
  <2> HIDE DEF j
  <2>5. Ahead(f[k], f[j + 1])
    BY <2>2, <2>3, <2>4 DEF Keep
  <2> QED
    BY <2>1, <2>5
<1>6. n - k \in A
  <2>1. n - k \in Nat
    BY <1>3
  <2>2. \A i \in 0 .. n - k : i \in A
    <3> HIDE DEF A
    <3> QED
      BY <2>1, <1>4, <1>5, UpTo
  <2> QED
    BY <2>1, <2>2
<1>7. Ahead(f[k], f[n])
  BY <1>3, <1>6
<1>8. f[k] \in Seq(T) /\ f[n] \in Seq(T)
  BY <1>2, <1>3
<1>9. IsPrefix(f[k], f[n])
  BY <1>7, <1>8 DEF IsPrefix
<1> QED
  BY <1>1, <1>9 DEF f

-----------------------------------------------------------------------------
(* Joins and departures.                                                   *)

\* Thinning a ring: the successor on the smaller ring R is found from any
\* point of the larger ring B that the walk on B reaches first.
LEMMA Thinned ==
  ASSUME NEW B \in SUBSET Nat, NEW R \in SUBSET B, R # {}, NEW p \in Nat
  PROVE  /\ Geq(R, p) = Geq(R, Geq(B, p))
         /\ p \in B \ R => Geq(R, p) = Geq(R, Gt(B, p))
         /\ p \in R => Geq(R, p) = p /\ Gt(R, p) = Geq(R, Gt(B, p))
<1>1. R \in SUBSET Nat /\ B # {} /\ \A q \in R : q \in B
  OBVIOUS
<1>2. \A q \in B : q \in Nat
  OBVIOUS
<1> DEFINE c == Geq(B, p)
           d == Gt(B, p)
           u == Geq(R, p)
           g == Gt(R, p)
<1>3. c \in B /\ \A q \in B : /\ c >= p => ~(p <= q /\ q < c)
                              /\ c < p => c <= q /\ q < p
  BY <1>1, GeqIs
<1>4. d \in B /\ \A q \in B : /\ d > p => ~(p < q /\ q < d)
                              /\ d <= p => d <= q /\ q <= p
  BY <1>1, GtIs
<1>5. u \in R /\ \A q \in R : /\ u >= p => ~(p <= q /\ q < u)
                              /\ u < p => u <= q /\ q < p
  BY <1>1, GeqIs
<1>6. g \in R /\ \A q \in R : /\ g > p => ~(p < q /\ q < g)
                              /\ g <= p => g <= q /\ q <= p
  BY <1>1, GtIs
<1> DEFINE x == Geq(R, c)
           y == Geq(R, d)
<1>7. x \in R /\ \A q \in R : /\ x >= c => ~(c <= q /\ q < x)
                              /\ x < c => x <= q /\ q < c
  BY <1>1, <1>2, <1>3, GeqIs
<1>8. y \in R /\ \A q \in R : /\ y >= d => ~(d <= q /\ q < y)
                              /\ y < d => y <= q /\ q < d
  BY <1>1, <1>2, <1>4, GeqIs
<1> HIDE DEF c, d, u, g, x, y
<1>9. c \in Nat /\ d \in Nat /\ u \in Nat /\ g \in Nat /\ x \in Nat /\ y \in Nat
  BY <1>1, <1>2, <1>3, <1>4, <1>5, <1>6, <1>7, <1>8
<1>10. u \in B /\ g \in B /\ x \in B /\ y \in B
  BY <1>1, <1>5, <1>6, <1>7, <1>8
<1>11. u = x
  BY <1>3, <1>5, <1>7, <1>9, <1>10
<1>12. ASSUME p \in B \ R PROVE u = y
  BY <1>4, <1>5, <1>8, <1>9, <1>10, <1>12
<1>13. ASSUME p \in R PROVE u = p /\ g = y
  <2>1. u = p
    BY <1>5, <1>9, <1>13
  <2>2. g = y
    BY <1>4, <1>6, <1>8, <1>9, <1>10, <1>13
  <2> QED BY <2>1, <2>2
<1> QED
  BY <1>11, <1>12, <1>13 DEF c, d, u, g, x, y

\* The steps of Those on the five positions of a walk.
LEMMA FiveSteps ==
  ASSUME NEW seq, Len(seq) = 5, NEW S
  PROVE  /\ Those(seq, S) = Found(seq, S)[5]
         /\ Found(seq, S)[0] = << >>
         /\ \A i \in 1 .. 5 : Found(seq, S)[i] = Keep(seq, S, i, Found(seq, S)[i - 1])
<1>1. Len(seq) \in Nat
  OBVIOUS
<1> DEFINE n == Len(seq)
<1>2. /\ Those(seq, S) = Found(seq, S)[n]
      /\ Found(seq, S)[0] = << >>
      /\ \A i \in 1 .. n : Found(seq, S)[i] = Keep(seq, S, i, Found(seq, S)[i - 1])
  BY <1>1, FoundSteps
<1>3. n = 5
  OBVIOUS
<1> HIDE DEF n
<1> QED
  BY <1>2, <1>3

\* The walk round a ring R inside a larger ring B meets the positions of R in
\* the order the walk round B does.
LEMMA ThinnedWalk ==
  ASSUME NEW B \in SUBSET Nat, NEW R \in SUBSET B, R # {}, NEW U \in SUBSET R, NEW block \in Nat
  PROVE  IsPrefix(Those(WalkOn(B, block), U), Those(WalkOn(R, block), U))
<1> DEFINE b == WalkOn(B, block)
           w == WalkOn(R, block)
           f == Found(b, U)
           g == Found(w, U)
           A == {i \in 0 .. 5 : \E k \in 0 .. i :
                    f[i] = g[k] /\ (i # 5 => w[k + 1] = Geq(R, b[i + 1]))}
<1>1. R \in SUBSET Nat /\ B # {}
  OBVIOUS
<1>2. /\ b \in Seq(B) /\ Len(b) = 5
      /\ \A i \in 1 .. 5 : b[i] \in B
      /\ b[1] = Geq(B, block)
      /\ \A i \in 1 .. 4 : b[i + 1] = Gt(B, b[i])
  BY <1>1, WalkSteps
<1>3. /\ w \in Seq(R) /\ Len(w) = 5
      /\ w[1] = Geq(R, block)
      /\ \A i \in 1 .. 4 : w[i + 1] = Gt(R, w[i])
  BY <1>1, WalkSteps
<1>4. /\ Those(b, U) = f[5]
      /\ f[0] = << >>
      /\ \A i \in 1 .. 5 : f[i] = Keep(b, U, i, f[i - 1])
  <2> HIDE DEF b
  <2> QED
    BY <1>2, FiveSteps
<1>5. /\ Those(w, U) = g[5]
      /\ g[0] = << >>
      /\ \A i \in 1 .. 5 : g[i] = Keep(w, U, i, g[i - 1])
  <2> HIDE DEF w
  <2> QED
    BY <1>3, FiveSteps
<1>6. ASSUME NEW k \in 0 .. 5 PROVE IsPrefix(g[k], Those(w, U))
  <2> HIDE DEF w
  <2> QED
    BY <1>3, ThosePrefix
<1> HIDE DEF b, w, f, g
<1>7. 0 \in A
  <2>1. Geq(R, block) = Geq(R, Geq(B, block))
    BY <1>1, Thinned
  <2>2. f[0] = g[0] /\ w[0 + 1] = Geq(R, b[0 + 1])
    BY <1>2, <1>3, <1>4, <1>5, <2>1
  <2> QED
    BY <2>2
<1>8. ASSUME NEW i \in 0 .. 5 - 1, i \in A PROVE i + 1 \in A
  <2>1. PICK k \in 0 .. i : f[i] = g[k] /\ w[k + 1] = Geq(R, b[i + 1])
    BY <1>8
  <2> DEFINE p == b[i + 1]
  <2>2. p \in B /\ p \in Nat
    <3>1. \A j \in 1 .. 5 : b[j] \in B
      BY <1>2
    <3>2. i + 1 \in 1 .. 5 /\ \A q \in B : q \in Nat
      OBVIOUS
    <3> QED
      BY <3>1, <3>2
  <2>3. /\ i + 1 \in 1 .. 5 /\ (i + 1) - 1 = i /\ k + 1 \in 1 .. 5 /\ (k + 1) - 1 = k
        /\ i + 1 \in 0 .. 5 /\ k + 1 \in 0 .. i + 1 /\ k \in 0 .. i + 1
        /\ (i + 1 # 5 => i + 1 \in 1 .. 4 /\ k + 1 \in 1 .. 4)
    BY <2>1
  <2>4. f[i + 1] = (IF p \in U THEN Append(f[i], p) ELSE f[i])
    BY <1>4, <2>3 DEF Keep
  <2>5. i + 1 # 5 => b[(i + 1) + 1] = Gt(B, p)
    BY <1>2, <2>3
  <2> HIDE DEF p
  <2>6. CASE p \in R
    <3>1. Geq(R, p) = p /\ Gt(R, p) = Geq(R, Gt(B, p))
      BY <1>1, <2>2, <2>6, Thinned
    <3>2. w[k + 1] = p
      BY <2>1, <3>1 DEF p
    <3>3. g[k + 1] = (IF p \in U THEN Append(g[k], p) ELSE g[k])
      BY <1>5, <2>3, <3>2 DEF Keep
    <3>4. f[i + 1] = g[k + 1]
      BY <2>1, <2>4, <3>3
    <3>5. i + 1 # 5 => w[(k + 1) + 1] = Geq(R, b[(i + 1) + 1])
      BY <1>3, <2>3, <2>5, <3>1, <3>2
    <3> QED
      BY <2>3, <3>4, <3>5
  <2>7. CASE p \notin R
    <3>1. Geq(R, p) = Geq(R, Gt(B, p))
      BY <1>1, <2>2, <2>7, Thinned
    <3>2. f[i + 1] = g[k]
      BY <2>1, <2>4, <2>7
    <3>3. i + 1 # 5 => w[k + 1] = Geq(R, b[(i + 1) + 1])
      BY <2>1, <2>5, <3>1 DEF p
    <3> QED
      BY <2>3, <3>2, <3>3
  <2> QED
    BY <2>6, <2>7
<1>9. 5 \in A
  <2>1. \A i \in 0 .. 5 : i \in A
    <3> HIDE DEF A
    <3> QED
      BY <1>7, <1>8, UpTo
  <2> QED
    BY <2>1
<1>10. PICK k \in 0 .. 5 : f[5] = g[k]
  BY <1>9
<1> QED
  BY <1>4, <1>6, <1>10 DEF b, w

\* The lookup as a walk on the present ring, and on the next one.
LEMMA LookupIs ==
  ASSUME ring \subseteq Point, NEW block \in Point
  PROVE  Lookup(block) = IF ring = {} THEN << >> ELSE Those(WalkOn(ring, block), Usable)
BY WalkIs DEF Lookup

\* The same of the ring after a step.
LEMMA LookupNextIs ==
  ASSUME ring' \subseteq Point, NEW block \in Point
  PROVE  Lookup(block)' = IF ring' = {} THEN << >> ELSE Those(WalkOn(ring', block), Usable')
<1> SUFFICES ASSUME ring' # {} PROVE Walk(block)' = WalkOn(ring', block)
  BY DEF Lookup
<1>1. ring' \in SUBSET Nat /\ ring' \subseteq Point /\ block \in Nat
  BY PointAssumption DEF Point
<1>2. LowerBound'[block] = Geq(ring', block)
  BY DEF LowerBound, Geq
<1>3. \A p \in ring' : After'[p] = Gt(ring', p) /\ Gt(ring', p) \in ring'
  <2> TAKE p \in ring'
  <2>1. p \in Point /\ p \in Nat
    BY <1>1
  <2>2. After'[p] = Gt(ring', p)
    BY <2>1 DEF After, Gt
  <2> QED
    BY <1>1, <2>1, <2>2, GtIs
<1>4. Geq(ring', block) \in ring'
  BY <1>1, GeqIs
<1> QED
  BY <1>2, <1>3, <1>4 DEF Walk, WalkOn

\* Of a walk that misses S nothing is kept.
LEMMA ThoseNothing ==
  ASSUME NEW seq, Len(seq) = 5, NEW S, \A i \in 1 .. 5 : seq[i] \notin S
  PROVE  Those(seq, S) = << >>
<1> DEFINE f == Found(seq, S)
<1>1. /\ Those(seq, S) = f[5]
      /\ f[0] = << >>
      /\ \A i \in 1 .. 5 : f[i] = Keep(seq, S, i, f[i - 1])
  BY FiveSteps
<1> HIDE DEF f
<1>2. \A i \in 1 .. 5 : f[i] = f[i - 1]
  BY <1>1 DEF Keep
<1>3. f[1] = f[0] /\ f[2] = f[1] /\ f[3] = f[2] /\ f[4] = f[3] /\ f[5] = f[4]
  BY <1>2
<1> QED
  BY <1>1, <1>3

\* Nor of nothing.
LEMMA ThoseEmpty ==
  ASSUME NEW S PROVE Those(<< >>, S) = << >>
BY FoundSteps

\* Nothing is found in none of a sequence.
LEMMA EmptyPrefix ==
  IsPrefix(<< >>, << >>)
BY DEF IsPrefix

\* A departure moves no block that it need not: whatever node leaves whatever
\* ring, each block keeps its positions on the other nodes, in their order,
\* ahead of the ones it gains.
THEOREM SurvivorsStayCorrect == Spec => SurvivorsStay
<1>1. StoreInv /\ StoreInv' /\ [Next]_vars =>
        [\A id \in NodeId : Leaves(id) =>
          \A block \in Point : \A before \in {Lookup(block)}, now \in {Lookup(block)'} :
             IsPrefix(Those(before, OthersOf(id)), now)]_vars
  <2> SUFFICES ASSUME StoreInv, StoreInv', Next,
                      NEW id \in NodeId, Leaves(id), NEW block \in Point
               PROVE  IsPrefix(Those(Lookup(block), OthersOf(id)), Lookup(block)')
    BY DEF vars
  <2>1. remove_dbs_node(id)
    <3>1. ASSUME NEW i \in NodeId, NEW vids \in VirtualIds, NEW capacity \in Capacity,
                 add_dbs_node(i, vids, capacity)
          PROVE  FALSE
      BY <3>1 DEF add_dbs_node, Leaves
    <3>2. ASSUME NEW i \in NodeId, NEW capacity \in Capacity, update_dbs_node_capacity(i, capacity)
          PROVE  FALSE
      BY <3>2 DEF update_dbs_node_capacity, Leaves
    <3>3. ASSUME NEW i \in NodeId, remove_dbs_node(i)
          PROVE  i = id
      BY <3>3 DEF remove_dbs_node, Leaves
    <3> QED
      BY <3>1, <3>2, <3>3 DEF Next
  <2>2. /\ ring \subseteq Point /\ ring' \subseteq Point /\ Point \subseteq Nat
        /\ ring = DOMAIN virtual_to_real /\ ring' = DOMAIN virtual_to_real'
        /\ \A v \in ring : virtual_to_real[v] \in DOMAIN node_capacities
    BY PointAssumption DEF StoreInv, TypeOK, RingOwned, Point
  <2>3. ring' = OthersOf(id) /\ ring' \subseteq ring
    BY <2>1, <2>2 DEF remove_dbs_node, OthersOf
  <2>4. Usable \cap ring' = Usable'
    <3>1. \A v \in ring' : virtual_to_real'[v] = virtual_to_real[v]
      BY <2>1, <2>2 DEF remove_dbs_node
    <3>2. \A v \in ring' : virtual_to_real[v] \in DOMAIN node_capacities \ {id}
      BY <2>2, <2>3 DEF OthersOf
    <3>3. /\ DOMAIN node_capacities' = DOMAIN node_capacities \ {id}
          /\ \A n \in DOMAIN node_capacities \ {id} : node_capacities'[n] = node_capacities[n]
      BY <2>1 DEF remove_dbs_node
    <3>4. \A v \in ring' : Overloaded(virtual_to_real[v])' <=> Overloaded(virtual_to_real[v])
      BY <3>1, <3>2, <3>3 DEF Overloaded
    <3> QED
      BY <2>3, <3>4 DEF Usable
  <2>5. block \in Nat /\ ring \in SUBSET Nat /\ ring' \in SUBSET Nat
    BY <2>2
  <2> DEFINE b == WalkOn(ring, block)
             w == WalkOn(ring', block)
  <2>6. Lookup(block) = IF ring = {} THEN << >> ELSE Those(b, Usable)
    BY <2>2, LookupIs
  <2>7. Lookup(block)' = IF ring' = {} THEN << >> ELSE Those(w, Usable')
    BY <2>2, LookupNextIs
  <2>8. CASE ring = {}
    <3>1. ring' = {} /\ Lookup(block) = << >> /\ Lookup(block)' = << >>
      BY <2>3, <2>6, <2>7, <2>8
    <3> QED
      BY <3>1, ThoseEmpty, EmptyPrefix
  <2>9. CASE ring # {}
    <3>1. b \in Seq(ring) /\ Len(b) = 5
      BY <2>5, <2>9, WalkSteps
    <3>2. Those(Lookup(block), ring') = Those(b, Usable')
      BY <2>4, <2>6, <2>9, <3>1, ThoseTwice
    <3>3. CASE ring' = {}
      <4>1. Usable' = {}
        BY <3>3 DEF Usable
      <4>2. Those(b, Usable') = << >>
        BY <3>1, <4>1, ThoseNothing
      <4> QED
        BY <2>3, <2>7, <3>2, <3>3, <4>2, EmptyPrefix
    <3>4. CASE ring' # {}
      <4>1. Usable' \in SUBSET ring'
        BY DEF Usable
      <4>2. IsPrefix(Those(b, Usable'), Those(w, Usable'))
        BY <2>3, <2>5, <3>4, <4>1, ThinnedWalk
      <4> QED
        BY <2>3, <2>7, <3>2, <3>4, <4>2
    <3> QED
      BY <3>3, <3>4
  <2> QED
    BY <2>8, <2>9
<1> QED
  BY <1>1, StoreCorrect, PTL DEF Spec, SurvivorsStay

\* Nor does a new node: with virtual ids nobody had, it only pushes the far
\* positions of a block off the end to make room for its own.
THEOREM NewcomersOnlyInsertCorrect == Spec => NewcomersOnlyInsert
<1>1. StoreInv /\ StoreInv' /\ [Next]_vars =>
        [\A id \in NodeId : Joins(id) =>
          \A block \in Point : \A before \in {Lookup(block)}, now \in {Lookup(block)'} :
             IsPrefix(Those(now, ring), before)]_vars
  <2> SUFFICES ASSUME StoreInv, StoreInv', Next,
                      NEW id \in NodeId, Joins(id), NEW block \in Point
               PROVE  IsPrefix(Those(Lookup(block)', ring), Lookup(block))
    BY DEF vars
  <2>1. PICK vids \in VirtualIds, capacity \in Capacity : add_dbs_node(id, vids, capacity)
    <3>1. ASSUME NEW i \in NodeId, NEW vids \in VirtualIds, NEW capacity \in Capacity,
                 add_dbs_node(i, vids, capacity)
          PROVE  i = id
      BY <3>1 DEF add_dbs_node, Joins
    <3>2. ASSUME NEW i \in NodeId, NEW capacity \in Capacity, update_dbs_node_capacity(i, capacity)
          PROVE  FALSE
      BY <3>2 DEF update_dbs_node_capacity, Joins
    <3>3. ASSUME NEW i \in NodeId, remove_dbs_node(i)
          PROVE  FALSE
      BY <3>3 DEF remove_dbs_node, Joins
    <3> QED
      BY <3>1, <3>2, <3>3 DEF Next
  <2>2. /\ ring \subseteq Point /\ ring' \subseteq Point /\ Point \subseteq Nat
        /\ ring = DOMAIN virtual_to_real /\ ring' = DOMAIN virtual_to_real'
        /\ \A v \in ring : virtual_to_real[v] \in DOMAIN node_capacities
    BY PointAssumption DEF StoreInv, TypeOK, RingOwned, Point
  <2>3. /\ ring' = ring \cup vids
        /\ \A v \in ring' : virtual_to_real'[v] = IF v \in vids THEN id ELSE virtual_to_real[v]
    BY <2>1, <2>2 DEF add_dbs_node, Owned
  <2>4. \A v \in ring : v \notin vids
    BY <2>2, <2>3 DEF Joins
  <2>5. Usable' \cap ring = Usable
    <3>1. \A v \in ring : virtual_to_real'[v] = virtual_to_real[v]
      BY <2>3, <2>4
    <3>2. \A v \in ring : virtual_to_real[v] \in DOMAIN node_capacities \ {id}
      BY <2>2 DEF Joins
    <3>3. \A n \in DOMAIN node_capacities \ {id} :
             n \in DOMAIN node_capacities' /\ node_capacities'[n] = node_capacities[n]
      BY <2>1 DEF add_dbs_node
    <3>4. \A v \in ring : Overloaded(virtual_to_real[v])' <=> Overloaded(virtual_to_real[v])
      BY <3>1, <3>2, <3>3 DEF Overloaded
    <3> QED
      BY <2>3, <3>4 DEF Usable
  <2>6. block \in Nat /\ ring \in SUBSET Nat /\ ring' \in SUBSET Nat
    BY <2>2
  <2> DEFINE b == WalkOn(ring', block)
             w == WalkOn(ring, block)
  <2>7. Lookup(block) = IF ring = {} THEN << >> ELSE Those(w, Usable)
    BY <2>2, LookupIs
  <2>8. Lookup(block)' = IF ring' = {} THEN << >> ELSE Those(b, Usable')
    BY <2>2, LookupNextIs
  <2>9. CASE ring' = {}
    <3>1. ring = {} /\ Lookup(block) = << >> /\ Lookup(block)' = << >>
      BY <2>3, <2>7, <2>8, <2>9
    <3> QED
      BY <3>1, ThoseEmpty, EmptyPrefix
  <2>10. CASE ring' # {}
    <3>1. b \in Seq(ring') /\ Len(b) = 5
      BY <2>6, <2>10, WalkSteps
    <3>2. Those(Lookup(block)', ring) = Those(b, Usable)
      BY <2>5, <2>8, <2>10, <3>1, ThoseTwice
    <3>3. CASE ring = {}
      <4>1. Usable = {}
        BY <3>3 DEF Usable
      <4>2. Those(b, Usable) = << >>
        BY <3>1, <4>1, ThoseNothing
      <4> QED
        BY <2>7, <3>2, <3>3, <4>2, EmptyPrefix
    <3>4. CASE ring # {}
      <4>1. Usable \in SUBSET ring
        BY DEF Usable
      <4>2. IsPrefix(Those(b, Usable), Those(w, Usable))
        BY <2>3, <2>6, <3>4, <4>1, ThinnedWalk
      <4> QED
        BY <2>7, <3>2, <3>4, <4>2
    <3> QED
      BY <3>3, <3>4
  <2> QED
    BY <2>9, <2>10
<1> QED
  BY <1>1, StoreCorrect, PTL DEF Spec, NewcomersOnlyInsert

-----------------------------------------------------------------------------
(* The lookup by distance.                                                 *)

\* A remainder is known by any way of writing it.
LEMMA DivisionIsUnique ==
  ASSUME NEW N \in Nat, N # 0, NEW q \in Nat, NEW r \in Nat, r < N
  PROVE  (N * q + r) % N = r
OBVIOUS

\* Counting round a circle of N.
LEMMA NextRemainder ==
  ASSUME NEW N \in Nat, N # 0, NEW k \in Nat
  PROVE  (k + 1) % N = IF k % N = N - 1 THEN 0 ELSE (k % N) + 1
<1> DEFINE q == k \div N
           r == k % N
<1>1. q \in Nat /\ r \in Nat /\ r < N /\ k = N * q + r
  OBVIOUS
<1> HIDE DEF q, r
<1>2. CASE r = N - 1
  <2>1. k + 1 = N * (q + 1) + 0
    BY <1>1, <1>2
  <2>2. (N * (q + 1) + 0) % N = 0
    BY <1>1, DivisionIsUnique
  <2> QED
    BY <1>2, <2>1, <2>2 DEF r
<1>3. CASE r # N - 1
  <2>1. k + 1 = N * q + (r + 1) /\ r + 1 < N /\ r + 1 \in Nat
    BY <1>1, <1>3
  <2>2. (N * q + (r + 1)) % N = r + 1
    BY <1>1, <2>1, DivisionIsUnique
  <2> QED
    BY <1>3, <2>1, <2>2 DEF r
<1> QED
  BY <1>2, <1>3

\* The distance without the division.
LEMMA DistanceIs ==
  ASSUME NEW block \in Point, NEW p \in Point
  PROVE  Distance(block, p) = IF p >= block THEN p - block ELSE p + (MaxPoint + 1) - block
<1> DEFINE M == MaxPoint + 1
<1>1. M \in Nat /\ M # 0 /\ block \in Nat /\ p \in Nat /\ p < M /\ block < M
  BY PointAssumption DEF Point
<1>2. Distance(block, p) = (p + M - block) % M
  BY DEF Distance
<1> HIDE DEF M
<1>3. CASE p >= block
  <2>1. p - block \in Nat /\ p - block < M /\ p + M - block = M * 1 + (p - block)
    BY <1>1, <1>3
  <2>2. (M * 1 + (p - block)) % M = p - block
    BY <1>1, <2>1, DivisionIsUnique
  <2> QED
    BY <1>2, <1>3, <2>1, <2>2
<1>4. CASE p < block
  <2>1. p + M - block \in Nat /\ p + M - block < M /\ p + M - block = M * 0 + (p + M - block)
    BY <1>1, <1>4
  <2>2. (M * 0 + (p + M - block)) % M = p + M - block
    BY <1>1, <2>1, DivisionIsUnique
  <2> QED
    BY <1>1, <1>2, <1>4, <2>1, <2>2 DEF M
<1> QED
  BY <1>1, <1>3, <1>4

\* The positions of the ring nearer to the block than p.
Before(block, p) == {q \in ring : Distance(block, q) < Distance(block, p)}

\* The ring and its parts are finite.
LEMMA RingFinite ==
  ASSUME ring \subseteq Point
  PROVE  /\ IsFiniteSet(ring) /\ Cardinality(ring) \in Nat
         /\ \A S \in SUBSET ring : /\ IsFiniteSet(S)
                                   /\ Cardinality(S) \in Nat
                                   /\ Cardinality(S) <= Cardinality(ring)
<1>1. ring \in SUBSET Nat /\ \A p \in ring : p <= MaxPoint
  BY PointAssumption DEF Point
<1>2. IsFiniteSet(ring)
  BY <1>1, PointAssumption, FS_BoundedSetOfNaturals
<1> QED
  BY <1>2, FS_Subset, FS_CardinalityType

\* A position is the only one with its rank.
LEMMA RankedIs ==
  ASSUME ring \subseteq Point, NEW block \in Point, NEW p \in ring
  PROVE  Ranked(block, Cardinality(Before(block, p))) = p
<1> DEFINE D(q) == Distance(block, q)
<1>1. \A q \in ring : D(q) \in Nat
  BY DistanceIs, PointAssumption DEF Point
<1>2. \A q, r \in ring : D(q) = D(r) => q = r
  BY DistanceIs, PointAssumption DEF Point
<1>3. ASSUME NEW q \in ring, NEW r \in ring, D(q) < D(r)
      PROVE  Cardinality(Before(block, q)) # Cardinality(Before(block, r))
  <2>1. Before(block, r) \in SUBSET ring /\ IsFiniteSet(Before(block, r))
    BY RingFinite DEF Before
  <2>2. Before(block, q) \in SUBSET Before(block, r)
    BY <1>1, <1>3 DEF Before
  <2>3. q \in Before(block, r) /\ q \notin Before(block, q)
    BY <1>1, <1>3 DEF Before
  <2> QED
    BY <2>1, <2>2, <2>3, FS_Subset
<1>4. \A q \in ring : Cardinality(Before(block, q)) = Cardinality(Before(block, p)) => q = p
  <2> TAKE q \in ring
  <2>1. D(q) = D(p) \/ D(q) < D(p) \/ D(p) < D(q)
    BY <1>1
  <2> QED
    BY <1>2, <1>3, <2>1
<1> DEFINE k == Cardinality(Before(block, p))
<1>5. Ranked(block, k) = CHOOSE q \in ring : k = Cardinality(Before(block, q))
  BY DEF Ranked, Before
<1> HIDE DEF k
<1>6. k = Cardinality(Before(block, p)) /\ \A q \in ring : k = Cardinality(Before(block, q)) => q = p
  BY <1>4 DEF k
<1>7. Ranked(block, k) = p
  BY <1>5, <1>6
<1> QED
  BY <1>7 DEF k

\* The first position of a walk has rank 0.
LEMMA FirstRank ==
  ASSUME ring \subseteq Point, ring # {}, NEW block \in Point
  PROVE  Cardinality(Before(block, Geq(ring, block))) = 0
<1> DEFINE v == Geq(ring, block)
<1>1. ring \in SUBSET Nat /\ block \in Nat
  BY PointAssumption DEF Point
<1>2. v \in ring /\ \A q \in ring : /\ v >= block => ~(block <= q /\ q < v)
                                    /\ v < block => v <= q /\ q < block
  BY <1>1, GeqIs
<1> HIDE DEF v
<1>3. ASSUME NEW q \in ring PROVE ~(Distance(block, q) < Distance(block, v))
  <2>1. q \in Point /\ v \in Point
    BY <1>2
  <2>2. q \in 0 .. MaxPoint /\ v \in 0 .. MaxPoint /\ MaxPoint \in Nat
    BY <2>1, PointAssumption DEF Point
  <2>3. Distance(block, q) = (IF q >= block THEN q - block ELSE q + (MaxPoint + 1) - block)
    BY <2>1, DistanceIs
  <2>4. Distance(block, v) = (IF v >= block THEN v - block ELSE v + (MaxPoint + 1) - block)
    BY <2>1, DistanceIs
  <2> QED
    BY <1>1, <1>2, <2>2, <2>3, <2>4
<1>4. Before(block, v) = {}
  BY <1>3 DEF Before
<1> QED
  BY <1>4, FS_EmptySet DEF v

\* Each step of the walk goes to the next rank, and from the last to rank 0.
LEMMA NextRank ==
  ASSUME ring \subseteq Point, NEW block \in Point, NEW p \in ring
  PROVE  Cardinality(Before(block, Gt(ring, p))) =
            IF Cardinality(Before(block, p)) = Cardinality(ring) - 1 THEN 0
            ELSE Cardinality(Before(block, p)) + 1
<1> DEFINE s == Gt(ring, p)
           D(q) == Distance(block, q)
<1>1. ring \in SUBSET Nat /\ ring # {} /\ p \in Nat /\ block \in Nat /\ p \in Point
  BY PointAssumption DEF Point
<1>2. s \in ring /\ \A q \in ring : /\ s > p => ~(p < q /\ q < s)
                                    /\ s <= p => s <= q /\ q <= p
  BY <1>1, GtIs
<1> HIDE DEF s
<1>3. \A q \in ring : q \in 0 .. MaxPoint /\ MaxPoint \in Nat
                      /\ D(q) = (IF q >= block THEN q - block ELSE q + (MaxPoint + 1) - block)
  BY DistanceIs, PointAssumption DEF Point
<1>4. \A q \in ring : D(q) \in Nat
  BY DistanceIs, PointAssumption DEF Point
<1> HIDE DEF D
<1>5. \A q \in ring : Before(block, q) = {r \in ring : D(r) < D(q)}
  BY DEF Before, D
<1>6. CASE D(p) < D(s)
  <2>1. \A q \in ring : D(q) < D(s) <=> (D(q) < D(p) \/ q = p)
    BY <1>1, <1>2, <1>3, <1>6
  <2>2. Before(block, s) = Before(block, p) \cup {p} /\ p \notin Before(block, p)
    BY <1>2, <1>4, <1>5, <2>1
  <2>3. IsFiniteSet(Before(block, p)) /\ Cardinality(Before(block, p)) \in Nat
    BY RingFinite DEF Before
  <2>4. Cardinality(Before(block, s)) = Cardinality(Before(block, p)) + 1
    BY <2>2, <2>3, FS_AddElement
  <2>5. Cardinality(Before(block, s)) <= Cardinality(ring) - 1
    <3>1. Before(block, s) \in SUBSET ring /\ s \notin Before(block, s)
      BY <1>2, <1>4, <1>5
    <3>2. Cardinality(Before(block, s)) # Cardinality(ring)
      BY <1>2, <3>1, RingFinite, FS_Subset
    <3>3. /\ Cardinality(Before(block, s)) \in Nat /\ Cardinality(ring) \in Nat
          /\ Cardinality(Before(block, s)) <= Cardinality(ring)
      BY <3>1, RingFinite
    <3> QED
      BY <3>2, <3>3
  <2>6. Cardinality(ring) \in Nat
    BY RingFinite
  <2> QED
    BY <2>3, <2>4, <2>5, <2>6 DEF s
<1>7. CASE ~(D(p) < D(s))
  <2>1. \A q \in ring : ~(D(q) < D(s)) /\ (D(q) < D(p) <=> q # p)
    BY <1>1, <1>2, <1>3, <1>7
  <2>2. Before(block, s) = {} /\ Before(block, p) = ring \ {p}
    BY <1>2, <1>4, <1>5, <2>1
  <2>3. Cardinality(Before(block, s)) = 0
    BY <2>2, FS_EmptySet
  <2>4. Cardinality(Before(block, p)) = Cardinality(ring) - 1
    BY <2>2, RingFinite, FS_RemoveElement
  <2> QED
    BY <2>3, <2>4 DEF s
<1> QED
  BY <1>6, <1>7

\* The lookup is right by the textbook's definition: the positions nearest the
\* block clockwise, round and round up to five, less those without room.
THEOREM LookupIsNearestCorrect == Spec => []LookupIsNearest
<1>1. StoreInv => LookupIsNearest
  <2> SUFFICES ASSUME StoreInv, NEW block \in Point
               PROVE  Lookup(block) = Nearest(block)
    BY DEF LookupIsNearest
  <2>1. /\ ring \subseteq Point /\ ring \in SUBSET Nat /\ block \in Nat
        /\ \A v \in ring : virtual_to_real[v] \in DOMAIN node_capacities
    BY PointAssumption DEF StoreInv, TypeOK, RingOwned, Point
  <2>2. Lookup(block) = IF ring = {} THEN << >> ELSE Those(WalkOn(ring, block), Usable)
    BY <2>1, LookupIs
  <2>3. CASE ring = {}
    BY <2>2, <2>3 DEF Nearest
  <2>4. CASE ring # {}
    <3>1. Usable = Roomy
      <4>1. \A n \in DOMAIN node_capacities : node_capacities[n] \in Entry
        BY DEF StoreInv, TypeOK
      <4>2. \A n \in DOMAIN node_capacities : Overloaded(n) <=> ~(node_capacities[n].capacity > 0)
        BY <4>1 DEF Overloaded, Entry
      <4> QED
        BY <2>1, <4>2 DEF Usable, Roomy
    <3> DEFINE w == WalkOn(ring, block)
               N == Cardinality(ring)
               rank(p) == Cardinality(Before(block, p))
               five == [i \in 1 .. 5 |-> Ranked(block, (i - 1) % Cardinality(ring))]
    <3>2. /\ w \in Seq(ring) /\ Len(w) = 5
          /\ w[1] = Geq(ring, block)
          /\ \A i \in 1 .. 4 : w[i + 1] = Gt(ring, w[i])
      BY <2>1, <2>4, WalkSteps
    <3>3. \A i \in 1 .. 5 : w[i] \in ring
      BY <2>1, <2>4, WalkSteps
    <3>4. N \in Nat /\ N # 0
      BY <2>1, <2>4, RingFinite, FS_EmptySet
    <3>5. rank(w[1]) = 0
      BY <2>1, <2>4, <3>2, FirstRank
    <3>6. ASSUME NEW i \in 1 .. 4
          PROVE  rank(w[i + 1]) = IF rank(w[i]) = N - 1 THEN 0 ELSE rank(w[i]) + 1
      <4>1. w[i + 1] = Gt(ring, w[i]) /\ w[i] \in ring
        BY <3>2, <3>3
      <4> QED
        BY <2>1, <4>1, NextRank
    <3>7. ASSUME NEW i \in 1 .. 5 PROVE Ranked(block, rank(w[i])) = w[i]
      BY <2>1, <3>3, RankedIs
    <3>8. five = [i \in 1 .. 5 |-> Ranked(block, (i - 1) % N)]
      OBVIOUS
    <3> HIDE DEF w, N, rank, five
    <3>9. rank(w[1]) = 0 % N
      BY <3>4, <3>5
    <3>10. \A i \in 1 .. 4 : rank(w[i]) = (i - 1) % N => rank(w[i + 1]) = i % N
      <4> TAKE i \in 1 .. 4
      <4>1. i - 1 \in Nat /\ (i - 1) + 1 = i
        OBVIOUS
      <4>2. i % N = IF (i - 1) % N = N - 1 THEN 0 ELSE ((i - 1) % N) + 1
        BY <3>4, <4>1, NextRemainder
      <4> QED
        BY <3>6, <4>2
    <3>11. \A i \in 1 .. 5 : rank(w[i]) = (i - 1) % N
      <4>1. rank(w[2]) = 1 % N
        BY <3>9, <3>10
      <4>2. rank(w[3]) = 2 % N
        BY <3>10, <4>1
      <4>3. rank(w[4]) = 3 % N
        BY <3>10, <4>2
      <4>4. rank(w[5]) = 4 % N
        BY <3>10, <4>3
      <4> QED
        BY <3>9, <4>1, <4>2, <4>3, <4>4
    <3>12. \A i \in 1 .. 5 : five[i] = w[i]
      BY <3>7, <3>8, <3>11
    <3>13. five = w
      <4>1. w = [i \in 1 .. 5 |-> w[i]]
        BY <3>2
      <4>2. five = [i \in 1 .. 5 |-> five[i]]
        BY <3>8
      <4> QED
        BY <3>12, <4>1, <4>2
    <3>14. Nearest(block) = Those(five, Roomy)
      BY <2>4 DEF Nearest, five
    <3> QED
      BY <2>2, <2>4, <3>1, <3>13, <3>14 DEF w
  <2> QED
    BY <2>3, <2>4
<1> QED
  BY <1>1, StoreCorrect, PTL
=============================================================================
