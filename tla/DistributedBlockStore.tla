----------------------- MODULE DistributedBlockStore -----------------------
(***************************************************************************)
(* The consistent-hashing ring that maps a block to the nodes that store   *)
(* it (src/src/DistributedBlockStore.cpp).  Each real node owns a set of   *)
(* virtual ids on the ring; a block goes to the five positions that follow *)
(* its id, less those whose owner is overloaded.                           *)
(*                                                                         *)
(* The three containers of the class are the three variables; the const    *)
(* lookup is the operator Lookup over them.  A vector of virtual ids is    *)
(* the set of its elements: inserting one twice changes nothing.           *)
(***************************************************************************)
EXTENDS Naturals, Sequences, FiniteSets, SequencesExt

CONSTANTS
    MaxPoint,   \* the largest id on the ring (2^64 - 1 in the code)
    NodeId,     \* the ids of real nodes
    Self,       \* the node the store is built for
    Capacity,   \* the capacities nodes announce
    MaxVirtual  \* bound: virtual ids announced at once

ASSUME PointAssumption == MaxPoint \in Nat /\ MaxVirtual \in Nat
ASSUME NodeAssumption == Self \in NodeId /\ Capacity \subseteq Nat

\* The positions of the ring, and the ids of blocks.
Point == 0 .. MaxPoint
VirtualIds == {vids \in SUBSET Point : Cardinality(vids) <= MaxVirtual}

VARIABLES
    ring,             \* the virtual ids, ordered
    virtual_to_real,  \* virtual id -> the node that owns it
    node_capacities   \* node -> its capacity and its usage

vars == <<ring, virtual_to_real, node_capacities>>

-----------------------------------------------------------------------------
(* The lookup.                                                             *)

Least(S) == CHOOSE p \in S : \A q \in S : p <= q

\* (Mutant of LowerBound: std::set::upper_bound.)
UpperBound ==
    [p \in Point |->
        LET later == {q \in ring : q > p}
        IN  IF later # {} THEN Least(later) ELSE Least(ring)]

\* (Mutant of LowerBound: the position is chosen by the size of the ring.)
ByIndex ==
    [p \in Point |->
        CHOOSE v \in ring : p % Cardinality(ring) = Cardinality({q \in ring : q < v})]

\* The ring position at or after p, wrapping at the end of the ring.
LowerBound ==
    [p \in Point |->
        LET later == {q \in ring : q >= p}
        IN  IF later # {} THEN Least(later) ELSE Least(ring)]

\* ++it, wrapping at the end.
After ==
    [p \in Point |->
        LET later == {q \in ring : q > p}
        IN  IF later # {} THEN Least(later) ELSE Least(ring)]

\* The five positions the loop visits, on a ring that is not empty.  A ring
\* with fewer positions is gone round more than once.
Walk(block) ==
    LET p1 == LowerBound[block]
        p2 == After[p1]
        p3 == After[p2]
        p4 == After[p3]
        p5 == After[p4]
    IN  << p1, p2, p3, p4, p5 >>

\* check_node_overloaded: an unknown node is taken to have room.
Overloaded(id) ==
    /\ id \in DOMAIN node_capacities
    /\ node_capacities[id].usage >= node_capacities[id].capacity

\* Those elements of seq, in its order, that are in S (SelectSeq, in a form
\* that can be proved about).
Those(seq, S) ==
    LET found[i \in 0 .. Len(seq)] ==
            IF i = 0 THEN << >>
            ELSE IF seq[i] \in S THEN Append(found[i - 1], seq[i])
            ELSE found[i - 1]
    IN  found[Len(seq)]

Usable == {p \in ring : ~Overloaded(virtual_to_real[p])}

\* get_dbs_nodes_for_block: virtual ids, not the nodes behind them.
Lookup(block) == IF ring = {} THEN << >> ELSE Those(Walk(block), Usable)

-----------------------------------------------------------------------------
(* The operations.                                                         *)

\* A node's figures when it is added: nothing ever records usage.
Figures(capacity) == [capacity |-> capacity, usage |-> 0]

\* The constructor.
Init ==
    \E vids \in VirtualIds, capacity \in Capacity :
        /\ ring = vids
        /\ virtual_to_real = [v \in vids |-> Self]
        /\ node_capacities = [n \in {Self} |-> Figures(capacity)]

\* virtual_to_real[vid] = id: the last owner of a virtual id has it.
Owned(vids, id) ==
    [v \in DOMAIN virtual_to_real \cup vids |->
        IF v \in vids THEN id ELSE virtual_to_real[v]]

add_dbs_node(id, vids, capacity) ==
    /\ ring' = ring \cup vids
    /\ virtual_to_real' = Owned(vids, id)
    /\ node_capacities' =
          [n \in DOMAIN node_capacities \cup {id} |->
              IF n = id THEN Figures(capacity) ELSE node_capacities[n]]

\* (Mutant of remove_dbs_node: the ring keeps the virtual ids.)
RemoveFromMapsOnly(id) ==
    LET mine == {v \in DOMAIN virtual_to_real : virtual_to_real[v] = id} IN
    /\ UNCHANGED ring
    /\ virtual_to_real' = [v \in DOMAIN virtual_to_real \ mine |-> virtual_to_real[v]]
    /\ node_capacities' = [n \in DOMAIN node_capacities \ {id} |-> node_capacities[n]]

remove_dbs_node(id) ==
    LET mine == {v \in DOMAIN virtual_to_real : virtual_to_real[v] = id} IN
    /\ ring' = ring \ mine
    /\ virtual_to_real' = [v \in DOMAIN virtual_to_real \ mine |-> virtual_to_real[v]]
    /\ node_capacities' = [n \in DOMAIN node_capacities \ {id} |-> node_capacities[n]]

\* Ignored for a node that is not known.
update_dbs_node_capacity(id, capacity) ==
    /\ id \in DOMAIN node_capacities
    /\ node_capacities' = [node_capacities EXCEPT ![id].capacity = capacity]
    /\ UNCHANGED <<ring, virtual_to_real>>

Next ==
    \E id \in NodeId :
        \/ \E vids \in VirtualIds, capacity \in Capacity : add_dbs_node(id, vids, capacity)
        \/ remove_dbs_node(id)
        \/ \E capacity \in Capacity : update_dbs_node_capacity(id, capacity)

Spec == Init /\ [][Next]_vars

-----------------------------------------------------------------------------
(* Properties.                                                             *)

\* Nothing records usage.
Entry == [capacity : Nat, usage : {0}]

TypeOK ==
    /\ ring \subseteq Point
    /\ virtual_to_real \in [DOMAIN virtual_to_real -> NodeId]
    /\ node_capacities \in [DOMAIN node_capacities -> Entry]
    /\ DOMAIN node_capacities \subseteq NodeId

\* The three containers agree after any sequence of joins, re-joins, thefts of
\* a virtual id and departures: virtual_to_real.at(*it) in the lookup never
\* throws, and check_node_overloaded never has to assume anything.
RingOwned ==
    /\ ring = DOMAIN virtual_to_real
    /\ \A v \in ring : virtual_to_real[v] \in DOMAIN node_capacities

\* So every position a lookup looks at has an owner with figures.
WalkOwned ==
    ring # {} => \A block \in Point : \A i \in 1 .. 5 :
        /\ Walk(block)[i] \in DOMAIN virtual_to_real
        /\ virtual_to_real[Walk(block)[i]] \in DOMAIN node_capacities

\* Types and agreement, inductive.
StoreInv == TypeOK /\ RingOwned

\* The lookup against its definition by distance: the ring counted clockwise
\* from the block, round and round up to five positions, and of those the
\* ones whose node announced any capacity (usage stays 0).
Distance(block, p) == (p + (MaxPoint + 1) - block) % (MaxPoint + 1)

Ranked(block, k) ==
    CHOOSE p \in ring :
        k = Cardinality({q \in ring : Distance(block, q) < Distance(block, p)})

Roomy == {p \in ring : node_capacities[virtual_to_real[p]].capacity > 0}

Nearest(block) ==
    LET five == [i \in 1 .. 5 |-> Ranked(block, (i - 1) % Cardinality(ring))]
    IN  IF ring = {} THEN << >> ELSE Those(five, Roomy)

LookupIsNearest == \A block \in Point : Lookup(block) = Nearest(block)

\* What makes the hashing consistent.  When a node leaves, every block keeps
\* the positions it had on other nodes, in their order, ahead of any new ones.
OthersOf(id) == {v \in ring : virtual_to_real[v] # id}
Leaves(id) == id \in DOMAIN node_capacities /\ id \notin DOMAIN node_capacities'
SurvivorsStay ==
    [][\A id \in NodeId : Leaves(id) =>
          \A block \in Point : \A before \in {Lookup(block)}, now \in {Lookup(block)'} :
             IsPrefix(Those(before, OthersOf(id)), now)]_vars

\* When a new node comes with unclaimed virtual ids, a block only loses
\* positions from the far end to make room for the newcomer's.
Joins(id) ==
    /\ id \notin DOMAIN node_capacities
    /\ id \in DOMAIN node_capacities'
    /\ \A v \in DOMAIN virtual_to_real' : virtual_to_real'[v] = id => v \notin ring
NewcomersOnlyInsert ==
    [][\A id \in NodeId : Joins(id) =>
          \A block \in Point : \A before \in {Lookup(block)}, now \in {Lookup(block)'} :
             IsPrefix(Those(now, ring), before)]_vars
=============================================================================
