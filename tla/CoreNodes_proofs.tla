-------------------------- MODULE CoreNodes_proofs --------------------------
(***************************************************************************)
(* CoreNodes: the invariant of Core's tables and of the pointers its       *)
(* callers hold, up to ~Core, for any identities, addresses and heap, and  *)
(* for both outcomes of locking a mutex twice.                             *)
(***************************************************************************)
EXTENDS CoreNodes, TLAPS

\* What a step of the network thread or of the application does to the three
\* per-thread variables.
LEMMA BecomesType ==
    ASSUME TypeOK, NEW t \in Thread,
           NEW next \in {"idle", "adding", "using", "relocking"},
           NEW what \in Node, NEW object \in Object \cup {Null},
           Becomes(t, next, what, object)
    PROVE  /\ pc' \in [Thread -> {"idle", "adding", "using", "relocking"}]
           /\ arg' \in [Thread -> Node]
           /\ held' \in [Thread -> Object \cup {Null}]
           /\ pc'[t] = next /\ arg'[t] = what /\ held'[t] = object
           /\ \A u \in Thread \ {t} :
                pc'[u] = pc[u] /\ arg'[u] = arg[u] /\ held'[u] = held[u]
BY DEF Becomes, TypeOK

LEMMA InitCore == Init => CoreInv
<1> SUFFICES ASSUME Init PROVE CoreInv
  OBVIOUS
<1>1. TypeOK
  BY DEF Init, TypeOK, Thread
<1>2. TablesAgree
  BY DEF Init, TablesAgree, Filed
<1>3. HeldIsFiled
  BY DEF Init, HeldIsFiled, Thread
<1>4. QED
  BY <1>1, <1>2, <1>3 DEF Init, CoreInv, Thread

\* A step that leaves the tables alone.
LEMMA QuietStep ==
    ASSUME CoreInv, UNCHANGED <<tables, alive>>
    PROVE  TablesAgree'
BY DEF CoreInv, TablesAgree, Filed, tables

LEMMA FindByAddrStep ==
    ASSUME CoreInv, NEW what \in Node, FindByAddr(what)
    PROVE  CoreInv'
<1> USE DEF Thread
<1>1. TablesAgree'
  BY QuietStep DEF FindByAddr
<1>2. CASE what.addr \in DOMAIN by_addr
  <2>1. Becomes("network", "using", what, by_addr[what.addr])
    BY <1>2 DEF FindByAddr
  <2>2. by_addr[what.addr] \in Object \cup {Null}
    BY <1>2 DEF CoreInv, TypeOK
  <2>3. TypeOK'
    BY <2>1, <2>2, BecomesType DEF CoreInv, TypeOK, FindByAddr, tables
  <2>4. HeldIsFiled'
    BY <1>2, <2>1, <2>2, BecomesType DEF CoreInv, HeldIsFiled, TablesAgree, Filed, FindByAddr, tables
  <2>5. QED
    BY <1>1, <2>1, <2>2, <2>3, <2>4, BecomesType DEF CoreInv, FindByAddr
<1>3. CASE what.addr \notin DOMAIN by_addr
  <2>1. Becomes("network", "adding", what, Null)
    BY <1>3 DEF FindByAddr
  <2>2. TypeOK'
    BY <2>1, BecomesType DEF CoreInv, TypeOK, FindByAddr, tables
  <2>3. HeldIsFiled'
    BY <1>3, <2>1, BecomesType DEF CoreInv, HeldIsFiled, FindByAddr, tables
  <2>4. QED
    BY <1>1, <2>1, <2>2, <2>3, BecomesType DEF CoreInv, FindByAddr
<1>4. QED
  BY <1>2, <1>3

\* The new node enters the table by address, and the table by identity if it
\* is the first of its identity.
LEMMA AddNodeStep ==
    ASSUME CoreInv, NEW object \in Object, AddNode(object)
    PROVE  CoreInv'
<1> DEFINE what == arg["network"]
<1> USE DEF Thread
<1>1. /\ what \in Node /\ what.id \in Id /\ what.addr \in Addr
      /\ what.addr \notin DOMAIN by_addr /\ alive /\ object \notin DOMAIN heap
      /\ pc["network"] = "adding" /\ alive' = alive
      /\ pc["application"] # "relocking"
  BY NobodyAssumption DEF CoreInv, TypeOK, HeldIsFiled, AddNode, Node
<1>2. Becomes("network", "using", what, object)
  BY DEF AddNode
<1> HIDE DEF what
<1>3. /\ heap' = [o \in DOMAIN heap \cup {object} |-> IF o \in DOMAIN heap THEN heap[o] ELSE what]
      /\ nodes' = [n \in DOMAIN nodes \cup {what.id} |->
                      IF n \in DOMAIN nodes THEN nodes[n] ELSE object]
      /\ by_addr' = [a \in DOMAIN by_addr \cup {what.addr} |->
                      IF a \in DOMAIN by_addr THEN by_addr[a] ELSE object]
  BY DEF AddNode, File, Insert, what
<1>4. TypeOK'
  <2>1. heap' \in [DOMAIN heap' -> Node] /\ DOMAIN heap' \subseteq Object
    BY <1>1, <1>3 DEF CoreInv, TypeOK
  <2>2. nodes' \in [DOMAIN nodes' -> Object] /\ DOMAIN nodes' \subseteq Id
    BY <1>1, <1>3 DEF CoreInv, TypeOK
  <2>3. by_addr' \in [DOMAIN by_addr' -> Object] /\ DOMAIN by_addr' \subseteq Addr
    BY <1>1, <1>3 DEF CoreInv, TypeOK
  <2>4. QED
    BY <1>1, <1>2, <2>1, <2>2, <2>3, BecomesType DEF CoreInv, TypeOK, AddNode
<1>5. TablesAgree'
  <2>1. Filed(by_addr') = DOMAIN heap'
    <3>1. Filed(by_addr) = DOMAIN heap
      BY <1>1 DEF CoreInv, TablesAgree
    <3>2. ASSUME NEW o \in DOMAIN heap'
          PROVE  \E a \in DOMAIN by_addr' : by_addr'[a] = o
      <4>1. CASE o \in DOMAIN heap
        <5>1. PICK a \in DOMAIN by_addr : by_addr[a] = o
          BY <3>1, <4>1 DEF Filed
        <5>2. a \in DOMAIN by_addr' /\ by_addr'[a] = o
          BY <1>3, <5>1
        <5>3. QED
          BY <5>2
      <4>2. CASE o = object
        <5>1. what.addr \in DOMAIN by_addr' /\ by_addr'[what.addr] = o
          BY <1>1, <1>3, <4>2
        <5>2. QED
          BY <5>1
      <4>3. QED
        BY <1>3, <4>1, <4>2
    <3>3. ASSUME NEW a \in DOMAIN by_addr'
          PROVE  by_addr'[a] \in DOMAIN heap'
      BY <1>1, <1>3, <3>1 DEF Filed
    <3>4. QED
      BY <3>2, <3>3 DEF Filed
  <2>2. \A a \in DOMAIN by_addr' : heap'[by_addr'[a]].addr = a
    BY <1>1, <1>3 DEF CoreInv, TablesAgree, Filed
  <2>3. Filed(nodes') \subseteq DOMAIN heap'
    BY <1>1, <1>3 DEF CoreInv, TablesAgree, Filed
  <2>4. \A n \in DOMAIN nodes' : heap'[nodes'[n]].id = n
    BY <1>1, <1>3 DEF CoreInv, TablesAgree, Filed
  <2>5. \A o \in DOMAIN heap' : heap'[o].id \in DOMAIN nodes'
    BY <1>1, <1>3 DEF CoreInv, TablesAgree, Filed
  <2>6. QED
    BY <2>1, <2>2, <2>3, <2>4, <2>5 DEF TablesAgree, Filed
<1>6. HeldIsFiled'
  <2>1. pc'["network"] = "using" /\ held'["network"] = object
    BY <1>1, <1>2, BecomesType DEF CoreInv
  <2>2. object \in DOMAIN heap' /\ by_addr'[heap'[object].addr] = object
    BY <1>1, <1>3
  <2>3. /\ pc'["application"] = pc["application"]
        /\ held'["application"] = held["application"]
    BY <1>1, <1>2, BecomesType DEF CoreInv
  <2>4. ASSUME pc["application"] = "using"
        PROVE  /\ held["application"] \in DOMAIN heap'
               /\ by_addr'[heap'[held["application"]].addr] = held["application"]
    <3>1. /\ held["application"] \in DOMAIN heap
          /\ by_addr[heap[held["application"]].addr] = held["application"]
      BY <1>1, <2>4 DEF CoreInv, HeldIsFiled
    <3>2. heap[held["application"]].addr \in DOMAIN by_addr
      BY <1>1, <3>1 DEF CoreInv, TablesAgree, Filed
    <3>3. QED
      BY <1>3, <3>1, <3>2
  <2>5. QED
    BY <1>1, <2>1, <2>2, <2>3, <2>4 DEF HeldIsFiled
<1>7. /\ mutex' = mutex
      /\ pc'["application"] = pc["application"]
      /\ pc'["network"] = "using"
  BY <1>1, <1>2, BecomesType DEF CoreInv, AddNode
<1>8. QED
  BY <1>1, <1>4, <1>5, <1>6, <1>7 DEF CoreInv

LEMMA RefuseStep ==
    ASSUME CoreInv, Refuse
    PROVE  CoreInv'
<1> USE DEF Thread
<1>1. arg["network"] \in Node /\ Becomes("network", "idle", arg["network"], Null)
  BY DEF CoreInv, TypeOK, Refuse
<1>2. TypeOK'
  BY <1>1, BecomesType DEF CoreInv, TypeOK, Refuse, tables
<1>3. HeldIsFiled'
  BY <1>1, BecomesType DEF CoreInv, HeldIsFiled, Refuse, tables
<1>4. QED
  BY <1>1, <1>2, <1>3, QuietStep, BecomesType DEF CoreInv, Refuse

LEMMA ReleaseStep ==
    ASSUME CoreInv, NEW t \in Thread, Release(t)
    PROVE  CoreInv'
<1>1. arg[t] \in Node /\ Becomes(t, "idle", arg[t], Null)
  BY DEF CoreInv, TypeOK, Release
<1>2. TypeOK'
  BY <1>1, BecomesType DEF CoreInv, TypeOK, Release, tables
<1>3. HeldIsFiled'
  BY <1>1, BecomesType DEF CoreInv, HeldIsFiled, Release, tables, Thread
<1>4. QED
  BY <1>1, <1>2, <1>3, QuietStep, BecomesType DEF CoreInv, Release, Thread

LEMMA FindByIdStep ==
    ASSUME CoreInv, NEW what \in Node, FindById(what)
    PROVE  CoreInv'
<1> USE DEF Thread
<1>1. TablesAgree'
  BY QuietStep DEF FindById
<1>2. CASE what.id \in DOMAIN nodes
  <2>1. Becomes("application", "using", what, nodes[what.id])
    BY <1>2 DEF FindById
  <2>2. nodes[what.id] \in Object \cup {Null}
    BY <1>2 DEF CoreInv, TypeOK
  <2>3. TypeOK'
    BY <2>1, <2>2, BecomesType DEF CoreInv, TypeOK, FindById, tables
  <2>4. /\ nodes[what.id] \in DOMAIN heap
        /\ by_addr[heap[nodes[what.id]].addr] = nodes[what.id]
    BY <1>2 DEF CoreInv, TablesAgree, Filed, FindById
  <2>5. HeldIsFiled'
    BY <2>1, <2>2, <2>4, BecomesType DEF CoreInv, HeldIsFiled, FindById, tables
  <2>6. QED
    BY <1>1, <2>1, <2>2, <2>3, <2>5, BecomesType DEF CoreInv, FindById
<1>3. CASE what.id \notin DOMAIN nodes
  <2>1. Becomes("application", "idle", what, Null)
    BY <1>3 DEF FindById
  <2>2. TypeOK'
    BY <2>1, BecomesType DEF CoreInv, TypeOK, FindById, tables
  <2>3. HeldIsFiled'
    BY <2>1, BecomesType DEF CoreInv, HeldIsFiled, FindById, tables
  <2>4. QED
    BY <1>1, <2>1, <2>2, <2>3, BecomesType DEF CoreInv, FindById
<1>4. QED
  BY <1>2, <1>3

LEMMA RemoveNodeStep ==
    ASSUME CoreInv, NEW what \in Node, RemoveNode(what)
    PROVE  CoreInv'
<1> USE DEF Thread
<1>1. Becomes("application", "relocking", what, Null)
  BY DEF RemoveNode
<1>2. TypeOK'
  BY <1>1, BecomesType DEF CoreInv, TypeOK, RemoveNode, tables
<1>3. HeldIsFiled'
  BY <1>1, BecomesType DEF CoreInv, HeldIsFiled, RemoveNode, tables
<1>4. QED
  BY <1>1, <1>2, <1>3, QuietStep, BecomesType DEF CoreInv, RemoveNode

LEMMA RelockThrowsStep ==
    ASSUME CoreInv, RelockThrows
    PROVE  CoreInv'
<1> USE DEF Thread
<1>1. /\ arg["application"] \in Node
      /\ Becomes("application", "idle", arg["application"], Null)
  BY DEF CoreInv, TypeOK, RelockThrows
<1>2. TypeOK'
  BY <1>1, BecomesType DEF CoreInv, TypeOK, RelockThrows, tables
<1>3. HeldIsFiled'
  BY <1>1, BecomesType DEF CoreInv, HeldIsFiled, RelockThrows, tables
<1>4. QED
  BY <1>1, <1>2, <1>3, QuietStep, BecomesType DEF CoreInv, RelockThrows

LEMMA DestroyStep ==
    ASSUME CoreInv, Destroy
    PROVE  CoreInv'
<1>1. TypeOK'
  BY DEF CoreInv, TypeOK, Destroy, Without
<1>2. TablesAgree'
  BY DEF TablesAgree, Destroy
<1>3. HeldIsFiled'
  BY DEF CoreInv, HeldIsFiled, Destroy, Thread
<1>4. QED
  BY <1>1, <1>2, <1>3 DEF CoreInv, Destroy, Thread

LEMMA NextCore == CoreInv /\ [Next]_vars => CoreInv'
<1> SUFFICES ASSUME CoreInv, [Next]_vars PROVE CoreInv'
  OBVIOUS
<1>1. CASE UNCHANGED vars
  BY <1>1 DEF vars, CoreInv, TypeOK, TablesAgree, HeldIsFiled, Filed
<1>2. CASE Next
  BY <1>2, FindByAddrStep, FindByIdStep, RemoveNodeStep, AddNodeStep, RefuseStep,
     ReleaseStep, RelockThrowsStep, DestroyStep DEF Next
<1>3. QED
  BY <1>1, <1>2

\* Until ~Core its two tables agree, and a pointer held outside the mutex leads
\* to a node that is in them (src/src/Core.cpp:44-73, src/src/UDPNetwork.cpp:327-380).
THEOREM CoreCorrect == Spec => []CoreInv
BY InitCore, NextCore, PTL DEF Spec

\* Nothing that is filed is ever taken over: insert never overwrites, and the
\* erasing lines of remove_node are never reached (src/src/Core.cpp:47-57).
THEOREM FirstNodeStaysCorrect == Spec => FirstNodeStays
<1> DEFINE Stays == /\ \A n \in DOMAIN nodes : n \in DOMAIN nodes' /\ nodes'[n] = nodes[n]
                    /\ \A a \in DOMAIN by_addr : a \in DOMAIN by_addr' /\ by_addr'[a] = by_addr[a]
<1>1. [Next]_vars => [Stays]_vars
  <2> SUFFICES ASSUME [Next]_vars PROVE Stays
    OBVIOUS
  <2>1. ASSUME NEW object \in Object, AddNode(object)
        PROVE  Stays
    BY <2>1 DEF AddNode, File, Insert
  <2>2. CASE UNCHANGED <<nodes, by_addr>>
    BY <2>2
  <2>3. QED
    BY <2>1, <2>2 DEF Next, vars, tables, FindByAddr, FindById, RemoveNode, Refuse,
       Release, RelockThrows, Destroy
<1>2. QED
  BY <1>1, PTL DEF Spec, FirstNodeStays
=============================================================================
