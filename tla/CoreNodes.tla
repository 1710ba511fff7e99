----------------------------- MODULE CoreNodes -----------------------------
(***************************************************************************)
(* Core's tables of nodes, and the two threads that may use them           *)
(* (src/src/Core.cpp): the network thread, which looks a packet's source   *)
(* up by address and adds the node if there is none, and the application,  *)
(* which has find_node(id), remove_node and the destructor.                *)
(*                                                                         *)
(* Every operation but remove_node does its work under one lock_guard and  *)
(* is one action, taken when the mutex is free.  What the operations       *)
(* return is a plain pointer into the heap, used after the mutex is        *)
(* released: between find_node and add_node, and while a packet is         *)
(* processed.  The destructor takes no lock and waits for nobody: what the *)
(* network thread asks of Core after it is undefined, and no step here.    *)
(*                                                                         *)
(* remove_node locks _nodes_mutex and then calls find_node, which locks it *)
(* again.  For a std::mutex that is undefined; the builds there are either *)
(* block for ever (glibc) or throw std::system_error (MSVC): Relock.       *)
(***************************************************************************)
CONSTANTS
    Id,      \* the identities packets carry
    Addr,    \* the addresses packets come from
    Object,  \* addresses of heap blocks (bound: nodes allocated at once)
    Relock,  \* "blocks" or "throws"
    Nobody,  \* no thread holds the mutex
    Null     \* nullptr

ASSUME RelockAssumption == Relock \in {"blocks", "throws"}
ASSUME NullAssumption == Null \notin Object

VARIABLES
    heap,     \* the nodes allocated and not freed: object -> its id and addr
    nodes,    \* _nodes: id -> object
    by_addr,  \* _nodes_by_addr: address -> object
    mutex,    \* the thread that holds _nodes_mutex, or Nobody
    pc,       \* what each thread is doing
    arg,      \* what each thread was asked: an id, an address
    held,     \* the pointer each thread works with, outside the mutex
    alive     \* the Core object exists

tables == <<heap, nodes, by_addr>>
vars == <<heap, nodes, by_addr, mutex, pc, arg, held, alive>>

Thread == {"network", "application"}
ASSUME NobodyAssumption == Nobody \notin Thread

Node == [id : Id, addr : Addr]

\* (Mutant of Insert: operator[] instead of insert, the last one wins.)
InsertOver(f, key, value) ==
    [k \in DOMAIN f \cup {key} |-> IF k = key THEN value ELSE f[k]]

\* unordered_map::insert: an entry that is there stays.
Insert(f, key, value) ==
    [k \in DOMAIN f \cup {key} |-> IF k \in DOMAIN f THEN f[k] ELSE value]

Without(f, keys) == [k \in DOMAIN f \ keys |-> f[k]]
Filed(f) == {f[k] : k \in DOMAIN f}

Init ==
    /\ heap = [o \in {} |-> Null]
    /\ nodes = [n \in {} |-> Null]
    /\ by_addr = [a \in {} |-> Null]
    /\ mutex = Nobody
    /\ pc = [t \in Thread |-> "idle"]
    /\ arg \in [Thread -> Node]
    /\ held = [t \in Thread |-> Null]
    /\ alive = TRUE

\* Thread t, asked for what, goes on at next with the pointer object.
Becomes(t, next, what, object) ==
    /\ pc' = [pc EXCEPT ![t] = next]
    /\ arg' = [arg EXCEPT ![t] = what]
    /\ held' = [held EXCEPT ![t] = object]

-----------------------------------------------------------------------------
(* The network thread.                                                     *)

\* _receive: find_node(client_addr).
FindByAddr(what) ==
    /\ alive
    /\ pc["network"] = "idle"
    /\ mutex = Nobody
    /\ IF what.addr \in DOMAIN by_addr
       THEN Becomes("network", "using", what, by_addr[what.addr])
       ELSE Becomes("network", "adding", what, Null)
    /\ UNCHANGED <<tables, mutex, alive>>

\* (Mutant of File: no entry by address for an identity that is known.)
FileNewcomers(object, what) ==
    /\ nodes' = Insert(nodes, what.id, object)
    /\ by_addr' = IF what.id \in DOMAIN nodes THEN by_addr
                  ELSE Insert(by_addr, what.addr, object)

File(object, what) ==
    /\ nodes' = Insert(nodes, what.id, object)
    /\ by_addr' = Insert(by_addr, what.addr, object)

\* _receive: add_node(from_id, client_addr), once the packet is found good.
AddNode(object) ==
    LET what == arg["network"] IN
    /\ alive
    /\ pc["network"] = "adding"
    /\ mutex = Nobody
    /\ object \in Object \ DOMAIN heap
    /\ heap' = Insert(heap, object, what)
    /\ File(object, what)
    /\ Becomes("network", "using", what, object)
    /\ UNCHANGED <<mutex, alive>>

\* ... or the packet is refused before that: an error, or our own identity.
Refuse ==
    /\ pc["network"] = "adding"
    /\ Becomes("network", "idle", arg["network"], Null)
    /\ UNCHANGED <<tables, mutex, alive>>

\* The thread is through with its pointer: _process_packet has returned.
Release(t) ==
    /\ pc[t] = "using"
    /\ Becomes(t, "idle", arg[t], Null)
    /\ UNCHANGED <<tables, mutex, alive>>

-----------------------------------------------------------------------------
(* The application.                                                        *)

\* find_node(id)
FindById(what) ==
    /\ alive
    /\ pc["application"] = "idle"
    /\ mutex = Nobody
    /\ IF what.id \in DOMAIN nodes
       THEN Becomes("application", "using", what, nodes[what.id])
       ELSE Becomes("application", "idle", what, Null)
    /\ UNCHANGED <<tables, mutex, alive>>

\* remove_node(id): locks, and calls find_node.
RemoveNode(what) ==
    /\ alive
    /\ pc["application"] = "idle"
    /\ mutex = Nobody
    /\ mutex' = "application"
    /\ Becomes("application", "relocking", what, Null)
    /\ UNCHANGED <<tables, alive>>

\* Where locking twice throws, the exception leaves remove_node and its
\* lock_guard releases the mutex.  Where it blocks, nothing follows.  Nothing
\* after the call of find_node is ever reached.
RelockThrows ==
    /\ pc["application"] = "relocking"
    /\ Relock = "throws"
    /\ mutex' = Nobody
    /\ Becomes("application", "idle", arg["application"], Null)
    /\ UNCHANGED <<tables, alive>>

\* ~Core, called by the application, wherever the network thread is: deletes
\* what _nodes holds.
Destroy ==
    /\ alive
    /\ pc["application"] = "idle"
    /\ alive' = FALSE
    /\ heap' = Without(heap, Filed(nodes))
    /\ UNCHANGED <<nodes, by_addr, mutex, pc, arg, held>>

-----------------------------------------------------------------------------
Next ==
    \/ \E what \in Node : FindByAddr(what) \/ FindById(what) \/ RemoveNode(what)
    \/ \E object \in Object : AddNode(object)
    \/ Refuse
    \/ \E t \in Thread : Release(t)
    \/ RelockThrows
    \/ Destroy

Spec == Init /\ [][Next]_vars

\* A call that can go on does, the destructor apart.
FairSpec ==
    /\ Spec
    /\ WF_vars(RelockThrows)
    /\ WF_vars(Refuse)
    /\ \A t \in Thread : WF_vars(Release(t))

-----------------------------------------------------------------------------
(* Properties.                                                             *)

TypeOK ==
    /\ heap \in [DOMAIN heap -> Node] /\ DOMAIN heap \subseteq Object
    /\ nodes \in [DOMAIN nodes -> Object] /\ DOMAIN nodes \subseteq Id
    /\ by_addr \in [DOMAIN by_addr -> Object] /\ DOMAIN by_addr \subseteq Addr
    /\ mutex \in Thread \cup {Nobody}
    /\ pc \in [Thread -> {"idle", "adding", "using", "relocking"}]
    /\ arg \in [Thread -> Node]
    /\ held \in [Thread -> Object \cup {Null}]
    /\ alive \in BOOLEAN

\* The two tables agree although only one of them may take a new node: every
\* node is found under its address; under an identity is found a node of that
\* identity, and one is found whenever there is any.
TablesAgree ==
    alive =>
        /\ Filed(by_addr) = DOMAIN heap
        /\ \A a \in DOMAIN by_addr : heap[by_addr[a]].addr = a
        /\ Filed(nodes) \subseteq DOMAIN heap
        /\ \A n \in DOMAIN nodes : heap[nodes[n]].id = n
        /\ \A o \in DOMAIN heap : heap[o].id \in DOMAIN nodes

\* Until ~Core, a pointer in use outside the mutex points to a node that
\* exists and that the next packet from its address will find; and a node about
\* to be added is still unknown.
HeldIsFiled ==
    alive =>
        /\ \A t \in Thread : pc[t] = "using" =>
              held[t] \in DOMAIN heap /\ by_addr[heap[held[t]].addr] = held[t]
        /\ pc["network"] = "adding" => arg["network"].addr \notin DOMAIN by_addr

\* What is filed under an identity or an address stays filed there: a packet
\* that names a known identity from another address takes nothing over.
FirstNodeStays ==
    [][/\ \A n \in DOMAIN nodes : n \in DOMAIN nodes' /\ nodes'[n] = nodes[n]
       /\ \A a \in DOMAIN by_addr : a \in DOMAIN by_addr' /\ by_addr'[a] = by_addr[a]]_vars

\* The inductive invariant: the tables, the pointers that lead into them, and
\* who holds the mutex.
CoreInv ==
    /\ TypeOK
    /\ TablesAgree
    /\ HeldIsFiled
    /\ mutex = (IF pc["application"] = "relocking" THEN "application" ELSE Nobody)
    /\ pc["network"] # "relocking"
    /\ pc["application"] = "relocking" => alive

\* Expected by the documents and refuted by a run.

\* "may join or leave the system at any time": a node that is removed is gone.
RemovedNodesLeave ==
    \A n \in Id :
        pc["application"] = "relocking" /\ arg["application"].id = n
            ~> n \notin DOMAIN nodes
=============================================================================
