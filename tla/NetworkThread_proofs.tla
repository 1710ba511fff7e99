------------------------ MODULE NetworkThread_proofs ------------------------
(***************************************************************************)
(* NetworkThread, for any owner, whenever it starts, stops and destroys,   *)
(* and any number of starts: until a start() finds an earlier thread still *)
(* active, the object has one thread at a time, the socket in the member   *)
(* is that thread's, and nothing of it is left when it is over.            *)
(***************************************************************************)
EXTENDS NetworkThread, TLAPS

LEMMA InitLife == Init => LifeInv
BY ThreadAssumption
   DEF Init, LifeInv, PointerInv, SocketInv, TypeOK, At, Active, Unannounced

\* While the owner is in no call and _running is unset, an active thread is on
\* its way to its loop; a start that does not overlap finds none at all.
LEMMA CallsFind ==
    ASSUME LifeInv, ~overlapped, owner = "idle", ~_running
    PROVE  \A t \in Thread : pc[t] \in Active => pc[t] \in Unannounced
BY ThreadAssumption DEF LifeInv, PointerInv, TypeOK, At, Active, Unannounced

LEMMA OwnerStep ==
    ASSUME LifeInv,
           \/ \E t \in Thread : Start(t)
           \/ Stop("stopping") \/ Stop("destroying") \/ JoinReturns \/ DestroyStopped
    PROVE  LifeInv'
<1> USE ThreadAssumption
    DEF LifeInv, PointerInv, SocketInv, TypeOK, At, Active, Unannounced, sockets
<1>1. ASSUME NEW t \in Thread, Start(t)
      PROVE  LifeInv'
  <2>1. pc' = [pc EXCEPT ![t] = "socket"]
    BY <1>1 DEF Start, Goes
  <2>2. TypeOK'
    BY <1>1, <2>1 DEF Start
  <2>3. ASSUME ~overlapped' PROVE PointerInv' /\ SocketInv'
    <3>1. ~overlapped /\ \A u \in Thread : pc[u] \notin Active
      BY <1>1, <2>3 DEF Start
    <3>2. QED
      BY <1>1, <2>1, <3>1 DEF Start
  <2>4. QED
    BY <2>2, <2>3
<1>2. ASSUME NEW next \in {"stopping", "destroying"}, Stop(next)
      PROVE  LifeInv'
  BY <1>2 DEF Stop
<1>3. CASE JoinReturns
  BY <1>3 DEF JoinReturns
<1>4. CASE DestroyStopped
  BY <1>4 DEF DestroyStopped
<1>5. QED
  BY <1>1, <1>2, <1>3, <1>4

LEMMA ThreadLife ==
    ASSUME LifeInv, NEW t \in Thread, ThreadStep(t)
    PROVE  LifeInv'
<1> USE ThreadAssumption
    DEF LifeInv, PointerInv, SocketInv, TypeOK, At, Active, Unannounced, sockets
<1>1. ~overlapped => t = _main_thread
  BY DEF ThreadStep, CreateSocket, SocketFails, Bind, BindFails, GiveUp, Announce, LeaveLoop,
         Close, Goes
<1>2. CASE CreateSocket(t)
  BY <1>1, <1>2 DEF CreateSocket, Goes
<1>3. CASE SocketFails(t)
  BY <1>1, <1>3 DEF SocketFails, Goes
<1>4. CASE Bind(t)
  BY <1>1, <1>4 DEF Bind, Goes
<1>5. CASE BindFails(t)
  BY <1>1, <1>5 DEF BindFails, Goes, Shutdown
<1>6. CASE GiveUp(t)
  BY <1>1, <1>6 DEF GiveUp, Goes, Shutdown
<1>7. CASE Announce(t)
  BY <1>1, <1>7 DEF Announce, Goes
<1>8. CASE LeaveLoop(t)
  BY <1>1, <1>8 DEF LeaveLoop, Goes
<1>9. CASE Close(t)
  BY <1>1, <1>9 DEF Close, Goes, Shutdown
<1>10. QED
  BY <1>2, <1>3, <1>4, <1>5, <1>6, <1>7, <1>8, <1>9 DEF ThreadStep

\* The life of the thread, for every owner (src/src/UDPNetwork.cpp:22-141).
THEOREM LifeCorrect == Spec => []LifeInv
<1>1. LifeInv /\ [Next]_vars => LifeInv'
  <2> SUFFICES ASSUME LifeInv, [Next]_vars PROVE LifeInv'
    OBVIOUS
  <2>1. CASE UNCHANGED vars
    BY <2>1 DEF vars, LifeInv, PointerInv, SocketInv, TypeOK, At
  <2>2. CASE Next
    BY <2>2, OwnerStep, ThreadLife DEF Next
  <2>3. QED
    BY <2>1, <2>2
<1>2. QED
  BY <1>1, InitLife, PTL DEF Spec

\* The port is free again when the thread has ended, however it ended: the
\* object can be started once more (src/src/UDPNetwork.cpp:76-106, 412-429).
THEOREM PortReleasedCorrect == Spec => []PortReleased
<1>1. LifeInv => PortReleased
  BY ThreadAssumption
     DEF LifeInv, PointerInv, SocketInv, TypeOK, At, Active, Unannounced, PortReleased
<1>2. QED
  BY <1>1, LifeCorrect, PTL

\* What the loop sends and receives goes through a socket that has the port,
\* a stop() and a destructor that came too early included
\* (src/src/UDPNetwork.cpp:94-141).
THEOREM LoopHasSocketCorrect == Spec => []LoopHasSocket
<1>1. LifeInv => LoopHasSocket
  BY ThreadAssumption
     DEF LifeInv, PointerInv, SocketInv, TypeOK, At, Active, Unannounced, LoopHasSocket
<1>2. QED
  BY <1>1, LifeCorrect, PTL

\* Only a thread that has not announced itself outlives the object
\* (src/src/UDPNetwork.cpp:22-25, 108).
THEOREM ThreadEndsFirstCorrect == Spec => ThreadEndsFirst
<1> DEFINE Leaves == owner # "gone" /\ owner' = "gone" /\ ~overlapped =>
                        \A t \in Thread : pc[t] \in Active => pc[t] \in Unannounced
<1>1. LifeInv /\ [Next]_vars => [Leaves]_vars
  <2> SUFFICES ASSUME LifeInv, Next, owner # "gone", owner' = "gone", ~overlapped
               PROVE  \A t \in Thread : pc[t] \in Active => pc[t] \in Unannounced
    BY DEF vars
  <2>1. CASE DestroyStopped
    BY <2>1, CallsFind DEF DestroyStopped
  <2>2. CASE JoinReturns
    BY <2>2, ThreadAssumption
       DEF JoinReturns, LifeInv, PointerInv, TypeOK, At, Active, Unannounced
  <2>3. QED
    BY <2>1, <2>2 DEF Next, Start, Stop, ThreadStep, CreateSocket, SocketFails, Bind, BindFails,
       GiveUp, Announce, LeaveLoop, Close
<1>2. QED
  BY <1>1, LifeCorrect, PTL DEF Spec, ThreadEndsFirst
=============================================================================
