-------------------------- MODULE CoreThread_proofs --------------------------
(***************************************************************************)
(* CoreThread, for any owner, whenever it starts, stops and destroys, any  *)
(* number of starts and any actions: until a start() finds an earlier      *)
(* thread still active, Core has one thread, and _running says whether it  *)
(* loops.                                                                  *)
(***************************************************************************)
EXTENDS CoreThread, TLAPS

LEMMA InitCoreThread == Init => CoreThreadInv
<1> SUFFICES ASSUME Init PROVE CoreThreadInv
  OBVIOUS
<1>1. \A t \in Thread : pc[t] = "unborn"
  BY DEF Init
<1>2. TypeOK
  <2>1. _actions \in Seq(Action)
    BY DEF Init
  <2>2. QED
    BY <2>1 DEF Init, TypeOK
<1>3. QED
  BY <1>1, <1>2
     DEF Init, CoreThreadInv, OneThread, RunningAgrees, Looping, Active, Unannounced

LEMMA OwnerStep ==
    ASSUME CoreThreadInv, (\E t \in Thread : Start(t)) \/ Stop \/ JoinReturns \/ Destroy
    PROVE  CoreThreadInv'
<1> USE ThreadAssumption
    DEF CoreThreadInv, TypeOK, OneThread, RunningAgrees, Looping, Active, Unannounced
<1>1. ASSUME NEW t \in Thread, Start(t)
      PROVE  CoreThreadInv'
  <2>1. pc' = [pc EXCEPT ![t] = "entering"]
    BY <1>1 DEF Start, Goes
  <2>2. TypeOK'
    BY <1>1, <2>1 DEF Start
  <2>3. ASSUME ~overlapped' PROVE OneThread' /\ RunningAgrees'
    <3>1. ~overlapped /\ \A u \in Thread : pc[u] \notin Active
      BY <1>1, <2>3 DEF Start
    <3>2. QED
      BY <1>1, <2>1, <3>1 DEF Start
  <2>4. QED
    BY <2>2, <2>3
<1>2. CASE Stop
  BY <1>2 DEF Stop
<1>3. CASE JoinReturns
  BY <1>3 DEF JoinReturns
<1>4. CASE Destroy
  BY <1>4 DEF Destroy
<1>5. QED
  BY <1>1, <1>2, <1>3, <1>4

LEMMA ThreadKeeps ==
    ASSUME CoreThreadInv, NEW t \in Thread, ThreadStep(t)
    PROVE  CoreThreadInv'
<1> USE ThreadAssumption
    DEF CoreThreadInv, TypeOK, OneThread, RunningAgrees, Looping, Active, Unannounced
<1>1. ~overlapped => \A u \in Thread : pc[u] \in Active => u = t
  BY DEF ThreadStep, Enter, Announce, Test, TakeAll, Goes
<1>2. CASE Enter(t)
  BY <1>1, <1>2 DEF Enter, Goes
<1>3. CASE Announce(t)
  BY <1>1, <1>3 DEF Announce, Goes
<1>4. CASE Test(t)
  BY <1>1, <1>4 DEF Test, Goes
<1>5. CASE TakeAll(t)
  BY <1>1, <1>5 DEF TakeAll, Goes
<1>6. QED
  BY <1>2, <1>3, <1>4, <1>5 DEF ThreadStep

LEMMA QueueKeeps ==
    ASSUME CoreThreadInv, NEW action \in Action, queue_action(action)
    PROVE  CoreThreadInv'
BY DEF queue_action, CoreThreadInv, TypeOK, OneThread, RunningAgrees, Looping

\* The life of Core's thread, for every owner (src/src/Core.cpp:20-42, 86-109).
THEOREM CoreThreadCorrect == Spec => []CoreThreadInv
<1>1. CoreThreadInv /\ [Next]_vars => CoreThreadInv'
  <2> SUFFICES ASSUME CoreThreadInv, [Next]_vars PROVE CoreThreadInv'
    OBVIOUS
  <2>1. CASE UNCHANGED vars
    BY <2>1 DEF vars, CoreThreadInv, TypeOK, OneThread, RunningAgrees, Looping
  <2>2. CASE Next
    BY <2>2, OwnerStep, ThreadKeeps, QueueKeeps DEF Next
  <2>3. QED
    BY <2>1, <2>2
<1>2. QED
  BY <1>1, InitCoreThread, PTL DEF Spec
=============================================================================
