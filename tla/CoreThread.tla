----------------------------- MODULE CoreThread -----------------------------
(***************************************************************************)
(* Core's own thread and its queue of actions: start, stop and the         *)
(* destructor, called by the owner, queue_action, called by anyone, and    *)
(* _main_loop (src/src/Core.cpp).                                          *)
(*                                                                         *)
(* Unlike UDPNetwork, start() does not look at _running; the new thread    *)
(* does, and gives up if it is set.  stop() clears it and joins, whether   *)
(* the thread has set it or not, and the destructor does neither.  The     *)
(* owner may call whenever it is in no other call: nothing in the          *)
(* interface tells it how far the thread has got.                          *)
(*                                                                         *)
(* The wait of the loop ends with an action or after 100ms, and then takes *)
(* all that is queued, in one critical section of _action_mutex; so is     *)
(* queue_action one.  What an action does is not written yet.              *)
(***************************************************************************)
EXTENDS Naturals, Sequences

CONSTANTS
    Thread,    \* the threads start() may create (bound: how many)
    Action,    \* the actions that are queued
    MaxQueue,  \* bound: actions waiting at once
    None       \* no thread

ASSUME ThreadAssumption == None \notin Thread
ASSUME QueueAssumption == MaxQueue \in Nat

VARIABLES
    _running,
    _thread,   \* the thread the handle is attached to, or None
    _actions,  \* the queue
    pc,        \* where each thread is
    owner,     \* what the owner is in
    overlapped \* history: a start() found an earlier thread still active

vars == <<_running, _thread, _actions, pc, owner, overlapped>>

Unannounced == {"entering", "announcing"}
Active == Unannounced \cup {"testing", "waiting"}

Init ==
    /\ _running = FALSE
    /\ _thread = None
    /\ _actions = << >>
    /\ pc = [t \in Thread |-> "unborn"]
    /\ owner = "idle"
    /\ overlapped = FALSE

Goes(t, from, to) == pc[t] = from /\ pc' = [pc EXCEPT ![t] = to]

Looping(t) == pc[t] \in {"testing", "waiting"}

-----------------------------------------------------------------------------
(* The owner.                                                              *)

\* start: the handle lets go of the thread it had.
Start(t) ==
    /\ owner = "idle"
    /\ Goes(t, "unborn", "entering")
    /\ _thread' = t
    /\ overlapped' = (overlapped \/ \E u \in Thread : pc[u] \in Active)
    /\ UNCHANGED <<_running, _actions, owner>>

\* stop, up to the join.
Stop ==
    /\ owner = "idle"
    /\ _running' = FALSE
    /\ owner' = "stopping"
    /\ UNCHANGED <<_thread, _actions, pc, overlapped>>

\* join returns: the thread is done, or the handle has none (boost::thread
\* by default does not mind).
JoinReturns ==
    /\ owner = "stopping"
    /\ \A t \in Thread : t = _thread => pc[t] = "done"
    /\ _thread' = None
    /\ owner' = "idle"
    /\ UNCHANGED <<_running, _actions, pc, overlapped>>

\* ~Core: the handle lets go of its thread, if it has one.
Destroy ==
    /\ owner = "idle"
    /\ owner' = "gone"
    /\ _thread' = None
    /\ UNCHANGED <<_running, _actions, pc, overlapped>>

\* queue_action, from any thread.
queue_action(action) ==
    /\ owner # "gone"
    /\ Len(_actions) < MaxQueue
    /\ _actions' = Append(_actions, action)
    /\ UNCHANGED <<_running, _thread, pc, owner, overlapped>>

-----------------------------------------------------------------------------
(* The thread: _main_loop.                                                 *)

\* if (_running): "Start called but already running".
Enter(t) ==
    /\ Goes(t, "entering", IF _running THEN "done" ELSE "announcing")
    /\ UNCHANGED <<_running, _thread, _actions, owner, overlapped>>

\* (Mutant of Announce: _running is left as it was.)
AnnounceNothing(t) ==
    /\ Goes(t, "announcing", "testing")
    /\ UNCHANGED <<_running, _thread, _actions, owner, overlapped>>

\* _running = true
Announce(t) ==
    /\ Goes(t, "announcing", "testing")
    /\ _running' = TRUE
    /\ UNCHANGED <<_thread, _actions, owner, overlapped>>

\* while (_running)
Test(t) ==
    /\ Goes(t, "testing", IF _running THEN "waiting" ELSE "done")
    /\ UNCHANGED <<_running, _thread, _actions, owner, overlapped>>

\* (Mutant of TakeAll: one action for one wakeup.)
TakeOne(t) ==
    /\ Goes(t, "waiting", "testing")
    /\ _actions' = IF _actions = << >> THEN << >> ELSE Tail(_actions)
    /\ UNCHANGED <<_running, _thread, owner, overlapped>>

\* (Mutant of TakeAll: waits for an action without a time limit.)
TakeSome(t) ==
    /\ Goes(t, "waiting", "testing")
    /\ _actions # << >>
    /\ _actions' = << >>
    /\ UNCHANGED <<_running, _thread, owner, overlapped>>

\* wait_for ends, and the loop under it takes what there is.
TakeAll(t) ==
    /\ Goes(t, "waiting", "testing")
    /\ _actions' = << >>
    /\ UNCHANGED <<_running, _thread, owner, overlapped>>

-----------------------------------------------------------------------------
ThreadStep(t) == Enter(t) \/ Announce(t) \/ Test(t) \/ TakeAll(t)

Next ==
    \/ \E t \in Thread : Start(t) \/ ThreadStep(t)
    \/ Stop \/ JoinReturns \/ Destroy
    \/ \E action \in Action : queue_action(action)

Spec == Init /\ [][Next]_vars

\* The scheduler runs every thread, and join returns once its thread is done.
FairSpec ==
    /\ Spec
    /\ WF_vars(JoinReturns)
    /\ \A t \in Thread : WF_vars(ThreadStep(t))

-----------------------------------------------------------------------------
(* Properties.                                                             *)

TypeOK ==
    /\ _running \in BOOLEAN
    /\ _thread \in Thread \cup {None}
    /\ _actions \in Seq(Action)
    /\ pc \in [Thread -> Active \cup {"unborn", "done"}]
    /\ owner \in {"idle", "stopping", "gone"}
    /\ overlapped \in BOOLEAN

\* The inductive invariant: as long as no start() found an earlier thread still
\* active there is one at most, and the handle is on it for stop() to join
\* (~Core lets go of it); _running is set only by a thread in its loop, which
\* sees it unset only when it was told to stop.
OneThread ==
    /\ \A s, t \in Thread : pc[s] \in Active /\ pc[t] \in Active => s = t
    /\ \A t \in Thread : pc[t] \in Active => t = _thread \/ owner = "gone"

RunningAgrees ==
    /\ _running => \E t \in Thread : Looping(t)
    /\ \A t \in Thread : Looping(t) => _running \/ owner = "stopping"

CoreThreadInv == TypeOK /\ (~overlapped => OneThread /\ RunningAgrees)

\* What is queued does not stay queued while the loop runs, however much
\* keeps coming: the queue is emptied again and again.
ActionsTaken ==
    _actions # << >> /\ (\E t \in Thread : Looping(t)) ~> _actions = << >> \/ ~_running

\* stop() of a thread that has set _running returns, with nothing queued too:
\* nobody wakes the loop, but it does not wait for ever, and sees _running
\* unset.  A stop() that comes before the thread sets _running is overwritten:
\* the thread never ends, nor does the join.
StopsInTime ==
    /\ owner = "stopping"
    /\ ~overlapped
    /\ ~_running
    /\ \A t \in Thread : pc[t] \notin Unannounced
StopReturns == StopsInTime ~> owner # "stopping"
=============================================================================
