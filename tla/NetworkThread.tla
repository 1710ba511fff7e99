--------------------------- MODULE NetworkThread ---------------------------
(***************************************************************************)
(* Starting and stopping the network thread: start, stop and the           *)
(* destructor of UDPNetwork, called by its owner, against _listen and the  *)
(* frame of _main_loop in the thread (src/src/UDPNetwork.cpp).             *)
(*                                                                         *)
(* start() returns before the thread has a socket; _running, which start() *)
(* and stop() look at, is set by the thread once it has.  The members      *)
(* _running, _main_thread and _server_socket_fd are shared without a lock; *)
(* one action is one access that another thread could come between.        *)
(*                                                                         *)
(* A call that returns at once and changes nothing (start while running,   *)
(* stop while not running) is no action.  The owner may call whenever it   *)
(* is in no other call: nothing in the interface tells it how far the      *)
(* thread has got.                                                         *)
(***************************************************************************)
CONSTANTS
    Thread,     \* the threads start() may create (bound: how many)
    Failing,    \* the system may refuse a socket, or the port
    None        \* no thread, no socket

ASSUME ThreadAssumption == None \notin Thread
ASSUME FlagAssumption == Failing \in BOOLEAN

VARIABLES
    _running,
    _main_thread,       \* the thread the member points to, or None
    _server_socket_fd,  \* the socket the member holds, named by its creator
    open,               \* the sockets that are open
    bound,              \* the socket that has the port, or None
    pc,                 \* where each thread is
    owner,              \* what the owner is in
    overlapped          \* history: a start() found an earlier thread still active

sockets == <<_server_socket_fd, open, bound>>
vars == <<_running, _main_thread, _server_socket_fd, open, bound, pc, owner, overlapped>>

Unannounced == {"socket", "bind", "failed", "announce"}
Active == Unannounced \cup {"loop", "close"}

Init ==
    /\ _running = FALSE
    /\ _main_thread = None
    /\ _server_socket_fd = None
    /\ open = {}
    /\ bound = None
    /\ pc = [t \in Thread |-> "unborn"]
    /\ owner = "idle"
    /\ overlapped = FALSE

Goes(t, from, to) == pc[t] = from /\ pc' = [pc EXCEPT ![t] = to]

-----------------------------------------------------------------------------
(* The owner.                                                              *)

\* start: the member lets go of the thread it pointed to, if any.
Start(t) ==
    /\ owner = "idle"
    /\ ~_running
    /\ Goes(t, "unborn", "socket")
    /\ _main_thread' = t
    /\ overlapped' = (overlapped \/ \E u \in Thread : pc[u] \in Active)
    /\ UNCHANGED <<_running, sockets, owner>>

\* (Mutant of Stop: joins without telling the thread.)
StopUntold(next) ==
    /\ owner = "idle"
    /\ _running
    /\ owner' = next
    /\ UNCHANGED <<_running, _main_thread, sockets, pc, overlapped>>

\* stop, up to the join; also called by the destructor.
Stop(next) ==
    /\ owner = "idle"
    /\ _running
    /\ _running' = FALSE
    /\ owner' = next
    /\ UNCHANGED <<_main_thread, sockets, pc, overlapped>>

\* The thread is done: join returns and stop deletes it.  With overlapping
\* starts the member may be nullptr by now, and the call never returns.
JoinReturns ==
    /\ owner \in {"stopping", "destroying"}
    /\ _main_thread # None
    /\ pc[_main_thread] = "done"
    /\ _main_thread' = None
    /\ owner' = IF owner = "stopping" THEN "idle" ELSE "gone"
    /\ UNCHANGED <<_running, sockets, pc, overlapped>>

\* (Mutant of DestroyStopped: the destructor does not stop the thread.)
DestroyAnyway ==
    /\ owner = "idle"
    /\ owner' = "gone"
    /\ UNCHANGED <<_running, _main_thread, sockets, pc, overlapped>>

\* The destructor with _running unset: nothing to stop.
DestroyStopped ==
    /\ owner = "idle"
    /\ ~_running
    /\ owner' = "gone"
    /\ UNCHANGED <<_running, _main_thread, sockets, pc, overlapped>>

-----------------------------------------------------------------------------
(* The thread.                                                             *)

\* (Mutant of Shutdown: the member is reset, the socket stays open.)
ShutdownKeepsOpen ==
    /\ _server_socket_fd' = None
    /\ UNCHANGED <<open, bound>>

\* _shutdown: closes what the member holds, if anything.
Shutdown ==
    /\ open' = open \ {_server_socket_fd}
    /\ bound' = IF bound = _server_socket_fd THEN None ELSE bound
    /\ _server_socket_fd' = None

\* _listen: socket().
CreateSocket(t) ==
    /\ Goes(t, "socket", "bind")
    /\ _server_socket_fd' = t
    /\ open' = open \cup {t}
    /\ UNCHANGED <<_running, _main_thread, bound, owner, overlapped>>

\* ... which fails: the member is -1, _listen shuts nothing down.
SocketFails(t) ==
    /\ Failing
    /\ Goes(t, "socket", "failed")
    /\ _server_socket_fd' = None
    /\ UNCHANGED <<_running, _main_thread, open, bound, owner, overlapped>>

\* _listen: bind(), on whatever the member holds by now.
Bind(t) ==
    /\ Goes(t, "bind", "announce")
    /\ bound = None
    /\ _server_socket_fd \in open
    /\ bound' = _server_socket_fd
    /\ UNCHANGED <<_running, _main_thread, _server_socket_fd, open, owner, overlapped>>

\* bind(), or the setsockopt() after it, fails: _listen shuts down what the
\* member holds.
BindFails(t) ==
    /\ Goes(t, "bind", "failed")
    /\ Failing \/ bound # None \/ _server_socket_fd \notin open
    /\ Shutdown
    /\ UNCHANGED <<_running, _main_thread, owner, overlapped>>

\* (Mutant of GiveUp: _main_loop goes on.)
GoesOn(t) ==
    /\ Goes(t, "failed", "announce")
    /\ Shutdown
    /\ UNCHANGED <<_running, _main_thread, owner, overlapped>>

\* _listen has failed: _main_loop shuts down once more, whatever the member
\* holds by now, and the thread ends.  Nobody is told.
GiveUp(t) ==
    /\ Goes(t, "failed", "done")
    /\ Shutdown
    /\ UNCHANGED <<_running, _main_thread, owner, overlapped>>

\* (Mutant of Announce: _running is not set.)
AnnounceNothing(t) ==
    /\ Goes(t, "announce", "loop")
    /\ UNCHANGED <<_running, _main_thread, sockets, owner, overlapped>>

\* _main_loop: _running = true, after which it loops.
Announce(t) ==
    /\ Goes(t, "announce", "loop")
    /\ _running' = TRUE
    /\ UNCHANGED <<_main_thread, sockets, owner, overlapped>>

\* while (_running) ends.
LeaveLoop(t) ==
    /\ Goes(t, "loop", "close")
    /\ ~_running
    /\ UNCHANGED <<_running, _main_thread, sockets, owner, overlapped>>

Close(t) ==
    /\ Goes(t, "close", "done")
    /\ Shutdown
    /\ UNCHANGED <<_running, _main_thread, owner, overlapped>>

-----------------------------------------------------------------------------
ThreadStep(t) ==
    \/ CreateSocket(t) \/ SocketFails(t) \/ Bind(t) \/ BindFails(t) \/ GiveUp(t)
    \/ Announce(t) \/ LeaveLoop(t) \/ Close(t)

Next ==
    \/ \E t \in Thread : Start(t) \/ ThreadStep(t)
    \/ Stop("stopping") \/ Stop("destroying")
    \/ JoinReturns
    \/ DestroyStopped

Spec == Init /\ [][Next]_vars

\* The scheduler runs every thread, and join returns once its thread is done.
FairSpec ==
    /\ Spec
    /\ WF_vars(JoinReturns)
    /\ \A t \in Thread : WF_vars(ThreadStep(t))

-----------------------------------------------------------------------------
(* Properties.                                                             *)

TypeOK ==
    /\ _running \in BOOLEAN
    /\ _main_thread \in Thread \cup {None}
    /\ _server_socket_fd \in Thread \cup {None}
    /\ open \subseteq Thread
    /\ bound \in Thread \cup {None}
    /\ pc \in [Thread -> Active \cup {"unborn", "done"}]
    /\ owner \in {"idle", "stopping", "destroying", "gone"}
    /\ overlapped \in BOOLEAN

\* The destructor leaves no thread behind that has announced itself: only one
\* that is still on its way to its loop can outlive the object.  (Such a one
\* does, in this model and in the code.)
ThreadEndsFirst ==
    [][owner # "gone" /\ owner' = "gone" /\ ~overlapped =>
         \A t \in Thread : pc[t] \in Active => pc[t] \in Unannounced]_vars

\* The loop's receives and sends go through a socket that is open and has the
\* port, until the loop itself closes it, whenever the owner stops or destroys.
LoopHasSocket ==
    ~overlapped =>
        \A t \in Thread : pc[t] = "loop" =>
            _server_socket_fd \in open /\ bound = _server_socket_fd

\* A thread that ended, after a loop or a failed _listen, left nothing open:
\* the object can be started again on the same port.
PortReleased ==
    ~overlapped =>
        ((\A t \in Thread : pc[t] \notin Active) => open = {} /\ bound = None)

\* The inductive invariant behind these three: as long as no start() found an
\* earlier thread still active, the pointer is to the only active thread, the
\* socket is that thread's, and _running is set just while it loops untold.
At(places) == _main_thread # None /\ pc[_main_thread] \in places

PointerInv ==
    /\ \A t \in Thread : pc[t] \in Active => t = _main_thread
    /\ _running => At({"loop"})
    /\ owner \in {"stopping", "destroying"} =>
          ~_running /\ At({"loop", "close", "done"})
    /\ owner \in {"idle", "gone"} /\ ~_running => ~At({"loop", "close"})

SocketInv ==
    /\ _server_socket_fd =
          IF At({"bind", "announce", "loop", "close"}) THEN _main_thread ELSE None
    /\ open = {_server_socket_fd} \ {None}
    /\ bound = IF At({"announce", "loop", "close"}) THEN _main_thread ELSE None

LifeInv == TypeOK /\ (~overlapped => PointerInv /\ SocketInv)

\* stop() and the destructor return: the thread sees _running unset, closes
\* its socket and ends.  (With overlapping starts a thread that announces
\* itself late sets _running again, and join waits for ever.)
StopReturns ==
    owner \in {"stopping", "destroying"} /\ ~overlapped ~> owner \in {"idle", "gone"}

\* Refuted by a run.

\* stop() and start() say "thread not running" and go ahead, respectively,
\* only when no thread of this object is running.
AnswersRightly ==
    owner = "idle" /\ ~_running => \A t \in Thread : pc[t] \notin Active
=============================================================================
