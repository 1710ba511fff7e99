--------------------------- MODULE Kapuad_proofs ---------------------------
(***************************************************************************)
(* The daemon: to its key files it is a process of KeyFiles, so that what  *)
(* was proved of them holds of it; Core has its identity before the        *)
(* network thread runs; a network thread that was told to stop is waited   *)
(* for before Core goes; and it starts on what it was given, or refuses it for a        *)
(* reason.  For any configurations, crashes and restarts.                  *)
(*                                                                         *)
(* The last is mostly about the loops of Config, over settings and over    *)
(* the tokens of a text.  Each is a recursive function: Recursion gives a  *)
(* sequence of the states the loop goes through, which the function is     *)
(* then equal to, and UpTo an induction over it.                           *)
(***************************************************************************)
EXTENDS Kapuad, KeyFiles_proofs, WellFoundedInduction

-----------------------------------------------------------------------------
(* The key files.                                                          *)

\* Every step of the daemon is one of KeyFiles, or leaves the files and the
\* halves in Core alone.
LEMMA StepOfFiles == [DaemonNext]_daemon => [Next]_vars
<1> SUFFICES ASSUME [DaemonNext]_daemon PROVE Next \/ UNCHANGED vars
  OBVIOUS
<1>1. CASE UNCHANGED daemon
  BY <1>1 DEF daemon
<1>2. CASE PrepareKeys
  BY <1>2 DEF PrepareKeys, Next
<1>3. CASE BeginStep
  BY <1>3 DEF BeginStep, LoadYaml, LoadCmdLine, StartCore, StartNetwork, InstallHandler, Reaches
<1>4. CASE Return \/ Crash
  BY <1>4 DEF Return, Crash, End, Next
<1>5. CASE EndStep /\ ~Return
  BY <1>5 DEF EndStep, StopWaiting, StopNothing, StopNetwork, Joined, DestroyNetwork,
     DestroyRunningNetwork, JoinedDestroyed, DestroyCore, Reaches
<1>6. CASE Interrupt \/ CoreStep \/ NetworkStep
  BY <1>6 DEF Interrupt, CoreStep, NetworkStep
<1>7. QED
  BY <1>1, <1>2, <1>3, <1>4, <1>5, <1>6 DEF DaemonNext

\* The daemon implements KeyFiles, whatever its configuration and its threads
\* do (src/examples/kapuad/main.cpp:30-88).
THEOREM DaemonIsKeyFiles == DaemonSpec => Spec
<1>1. DaemonInit => Init
  BY DEF DaemonInit
<1>2. QED
  BY <1>1, StepOfFiles, PTL DEF DaemonSpec, Spec

\* The files and the loaded halves stay consistent over its lives.
THEOREM DaemonKeysCorrect == DaemonSpec => []KeyInv
BY DaemonIsKeyFiles, KeyFilesCorrect, PTL

\* And no life of it writes over the key of an earlier one.
THEOREM DaemonKeysStay == DaemonSpec => KeysStay
BY DaemonIsKeyFiles, KeysStayCorrect, PTL

-----------------------------------------------------------------------------
(* The threads.                                                            *)

LEMMA InitOrder == DaemonInit => OrderInv
BY LoopAssumption
   DEF DaemonInit, OrderInv, NetworkRuns, Core!Init, Network!Init, Core!Active, Core!Unannounced,
       Network!Active, Network!Unannounced

\* What main does before it waits.
LEMMA BeginOrder ==
    ASSUME OrderInv, PrepareKeys \/ BeginStep
    PROVE  OrderInv'
<1> USE DEF OrderInv, NetworkRuns, Reaches, core, network, program,
           Core!Active, Core!Unannounced, Network!Active, Network!Unannounced
<1>1. CASE PrepareKeys
  BY <1>1 DEF PrepareKeys
<1>2. CASE LoadYaml
  BY <1>2 DEF LoadYaml
<1>3. CASE LoadCmdLine
  BY <1>3 DEF LoadCmdLine
<1>4. CASE StartCore
  BY <1>4 DEF StartCore, Core!Start, Core!Goes
<1>5. CASE StartNetwork
  BY <1>5 DEF StartNetwork, Network!Start, Network!Goes
<1>6. CASE InstallHandler
  BY <1>6 DEF InstallHandler
<1>7. QED
  BY <1>1, <1>2, <1>3, <1>4, <1>5, <1>6 DEF BeginStep

\* What it does from then on.
LEMMA EndOrder ==
    ASSUME OrderInv, EndStep \/ Interrupt \/ Crash
    PROVE  OrderInv'
<1> USE DEF OrderInv, NetworkRuns, Reaches, core, network, program,
           Core!Active, Core!Unannounced, Network!Active, Network!Unannounced
<1>1. CASE StopWaiting \/ Interrupt
  BY <1>1 DEF StopWaiting, Interrupt
<1>2. CASE StopNothing
  BY <1>2 DEF StopNothing
<1>3. CASE StopNetwork
  BY <1>3 DEF StopNetwork, Network!Stop, Network!sockets
<1>4. CASE Joined
  BY <1>4 DEF Joined, Network!JoinReturns, Network!sockets
<1>5. CASE DestroyNetwork
  BY <1>5 DEF DestroyNetwork, Network!DestroyStopped, Network!sockets
<1>6. CASE DestroyRunningNetwork
  BY <1>6 DEF DestroyRunningNetwork, Network!Stop, Network!sockets
<1>7. CASE JoinedDestroyed
  BY <1>7 DEF JoinedDestroyed, Network!JoinReturns, Network!sockets
<1>8. CASE DestroyCore
  BY <1>8 DEF DestroyCore, Core!Destroy
<1>9. CASE Return \/ Crash
  BY <1>9 DEF Return, Crash, End
<1>10. QED
  BY <1>1, <1>2, <1>3, <1>4, <1>5, <1>6, <1>7, <1>8, <1>9 DEF EndStep

\* The threads' own steps.
LEMMA ThreadOrder ==
    ASSUME OrderInv, CoreStep \/ NetworkStep
    PROVE  OrderInv'
<1> USE DEF OrderInv, NetworkRuns, core, network, program,
           Core!Active, Core!Unannounced, Network!Active, Network!Unannounced
<1>1. CASE CoreStep
  BY <1>1 DEF CoreStep, Core!ThreadStep, Core!Enter, Core!Announce, Core!Test, Core!TakeAll,
     Core!Goes
<1>2. CASE NetworkStep
  <2> USE DEF Network!Goes, Network!Shutdown
  <2>1. CASE Network!CreateSocket(NetworkLoop) \/ Network!SocketFails(NetworkLoop)
    BY <1>2, <2>1 DEF NetworkStep, Network!CreateSocket, Network!SocketFails
  <2>2. CASE Network!Bind(NetworkLoop) \/ Network!BindFails(NetworkLoop)
             \/ Network!GiveUp(NetworkLoop)
    BY <1>2, <2>2 DEF NetworkStep, Network!Bind, Network!BindFails, Network!GiveUp
  <2>3. CASE Network!Announce(NetworkLoop)
    BY <1>2, <2>3 DEF NetworkStep, Network!Announce
  <2>4. CASE Network!LeaveLoop(NetworkLoop) \/ Network!Close(NetworkLoop)
    BY <1>2, <2>4 DEF NetworkStep, Network!LeaveLoop, Network!Close
  <2>5. QED
    BY <1>2, <2>1, <2>2, <2>3, <2>4 DEF NetworkStep, Network!ThreadStep
<1>3. QED
  BY <1>1, <1>2

\* Where main is, and where its two threads are.
THEOREM OrderCorrect == DaemonSpec => []OrderInv
<1>1. OrderInv /\ [DaemonNext]_daemon => OrderInv'
  <2> SUFFICES ASSUME OrderInv, [DaemonNext]_daemon PROVE OrderInv'
    OBVIOUS
  <2>1. CASE UNCHANGED daemon
    BY <2>1 DEF daemon, core, network, program, OrderInv, NetworkRuns
  <2>2. CASE DaemonNext
    BY <2>2, BeginOrder, EndOrder, ThreadOrder DEF DaemonNext
  <2>3. QED
    BY <2>1, <2>2
<1>2. QED
  BY <1>1, InitOrder, PTL DEF DaemonSpec

\* No network thread runs before Core has drawn the identity it hands out
\* (src/examples/kapuad/main.cpp:61-72).
THEOREM IdentityFirstCorrect == DaemonSpec => []IdentityFirst
<1>1. OrderInv => IdentityFirst
  BY DEF OrderInv, IdentityFirst, NetworkRuns, Network!Active, Network!Unannounced
<1>2. QED
  BY <1>1, OrderCorrect, PTL

\* Only a network thread that nobody has told to stop outlives Core
\* (src/examples/kapuad/main.cpp:81-87, src/src/UDPNetwork.cpp:22-52).
THEOREM ToldIsJoinedCorrect == DaemonSpec => []ToldIsJoined
<1>1. OrderInv => ToldIsJoined
  BY DEF OrderInv, ToldIsJoined, NetworkRuns, Network!Active, Network!Unannounced
<1>2. QED
  BY <1>1, OrderCorrect, PTL

-----------------------------------------------------------------------------
(* The settings: the invariant.                                            *)

LEMMA InitSettings == DaemonInit => LoadInv
BY DEF DaemonInit, LoadInv, Refused

LEMMA SettingsStep == LoadInv /\ [DaemonNext]_daemon => LoadInv'
<1> SUFFICES ASSUME LoadInv, [DaemonNext]_daemon PROVE LoadInv'
  OBVIOUS
<1> USE DEF LoadInv, Refused, FromYaml, FromLine
<1>1. CASE LoadYaml
  <2>1. PICK launch \in Launch :
           /\ main = "yaml"
           /\ main' = IF load_yaml(settings, launch.yaml).answer THEN "cmd_line"
                      ELSE "destroy_network"
           /\ settings' = load_yaml(settings, launch.yaml).settings
           /\ given' = launch
    BY <1>1 DEF LoadYaml, Reaches
  <2> QED
    BY <2>1
<1>2. CASE LoadCmdLine
  <2>1. /\ main = "cmd_line"
        /\ main' = IF load_cmd_line(settings, given.line).answer THEN "start_core"
                   ELSE "destroy_network"
        /\ settings' = load_cmd_line(settings, given.line).settings
        /\ given' = given
    BY <1>2 DEF LoadCmdLine, Reaches
  <2> QED
    BY <2>1
<1>3. CASE StartCore \/ StartNetwork \/ InstallHandler
  BY <1>3 DEF StartCore, StartNetwork, InstallHandler, Reaches, program
<1>4. CASE StopWaiting \/ StopNothing \/ StopNetwork \/ Joined
  BY <1>4 DEF StopWaiting, StopNothing, StopNetwork, Joined, Reaches, program
<1>5. CASE DestroyNetwork \/ DestroyRunningNetwork \/ JoinedDestroyed \/ DestroyCore
  BY <1>5 DEF DestroyNetwork, DestroyRunningNetwork, JoinedDestroyed, DestroyCore, Reaches, program
<1>6. CASE Return \/ Crash
  BY <1>6 DEF Return, Crash, End
<1>7. CASE PrepareKeys \/ Interrupt \/ CoreStep \/ NetworkStep \/ UNCHANGED daemon
  BY <1>7 DEF PrepareKeys, Interrupt, CoreStep, NetworkStep, daemon, program
<1> QED
  BY <1>1, <1>2, <1>3, <1>4, <1>5, <1>6, <1>7 DEF DaemonNext, BeginStep, EndStep

\* Until Core starts, the settings are what the loads so far made of the
\* defaults, and all of them were good (src/examples/kapuad/main.cpp:44-53).
THEOREM LoadCorrect == DaemonSpec => []LoadInv
BY InitSettings, SettingsStep, PTL DEF DaemonSpec

-----------------------------------------------------------------------------
(* Loops of n turns.                                                       *)

\* A set of naturals has a least one.
LEMMA LeastNat ==
  ASSUME NEW S \in SUBSET Nat, S # {}
  PROVE  \E n \in S : \A q \in S : n <= q
<1>1. IsWellFoundedOn(OpToRel(<, Nat), Nat)
  BY NatLessThanWellFounded
<1>2. PICK n \in S : \A m \in S : ~(<<m, n>> \in OpToRel(<, Nat))
  BY <1>1, WFMin, Zenon
<1>3. \A m \in S : ~(m < n)
  BY <1>2 DEF OpToRel
<1> QED
  BY <1>3

\* Induction up to n, with the set A for the predicate: the least i outside A
\* would have a predecessor in A.
LEMMA UpTo ==
  ASSUME NEW n \in Nat, NEW A, 0 \in A, \A i \in 0 .. n - 1 : i \in A => i + 1 \in A
  PROVE  \A i \in 0 .. n : i \in A
<1> DEFINE Bad == {i \in 0 .. n : i \notin A}
<1> SUFFICES ASSUME Bad # {} PROVE FALSE
  OBVIOUS
<1>1. PICK m \in Bad : \A q \in Bad : m <= q
  <2>1. Bad \in SUBSET Nat
    OBVIOUS
  <2> QED
    BY <2>1, LeastNat
<1>2. m \in 1 .. n /\ m \notin A
  BY <1>1
<1>3. m - 1 \in 0 .. n - 1 /\ m - 1 \in A
  <2>1. m - 1 \in 0 .. n - 1 /\ ~(m <= m - 1)
    BY <1>2
  <2> QED
    BY <1>1, <2>1
<1>4. (m - 1) + 1 = m
  BY <1>2
<1> QED
  BY <1>2, <1>3, <1>4

\* What each of n turns makes of a state.
Steps(n, X) == [1 .. n -> [X -> X]]

\* A loop of n turns: there is a sequence of the states it goes through.
LEMMA Recursion ==
  ASSUME NEW X, NEW base \in X, NEW n \in Nat, NEW step \in Steps(n, X)
  PROVE  \E g \in [0 .. n -> X] : g[0] = base /\ \A i \in 1 .. n : g[i] = step[i][g[i - 1]]
<1> DEFINE Run(m, g) == /\ g \in [0 .. m -> X]
                        /\ g[0] = base
                        /\ \A i \in 1 .. m : g[i] = step[i][g[i - 1]]
           A == {m \in 0 .. n : \E g : Run(m, g)}
<1> USE DEF Steps
<1>1. 0 \in A
  <2>1. Run(0, [i \in 0 .. 0 |-> base])
    OBVIOUS
  <2> HIDE DEF Run
  <2> QED
    BY <2>1
<1>2. ASSUME NEW m \in 0 .. n - 1, m \in A PROVE m + 1 \in A
  <2>1. PICK g : Run(m, g)
    BY <1>2
  <2> DEFINE h == [i \in 0 .. m + 1 |-> IF i = m + 1 THEN step[m + 1][g[m]] ELSE g[i]]
  <2>2. g[m] \in X /\ m + 1 \in 1 .. n
    BY <2>1
  <2>3. step[m + 1][g[m]] \in X
    BY <2>2
  <2>4. h \in [0 .. m + 1 -> X]
    BY <2>1, <2>3
  <2>5. h[0] = base
    BY <2>1
  <2>6. ASSUME NEW i \in 1 .. m + 1 PROVE h[i] = step[i][h[i - 1]]
    <3>1. CASE i = m + 1
      <4>1. h[i - 1] = g[m] /\ h[i] = step[m + 1][g[m]]
        BY <3>1
      <4> QED
        BY <3>1, <4>1
    <3>2. CASE i # m + 1
      <4>1. h[i] = g[i] /\ h[i - 1] = g[i - 1] /\ i \in 1 .. m
        BY <3>2
      <4> QED
        BY <2>1, <4>1
    <3> QED
      BY <3>1, <3>2
  <2>7. Run(m + 1, h)
    BY <2>4, <2>5, <2>6
  <2> HIDE DEF Run
  <2> QED
    BY <2>2, <2>7
<1>3. \A m \in 0 .. n : m \in A
  <2> HIDE DEF A
  <2> QED
    BY <1>1, <1>2, UpTo
<1> QED
  BY <1>3

-----------------------------------------------------------------------------
(* Loading, setting by setting.                                            *)

\* The loads TakeAllOf goes through.
Loads(s0, order, results) ==
    LET load[i \in 0 .. Len(order)] ==
            IF i = 0 THEN [settings |-> s0, ok |-> TRUE, thrown |-> FALSE]
            ELSE Turn(load[i - 1], order[i], results)
    IN  load

\* The settings, with values in V.
Values(V) == [Setting -> V]
LoadType(V) == [settings : Values(V), ok : BOOLEAN, thrown : BOOLEAN]

Good(result) == result.end \in {"stored", "ignored"}

\* One turn: the load stays good if it was and the result is.
LEMMA TurnIs ==
  ASSUME NEW V, NEW load \in LoadType(V), NEW key \in Setting, NEW results,
         key \in DOMAIN results => results[key].value \in V,
         load.thrown => ~load.ok
  PROVE  LET next == Turn(load, key, results)
         IN  /\ next \in LoadType(V)
             /\ next.thrown => ~next.ok
             /\ next.ok <=> load.ok /\ (key \in DOMAIN results => Good(results[key]))
             /\ next.ok => next.settings =
                   IF key \in DOMAIN results /\ results[key].end = "stored"
                   THEN [load.settings EXCEPT ![key] = results[key].value]
                   ELSE load.settings
<1> DEFINE next == Turn(load, key, results)
           result == results[key]
<1>1. CASE load.thrown \/ key \notin DOMAIN results
  <2>1. next = load
    BY <1>1 DEF Turn
  <2> QED
    BY <1>1, <2>1
<1>2. CASE ~load.thrown /\ key \in DOMAIN results
  <2> DEFINE changed == IF result.end = "stored" THEN [load.settings EXCEPT ![key] = result.value]
                        ELSE load.settings
  <2>1. next = Take(load, key, result)
    BY <1>2 DEF Turn
  <2>2. changed \in Values(V)
    BY <1>2 DEF LoadType, Values
  <2> HIDE DEF next
  <2>3. next.settings = changed
    BY <2>1 DEF Take
  <2>4. next.ok = (load.ok /\ Good(result))
    BY <2>1 DEF Take, Good
  <2>5. next.thrown = (result.end = "thrown")
    BY <2>1 DEF Take
  <2>6. next = [settings |-> next.settings, ok |-> next.ok, thrown |-> next.thrown]
    BY <2>1 DEF Take
  <2>7. next.ok \in BOOLEAN /\ next.thrown \in BOOLEAN
    BY <2>4, <2>5
  <2>8. next \in LoadType(V)
    <3> HIDE DEF changed
    <3> QED
      BY <2>2, <2>3, <2>6, <2>7 DEF LoadType
  <2> QED
    BY <1>2, <2>3, <2>4, <2>5, <2>8 DEF Good, next
<1> QED
  BY <1>1, <1>2

\* TakeAllOf is where the turns lead.
LEMMA LoadsSteps ==
  ASSUME NEW V, NEW s0 \in Values(V), NEW order \in Seq(Setting), NEW results,
         \A key \in DOMAIN results : results[key].value \in V
  PROVE  /\ TakeAllOf(s0, order, results) = Loads(s0, order, results)[Len(order)]
         /\ Loads(s0, order, results)[0] = [settings |-> s0, ok |-> TRUE, thrown |-> FALSE]
         /\ \A i \in 1 .. Len(order) :
               Loads(s0, order, results)[i] =
                  Turn(Loads(s0, order, results)[i - 1], order[i], results)
<1> DEFINE n == Len(order)
           X == {load \in LoadType(V) : load.thrown => ~load.ok}
           base == [settings |-> s0, ok |-> TRUE, thrown |-> FALSE]
           step == [i \in 1 .. n |-> [load \in X |-> Turn(load, order[i], results)]]
           f == Loads(s0, order, results)
<1>1. n \in Nat /\ \A i \in 1 .. n : order[i] \in Setting
  OBVIOUS
<1>2. base \in X
  BY DEF LoadType
<1>3. \A i \in 1 .. n : \A load \in X : Turn(load, order[i], results) \in X
  BY <1>1, TurnIs
<1> HIDE DEF X, base, n
<1>4. step \in Steps(n, X)
  BY <1>3 DEF Steps
<1>5. PICK g \in [0 .. n -> X] : g[0] = base /\ \A i \in 1 .. n : g[i] = step[i][g[i - 1]]
  <2> HIDE DEF step
  <2> QED
    BY <1>1, <1>2, <1>4, Recursion
<1>6. \A i \in 1 .. n : g[i] = Turn(g[i - 1], order[i], results)
  <2> TAKE i \in 1 .. n
  <2>1. g[i - 1] \in X
    BY <1>1
  <2> QED
    BY <1>5, <2>1
<1> DEFINE k == [i \in 0 .. n |-> IF i = 0 THEN base ELSE Turn(g[i - 1], order[i], results)]
<1>7. g = k
  <2>1. \A i \in 0 .. n : g[i] = k[i]
    BY <1>1, <1>5, <1>6
  <2>2. g = [i \in 0 .. n |-> g[i]]
    OBVIOUS
  <2> QED
    BY <2>1, <2>2
<1>8. f = [i \in 0 .. n |-> IF i = 0 THEN base ELSE Turn(f[i - 1], order[i], results)]
  BY <1>7 DEF Loads, n, base
<1>9. TakeAllOf(s0, order, results) = f[n]
  BY DEF TakeAllOf, Loads, n
<1> HIDE DEF f
<1>10. f[0] = base
  BY <1>1, <1>8
<1>11. \A i \in 1 .. n : f[i] = Turn(f[i - 1], order[i], results)
  BY <1>1, <1>8
<1> QED
  BY <1>9, <1>10, <1>11 DEF f, n, base

\* What a load answers and what it leaves behind.
LEMMA LoadedIs ==
  ASSUME NEW V, NEW s0 \in Values(V), NEW order \in Seq(Setting), NEW results,
         \A key \in DOMAIN results : results[key].value \in V
  PROVE  LET load == Loaded(TakeAllOf(s0, order, results))
             read == {order[i] : i \in 1 .. Len(order)} \cap DOMAIN results
         IN  /\ load.answer <=> \A key \in read : Good(results[key])
             /\ load.settings \in Values(V)
             /\ load.answer => \A key \in Setting :
                   load.settings[key] =
                      IF key \in read /\ results[key].end = "stored" THEN results[key].value
                      ELSE s0[key]
<1> DEFINE n == Len(order)
           f == Loads(s0, order, results)
           Seen(i) == {order[j] : j \in 1 .. i} \cap DOMAIN results
           So(i) == /\ f[i] \in LoadType(V)
                    /\ f[i].thrown => ~f[i].ok
                    /\ f[i].ok <=> \A key \in Seen(i) : Good(results[key])
                    /\ f[i].ok => \A key \in Setting :
                          f[i].settings[key] =
                             IF key \in Seen(i) /\ results[key].end = "stored"
                             THEN results[key].value
                             ELSE s0[key]
           A == {i \in 0 .. n : So(i)}
<1>1. n \in Nat /\ \A i \in 1 .. n : order[i] \in Setting
  OBVIOUS
<1>2. /\ TakeAllOf(s0, order, results) = f[n]
      /\ f[0] = [settings |-> s0, ok |-> TRUE, thrown |-> FALSE]
      /\ \A i \in 1 .. n : f[i] = Turn(f[i - 1], order[i], results)
  BY LoadsSteps
<1> HIDE DEF f, n
<1>3. So(0)
  <2>1. Seen(0) = {}
    OBVIOUS
  <2> HIDE DEF Seen
  <2>2. f[0] \in LoadType(V)
    BY <1>2 DEF LoadType
  <2> QED
    BY <1>2, <2>1, <2>2
<1>4. ASSUME NEW i \in 0 .. n - 1, So(i) PROVE So(i + 1)
  <2> DEFINE load == f[i]
             key == order[i + 1]
             next == Turn(load, key, results)
  <2>1. i + 1 \in 1 .. n /\ (i + 1) - 1 = i
    BY <1>1
  <2>2. key \in Setting /\ f[i + 1] = next
    BY <1>1, <1>2, <2>1
  <2>3. \A k : k \in Seen(i + 1) <=> k \in Seen(i) \/ (k = key /\ k \in DOMAIN results)
    <3>1. 1 .. i + 1 = (1 .. i) \cup {i + 1}
      BY <1>1
    <3> QED
      BY <3>1
  <2> HIDE DEF Seen
  <2>4. load \in LoadType(V) /\ (load.thrown => ~load.ok)
    BY <1>4
  <2>5. /\ next \in LoadType(V)
        /\ next.thrown => ~next.ok
        /\ next.ok <=> load.ok /\ (key \in DOMAIN results => Good(results[key]))
        /\ next.ok => next.settings =
              IF key \in DOMAIN results /\ results[key].end = "stored"
              THEN [load.settings EXCEPT ![key] = results[key].value]
              ELSE load.settings
    <3> HIDE DEF load, key
    <3> QED
      BY <2>2, <2>4, TurnIs
  <2> HIDE DEF load, key, next
  <2>6. next.ok <=> \A k \in Seen(i + 1) : Good(results[k])
    BY <1>4, <2>3, <2>5 DEF load
  <2>7. ASSUME next.ok, NEW k \in Setting
        PROVE  next.settings[k] =
                  IF k \in Seen(i + 1) /\ results[k].end = "stored" THEN results[k].value
                  ELSE s0[k]
    <3>1. load.ok /\ load.settings \in Values(V)
      BY <2>4, <2>5, <2>7 DEF LoadType
    <3>2. load.settings[k] = IF k \in Seen(i) /\ results[k].end = "stored" THEN results[k].value
                             ELSE s0[k]
      BY <1>4, <3>1 DEF load
    <3>3. CASE k = key /\ key \in DOMAIN results /\ results[key].end = "stored"
      BY <2>2, <2>3, <2>5, <2>7, <3>1, <3>3 DEF Values
    <3>4. CASE ~(k = key /\ key \in DOMAIN results /\ results[key].end = "stored")
      <4>1. next.settings[k] = load.settings[k]
        BY <2>2, <2>5, <2>7, <3>1, <3>4 DEF Values
      <4> QED
        BY <2>3, <3>2, <3>4, <4>1
    <3> QED
      BY <3>3, <3>4
  <2> QED
    BY <2>2, <2>5, <2>6, <2>7
<1>5. n \in A
  <2>1. 0 \in A
    BY <1>1, <1>3
  <2>2. \A i \in 0 .. n - 1 : i \in A => i + 1 \in A
    <3> HIDE DEF So
    <3> QED
      BY <1>1, <1>4
  <2>3. \A i \in 0 .. n : i \in A
    <3> HIDE DEF A
    <3> QED
      BY <1>1, <2>1, <2>2, UpTo
  <2> QED
    BY <1>1, <2>3
<1>6. So(n)
  BY <1>5
<1> DEFINE done == TakeAllOf(s0, order, results)
           load == Loaded(done)
<1>7. /\ done \in LoadType(V)
      /\ done.thrown => ~done.ok
      /\ done.ok <=> \A key \in Seen(n) : Good(results[key])
      /\ done.ok => \A key \in Setting :
            done.settings[key] =
               IF key \in Seen(n) /\ results[key].end = "stored" THEN results[key].value
               ELSE s0[key]
  <2> HIDE DEF Seen
  <2> QED
    BY <1>2, <1>6
<1> HIDE DEF done
<1>8. load.settings = done.settings
  BY DEF Loaded
<1>9. load.answer = (done.ok /\ ~done.thrown)
  BY DEF Loaded
<1> HIDE DEF load
<1>10. load.answer <=> done.ok
  BY <1>7, <1>9
<1>11. done.settings \in Values(V)
  BY <1>7 DEF LoadType
<1>12. Seen(n) = {order[i] : i \in 1 .. Len(order)} \cap DOMAIN results
  BY DEF n
<1> HIDE DEF Seen
<1> QED
  BY <1>7, <1>8, <1>10, <1>11, <1>12 DEF load, done

-----------------------------------------------------------------------------
(* Numbers.                                                                *)

Token == STRING \X Nat
Texts == Seq(Token)

\* What the tokens up to each are worth.
Sums(text) ==
    LET sum[i \in 0 .. Len(text)] == IF i = 0 THEN 0 ELSE sum[i - 1] + Worth(text, i)
    IN  sum

\* The characters the parsers know are none of them digits.
LEMMA CharNames == Char(" ")[1] = " " /\ Char("-")[1] = "-" /\ Char("+")[1] = "+"
BY DEF Char

LEMMA CharsDiffer ==
  /\ \A c \in Units : ~IsDigits(c) /\ c # Char("-") /\ UnitLength(c) \in Nat
  /\ ~IsDigits(Char("-")) /\ ~IsDigits(Char("+")) /\ ~IsDigits(Char(" "))
<1>1. \A c \in Units : c[1] \in {"h", "m", "s"}
  BY DEF Units, Char
<1>2. \A c \in Units : ~IsDigits(c) /\ c # Char("-")
  <2>1. Char("-")[1] = "-"
    BY DEF Char
  <2>2. \A c \in Units : c # Char("-")
    BY <1>1, <2>1
  <2> QED
    BY <1>1, <2>2 DEF IsDigits
<1>3. \A c \in Units : UnitLength(c) \in Nat
  BY <1>1 DEF UnitLength
<1>4. ~IsDigits(Char("-")) /\ ~IsDigits(Char("+")) /\ ~IsDigits(Char(" "))
  BY DEF IsDigits, Char
<1> QED
  BY <1>2, <1>3, <1>4

\* Total is the last sum, and each adds what one token is worth.
LEMMA SumSteps ==
  ASSUME NEW text \in Texts
  PROVE  LET f == Sums(text)
         IN  /\ Total(text) = f[Len(text)]
             /\ f[0] = 0
             /\ \A i \in 1 .. Len(text) : f[i] = f[i - 1] + Worth(text, i)
             /\ \A i \in 0 .. Len(text) : f[i] \in Nat
             /\ \A i \in 1 .. Len(text) : Worth(text, i) \in Nat
<1> DEFINE n == Len(text)
           step == [i \in 1 .. n |-> [x \in Nat |-> x + Worth(text, i)]]
           f == Sums(text)
<1>1. n \in Nat /\ \A i \in 1 .. n : text[i] \in Token
  BY DEF Texts
<1>2. \A i \in 1 .. n : Worth(text, i) \in Nat
  <2> TAKE i \in 1 .. n
  <2>1. CASE i > 1 /\ text[i - 1][1] = "digits" /\ text[i] \in Units
    <3>1. text[i - 1][2] \in Nat
      BY <1>1, <2>1 DEF Token
    <3>2. UnitLength(text[i]) \in Nat
      BY <2>1, CharsDiffer
    <3> QED
      BY <2>1, <3>1, <3>2 DEF Worth
  <2>2. CASE ~(i > 1 /\ text[i - 1][1] = "digits" /\ text[i] \in Units)
    BY <2>2 DEF Worth
  <2> QED
    BY <2>1, <2>2
<1> HIDE DEF n
<1>3. step \in Steps(n, Nat)
  BY <1>2 DEF Steps
<1>4. PICK g \in [0 .. n -> Nat] : g[0] = 0 /\ \A i \in 1 .. n : g[i] = step[i][g[i - 1]]
  <2> DEFINE none == 0
             X == Nat
  <2>1. none \in X /\ step \in Steps(n, X)
    BY <1>3
  <2> HIDE DEF step, none, X
  <2>2. \E g \in [0 .. n -> X] : g[0] = none /\ \A i \in 1 .. n : g[i] = step[i][g[i - 1]]
    BY <1>1, <2>1, Recursion
  <2> QED
    BY <2>2 DEF none, X
<1>5. \A i \in 1 .. n : g[i] = g[i - 1] + Worth(text, i)
  <2> TAKE i \in 1 .. n
  <2>1. g[i - 1] \in Nat
    BY <1>1
  <2> QED
    BY <1>4, <2>1
<1> DEFINE k == [i \in 0 .. n |-> IF i = 0 THEN 0 ELSE g[i - 1] + Worth(text, i)]
<1>6. g = k
  <2>1. \A i \in 0 .. n : g[i] = k[i]
    BY <1>1, <1>4, <1>5
  <2>2. g = [i \in 0 .. n |-> g[i]]
    OBVIOUS
  <2> QED
    BY <2>1, <2>2
<1>7. f = [i \in 0 .. n |-> IF i = 0 THEN 0 ELSE f[i - 1] + Worth(text, i)]
  BY <1>6 DEF Sums, n
<1>8. Total(text) = f[n]
  BY DEF Total, Sums, n
<1> HIDE DEF f
<1>9. f[0] = 0
  BY <1>1, <1>7
<1>10. \A i \in 1 .. n : f[i] = f[i - 1] + Worth(text, i)
  BY <1>1, <1>7
<1>11. \A i \in 0 .. n : f[i] \in Nat
  <2> DEFINE A == {i \in 0 .. n : f[i] \in Nat}
  <2>1. 0 \in A
    BY <1>1, <1>9
  <2>2. ASSUME NEW i \in 0 .. n - 1, i \in A PROVE i + 1 \in A
    <3>1. i + 1 \in 1 .. n /\ (i + 1) - 1 = i /\ i + 1 \in 0 .. n /\ f[i] \in Nat
      BY <1>1, <2>2
    <3>2. f[i + 1] = f[i] + Worth(text, i + 1) /\ Worth(text, i + 1) \in Nat
      BY <1>2, <1>10, <3>1
    <3> QED
      BY <3>1, <3>2
  <2> HIDE DEF A
  <2>3. \A i \in 0 .. n : i \in A
    BY <1>1, <2>1, <2>2, UpTo
  <2> QED
    BY <2>3 DEF A
<1> QED
  BY <1>2, <1>8, <1>9, <1>10, <1>11 DEF f, n

\* Adding in 32 bits is adding, and then taking 32 bits.
LEMMA Int32Adds ==
  ASSUME NEW a \in Int, NEW b \in Int
  PROVE  /\ Int32(a) \in Int
         /\ Int32(Int32(a) + Int32(b)) = Int32(a + b)
         /\ Int32(0) = 0
         /\ Fits(a) => Int32(a) = a
<1>1. Range32 \div 2 = 268435456 /\ Range32 = 536870912
  BY SMT DEF Range32
<1>2. \A n \in Int : Int32(n) = ((n + 268435456) % 536870912) - 268435456
  BY <1>1, SMT DEF Int32
<1>3. \A n \in Int : Int32(n) \in Int
  BY <1>2, SMT
<1>4. Int32(0) = 0
  BY <1>2, SMT
<1>5. Fits(a) => Int32(a) = a
  <2>1. Fits(a) => 0 <= a + 268435456 /\ a + 268435456 < 536870912
    BY <1>1, SMT DEF Fits
  <2> QED
    BY <1>2, <2>1, SMT
<1>6. Int32(Int32(a) + Int32(b)) = Int32(a + b)
  <2> DEFINE p == (a + 268435456) \div 536870912
             q == (b + 268435456) \div 536870912
  <2>1. Int32(a) = a - 536870912 * p /\ Int32(b) = b - 536870912 * q /\ p \in Int /\ q \in Int
    BY <1>2, SMT
  <2> HIDE DEF p, q
  <2>2. \A x, k \in Int : (x - 536870912 * k) % 536870912 = x % 536870912
    BY SMT
  <2>3. Int32(a) + Int32(b) + 268435456 = (a + b + 268435456) - 536870912 * (p + q)
    BY <2>1, SMT
  <2>4. (Int32(a) + Int32(b) + 268435456) % 536870912 = (a + b + 268435456) % 536870912
    BY <2>1, <2>2, <2>3, SMT
  <2> QED
    BY <1>2, <1>3, <2>4, SMT
<1> QED
  BY <1>3, <1>4, <1>5, <1>6

\* What stoi makes of a number and of a number behind one other character.
LEMMA StoiOne ==
  ASSUME NEW token \in Token
  PROVE  /\ stoi(<<token>>).throws <=> token[1] # "digits"
         /\ token[1] = "digits" => stoi(<<token>>).n = token[2]
<1>1. token[1] = "digits" => token # Char(" ") /\ token # Char("-") /\ token # Char("+")
  BY CharNames
<1>2. <<token>> # << >> /\ Head(<<token>>) = token /\ Tail(<<token>>) = << >>
  OBVIOUS
<1>3. CASE token[1] = "digits"
  <2> DEFINE q == <<token>>
  <2>1. q # << >> /\ Head(q) = token
    BY <1>2
  <2> HIDE DEF q
  <2>2. stoi(q) = [throws |-> FALSE, n |-> token[2]]
    BY <1>1, <1>3, <2>1 DEF stoi
  <2> QED
    BY <1>3, <2>2 DEF q
<1>4. CASE token[1] # "digits"
  BY <1>2, <1>4 DEF stoi
<1> QED
  BY <1>3, <1>4

LEMMA StoiTwo ==
  ASSUME NEW a \in Token, NEW b \in Token, ~IsDigits(a), a # Char("-"), IsDigits(b)
  PROVE  ~stoi(<<a, b>>).throws => b[1] = "digits" /\ stoi(<<a, b>>).n = b[2]
<1>1. b # Char(" ") /\ b # Char("-") /\ b # Char("+") /\ a[1] # "digits" /\ Char("+") # Char(" ")
  <2>1. Char("+") # Char(" ")
    BY CharNames
  <2> QED
    BY <2>1, CharNames DEF IsDigits
<1>2. /\ <<a, b>> # << >> /\ Head(<<a, b>>) = a /\ Tail(<<a, b>>) = <<b>>
      /\ <<b>> # << >> /\ Head(<<b>>) = b
  OBVIOUS
<1>3. CASE a = Char(" ")
  BY <1>1, <1>2, <1>3 DEF stoi
<1>4. CASE a = Char("+")
  BY <1>1, <1>2, <1>4 DEF stoi
<1>5. CASE a # Char(" ") /\ a # Char("+")
  BY <1>1, <1>2, <1>5 DEF stoi
<1> QED
  BY <1>3, <1>4, <1>5

\* It always makes a number of it.
LEMMA StoiType ==
  ASSUME NEW text \in Texts
  PROVE  stoi(text).n \in Int
<1> DEFINE drop(q, chars) == IF q # << >> /\ Head(q) \in chars THEN Tail(q) ELSE q
           trimmed == drop(text, {Char(" ")})
           number == drop(trimmed, {Char("-"), Char("+")})
<1>1. \A q \in Texts : \A chars : drop(q, chars) \in Texts
  BY DEF Texts
<1>2. number \in Texts
  <2> HIDE DEF drop
  <2> QED
    BY <1>1
<1>3. number # << >> => Head(number)[2] \in Int
  <2> HIDE DEF number
  <2>1. number # << >> => Head(number) \in Token
    BY <1>2 DEF Texts
  <2> QED
    BY <2>1 DEF Token
<1>4. stoi(text).n = IF ~(number # << >> /\ Head(number)[1] = "digits") THEN 0
                     ELSE IF trimmed # << >> /\ Head(trimmed) = Char("-")
                          THEN 0 - Head(number)[2] ELSE Head(number)[2]
  BY DEF stoi
<1> HIDE DEF number, trimmed
<1> QED
  BY <1>3, <1>4

-----------------------------------------------------------------------------
(* Durations, token by token.                                              *)

\* The states parse_duration goes through.
Turns(text) ==
    LET begun == [mode |-> "Start", buffer |-> << >>, res |-> 0, end |-> "stored"]
        loop[i \in 0 .. Len(text)] ==
            IF i = 0 THEN begun ELSE DurationTurn(loop[i - 1], text[i])
    IN  loop

LoopType ==
    [mode : {"Start", "Digit"}, buffer : Texts, res : Int, end : {"stored", "refused", "thrown"}]

\* One turn, by what it finds.
LEMMA TurnOfLoop ==
  ASSUME NEW loop \in LoopType, NEW token \in Token
  PROVE  LET next == DurationTurn(loop, token)
         IN  /\ next \in LoopType
             /\ loop.end # "stored" => next.end # "stored"
             /\ loop.end = "stored" /\ loop.mode = "Start" =>
                   /\ next.end = "stored" <=> token # Char("-")
                   /\ next.end = "stored" =>
                         next.mode = "Digit" /\ next.buffer = <<token>> /\ next.res = loop.res
             /\ loop.end = "stored" /\ loop.mode = "Digit" /\ IsDigits(token) =>
                   /\ next.end = "stored" /\ next.mode = "Digit"
                   /\ next.buffer = Append(loop.buffer, token) /\ next.res = loop.res
             /\ loop.end = "stored" /\ loop.mode = "Digit" /\ ~IsDigits(token) =>
                   /\ next.end = "stored" <=>
                         loop.buffer # << >> /\ token \in Units /\ ~stoi(loop.buffer).throws
                   /\ next.end = "stored" =>
                         /\ next.mode = "Digit" /\ next.buffer = << >>
                         /\ next.res =
                               Int32(loop.res + Int32(stoi(loop.buffer).n * UnitLength(token)))
<1> DEFINE next == DurationTurn(loop, token)
<1>1. /\ loop.mode \in {"Start", "Digit"} /\ loop.buffer \in Texts /\ loop.res \in Int
      /\ loop.end \in {"stored", "refused", "thrown"}
      /\ loop = [mode |-> loop.mode, buffer |-> loop.buffer, res |-> loop.res, end |-> loop.end]
  BY DEF LoopType
<1>2. CASE loop.end # "stored"
  <2>1. next = loop
    BY <1>2 DEF DurationTurn
  <2> QED
    BY <1>2, <2>1
<1>3. CASE loop.end = "stored" /\ loop.mode = "Start"
  <2>1. next = IF token = Char("-") THEN [loop EXCEPT !.end = "refused"]
               ELSE [loop EXCEPT !.mode = "Digit", !.buffer = <<token>>]
    BY <1>3 DEF DurationTurn
  <2>2. <<token>> \in Texts
    BY DEF Texts
  <2> HIDE DEF next
  <2>3. CASE token = Char("-")
    BY <1>1, <1>3, <2>1, <2>3 DEF LoopType, next
  <2>4. CASE token # Char("-")
    BY <1>1, <1>3, <2>1, <2>2, <2>4 DEF LoopType, next
  <2> QED
    BY <2>3, <2>4
<1>4. CASE loop.end = "stored" /\ loop.mode = "Digit" /\ IsDigits(token)
  <2>1. next = [loop EXCEPT !.buffer = Append(loop.buffer, token)]
    BY <1>1, <1>4 DEF DurationTurn
  <2>2. Append(loop.buffer, token) \in Texts
    BY <1>1 DEF Texts
  <2> HIDE DEF next
  <2> QED
    BY <1>1, <1>4, <2>1, <2>2 DEF LoopType, next
<1>5. CASE loop.end = "stored" /\ loop.mode = "Digit" /\ ~IsDigits(token)
  <2>1. CASE loop.buffer = << >> \/ token \notin Units
    <3>1. next = [loop EXCEPT !.end = "refused"]
      BY <1>5, <2>1 DEF DurationTurn, Units
    <3> HIDE DEF next
    <3> QED
      BY <1>1, <1>5, <2>1, <3>1 DEF LoopType, next
  <2>2. CASE loop.buffer # << >> /\ token \in Units
    <3>1. next = AddUnit(loop, token)
      BY <1>5, <2>2 DEF DurationTurn, Units
    <3> HIDE DEF next
    <3>2. CASE stoi(loop.buffer).throws
      <4>1. next = [loop EXCEPT !.end = "thrown"]
        BY <3>1, <3>2 DEF AddUnit
      <4> QED
        BY <1>1, <1>5, <2>2, <3>2, <4>1 DEF LoopType, next
    <3>3. CASE ~stoi(loop.buffer).throws
      <4> DEFINE sum == Int32(loop.res + Int32(stoi(loop.buffer).n * UnitLength(token)))
      <4>1. next = [loop EXCEPT !.buffer = << >>, !.res = sum]
        BY <1>1, <3>1, <3>3 DEF AddUnit
      <4>2. sum \in Int
        <5>1. UnitLength(token) \in Nat /\ stoi(loop.buffer).n \in Int
          BY <1>1, <2>2, CharsDiffer, StoiType
        <5>2. stoi(loop.buffer).n * UnitLength(token) \in Int
          BY <5>1
        <5>3. Int32(stoi(loop.buffer).n * UnitLength(token)) \in Int
          BY <5>2, Int32Adds
        <5> QED
          BY <1>1, <5>3, Int32Adds
      <4>3. << >> \in Texts
        BY DEF Texts
      <4> HIDE DEF sum
      <4>4. next \in LoopType
        BY <1>1, <1>5, <4>1, <4>2, <4>3 DEF LoopType
      <4>5. next.end = "stored" /\ next.mode = "Digit" /\ next.buffer = << >> /\ next.res = sum
        BY <1>1, <1>5, <4>1
      <4> QED
        BY <1>5, <2>2, <3>3, <4>4, <4>5 DEF next, sum
    <3> QED
      BY <3>2, <3>3
  <2> QED
    BY <2>1, <2>2
<1> QED
  BY <1>1, <1>2, <1>3, <1>4, <1>5

\* parse_duration is where the turns lead.
LEMMA TurnsSteps ==
  ASSUME NEW text \in Texts
  PROVE  LET f == Turns(text)
         IN  /\ parse_duration(text) = IF f[Len(text)].end = "stored" THEN Stored(f[Len(text)].res)
                                       ELSE Ends(f[Len(text)].end)
             /\ f[0] = [mode |-> "Start", buffer |-> << >>, res |-> 0, end |-> "stored"]
             /\ \A i \in 1 .. Len(text) : f[i] = DurationTurn(f[i - 1], text[i])
             /\ \A i \in 0 .. Len(text) : f[i] \in LoopType
<1> DEFINE n == Len(text)
           begun == [mode |-> "Start", buffer |-> << >>, res |-> 0, end |-> "stored"]
           step == [i \in 1 .. n |-> [loop \in LoopType |-> DurationTurn(loop, text[i])]]
           f == Turns(text)
<1>1. n \in Nat /\ \A i \in 1 .. n : text[i] \in Token
  BY DEF Texts
<1>2. begun \in LoopType
  <2>1. << >> \in Texts
    BY DEF Texts
  <2> QED
    BY <2>1 DEF LoopType
<1>3. \A i \in 1 .. n : \A loop \in LoopType : DurationTurn(loop, text[i]) \in LoopType
  <2> HIDE DEF n
  <2> QED
    BY <1>1, TurnOfLoop
<1> HIDE DEF begun, n
<1>4. step \in Steps(n, LoopType)
  BY <1>3 DEF Steps
<1>5. PICK g \in [0 .. n -> LoopType] : g[0] = begun /\ \A i \in 1 .. n : g[i] = step[i][g[i - 1]]
  <2> HIDE DEF step
  <2> QED
    BY <1>1, <1>2, <1>4, Recursion
<1>6. \A i \in 1 .. n : g[i] = DurationTurn(g[i - 1], text[i])
  <2> TAKE i \in 1 .. n
  <2>1. g[i - 1] \in LoopType
    BY <1>1
  <2> QED
    BY <1>5, <2>1
<1> DEFINE k == [i \in 0 .. n |-> IF i = 0 THEN begun ELSE DurationTurn(g[i - 1], text[i])]
<1>7. g = k
  <2>1. \A i \in 0 .. n : g[i] = k[i]
    BY <1>1, <1>5, <1>6
  <2>2. g = [i \in 0 .. n |-> g[i]]
    OBVIOUS
  <2> QED
    BY <2>1, <2>2
<1>8. f = [i \in 0 .. n |-> IF i = 0 THEN begun ELSE DurationTurn(f[i - 1], text[i])]
  BY <1>7 DEF Turns, n, begun
<1>9. parse_duration(text) = IF f[n].end = "stored" THEN Stored(f[n].res) ELSE Ends(f[n].end)
  BY DEF parse_duration, Turns, n
<1> HIDE DEF f
<1>10. f[0] = begun
  BY <1>1, <1>8
<1>11. \A i \in 1 .. n : f[i] = DurationTurn(f[i - 1], text[i])
  BY <1>1, <1>8
<1>12. \A i \in 0 .. n : f[i] \in LoopType
  <2> DEFINE A == {i \in 0 .. n : f[i] \in LoopType}
  <2>1. 0 \in A
    BY <1>1, <1>2, <1>10
  <2>2. ASSUME NEW i \in 0 .. n - 1, i \in A PROVE i + 1 \in A
    <3>1. i + 1 \in 1 .. n /\ (i + 1) - 1 = i /\ i + 1 \in 0 .. n /\ f[i] \in LoopType
      BY <1>1, <2>2
    <3>2. f[i + 1] = DurationTurn(f[i], text[i + 1])
      BY <1>11, <3>1
    <3> QED
      BY <1>3, <3>1, <3>2
  <2> HIDE DEF A
  <2>3. \A i \in 0 .. n : i \in A
    BY <1>1, <2>1, <2>2, UpTo
  <2> QED
    BY <2>3 DEF A
<1> QED
  BY <1>9, <1>10, <1>11, <1>12 DEF f, n, begun

\* A token of a text, and what the sum up to it is.
LEMMA Adding ==
  ASSUME NEW text \in Texts, NEW i \in 1 .. Len(text)
  PROVE  /\ text[i] \in Token
         /\ Sums(text)[i - 1] \in Nat
         /\ IsDigits(text[i]) \/ i = 1 => Sums(text)[i] = Sums(text)[i - 1]
         /\ i > 1 /\ text[i - 1][1] = "digits" /\ text[i] \in Units =>
               /\ text[i - 1][2] * UnitLength(text[i]) \in Nat
               /\ Sums(text)[i] = Sums(text)[i - 1] + text[i - 1][2] * UnitLength(text[i])
<1>1. /\ Sums(text)[i] = Sums(text)[i - 1] + Worth(text, i)
      /\ Sums(text)[i - 1] \in Nat
      /\ Worth(text, i) \in Nat
  <2>1. i - 1 \in 0 .. Len(text)
    OBVIOUS
  <2> QED
    BY <2>1, SumSteps
<1>2. text[i] \in Token
  BY DEF Texts
<1>3. IsDigits(text[i]) \/ i = 1 => Worth(text, i) = 0
  <2>1. IsDigits(text[i]) => text[i] \notin Units
    BY CharsDiffer
  <2> QED
    BY <2>1 DEF Worth
<1>4. i > 1 /\ text[i - 1][1] = "digits" /\ text[i] \in Units =>
         Worth(text, i) = text[i - 1][2] * UnitLength(text[i])
  BY DEF Worth
<1> QED
  BY <1>1, <1>2, <1>3, <1>4

\* What is in the buffer of parse_duration once i tokens are read: nothing, or
\* a number, or whatever the first character was, alone or with the number
\* behind it.
Buffered(text, i, buffer) ==
    \/ buffer = << >>
    \/ buffer = <<text[i]>> /\ (i > 1 => IsDigits(text[i])) /\ text[i] # Char("-")
    \/ /\ i = 2 /\ buffer = <<text[1], text[2]>>
       /\ ~IsDigits(text[1]) /\ text[1] # Char("-") /\ IsDigits(text[2])

\* The number a unit finds in the buffer is the one before it.
LEMMA BufferedNumber ==
  ASSUME NEW text \in Texts, NEW i \in 1 .. Len(text), NEW buffer,
         Buffered(text, i, buffer), buffer # << >>, ~stoi(buffer).throws
  PROVE  text[i][1] = "digits" /\ stoi(buffer).n = text[i][2]
<1>1. \A j \in 1 .. Len(text) : text[j] \in Token
  BY DEF Texts
<1>2. CASE buffer = <<text[i]>>
  BY <1>1, <1>2, StoiOne
<1>3. CASE /\ i = 2 /\ buffer = <<text[1], text[2]>>
           /\ ~IsDigits(text[1]) /\ text[1] # Char("-") /\ IsDigits(text[2])
  <2>1. text[1] \in Token /\ text[2] \in Token
    BY <1>1, <1>3
  <2>2. stoi(<<text[1], text[2]>>).n = text[2][2] /\ text[2][1] = "digits"
    BY <1>3, <2>1, StoiTwo
  <2> QED
    BY <1>3, <2>2
<1> QED
  BY <1>2, <1>3 DEF Buffered

LEMMA AppendOne ==
  ASSUME NEW a \in Token, NEW b \in Token
  PROVE  Append(<<a>>, b) = <<a, b>>
<1> DEFINE s == Append(<<a>>, b)
           t == <<a, b>>
<1>1. s \in Seq(Token) /\ t \in Seq(Token) /\ Len(s) = 2 /\ Len(t) = 2
  OBVIOUS
<1>2. s[1] = a /\ s[2] = b /\ t[1] = a /\ t[2] = b
  OBVIOUS
<1> HIDE DEF s, t
<1>3. s = [i \in 1 .. 2 |-> s[i]] /\ t = [i \in 1 .. 2 |-> t[i]]
  BY <1>1
<1>4. \A i \in 1 .. 2 : s[i] = t[i]
  BY <1>2
<1>5. [i \in 1 .. 2 |-> s[i]] = [i \in 1 .. 2 |-> t[i]]
  BY <1>4
<1> QED
  BY <1>3, <1>5 DEF s, t

\* One more token.
LEMMA BufferedStep ==
  ASSUME NEW text \in Texts, IsTokens(text), NEW i \in 1 .. Len(text) - 1,
         NEW loop \in LoopType, loop.end = "stored", loop.mode = "Digit",
         Buffered(text, i, loop.buffer), loop.res = Int32(Sums(text)[i]),
         NEW next, next = DurationTurn(loop, text[i + 1]), next.end = "stored"
  PROVE  /\ next.mode = "Digit"
         /\ Buffered(text, i + 1, next.buffer)
         /\ next.res = Int32(Sums(text)[i + 1])
<1> DEFINE token == text[i + 1]
<1>1. /\ i + 1 \in 1 .. Len(text) /\ (i + 1) - 1 = i /\ i + 1 > 1 /\ i \in 1 .. Len(text)
      /\ token \in Token /\ text[i] \in Token
  BY DEF Texts
<1>2. ~(IsDigits(text[i]) /\ IsDigits(token))
  BY DEF IsTokens
<1>3. /\ Sums(text)[i] \in Nat
      /\ IsDigits(token) => Sums(text)[i + 1] = Sums(text)[i]
      /\ text[i][1] = "digits" /\ token \in Units =>
            /\ text[i][2] * UnitLength(token) \in Nat
            /\ Sums(text)[i + 1] = Sums(text)[i] + text[i][2] * UnitLength(token)
  <2> DEFINE j == i + 1
  <2>1. /\ Sums(text)[j - 1] \in Nat
        /\ IsDigits(text[j]) \/ j = 1 => Sums(text)[j] = Sums(text)[j - 1]
        /\ j > 1 /\ text[j - 1][1] = "digits" /\ text[j] \in Units =>
              /\ text[j - 1][2] * UnitLength(text[j]) \in Nat
              /\ Sums(text)[j] = Sums(text)[j - 1] + text[j - 1][2] * UnitLength(text[j])
    <3>1. j \in 1 .. Len(text)
      BY <1>1
    <3> HIDE DEF j
    <3> QED
      BY <3>1, Adding
  <2> QED
    BY <1>1, <2>1
<1>4. CASE IsDigits(token)
  <2>1. next.mode = "Digit" /\ next.buffer = Append(loop.buffer, token) /\ next.res = loop.res
    BY <1>1, <1>4, TurnOfLoop
  <2>2. token # Char("-")
    BY <1>4, CharsDiffer
  <2>3. CASE loop.buffer = << >>
    <3>1. next.buffer = <<token>>
      BY <2>1, <2>3
    <3> QED
      BY <1>3, <1>4, <2>1, <2>2, <3>1 DEF Buffered
  <2>4. CASE loop.buffer # << >>
    <3>1. ~IsDigits(text[i])
      BY <1>2, <1>4
    <3>2. loop.buffer = <<text[i]>> /\ i = 1 /\ text[i] # Char("-")
      <4>1. CASE loop.buffer = <<text[i]>> /\ (i > 1 => IsDigits(text[i])) /\ text[i] # Char("-")
        BY <3>1, <4>1
      <4>2. CASE i = 2 /\ IsDigits(text[2])
        BY <3>1, <4>2
      <4> QED
        BY <2>4, <4>1, <4>2 DEF Buffered
    <3>3. next.buffer = <<text[1], text[2]>>
      <4> DEFINE one == text[1]
                 two == text[2]
      <4>1. /\ loop.buffer = <<one>> /\ next.buffer = Append(loop.buffer, two)
            /\ one \in Token /\ two \in Token
        BY <1>1, <2>1, <3>2
      <4> HIDE DEF one, two
      <4>2. next.buffer = <<one, two>>
        BY <4>1, AppendOne
      <4> QED
        BY <4>2 DEF one, two
    <3>4. Buffered(text, i + 1, next.buffer)
      <4>1. /\ i + 1 = 2 /\ next.buffer = <<text[1], text[2]>> /\ ~IsDigits(text[1])
            /\ text[1] # Char("-") /\ IsDigits(text[2])
        BY <1>4, <3>1, <3>2, <3>3
      <4> QED
        BY <4>1 DEF Buffered
    <3> QED
      BY <1>3, <1>4, <2>1, <3>4
  <2> QED
    BY <2>3, <2>4
<1>5. CASE ~IsDigits(token)
  <2>1. loop.buffer # << >> /\ token \in Units /\ ~stoi(loop.buffer).throws
    BY <1>1, <1>5, TurnOfLoop
  <2>2. /\ next.mode = "Digit" /\ next.buffer = << >>
        /\ next.res = Int32(loop.res + Int32(stoi(loop.buffer).n * UnitLength(token)))
    BY <1>1, <1>5, TurnOfLoop
  <2>3. text[i][1] = "digits" /\ stoi(loop.buffer).n = text[i][2]
    BY <1>1, <2>1, BufferedNumber
  <2> DEFINE s == Sums(text)[i]
             w == text[i][2] * UnitLength(token)
  <2>4. s \in Nat /\ w \in Nat /\ Sums(text)[i + 1] = s + w
    BY <1>3, <2>1, <2>3
  <2>5. next.res = Int32(Int32(s) + Int32(w))
    BY <2>2, <2>3
  <2> HIDE DEF s, w
  <2>6. Int32(Int32(s) + Int32(w)) = Int32(s + w)
    BY <2>4, Int32Adds
  <2> QED
    BY <2>2, <2>4, <2>5, <2>6 DEF Buffered
<1> QED
  BY <1>4, <1>5

\* Whatever parse_duration takes for a duration, it stores what the units add
\* up to, in 32 bits.
LEMMA DurationAddsUp ==
  ASSUME NEW text \in Texts, IsTokens(text)
  PROVE  /\ parse_duration(text).end \in {"stored", "refused", "thrown"}
         /\ parse_duration(text).end = "stored" => parse_duration(text).value = Int32(Total(text))
<1> DEFINE n == Len(text)
           f == Turns(text)
           So(i) == f[i].end = "stored" =>
                       /\ IF i = 0 THEN f[i].mode = "Start"
                          ELSE f[i].mode = "Digit" /\ Buffered(text, i, f[i].buffer)
                       /\ f[i].res = Int32(Sums(text)[i])
           A == {i \in 0 .. n : So(i)}
<1>1. n \in Nat /\ \A i \in 1 .. n : text[i] \in Token
  BY DEF Texts
<1>2. /\ parse_duration(text) = IF f[n].end = "stored" THEN Stored(f[n].res) ELSE Ends(f[n].end)
      /\ f[0] = [mode |-> "Start", buffer |-> << >>, res |-> 0, end |-> "stored"]
      /\ \A i \in 1 .. n : f[i] = DurationTurn(f[i - 1], text[i])
      /\ \A i \in 0 .. n : f[i] \in LoopType
  BY TurnsSteps
<1>3. Sums(text)[0] = 0 /\ Total(text) = Sums(text)[n] /\ Int32(0) = 0
  BY SumSteps, Int32Adds
<1> HIDE DEF f
<1>4. So(0)
  BY <1>2, <1>3
<1>5. ASSUME NEW i \in 0 .. n - 1, So(i), f[i + 1].end = "stored"
      PROVE  So(i + 1)
  <2>1. /\ i + 1 \in 1 .. n /\ (i + 1) - 1 = i /\ i + 1 # 0
        /\ f[i + 1] = DurationTurn(f[i], text[i + 1])
        /\ f[i] \in LoopType /\ text[i + 1] \in Token
    <3>1. i + 1 \in 1 .. n /\ (i + 1) - 1 = i /\ i + 1 # 0 /\ i \in 0 .. n
      BY <1>1
    <3> QED
      BY <1>1, <1>2, <3>1
  <2>2. f[i].end = "stored"
    BY <1>5, <2>1, TurnOfLoop
  <2>3. CASE i = 0
    <3>1. f[0].mode = "Start" /\ f[0].res = 0 /\ f[0].end = "stored"
      BY <1>2
    <3>2. /\ f[1] = DurationTurn(f[0], text[1]) /\ f[0] \in LoopType /\ text[1] \in Token
          /\ f[1].end = "stored" /\ 1 \in 1 .. n
      BY <1>5, <2>1, <2>3
    <3>3. /\ text[1] # Char("-") /\ f[1].mode = "Digit" /\ f[1].buffer = <<text[1]>>
          /\ f[1].res = 0
      BY <3>1, <3>2, TurnOfLoop
    <3>4. Sums(text)[1] = 0
      <4>1. Sums(text)[1] = Sums(text)[1 - 1]
        BY <3>2, Adding
      <4> QED
        BY <1>3, <4>1
    <3> QED
      BY <1>3, <2>3, <3>3, <3>4 DEF Buffered
  <2>4. CASE i # 0
    <3>1. i \in 1 .. Len(text) - 1
      BY <1>1, <2>4
    <3>2. f[i].mode = "Digit" /\ Buffered(text, i, f[i].buffer) /\ f[i].res = Int32(Sums(text)[i])
      BY <1>5, <2>2, <2>4
    <3>3. /\ f[i + 1].mode = "Digit" /\ Buffered(text, i + 1, f[i + 1].buffer)
          /\ f[i + 1].res = Int32(Sums(text)[i + 1])
      BY <1>5, <2>1, <2>2, <3>1, <3>2, BufferedStep
    <3> QED
      BY <2>1, <3>3
  <2> QED
    BY <2>3, <2>4
<1>6. n \in A
  <2>1. 0 \in A
    BY <1>1, <1>4
  <2>2. \A i \in 0 .. n - 1 : i \in A => i + 1 \in A
    <3> TAKE i \in 0 .. n - 1
    <3>1. i + 1 \in 0 .. n
      BY <1>1
    <3> QED
      BY <1>5, <3>1
  <2>3. \A i \in 0 .. n : i \in A
    <3> HIDE DEF A
    <3> QED
      BY <1>1, <2>1, <2>2, UpTo
  <2> QED
    BY <1>1, <2>3
<1>7. So(n)
  BY <1>6
<1>8. f[n].end \in {"stored", "refused", "thrown"}
  BY <1>1, <1>2 DEF LoopType
<1>9. CASE f[n].end = "stored"
  BY <1>2, <1>3, <1>7, <1>9 DEF Stored
<1>10. CASE f[n].end # "stored"
  BY <1>2, <1>8, <1>10 DEF Ends
<1> QED
  BY <1>9, <1>10

\* And it takes what has the form.
LEMMA DurationTaken ==
  ASSUME NEW text \in Texts, IsDuration(text)
  PROVE  parse_duration(text).end = "stored"
<1> DEFINE n == Len(text)
           f == Turns(text)
           So(i) == /\ f[i].end = "stored"
                    /\ f[i].mode = IF i = 0 THEN "Start" ELSE "Digit"
                    /\ f[i].buffer = IF i % 2 = 1 THEN <<text[i]>> ELSE << >>
           A == {i \in 0 .. n : So(i)}
<1>1. n \in Nat /\ \A i \in 1 .. n : text[i] \in Token
  BY DEF Texts
<1>2. /\ parse_duration(text) = IF f[n].end = "stored" THEN Stored(f[n].res) ELSE Ends(f[n].end)
      /\ f[0] = [mode |-> "Start", buffer |-> << >>, res |-> 0, end |-> "stored"]
      /\ \A i \in 1 .. n : f[i] = DurationTurn(f[i - 1], text[i])
      /\ \A i \in 0 .. n : f[i] \in LoopType
  BY TurnsSteps
<1> HIDE DEF f
<1>3. So(0)
  <2>1. 0 % 2 # 1
    OBVIOUS
  <2> QED
    BY <1>2, <2>1
<1>4. \A i \in 1 .. n : IF i % 2 = 1 THEN text[i][1] = "digits" ELSE text[i] \in Units
  BY DEF IsDuration, Texts
<1>5. ASSUME NEW i \in 0 .. n - 1, So(i)
      PROVE  So(i + 1)
  <2>1. /\ i + 1 \in 1 .. n /\ (i + 1) - 1 = i /\ i + 1 # 0
        /\ f[i + 1] = DurationTurn(f[i], text[i + 1])
        /\ f[i] \in LoopType /\ text[i + 1] \in Token
    <3>1. i + 1 \in 1 .. n /\ (i + 1) - 1 = i /\ i + 1 # 0 /\ i \in 0 .. n
      BY <1>1
    <3> QED
      BY <1>1, <1>2, <3>1
  <2> DEFINE token == text[i + 1]
             next == f[i + 1]
  <2>2. CASE i % 2 = 1
    <3>1. i \in 1 .. n /\ (i + 1) % 2 # 1 /\ i # 0
      BY <1>1, <2>2
    <3>2. text[i][1] = "digits" /\ token \in Units /\ text[i] \in Token
      BY <1>1, <1>4, <2>1, <2>2, <3>1
    <3>3. f[i].end = "stored" /\ f[i].mode = "Digit" /\ f[i].buffer = <<text[i]>>
      BY <1>5, <2>2, <3>1
    <3>4. ~stoi(f[i].buffer).throws /\ f[i].buffer # << >> /\ ~IsDigits(token)
      <4>1. ~stoi(<<text[i]>>).throws
        BY <3>2, StoiOne
      <4>2. ~IsDigits(token)
        BY <3>2, CharsDiffer
      <4>3. <<text[i]>> # << >>
        OBVIOUS
      <4> QED
        BY <3>3, <4>1, <4>2, <4>3
    <3>5. next.end = "stored" /\ next.mode = "Digit" /\ next.buffer = << >>
      <4> HIDE DEF token
      <4> QED
        BY <2>1, <3>2, <3>3, <3>4, TurnOfLoop DEF token
    <3> QED
      BY <2>1, <3>1, <3>5
  <2>3. CASE i % 2 # 1
    <3>1. (i + 1) % 2 = 1
      BY <2>3
    <3>2. token[1] = "digits"
      BY <1>4, <2>1, <3>1
    <3>3. IsDigits(token) /\ token # Char("-")
      BY <3>2, CharNames DEF IsDigits
    <3>4. /\ f[i].end = "stored" /\ f[i].buffer = << >>
          /\ f[i].mode = IF i = 0 THEN "Start" ELSE "Digit"
      BY <1>5, <2>3
    <3>5. next.end = "stored" /\ next.mode = "Digit" /\ next.buffer = <<token>>
      <4>1. CASE i = 0
        BY <2>1, <3>3, <3>4, <4>1, TurnOfLoop
      <4>2. CASE i # 0
        <5>1. /\ next.end = "stored" /\ next.mode = "Digit"
              /\ next.buffer = Append(f[i].buffer, token)
          BY <2>1, <3>3, <3>4, <4>2, TurnOfLoop
        <5> QED
          BY <3>4, <5>1
      <4> QED
        BY <4>1, <4>2
    <3> QED
      BY <2>1, <3>1, <3>5
  <2> QED
    BY <2>2, <2>3
<1>6. n \in A
  <2>1. 0 \in A
    BY <1>1, <1>3
  <2>2. \A i \in 0 .. n - 1 : i \in A => i + 1 \in A
    <3> TAKE i \in 0 .. n - 1
    <3>1. i + 1 \in 0 .. n
      BY <1>1
    <3> QED
      BY <1>5, <3>1
  <2>3. \A i \in 0 .. n : i \in A
    <3> HIDE DEF A
    <3> QED
      BY <1>1, <2>1, <2>2, UpTo
  <2> QED
    BY <1>1, <2>3
<1>7. f[n].end = "stored"
  BY <1>6
<1> QED
  BY <1>2, <1>7 DEF Stored

-----------------------------------------------------------------------------
(* The parsers.                                                            *)

\* A setting whose parser takes nothing else has a text in the form asked for.
LEMMA StrictParser ==
  ASSUME NEW key \in Setting \ Lenient, NEW text, Good(Parse(key, text))
  PROVE  AsAsked(key, text)
<1>1. text # NotScalar
  BY DEF Parse, Good, Ends
<1>2. CASE key = "server.id"
  BY <1>1, <1>2 DEF Parse, AsAsked, Good, Ends, parse_hex_uint64
<1>3. CASE key \in {"server.ip4_address", "memcache.ip4_address"}
  BY <1>1, <1>3 DEF Parse, AsAsked, Good, Ends, parse_ipv4
<1>4. CASE key \in {"logging.disable_splash", "local_discovery.enable", "memcache.enable"}
  BY <1>1, <1>4 DEF Parse, AsAsked, Good, Ends, parse_bool
<1> QED
  BY <1>2, <1>3, <1>4 DEF Setting, Lenient

\* The levels are numbered by the way they are written.
LEMMA LevelParser ==
  ASSUME NEW text, text \in {"error", "warn", "warning", "info", "debug"}
  PROVE  parse_log_level(text) = Stored(Meaning("logging.level", text))
<1> DEFINE levels == <<{"error"}, {"warn", "warning"}, {"info"}, {"debug"}>>
<1>1. Meaning("logging.level", text) = CHOOSE n \in 0 .. 3 : text \in levels[n + 1]
  BY DEF Meaning
<1>2. /\ levels[0 + 1] = {"error"} /\ levels[1 + 1] = {"warn", "warning"}
      /\ levels[2 + 1] = {"info"} /\ levels[3 + 1] = {"debug"}
  OBVIOUS
<1> HIDE DEF levels
<1>3. ASSUME NEW k \in 0 .. 3, text \in levels[k + 1],
             \A n \in 0 .. 3 : text \in levels[n + 1] => n = k
      PROVE  Meaning("logging.level", text) = k
  BY <1>1, <1>3
<1>4. CASE text = "error"
  BY <1>2, <1>3, <1>4 DEF parse_log_level
<1>5. CASE text \in {"warn", "warning"}
  BY <1>2, <1>3, <1>5 DEF parse_log_level
<1>6. CASE text = "info"
  BY <1>2, <1>3, <1>6 DEF parse_log_level
<1>7. CASE text = "debug"
  BY <1>2, <1>3, <1>7 DEF parse_log_level
<1> QED
  BY <1>4, <1>5, <1>6, <1>7

\* A text in the form that is asked for is stored for what it means.
LEMMA FaithfulParser ==
  ASSUME NEW key \in Setting, NEW text, AsAsked(key, text), key \in Numbers => IsTokens(text)
  PROVE  Parse(key, text) = Stored(Meaning(key, text))
<1>1. text # NotScalar
  BY DEF AsAsked
<1>2. CASE key = "logging.level"
  BY <1>1, <1>2, LevelParser DEF Parse, AsAsked
<1>3. CASE key = "server.id"
  BY <1>1, <1>3 DEF Parse, AsAsked, parse_hex_uint64, Meaning
<1>4. CASE key \in {"server.ip4_address", "memcache.ip4_address"}
  BY <1>1, <1>4 DEF Parse, AsAsked, parse_ipv4, Meaning
<1>5. CASE key \in {"server.port", "memcache.port"}
  <2>1. text \in Texts /\ IsPort(text)
    BY <1>1, <1>5 DEF AsAsked, Numbers, IsTokens, Texts, Token
  <2> DEFINE token == text[1]
  <2>2. text = <<token>> /\ token \in Token
    BY <2>1 DEF IsPort, Texts
  <2>3. token[1] = "digits" /\ token[2] \in Nat /\ token[2] <= 65535
    BY <2>1, <2>2 DEF IsPort, Token
  <2> HIDE DEF token
  <2>4. ~stoi(text).throws /\ stoi(text).n = token[2]
    <3>1. ~stoi(<<token>>).throws /\ stoi(<<token>>).n = token[2]
      BY <2>2, <2>3, StoiOne
    <3> QED
      BY <2>2, <3>1
  <2>5. token[2] % 65536 = token[2]
    BY <2>3, SMT
  <2>6. Parse(key, text) = parse_uint16(text)
    BY <1>1, <1>5 DEF Parse
  <2>7. Meaning(key, text) = token[2]
    BY <1>5 DEF Meaning, token
  <2> QED
    BY <2>4, <2>5, <2>6, <2>7 DEF parse_uint16
<1>6. CASE key = "local_discovery.interval"
  <2>1. text \in Texts /\ IsTokens(text) /\ IsDuration(text) /\ Fits(Total(text))
    BY <1>1, <1>6 DEF AsAsked, Numbers, IsTokens, Texts, Token
  <2>2. parse_duration(text).end = "stored" /\ parse_duration(text).value = Int32(Total(text))
    BY <2>1, DurationTaken, DurationAddsUp
  <2>3. Total(text) \in Nat
    <3>1. Len(text) \in 0 .. Len(text)
      BY <2>1 DEF Texts
    <3> QED
      BY <2>1, <3>1, SumSteps
  <2>4. Int32(Total(text)) = Total(text)
    BY <2>1, <2>3, Int32Adds
  <2>5. parse_duration(text) = Stored(parse_duration(text).value)
    BY <2>1, <2>2, TurnsSteps DEF Stored, Ends
  <2>6. Parse(key, text) = parse_duration(text)
    BY <1>1, <1>6 DEF Parse
  <2>7. Meaning(key, text) = Total(text)
    BY <1>6 DEF Meaning
  <2> QED
    BY <2>2, <2>4, <2>5, <2>6, <2>7
<1>7. CASE key \in {"logging.disable_splash", "local_discovery.enable", "memcache.enable"}
  <2>1. Parse(key, text) = parse_bool(text)
    BY <1>1, <1>7 DEF Parse
  <2>2. text \in {"true", "t", "yes"} \/ text \in {"false", "f", "no"}
    BY <1>1, <1>7 DEF AsAsked
  <2>3. Meaning(key, text) = (text \in {"true", "t", "yes"})
    BY <1>7 DEF Meaning
  <2>4. CASE text \in {"true", "t", "yes"}
    <3>1. Meaning(key, text) = TRUE
      BY <2>3, <2>4
    <3> QED
      BY <2>1, <2>4, <3>1 DEF parse_bool
  <2>5. CASE text \in {"false", "f", "no"}
    <3>1. text \notin {"true", "t", "yes"}
      BY <2>5
    <3>2. (text \in {"true", "t", "yes"}) = FALSE
      BY <3>1
    <3>3. Meaning(key, text) = FALSE
      BY <2>3, <3>2
    <3> QED
      BY <2>1, <2>5, <3>1, <3>3 DEF parse_bool
  <2> QED
    BY <2>2, <2>4, <2>5
<1> QED
  BY <1>2, <1>3, <1>4, <1>5, <1>6, <1>7 DEF Setting

-----------------------------------------------------------------------------
(* The two loads of a program.                                             *)

\* Every setting is in both orders, but memcached's address in the file's.
LEMMA Orders ==
  /\ YamlOrder \in Seq(Setting)
  /\ {YamlOrder[i] : i \in 1 .. Len(YamlOrder)} = Setting \ {"memcache.ip4_address"}
  /\ CmdLineOrder \in Seq(Setting)
  /\ {CmdLineOrder[i] : i \in 1 .. Len(CmdLineOrder)} = Setting
<1>1. YamlOrder \in Seq(Setting) /\ Len(YamlOrder) = 9
  BY DEF YamlOrder, Setting
<1>2. CmdLineOrder \in Seq(Setting) /\ Len(CmdLineOrder) = 10
  BY DEF CmdLineOrder, Setting
<1>3. {YamlOrder[i] : i \in 1 .. 9} = Setting \ {"memcache.ip4_address"}
  BY DEF YamlOrder, Setting
<1>4. {CmdLineOrder[i] : i \in 1 .. 10} = Setting
  BY DEF CmdLineOrder, Setting
<1> QED
  BY <1>1, <1>2, <1>3, <1>4

\* What a file and a line make of the settings before them.
LEMMA YamlIs ==
  ASSUME NEW V, NEW s0 \in Values(V), NEW file, file # Unreadable
  PROVE  LET load == load_yaml(s0, file)
             read == (Setting \ {"memcache.ip4_address"}) \cap DOMAIN file
         IN  /\ load.answer <=> \A key \in read : Good(Parse(key, file[key]))
             /\ \E W : load.settings \in Values(W)
             /\ load.answer => \A key \in Setting :
                   load.settings[key] =
                      IF key \in read /\ Parse(key, file[key]).end = "stored"
                      THEN Parse(key, file[key]).value
                      ELSE s0[key]
<1> DEFINE results == [key \in DOMAIN file |-> Parse(key, file[key])]
           W == V \cup {Parse(key, file[key]).value : key \in DOMAIN file}
           load == Loaded(TakeAllOf(s0, YamlOrder, results))
           all == {YamlOrder[i] : i \in 1 .. Len(YamlOrder)}
           read == (Setting \ {"memcache.ip4_address"}) \cap DOMAIN file
<1>1. load_yaml(s0, file) = load
  BY DEF load_yaml
<1>2. s0 \in Values(W)
  BY DEF Values
<1>3. DOMAIN results = DOMAIN file /\ \A key \in DOMAIN file : results[key] = Parse(key, file[key])
  OBVIOUS
<1>4. \A key \in DOMAIN results : results[key].value \in W
  BY <1>3
<1> HIDE DEF results, W
<1>5. /\ load.answer <=> \A key \in all \cap DOMAIN results : Good(results[key])
      /\ load.settings \in Values(W)
      /\ load.answer => \A key \in Setting :
            load.settings[key] =
               IF key \in all \cap DOMAIN results /\ results[key].end = "stored"
               THEN results[key].value
               ELSE s0[key]
  <2> DEFINE order == YamlOrder
  <2>1. order \in Seq(Setting)
    BY Orders
  <2> HIDE DEF order
  <2>2. /\ Loaded(TakeAllOf(s0, order, results)).answer <=>
              \A key \in {order[i] : i \in 1 .. Len(order)} \cap DOMAIN results : Good(results[key])
        /\ Loaded(TakeAllOf(s0, order, results)).settings \in Values(W)
        /\ Loaded(TakeAllOf(s0, order, results)).answer => \A key \in Setting :
              Loaded(TakeAllOf(s0, order, results)).settings[key] =
                 IF key \in {order[i] : i \in 1 .. Len(order)} \cap DOMAIN results
                    /\ results[key].end = "stored"
                 THEN results[key].value
                 ELSE s0[key]
    BY <1>2, <1>4, <2>1, LoadedIs
  <2> QED
    BY <2>2 DEF order
<1>6. all \cap DOMAIN results = read
  BY <1>3, Orders
<1> HIDE DEF load, all
<1> QED
  BY <1>1, <1>3, <1>5, <1>6

LEMMA LineIs ==
  ASSUME NEW V, NEW s0 \in Values(V), NEW line
  PROVE  LET load == load_cmd_line(s0, line)
         IN  /\ load.answer <=>
                   /\ DOMAIN line \subseteq Setting \ NeverFromCmdLine
                   /\ \A key \in DOMAIN line : Good(Parse(key, line[key]))
             /\ load.answer => \A key \in Setting :
                   load.settings[key] =
                      IF key \in DOMAIN line /\ Parse(key, line[key]).end = "stored"
                      THEN Parse(key, line[key]).value
                      ELSE s0[key]
<1> DEFINE results == [key \in DOMAIN line |-> ParseOption(key, line[key])]
           W == V \cup {ParseOption(key, line[key]).value : key \in DOMAIN line}
           load == Loaded(TakeAllOf(s0, CmdLineOrder, results))
           all == {CmdLineOrder[i] : i \in 1 .. Len(CmdLineOrder)}
<1>1. Declared = (Setting \ NeverFromCmdLine) \cup {"server.port"} /\ Declared \subseteq Setting
  BY DEF Declared, Setting, NeverFromCmdLine
<1>2. "server.port" \in NeverFromCmdLine
  BY DEF NeverFromCmdLine
<1>3. CASE ~CmdLineStored(line)
  <2>1. load_cmd_line(s0, line).answer = FALSE
    BY <1>3 DEF load_cmd_line
  <2>2. ~(DOMAIN line \subseteq Setting \ NeverFromCmdLine)
    BY <1>1, <1>2, <1>3 DEF CmdLineStored
  <2> QED
    BY <2>1, <2>2
<1>4. CASE CmdLineStored(line)
  <2>1. load_cmd_line(s0, line) = load
    BY <1>4 DEF load_cmd_line
  <2>2. s0 \in Values(W)
    BY DEF Values
  <2>3. /\ DOMAIN results = DOMAIN line
        /\ \A key \in DOMAIN line : results[key] = ParseOption(key, line[key])
    OBVIOUS
  <2>4. \A key \in DOMAIN results : results[key].value \in W
    BY <2>3
  <2>5. DOMAIN line \subseteq Declared
    BY <1>4 DEF CmdLineStored
  <2> HIDE DEF results, W
  <2>6. /\ load.answer <=> \A key \in all \cap DOMAIN results : Good(results[key])
        /\ load.answer => \A key \in Setting :
              load.settings[key] =
                 IF key \in all \cap DOMAIN results /\ results[key].end = "stored"
                 THEN results[key].value
                 ELSE s0[key]
    <3> DEFINE order == CmdLineOrder
    <3>1. order \in Seq(Setting)
      BY Orders
    <3> HIDE DEF order
    <3>2. /\ Loaded(TakeAllOf(s0, order, results)).answer <=>
                \A key \in {order[i] : i \in 1 .. Len(order)} \cap DOMAIN results :
                   Good(results[key])
          /\ Loaded(TakeAllOf(s0, order, results)).answer => \A key \in Setting :
                Loaded(TakeAllOf(s0, order, results)).settings[key] =
                   IF key \in {order[i] : i \in 1 .. Len(order)} \cap DOMAIN results
                      /\ results[key].end = "stored"
                   THEN results[key].value
                   ELSE s0[key]
      BY <2>2, <2>4, <3>1, LoadedIs
    <3> QED
      BY <3>2 DEF order
  <2>7. all \cap DOMAIN results = DOMAIN line
    BY <1>1, <2>3, <2>5, Orders
  <2> HIDE DEF load, all
  <2>8. CASE "server.port" \in DOMAIN line
    <3>1. ~Good(results["server.port"])
      BY <2>3, <2>8 DEF ParseOption, Good, Ends
    <3> QED
      BY <1>2, <2>1, <2>6, <2>7, <2>8, <3>1
  <2>9. CASE "server.port" \notin DOMAIN line
    <3>1. \A key \in DOMAIN line : results[key] = Parse(key, line[key])
      BY <2>3, <2>9 DEF ParseOption
    <3>2. DOMAIN line \subseteq Setting \ NeverFromCmdLine
      BY <1>1, <2>5, <2>9
    <3> QED
      BY <2>1, <2>6, <2>7, <3>1, <3>2
  <2> QED
    BY <2>8, <2>9
<1> QED
  BY <1>3, <1>4

\* The two of them on what a process is given.
FromFile == (Setting \ {"memcache.ip4_address"}) \cap DOMAIN given.yaml
LEMMA BothAre ==
  ASSUME given \in Launch, given.yaml # Unreadable
  PROVE  /\ FromYaml.answer <=> \A key \in FromFile : Good(Parse(key, given.yaml[key]))
         /\ FromLine.answer <=>
               /\ DOMAIN given.line \subseteq Setting \ NeverFromCmdLine
               /\ \A key \in DOMAIN given.line : Good(Parse(key, given.line[key]))
         /\ FromYaml.answer /\ FromLine.answer => \A key \in Setting :
               FromLine.settings[key] =
                  IF key \in DOMAIN given.line /\ Parse(key, given.line[key]).end = "stored"
                  THEN Parse(key, given.line[key]).value
                  ELSE IF key \in FromFile /\ Parse(key, given.yaml[key]).end = "stored"
                  THEN Parse(key, given.yaml[key]).value
                  ELSE Defaults[key]
         /\ InTokens(given.yaml) /\ InTokens(given.line)
<1> DEFINE V == {Defaults[key] : key \in Setting}
           file == given.yaml
           line == given.line
           s1 == FromYaml.settings
<1>1. Defaults \in Values(V)
  <2> DEFINE d == Defaults
  <2>1. d = [key \in Setting |-> d[key]]
    BY DEF Defaults
  <2> HIDE DEF d
  <2>2. d \in [Setting -> {d[key] : key \in Setting}]
    BY <2>1
  <2> QED
    BY <2>2 DEF Values, d
<1>2. InTokens(given.yaml) /\ InTokens(given.line)
  BY LaunchAssumption
<1> HIDE DEF V
<1>3. /\ FromYaml.answer <=> \A key \in FromFile : Good(Parse(key, file[key]))
      /\ \E W : s1 \in Values(W)
      /\ FromYaml.answer => \A key \in Setting :
            s1[key] = IF key \in FromFile /\ Parse(key, file[key]).end = "stored"
                      THEN Parse(key, file[key]).value
                      ELSE Defaults[key]
  <2>1. FromYaml = load_yaml(Defaults, file)
    BY DEF FromYaml
  <2>2. file # Unreadable /\ FromFile = (Setting \ {"memcache.ip4_address"}) \cap DOMAIN file
    BY DEF FromFile
  <2> HIDE DEF file
  <2> QED
    BY <1>1, <2>1, <2>2, YamlIs
<1>4. PICK W : s1 \in Values(W)
  BY <1>3
<1>5. /\ FromLine.answer <=>
            /\ DOMAIN line \subseteq Setting \ NeverFromCmdLine
            /\ \A key \in DOMAIN line : Good(Parse(key, line[key]))
      /\ FromLine.answer => \A key \in Setting :
            FromLine.settings[key] =
               IF key \in DOMAIN line /\ Parse(key, line[key]).end = "stored"
               THEN Parse(key, line[key]).value
               ELSE s1[key]
  <2>1. FromLine = load_cmd_line(s1, line)
    BY DEF FromLine
  <2> HIDE DEF line, s1
  <2> QED
    BY <1>4, <2>1, LineIs
<1> HIDE DEF s1
<1> QED
  BY <1>2, <1>3, <1>5

\* A program that starts: what its settings are, and what it was given.
LEMMA Started ==
  ASSUME LoadInv, main = "start_core"
  PROVE  /\ DOMAIN given.line \subseteq Setting \ NeverFromCmdLine
         /\ \A key \in DOMAIN given.line : Good(Parse(key, given.line[key]))
         /\ \A key \in FromFile : Good(Parse(key, given.yaml[key]))
         /\ \A key \in Setting :
               settings[key] =
                  IF key \in DOMAIN given.line /\ Parse(key, given.line[key]).end = "stored"
                  THEN Parse(key, given.line[key]).value
                  ELSE IF key \in FromFile /\ Parse(key, given.yaml[key]).end = "stored"
                  THEN Parse(key, given.yaml[key]).value
                  ELSE Defaults[key]
         /\ InTokens(given.yaml) /\ InTokens(given.line)
<1>1. /\ given \in Launch /\ FromYaml.answer /\ FromLine.answer
      /\ settings = FromLine.settings
  BY DEF LoadInv
<1>2. given.yaml # Unreadable
  BY <1>1 DEF FromYaml, load_yaml
<1> QED
  BY <1>1, <1>2, BothAre

LEMMA Textual ==
  ASSUME NEW texts, InTokens(texts), NEW key \in DOMAIN texts
  PROVE  key \in Numbers => texts[key] = NotScalar \/ IsTokens(texts[key])
BY DEF InTokens

\* What Names and LastText come to.
LEMMA Named ==
  ASSUME NEW key \in Setting, DOMAIN given.line \subseteq Setting \ NeverFromCmdLine
  PROVE  /\ 1 \in Names(key) <=> key \in FromFile
         /\ 2 \in Names(key) <=> key \in DOMAIN given.line
         /\ Names(key) \subseteq {1, 2}
         /\ Layers[1] = given.yaml /\ Layers[2] = given.line
         /\ key \in DOMAIN given.line => LastText(key) = given.line[key]
         /\ key \notin DOMAIN given.line /\ key \in FromFile => LastText(key) = given.yaml[key]
<1>1. Layers[1] = given.yaml /\ Layers[2] = given.line
  BY DEF Layers
<1>2. "memcache.ip4_address" \notin DOMAIN given.line
  BY DEF NeverFromCmdLine
<1>3. /\ 1 \in Names(key) <=> key \in FromFile
      /\ 2 \in Names(key) <=> key \in DOMAIN given.line
      /\ Names(key) \subseteq {1, 2}
  BY <1>1, <1>2 DEF Names, FromFile
<1>4. 2 \in Names(key) => Max(Names(key)) = 2
  <2> SUFFICES ASSUME 2 \in Names(key) PROVE Max(Names(key)) = 2
    OBVIOUS
  <2>1. \A y \in Names(key) : 2 >= y
    BY <1>3
  <2>2. \A x \in Names(key) : (\A y \in Names(key) : x >= y) => x = 2
    BY <1>3
  <2> QED
    BY <2>1, <2>2 DEF Max
<1>5. Names(key) = {1} => Max(Names(key)) = 1
  BY DEF Max
<1>6. key \in DOMAIN given.line => LastText(key) = given.line[key]
  BY <1>1, <1>3, <1>4 DEF LastText
<1>7. key \notin DOMAIN given.line /\ key \in FromFile => LastText(key) = given.yaml[key]
  <2>1. key \notin DOMAIN given.line /\ key \in FromFile => Names(key) = {1}
    BY <1>3
  <2> QED
    BY <1>1, <1>5, <2>1 DEF LastText
<1> QED
  BY <1>1, <1>3, <1>6, <1>7

\* What the invariant says of a program that starts, and of one that does not.
LEMMA StartedAsGiven == LoadInv => SettingsAsGiven
<1> SUFFICES ASSUME LoadInv, main = "start_core", NEW key \in Setting
             PROVE  /\ Names(key) = {} => settings[key] = Defaults[key]
                    /\ Names(key) # {} /\ AsAsked(key, LastText(key)) =>
                          settings[key] = Meaning(key, LastText(key))
                    /\ \A i \in Names(key) : key \notin Lenient => AsAsked(key, Layers[i][key])
  BY DEF SettingsAsGiven
<1>1. /\ DOMAIN given.line \subseteq Setting \ NeverFromCmdLine
      /\ \A k \in DOMAIN given.line : Good(Parse(k, given.line[k]))
      /\ \A k \in FromFile : Good(Parse(k, given.yaml[k]))
      /\ settings[key] =
            IF key \in DOMAIN given.line /\ Parse(key, given.line[key]).end = "stored"
            THEN Parse(key, given.line[key]).value
            ELSE IF key \in FromFile /\ Parse(key, given.yaml[key]).end = "stored"
            THEN Parse(key, given.yaml[key]).value
            ELSE Defaults[key]
      /\ InTokens(given.yaml) /\ InTokens(given.line)
  BY Started
<1>2. /\ 1 \in Names(key) <=> key \in FromFile
      /\ 2 \in Names(key) <=> key \in DOMAIN given.line
      /\ Names(key) \subseteq {1, 2}
      /\ Layers[1] = given.yaml /\ Layers[2] = given.line
      /\ key \in DOMAIN given.line => LastText(key) = given.line[key]
      /\ key \notin DOMAIN given.line /\ key \in FromFile => LastText(key) = given.yaml[key]
  BY <1>1, Named
<1>3. \A text : AsAsked(key, text) /\ (key \in Numbers => text = NotScalar \/ IsTokens(text)) =>
         /\ Parse(key, text).end = "stored"
         /\ Parse(key, text).value = Meaning(key, text)
  <2> SUFFICES ASSUME NEW text, AsAsked(key, text),
                      key \in Numbers => text = NotScalar \/ IsTokens(text)
               PROVE  /\ Parse(key, text).end = "stored"
                      /\ Parse(key, text).value = Meaning(key, text)
    OBVIOUS
  <2>1. text # NotScalar
    BY DEF AsAsked
  <2>2. Parse(key, text) = Stored(Meaning(key, text))
    BY <2>1, FaithfulParser
  <2> QED
    BY <2>2 DEF Stored
<1>4. Names(key) = {} => settings[key] = Defaults[key]
  BY <1>1, <1>2
<1>5. ASSUME Names(key) # {}, AsAsked(key, LastText(key))
      PROVE  settings[key] = Meaning(key, LastText(key))
  <2>1. CASE key \in DOMAIN given.line
    <3>1. key \in Numbers => given.line[key] = NotScalar \/ IsTokens(given.line[key])
      BY <1>1, <2>1, Textual
    <3> QED
      BY <1>1, <1>2, <1>3, <1>5, <2>1, <3>1
  <2>2. CASE key \notin DOMAIN given.line
    <3>1. key \in FromFile
      BY <1>2, <1>5, <2>2
    <3>2. key \in Numbers => given.yaml[key] = NotScalar \/ IsTokens(given.yaml[key])
      BY <1>1, <3>1, Textual DEF FromFile
    <3> QED
      BY <1>1, <1>2, <1>3, <1>5, <2>2, <3>1, <3>2
  <2> QED
    BY <2>1, <2>2
<1>6. ASSUME NEW i \in Names(key), key \notin Lenient
      PROVE  AsAsked(key, Layers[i][key])
  <2>1. \A text : Good(Parse(key, text)) => AsAsked(key, text)
    BY <1>6, StrictParser
  <2>2. i = 1 \/ i = 2
    BY <1>2, <1>6
  <2> QED
    BY <1>1, <1>2, <1>6, <2>1, <2>2
<1> QED
  BY <1>4, <1>5, <1>6

LEMMA RefusedOnes == LoadInv => RefusedForAReason
<1> SUFFICES ASSUME LoadInv, Refused, given.yaml # Unreadable,
                    \A key \in Setting \cap DOMAIN given.yaml : AsAsked(key, given.yaml[key]),
                    \A key \in DOMAIN given.line :
                       key \in Setting \ NeverFromCmdLine /\ AsAsked(key, given.line[key])
             PROVE  FALSE
  BY DEF RefusedForAReason
<1>1. given \in Launch /\ ~(FromYaml.answer /\ FromLine.answer)
  BY DEF LoadInv
<1>2. /\ FromYaml.answer <=> \A key \in FromFile : Good(Parse(key, given.yaml[key]))
      /\ FromLine.answer <=>
            /\ DOMAIN given.line \subseteq Setting \ NeverFromCmdLine
            /\ \A key \in DOMAIN given.line : Good(Parse(key, given.line[key]))
      /\ InTokens(given.yaml) /\ InTokens(given.line)
  BY <1>1, BothAre
<1>3. ASSUME NEW texts, InTokens(texts), NEW key \in Setting \cap DOMAIN texts,
             AsAsked(key, texts[key])
      PROVE  Good(Parse(key, texts[key]))
  <2>1. texts[key] # NotScalar
    BY <1>3 DEF AsAsked
  <2>2. key \in Numbers => IsTokens(texts[key])
    BY <1>3, <2>1, Textual
  <2>3. Parse(key, texts[key]) = Stored(Meaning(key, texts[key]))
    BY <1>3, <2>2, FaithfulParser
  <2> QED
    BY <2>3 DEF Stored, Good
<1>4. FromYaml.answer
  BY <1>2, <1>3 DEF FromFile
<1>5. FromLine.answer
  BY <1>2, <1>3
<1> QED
  BY <1>1, <1>4, <1>5

\* A program starts with what the last layer that names a setting says, and on
\* nothing the strict parsers refuse (src/src/Config.cpp:27-153).
THEOREM SettingsAsGivenCorrect == DaemonSpec => []SettingsAsGiven
BY LoadCorrect, StartedAsGiven, PTL

\* A program that returns on its settings was given something it must not be
\* given (src/examples/kapuad/main.cpp:44-53, src/src/Config.cpp:27-221).
THEOREM RefusedForAReasonCorrect == DaemonSpec => []RefusedForAReason
BY LoadCorrect, RefusedOnes, PTL
=============================================================================
