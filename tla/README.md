# A TLA+ model of Kapua

Kapua is a C++ library for a mesh of nodes that find each other by UDP
broadcast, exchange RSA public keys, agree on session keys and are meant to
keep blocks on a ring of nodes. The only program in the repository is the
example daemon `examples/kapuad`; the library is "intended to be integrated
into other software" (docs/philosophy.md), so the models let the owner of an
object call what the class lets it call, not only what kapuad happens to call.

Paths below are those of the repository (`src/...` for the library's sources).
Line numbers are those of the modelled commit.

## 1. Inventory

| component | state it keeps | operations | interacts with |
|---|---|---|---|
| handshake (`UDPNetwork.cpp`, `Node.hpp`, `Protocol.hpp`) | per source address a `Node`: identity, state Initialised … Connected, AES keys for sending and for receiving | `_receive`, `_process_packet`, `_broadcast`, `_send`, one loop iteration at a time | the same code at other addresses by datagrams; Core's address table; `Core::_keys`; RSA |
| life of the network thread (`UDPNetwork.cpp`) | `_running`, `_main_thread`, `_server_socket_fd`, the port | `start`, `stop`, destructor by the owner; `_listen`, `_main_loop`, `_shutdown` in the thread | owner and thread share the members without a lock |
| node tables of Core (`Core.cpp`) | `_nodes` by identity, `_nodes_by_addr`, heap of `Node`, `_nodes_mutex` | `add_node`, `remove_node`, `find_node` (two), destructor | called by the network thread and by the application, which keep plain pointers |
| Core's own thread (`Core.cpp`) | `_running`, `_thread`, queue `_actions` with mutex and condition | `start`, `stop`, destructor, `queue_action`, `_main_loop` | owner, anyone who queues, the thread |
| key files (`RSA.cpp`, kapuad's `main`) | `public.pem`, `private.pem`, the two halves in `Core::_keys` | generate, load, at every start of the process | file system; the handshake uses what was loaded |
| configuration (`Config.cpp`) | the settings: defaults, then file, then command line | `load_yaml`, `load_cmd_line`, one parser per kind of value | read by `main` and the threads after start-up |
| daemon (`examples/kapuad/main.cpp`) | where `main` is, `running`, the objects on its stack | keys, configuration, start Core, start the network, wait for SIGINT, stop, return | everything above; ended by a signal or a crash |
| block store (`DistributedBlockStore.cpp`) | `ring`, `virtual_to_real`, `node_capacities` | add, remove, update a node; look a block up | no caller in the repository yet |
| logger, `SockaddrHashable`, `Util`, `Kapua` | none that others read | formatting, output, hashing | everyone |
| `MemcachedServer`, `Settings`, `Actions` | stubs | none with an effect | nobody |

What is hard here, and hard to test:

* *datagrams*: lost, reordered, repeated, heard by their own sender, meeting a
  handshake in another state than their sender thought; handled a second time
  when `recvfrom` fails; nothing is ever resent;
* *restarts*: a process comes back at its old address with another identity,
  and with whatever keys a crash left on disk;
* *two threads and no lock*: `start()` returns before the thread has announced
  itself, and `stop()` and the destructors decide by a flag the thread sets;
* *pointers outside the mutex*: what `find_node` returns is used after the
  mutex is released;
* *missing halves*: a load that half succeeds, a key that is not decrypted;
* *text that is almost right*: a number too large for its type, a duration
  without a unit, a setting refused in one place and taken in another;
* *the end of the process*: SIGINT may come while a thread is in any place, and
  the objects on the stack are destroyed in an order `main` does not choose;
* *a ring smaller than the walk over it*, and virtual ids that change hands.

What makes each component correct:

* handshake: no key is used before it exists; nothing but Ready leaves
  encrypted; two live ends that agree they are connected hold the same two
  keys; the handshake never goes back; it completes on a network that behaves;
  packets do not breed packets for ever; nobody connects to himself;
* thread life: one thread at a time, with a socket that is its own; the
  destructor leaves no loop behind; whatever fails, the port is free at the end;
  `stop()` returns;
* tables: they agree; while Core lives, a pointer in use is to a node that is
  filed; first come stays;
* Core's thread: one loop; every action taken; `stop()` returns;
* key files: the halves loaded belong together; a good pair that can be read is
  never overwritten;
* configuration: what the last layer says is what the program starts with, and
  it starts on nothing it should refuse and refuses nothing else;
* daemon: the identity exists before the network uses it; a network thread that
  was told to stop is gone before what it works on; after SIGINT the process ends;
* store: containers agree; a lookup is the nearest positions clockwise; joins
  and departures move no more than consistent hashing says.

`PROJECT.json` lists every component and its status, and the hazards with the
line where each bites and the properties that would catch it.

## 2. Plan

Order, most important behaviour first. All of it is done:

1. `UDPNetwork` with `SecureSession`, the handshake and what it implements;
   proofs in `UDPNetwork_proofs` (what holds under every fault) and
   `UDPNetwork_handshake` (what holds of two ends at once).
2. `DistributedBlockStore`; proofs in `DistributedBlockStore_proofs`.
3. `CoreNodes`; proofs in `CoreNodes_proofs`.
4. `NetworkThread`; proofs in `NetworkThread_proofs`.
5. `KeyFiles`; proofs in `KeyFiles_proofs`.
6. `CoreThread`; proofs in `CoreThread_proofs`.
7. The failing `recvfrom` and the duplicates of single packet types in
   `UDPNetwork`.
8. `Config`, the parsers and the two loads, as operators.
9. `Kapuad`, which composes `KeyFiles`, `Config`, `CoreThread` and
   `NetworkThread`; proofs in `Kapuad_proofs`.

What could come next: two processes in one directory in `KeyFiles`;
`UDPNetwork` in the place of `NetworkThread` in `Kapuad` (too large for TLC with
both threads' interleavings; the two meet in `Start` and `Stop` only).

## 3. Modules and how they correspond to the code

Each definition's lines are in `PROJECT.json` under `map`. Definitions marked
*(Mutant of …)* are plausible mistakes; no specification uses them. They serve
to show that a property can fail: putting one in its place breaks the property
the `mutants` list names.

**UDPNetwork.** A value of `Addr` is one UDP endpoint. `node[a][s]` is what
`_nodes_by_addr` of the process at `a` holds for the source `s`: identity,
state, `tx` and `rx` (`aes_context_tx`, `aes_context_rx`). `lane[s][d]` is the
sequence of datagrams in flight; what the network may do to them is the
constants `Faults`, `Repeatable` (the types of packet that are duplicated) and
the bound `MaxRepeats`. `boot[a]` counts the processes that
have started at `a`, and the identity drawn by `Core::start` is
`<<a, boot[a]>>`: fresh at each start. `Exit` is the end of the process
(main.cpp:76-88, with `~Core`): its tables go with it, what is on the way to or
from its address does not, its own broadcast included, which its successor may
hear. `UDPNetwork::stop` followed by `start` on the same Core, which would keep
the tables, is not modelled here (kapuad never does it). One action `Receive…` is one whole
iteration of `_main_loop` on one datagram: look up by address, decrypt if need
be, drop what is unreadable or our own, add and greet a new node, then the case
of `_process_packet` with its reply, which `Seal` encrypts as `_send` does by
the state *after* the assignment. Idealised, and said in the module: two random
identities or keys do not coincide; a ciphertext taken for plaintext shows a
valid version byte one time in 256 (`ReceiveMisread`) but never a known type.

A failed `recvfrom` (`ReceiveAgain`) is an iteration like any other on what is
left in the standby buffer: its -1 becomes 65535 in a `uint16_t`
(UDPNetwork.cpp:310), passes both size checks, and the datagram read before is
handled again, from the address it came from, in the clear if it had been
decrypted. So `standby[d]` remembers the last datagram, in the state decryption
left it (`Kept`); it is recorded only where `"recvfrom"` is in `Faults`. A
datagram still encrypted, from a peer whose node is far enough to decrypt
(`Overruns`), is then decrypted as 65535 bytes into a buffer of 1450 on the stack:
undefined behaviour, of which the peers see that the process ends or goes on
without that datagram (`OverrunStack`).

Session keys are not strings of bytes but `<<maker, peer, count>>`, and
decryption is equality of keys. `LenHolds` is an undefined value: `len`
(UDPNetwork.cpp:145) is given to `EVP_PKEY_decrypt` uninitialised, which refuses
when it happens to be smaller than the key. Where both values are allowed each
decryption may go either way.

**SecureSession** is the abstract specification: each live end offers one key,
takes the other's, and calls the session linked only when both have both. The
mapping is at the end of `UDPNetwork`: `tx` and `rx` are those of the node
(none if there is no node), `linked` is Connected, and a stopped process is
dead, to which nothing is promised.

**NetworkThread.** Threads are values; a socket is named by the thread that
created it, so that taking another thread's socket is visible. One action is
one access to a shared member that another thread could come between. `Start`,
`Stop`, `DestroyStopped` are the owner's; `CreateSocket`, `SocketFails`, `Bind`,
`BindFails`, `GiveUp` (the second `_shutdown` after a `_listen` that failed),
`Announce`, `LeaveLoop`, `Close` are the thread's. Packet handling is left to
UDPNetwork. Nothing in the interface tells the owner how far a thread has got, so
it calls at any time: a destructor that comes before the thread has announced
itself leaves it behind, and a second start may find the first thread still active.
The history variable `overlapped` remembers the latter. From then on two threads
share `_server_socket_fd`, and nothing that can be said of one socket and one
thread is true; the properties of this module say so and hold until then, with
the destructor and `stop()` called whenever they may be.

**CoreNodes.** `heap`, `nodes` and `by_addr` are partial functions, `insert`
keeps what is there, as `unordered_map::insert` does. Each operation is one
action under the mutex, but the pointer it returns is kept in `held` and used
later: between `find_node` and `add_node` and while a packet is processed
anything may come between, `~Core` included: `Destroy` waits only for the
application's own call to return. `remove_node` locks the mutex and calls `find_node`,
which locks it again. That is undefined for `std::mutex`; `Relock` chooses
between the two outcomes in practice, blocking for ever and throwing.

**CoreThread.** `_main_loop` tests `_running` (`Enter`), sets it (`Announce`),
then tests and waits in turn; `wait_for` ends with an action or after 100ms, so
`TakeAll` may come at any time and takes all. The owner calls at any time here
too. Two starts may give two loops (`overlapped`, as in NetworkThread), since the
check of line 87 and the assignment of line 91 are two steps; and a `stop()`
before that assignment is overwritten by it and never returns. CoreThreadInv is
stated up to an overlap, StopReturns for a `stop()` that comes after the
assignment. `~Core` only lets go of the thread.

**KeyFiles.** A file is absent, torn, or holds the half of the n-th pair made.
One action is one call on a file; opening for writing tears it, writing and
closing fills it or (`"write"` in `Faults`) leaves it torn, since neither
result is looked at. A file that exists may still fail to open (`"open"`), for
writing or for reading. main.cpp:36 takes a private.pem that does not open for
missing (`CheckFails`) and makes a new pair; `misread` remembers that this
happened to a good key, until private.pem is written again. `Stop` may come anywhere: end or crash. kapuad ignores
what generate and load return, and so does the frame here.

**DistributedBlockStore.** Positions `0 .. MaxPoint` stand for `uint64_t`;
`LowerBound` is the least position not below the block, `Walk` the five positions
of the loop, round the ring again when it is smaller, `Usable` those of them whose
node has room, and `Those` what a sequence has of a set, in order. `usage` stays 0,
as in the code: nothing assigns it.

**Config** is pure: what a parser stored and how it ended (stored, ignored,
refused, thrown) is a record, and a load goes through the settings in the order
the function asks for them, one `Turn` each. A text is a sequence of tokens, a whole run of
digits or one other character, since that is all the parsers tell apart; words
stand for themselves. `parse_duration` takes its two-mode automaton through the
tokens, one `DurationTurn` each. These loops are recursive functions, so that they
can be proved about. `LaunchAssumption` (in Kapuad) says of a text for a number
that it is a sequence of tokens and that no two runs of digits are next to each
other, which is what a run is.
Signed overflow, undefined in C++, is modelled by what is built: it wraps in 32
bits (`Int32`). TLC's integers have the same width, so milliseconds are counted
in eighths (every unit is a whole number of them); 32 bits of milliseconds are
29 bits there. `AsAsked` and `Meaning`, at the end, are not the code's: they say
what `config.example.yaml` and the error messages ask for, and the properties
compare the two.

**Kapuad** is `main` from its first line to its last, then the destructors of
what is on its stack, `~UDPNetwork` before `~Core`. Its key files are those of
KeyFiles (EXTENDS); the two threads are instances of CoreThread and
NetworkThread with one thread each: `main` is the owner, and what it calls
decides. It starts each once, so no two threads overlap. `LoadYaml` chooses what the
process is given from `Launch`. `given` is forgotten when the threads start, so
that settings already compared do not multiply the states behind them. A second
SIGINT, or one before the handler is installed, is a `Crash`; `End` takes
threads and sockets with it. A network thread that had not announced itself when
`main` called `stop()` outlives both objects, as it does in the program. `~Core` runs while Core's thread is still in its
loop, or about to enter it, in every behaviour: nothing ever tells it to end.

The `MC…` modules only add model values and the constants' larger values.

## 4. Runs

States are distinct states; times are seconds with two workers.

| run | instance | shows |
|---|---|---|
| `udp_lossy` | 2 endpoints, both broadcast, both may end; loss, reordering, one repeat: a duplicate of any packet but a PublicKeyRequest, or a failed `recvfrom` on any; either outcome of decryption; 140,966, 75 s | HandshakeInv is an invariant; MutualConnect; HandshakeOnlyAdvances; NothingRetried; the handshake implements SecureSession |
| `udp_faults` | 2 endpoints, the broadcasting one may end and start once more; two repeats: a duplicated PublicKeyRequest or a failed `recvfrom` on any packet, which may overrun the stack; 263,726, 105 s | KeysBeforeUse, OnlyReadyIsEncrypted, NoSelfEntry, and Quiesces: in the end only broadcasts are in flight |
| `udp_connects` | one broadcaster and three more, one without its private and one without its public half; reliable and ordered; 27,308, 18 s | FullKeysToConnect; EventuallyConnected for whole key pairs, whatever the broken ones do meanwhile |
| `udp_rejoins` *(violated)* | 2 endpoints, one restarts | PeersRejoin fails: see findings |
| `udp_opens` *(violated)* | 2 endpoints, perfect network | SessionKeysOpened fails |
| `dbs_ring` | 7 positions, 2 nodes, at most 2 virtual ids a call, capacities 0 and 2; 9,261, 46 s | StoreInv, LookupIsNearest, SurvivorsStay, NewcomersOnlyInsert |
| `core_tables` | 2 identities, 3 addresses, 3 heap blocks; ~Core at any time; 988 up to symmetry | CoreInv, FirstNodeStays |
| `core_leaves` *(violated)* | 2 identities, blocking mutex | RemovedNodesLeave fails |
| `kapuad` | 2 pairs made, every file failing to open or to be written, every socket failing, crash anywhere, 836 configurations; 417,637, 110 s | KeyInv, PairMatches, KeysStay; SettingsAsGiven, RefusedForAReason; IdentityFirst, ToldIsJoined, InterruptEnds |
| `net_starts` | 3 starts, sockets may fail, calls at any time; 27,218 | LifeInv, ThreadEndsFirst, LoopHasSocket, PortReleased, StopReturns |
| `net_hasty` *(violated)* | the same | AnswersRightly fails |
| `loop_starts` | 4 starts, queue of 3, calls at any time; 67,700 | CoreThreadInv, ActionsTaken, StopReturns |

### Bounds, and why they are enough to be interesting

* Handshake state of a pair depends on that pair only, so two endpoints meet
  every order of one pair's packets; four are used where keys differ. `MaxBoots`
  2 is one restart, after which packets of the earlier process are still in
  flight. In `udp_faults` it is the broadcasting process that restarts, so that its
  predecessor's own broadcast reaches it; reordering is left to `udp_lossy`, since
  with a restart it multiplies the states beyond use. `MaxRepeats` 1, in
  `udp_lossy`, reaches every repetition of a single datagram but the one that
  throws a connected node back to KeyExchange. That one is in `udp_faults`, twice
  or with another after it: only a handshake that was thrown back leaves a
  ciphertext in the buffer of a node that decrypts with another key, so that a
  failed `recvfrom` then runs over the stack. `Broadcast` waits until
  its last broadcast has left every lane. A second Discovery in flight would
  only be taken by a receiver that has the node already, which changes nothing.
* `Thread` bounds how often an object is started; `Object` how many nodes are
  allocated (as many as addresses, so the bound never refuses one a packet
  needs); `MaxKeys` how many pairs are made (the
  second is made after a crash or a private.pem that did not open, with the halves
  of the first left behind: what else there is of halves that do not belong
  together, a third would only repeat); `MaxQueue` how many actions wait.
* On seven positions and two nodes with up to two ids each the ring has from 0
  to 7 positions (a node may be added again with others), so it is below, at
  and above the five the lookup takes.
* `kapuad`: a file alone, a line alone, and a line over a file that names eight
  settings; each form a text can have (good, too large, negative, with a bad
  start, end or middle, no scalar), each setting in turn, and files of which the
  first or the last setting is refused. Durations are all texts of up to three
  tokens from nine, with 600h and 20h5m30s and two long ones: 600h is beyond 32
  bits, and so is 600h600h. A process is given something else after a crash.
* `core_tables` permutes identities, addresses and heap blocks: no definition
  tells them apart, and the run checks no liveness, where symmetry would be
  unsound.

Deadlock is checked where the system never stops of itself (the UDP runs with a
broadcaster and the ring). In `udp_lossy` both processes may be gone for good,
in the others the object is destroyed or the starts are used up, so those say
`CHECK_DEADLOCK FALSE`. The daemon of `kapuad` can always be started again.

### Fairness

* `UDPNetwork!Fairness`: a process that can broadcast does (the loop looks at
  the interval in every iteration); the first datagram of a lane is taken, that
  is, the loop takes what the socket has and the network delays nothing for
  ever, though with reordering others may overtake it; datagrams to nobody
  disappear. No fairness for Start, Exit, Lose, Duplicate or a failed `recvfrom`:
  nobody has to start, end or disturb.
* `NetworkThread`, `CoreThread`: the scheduler runs every thread, and `join`
  returns when the thread is done. None for the owner's calls.
* `Kapuad`: the scheduler runs `main`, from its wait for SIGINT on, and the
  network thread. None for SIGINT or a crash, for what comes before the wait,
  nor for Core's thread, for which nobody waits.
* `CoreNodes` (`core_leaves` only): a call that can go on does.

### Findings

* `udp_rejoins`: `_receive` asks for a public key only if the address is new,
  nothing ever removes a node, and so a process that restarts at its address
  waits in Initialised for ever; docs/infrastructure.md:3 lets nodes "join or
  leave the system at any time".
* `udp_opens`: the uninitialised `len`, against the comment at
  UDPNetwork.cpp:224.
* `core_leaves`: `remove_node` never gets past `find_node`. It has no caller
  yet. That a pointer in use is to a live node until `~Core` (HeldIsFiled, a part of
  CoreInv) holds only *because* nothing is ever removed: whoever repairs
  `remove_node` must also look at `_receive`.
* `net_hasty`: between `start()` and `_running = true` in the thread, `stop()`
  answers "thread not running" and the thread goes on, beyond the destructor.

Seen while modelling, without a run of their own:

* a node known from a second address is filed by address only and not freed by
  `~Core` (Core.cpp:47); the identity filed under an address is never renewed;
  `to_id` is never looked at;
* a public.pem that cannot be parsed still makes `load_rsa_key_pair` return true
  (RSA.cpp:84), where test/RSA_test.cpp:76-81 expects false; KeyInv therefore
  promises no public half where the answer is yes;
* a private.pem that exists and does not open is taken for missing (main.cpp:36):
  public.pem is then written anew beside a good private key, and if private.pem
  does not open for writing either, the next start that can read both loads two
  halves that do not belong together (PairMatches and KeysStay allow it where
  `misread` says that it happened, and nowhere else);
* one duplicated PublicKeyRequest throws one end back to KeyExchange while the
  other may stay Connected under the keys it had: MutualConnect is false with the
  faults of `udp_faults`;
* `kapuad` never stops Core, so that `~Core` frees the nodes while Core's thread
  is in its loop, and a network thread that has not announced itself is still to
  come to them (main.cpp:81-87);
* `--server.port` is declared as a number (Config.cpp:97) and asked for as a
  string (Config.cpp:126), so any port on the command line ends the program; the
  settings that are asked for and not declared end it too. RefusedForAReason leaves
  these five out: with `--server.port` in, as Config.cpp:97 documents it, it would
  be false;
* `memcache.ip4_address` of a file is never read; `config.example.yaml:24` calls
  the section `memcached`, the code looks for `memcache`;
* an unknown log level is logged and accepted; 65536 + n is taken for port n,
  though the message says 0-65535 (Config.cpp:309); a duration's number without
  a unit is dropped, a bad first character kept, and 600h wraps to something else
  (Config.cpp:181, 200, 216). No property covers these texts: SettingsAsGiven
  speaks of durations of the documented form that fit 32 bits;
* the splash flag, the level, the interval and whether discovery is on have no
  initial value: what no layer names is what the memory held (SettingsAsGiven
  calls it Unset);
* the "immediate" first broadcast of `_main_loop` (UDPNetwork.cpp:113) waits if
  the interval is more than the 24 hours it sets the clock back.

### Mutants

Every property of a passing run has one: a definition that models code is
replaced by the mistake named beside it, and TLC must find that property
violated under the run's own configuration. They are listed in `PROJECT.json`;
some are the bug a reader would fear (`GreetingAlways`: known peers are asked
again; `NotWhole`: a torn pair is made anew over a good key;
`StopNetworkUnjoined`: the thread is not waited for).

## 5. Proofs

All for every value of the constants, under the named ASSUMEs of the modules
(types of constants, sentinels that are no members) and what is said below.

* `UDPNetwork_proofs`, for any number of endpoints, any faults, any number of
  duplicates of any packet, failed receives and restarts, and any assignment of
  key halves:
  * `SoundCorrect` and from it `KeysBeforeUseCorrect`,
    `OnlyReadyIsEncryptedCorrect`, `NoSelfEntryCorrect`,
    `FullKeysToConnectCorrect`. They cannot use HandshakeInv below, which
    duplicates and restarts break. SoundInv speaks of one node or one packet at a
    time: which halves of key pairs must have been there for it to exist, and
    that a node under a process's own address has another identity (`Foreign`). Nobody can therefore be made to disagree with it by repeating something.
  * `NothingRetriedCorrect`: two nodes that know each other, with nothing but
    broadcasts between them, stay as they are. Each step is either a broadcast
    that changes neither node nor sends anything, or one about another pair.
* `UDPNetwork_handshake`, ASSUME MaxBoots = 1 and no PublicKeyRequest among the
  types duplicated, with loss, reordering, stops, duplicates of all other types,
  failed receives and either outcome of decryption:
  * `HandshakeCorrect`, `MutualConnectCorrect`. MutualConnect is about both ends
    at once, so it is not inductive: the step to Connected at one end is taken on
    the strength of a Ready in flight. HandshakeInv adds what is in flight or in
    a standby buffer: what each packet says about itself (`PacketInv`), that a
    request is in flight once and only to a receiver it has not moved yet
    (`RequestInv`), that who is answered knows the other (`AheadInv`) and who
    answered is at least as far as the answer, whose key he still uses
    (`BehindInv`), that two ends are never more than one step apart (`StepInv`),
    keys filled in exactly by state (`FilledInv`), nothing to or from the unborn
    (`UnbornInv`).
  * `HandshakeOnlyAdvancesCorrect`: PublicKeyRequest is accepted in every state,
    but is in flight only while its receiver has not moved, and handled again
    only before the receiver has gone further.
  * `ImplementsSessionCorrect`: the refinement. Every action maps to a step of
    SecureSession or a stutter, from HandshakeInv.
  Both assumptions are needed: a duplicated PublicKeyRequest, or one of an
  earlier process, resets a connected node.
* `CoreCorrect`, `FirstNodeStaysCorrect` (`CoreNodes_proofs`). CoreInv says in
  addition who holds the mutex, and that pointers are good as long as Core lives.
* `DistributedBlockStore_proofs`, for a ring of any size, any virtual ids and
  any sequence of calls:
  * `StoreCorrect`, `LookupSafe`: the containers agree, so that every position
    visited has an owner with figures and `at()` does not throw.
  * `LookupIsNearestCorrect`: the loop's walk, a lower bound and then the next
    position with a wrap at the end of the map, visits the positions in the order of their
    clockwise distance from the block. The i-th of the walk is the one with i - 1
    positions nearer (`RankedIs`, `FirstRank`, `NextRank`), counted with the
    cardinalities of finite sets; round a ring of fewer than five, by remainders.
  * `SurvivorsStayCorrect`, `NewcomersOnlyInsertCorrect`: a walk on a ring without
    some positions is the walk on the whole ring with those left out, as far as
    the shorter of the two goes (`Thinned`, `ThinnedWalk`). Both properties follow
    from it, one with the smaller ring after the step and the other with it
    before, since either operation changes the positions of one node only.
* `KeyFilesCorrect`, `PairMatchesCorrect`, `KeysStayCorrect` (`KeyFiles_proofs`).
  PairMatches alone is not inductive: KeyInv adds that a private half on disk
  has its own public half (or a torn file) beside it, and that while a pair is
  being written there is no other private half, because generate is entered
  only without one; or else the one there was misread. Under any failures.
* `LifeCorrect` and from it `PortReleasedCorrect`, `LoopHasSocketCorrect`,
  `ThreadEndsFirstCorrect` (`NetworkThread_proofs`), for any number of starts,
  any failures and calls at any time: until a start finds an earlier thread
  active, the pointer is to the only active thread, socket and port are that
  thread's, and `_running` is set only while it loops.
* `CoreThreadCorrect` (`CoreThread_proofs`), in the same way.
* `Kapuad_proofs`: `DaemonIsKeyFiles` shows that every step of the daemon is a
  step of KeyFiles or leaves its variables alone, so `DaemonKeysCorrect` and
  `DaemonKeysStay` follow from the theorems about KeyFiles. `OrderCorrect` is the
  inductive invariant of `main` and its threads (the network thread is started
  after Core's, is in the member while it runs, is what `stop()` waits for and
  done when `stop()` says so); `IdentityFirstCorrect` and `ToldIsJoinedCorrect`
  follow. For any configurations, any crashes and restarts.
  * The settings. `LoadCorrect` is the inductive invariant: until Core starts,
    the settings are what the loads so far made of the defaults and the loads were
    good; a process that returns with what it was given at hand had a bad one. The
    two properties follow from it and from what the pure operators compute, for
    texts, files and lines of any length. `LoadedIs`: a load answers yes just if
    every result it reads is good, and each setting is then the result for it.
    `DurationAddsUp`: whatever is in the buffer of `parse_duration` (`Buffered`),
    the sum so far is what the units so far are worth, in 32 bits; `DurationTaken`:
    it takes every text of the documented form. `FaithfulParser`, `StrictParser`:
    what each parser makes of a good text, and which take nothing else.
    `SettingsAsGivenCorrect`, `RefusedForAReasonCorrect`. They rest on
    `LaunchAssumption`.

Induction over data, with the library's theorems out of reach, is done with a set
in the predicate's place: `UpTo` (the least number outside the set would have a
predecessor inside it, from the well-foundedness of the naturals), and `Recursion`,
by it, for the states of a loop of n turns. A recursive function is equal to the
sequence `Recursion` gives, which unfolds its definition.

Every safety invariant and every action property of the passing runs is a theorem.
Only model-checked: liveness (EventuallyConnected, Quiesces, both StopReturns,
ActionsTaken, InterruptEnds), since fairness and ENABLED are out of the prover's
reach, and the four violations, which are counterexamples.

## 6. Not modelled

* Of the network thread: a failed `recvfrom` before anything was read (the
  buffer is empty and the address whatever the stack held), AES errors other
  than the wrong key, a failing `sendto` (a loss as far as the peer can tell),
  the Ping case, which nothing sends, datagrams that are no packet of a Kapua.
* Two processes started in one directory: both may generate and leave the
  public half of one with the private half of the other.
* Logger, SockaddrHashable, Util and the version constants only format, print or
  hash. MemcachedServer, Settings and Actions are stubs. `Config::dump` prints;
  the members nothing reads are left out.
* Packet layout, packet and request numbers, ttl and last contact are never read
  by what is modelled. Pings, groups, routing and storage of blocks are described
  in docs/ but not written.
