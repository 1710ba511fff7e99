------------------------------- MODULE Kapuad -------------------------------
(***************************************************************************)
(* The daemon (src/examples/kapuad/main.cpp): main with its key files      *)
(* (KeyFiles), its settings (Config), Core with its thread (CoreThread)    *)
(* and UDPNetwork with its thread (NetworkThread).  main makes or loads    *)
(* the keys, reads the configuration, starts the two threads, waits for    *)
(* SIGINT, stops the network and returns; the objects on its stack are     *)
(* then destroyed in reverse order, UDPNetwork before Core.  It stops Core *)
(* nowhere.  The process may crash at any point and be started again with  *)
(* another configuration.                                                  *)
(*                                                                         *)
(* So Core is destroyed while its thread runs; and UDPNetwork's, told to   *)
(* stop before it has announced itself, may outlive both objects.  Each is *)
(* started once: no two threads of one object overlap here.                *)
(***************************************************************************)
EXTENDS KeyFiles, Config

CONSTANTS
    Launch,      \* what a process may be given: a configuration file and a line
    CoreLoop,    \* Core's thread
    NetworkLoop  \* UDPNetwork's thread

ASSUME LoopAssumption == CoreLoop # Null /\ NetworkLoop # Null

\* A number or a duration is a text of tokens, and a run of digits is one of
\* them, whoever gives it.
ASSUME LaunchAssumption ==
    \A launch \in Launch :
        /\ launch.yaml # Unreadable => InTokens(launch.yaml)
        /\ InTokens(launch.line)

VARIABLES
    main,         \* where main is, once the keys are loaded
    settings,     \* Config's members
    given,        \* what this process was given, or Null; kept while it matters
    interrupted,  \* the first SIGINT has come
    core_running, core_thread, core_pc, core_owner, core_overlapped,
    net_running, net_thread, net_socket, net_open, net_bound, net_pc, net_owner,
    net_overlapped

Core == INSTANCE CoreThread WITH
    Thread <- {CoreLoop}, Action <- {}, MaxQueue <- 0, None <- Null,
    _running <- core_running, _thread <- core_thread, _actions <- << >>,
    pc <- core_pc, owner <- core_owner, overlapped <- core_overlapped

Network == INSTANCE NetworkThread WITH
    Thread <- {NetworkLoop}, Failing <- TRUE, None <- Null,
    _running <- net_running, _main_thread <- net_thread,
    _server_socket_fd <- net_socket, open <- net_open, bound <- net_bound,
    pc <- net_pc, owner <- net_owner, overlapped <- net_overlapped

core == <<core_running, core_thread, core_pc, core_owner, core_overlapped>>
network ==
    <<net_running, net_thread, net_socket, net_open, net_bound, net_pc, net_owner,
      net_overlapped>>
program == <<settings, given, interrupted>>
daemon == <<vars, main, program, core, network>>

DaemonInit ==
    /\ Init
    /\ main = "yaml"
    /\ settings = Defaults
    /\ given = Null
    /\ interrupted = FALSE
    /\ Core!Init
    /\ Network!Init

-----------------------------------------------------------------------------
(* main, once load_rsa_key_pair has returned, whatever it returned.        *)

\* main goes on from one point to another, with the key files left alone.
Reaches(from, to) ==
    /\ pc = "running"
    /\ main = from
    /\ main' = to
    /\ UNCHANGED vars

\* What comes before.
PrepareKeys == FilesStep /\ UNCHANGED <<main, program, core, network>>

\* config.load_yaml("config.yaml"): on false, main returns.
LoadYaml ==
    \E launch \in Launch :
        LET load == load_yaml(settings, launch.yaml) IN
        /\ Reaches("yaml", IF load.answer THEN "cmd_line" ELSE "destroy_network")
        /\ settings' = load.settings
        /\ given' = launch
        /\ UNCHANGED <<interrupted, core, network>>

\* config.load_cmd_line(ac, av).
LoadCmdLine ==
    LET load == load_cmd_line(settings, given.line) IN
    /\ Reaches("cmd_line", IF load.answer THEN "start_core" ELSE "destroy_network")
    /\ settings' = load.settings
    /\ UNCHANGED <<given, interrupted, core, network>>

\* (Mutant of StartCore: the network is started first.)
StartNetworkFirst ==
    /\ Reaches("start_core", "start_network")
    /\ Network!Start(NetworkLoop)
    /\ given' = Null
    /\ UNCHANGED <<settings, interrupted, core>>

\* core.start(): draws the identity and starts the thread.
StartCore ==
    /\ Reaches("start_core", "start_network")
    /\ Core!Start(CoreLoop)
    /\ given' = Null
    /\ UNCHANGED <<settings, interrupted, network>>

\* local_discover.start(port).
StartNetwork ==
    /\ Reaches("start_network", "signal")
    /\ Network!Start(NetworkLoop)
    /\ UNCHANGED <<program, core>>

\* signal(SIGINT, signal_stop).  A SIGINT that comes earlier is a crash.
InstallHandler ==
    /\ Reaches("signal", "wait")
    /\ UNCHANGED <<program, core, network>>

\* signal_stop, the first time.  The second time it ends the process.
Interrupt ==
    /\ pc = "running"
    /\ main = "wait"
    /\ ~interrupted
    /\ interrupted' = TRUE
    /\ UNCHANGED <<vars, main, settings, given, core, network>>

\* while (running) sleep.
StopWaiting ==
    /\ Reaches("wait", "stop")
    /\ interrupted
    /\ UNCHANGED <<program, core, network>>

\* local_discover.stop(): no thread running, it says, and main goes on.
StopNothing ==
    /\ Reaches("stop", "destroy_network")
    /\ ~net_running
    /\ UNCHANGED <<program, core, network>>

\* (Mutant of StopNetwork: the thread is not waited for.)
StopNetworkUnjoined ==
    /\ Reaches("stop", "destroy_network")
    /\ Network!Stop("idle")
    /\ UNCHANGED <<program, core>>

\* ... or the loop is told, and joined.
StopNetwork ==
    /\ Reaches("stop", "join")
    /\ Network!Stop("stopping")
    /\ UNCHANGED <<program, core>>

Joined ==
    /\ Reaches("join", "destroy_network")
    /\ Network!JoinReturns
    /\ UNCHANGED <<program, core>>

-----------------------------------------------------------------------------
(* main returns: its objects are destroyed.                                *)

\* ~UDPNetwork with no thread that says it is running.
DestroyNetwork ==
    /\ Reaches("destroy_network", "destroy_core")
    /\ Network!DestroyStopped
    /\ UNCHANGED <<program, core>>

\* ~UDPNetwork stops the one that does.
DestroyRunningNetwork ==
    /\ Reaches("destroy_network", "join_destroyed")
    /\ Network!Stop("destroying")
    /\ UNCHANGED <<program, core>>

JoinedDestroyed ==
    /\ Reaches("join_destroyed", "destroy_core")
    /\ Network!JoinReturns
    /\ UNCHANGED <<program, core>>

\* ~Core.
DestroyCore ==
    /\ Reaches("destroy_core", "return")
    /\ Core!Destroy
    /\ UNCHANGED <<program, network>>

\* The process is gone, and its threads and sockets with it.
End ==
    /\ Stop
    /\ main' = "yaml"
    /\ settings' = Defaults /\ given' = Null
    /\ interrupted' = FALSE
    /\ core_running' = FALSE /\ core_thread' = Null
    /\ core_pc' = [t \in {CoreLoop} |-> "unborn"] /\ core_owner' = "idle"
    /\ core_overlapped' = FALSE
    /\ net_running' = FALSE /\ net_thread' = Null /\ net_socket' = Null
    /\ net_open' = {} /\ net_bound' = Null
    /\ net_pc' = [t \in {NetworkLoop} |-> "unborn"] /\ net_owner' = "idle"
    /\ net_overlapped' = FALSE

Return == main = "return" /\ End

\* A crash, exit(1) at the second SIGINT, or a signal nobody handles.
Crash == End

-----------------------------------------------------------------------------
(* The threads.                                                            *)

CoreStep ==
    /\ pc = "running"
    /\ Core!ThreadStep(CoreLoop)
    /\ UNCHANGED <<vars, main, program, network>>

NetworkStep ==
    /\ pc = "running"
    /\ Network!ThreadStep(NetworkLoop)
    /\ UNCHANGED <<vars, main, program, core>>

BeginStep == LoadYaml \/ LoadCmdLine \/ StartCore \/ StartNetwork \/ InstallHandler

EndStep ==
    \/ StopWaiting \/ StopNothing \/ StopNetwork \/ Joined
    \/ DestroyNetwork \/ DestroyRunningNetwork \/ JoinedDestroyed
    \/ DestroyCore \/ Return

DaemonNext ==
    \/ PrepareKeys \/ BeginStep \/ EndStep
    \/ Interrupt \/ Crash
    \/ CoreStep \/ NetworkStep

DaemonSpec == DaemonInit /\ [][DaemonNext]_daemon

\* The scheduler runs main, from its wait on, and the network thread; Core's
\* keeps nobody waiting.
FairDaemonSpec ==
    /\ DaemonSpec
    /\ WF_daemon(EndStep)
    /\ WF_daemon(NetworkStep)

-----------------------------------------------------------------------------
(* Properties.                                                             *)

\* What the last layer that names a setting says in the form it is asked for
\* is what the program starts with; what no layer names is as the constructor
\* left it; and a program starts on nothing that is not in that form, but for
\* the level, the ports and the interval, whose parsers take more.  No layer is
\* asked for memcached's address: a file's is not read, a line's not declared.
Layers == <<given.yaml, given.line>>
Names(key) ==
    {i \in {1, 2} : key \in DOMAIN Layers[i] \ {"memcache.ip4_address"}}
LastText(key) == Layers[Max(Names(key))][key]
Lenient == {"logging.level", "server.port", "local_discovery.interval", "memcache.port"}

SettingsAsGiven ==
    main = "start_core" =>
        \A key \in Setting :
            /\ Names(key) = {} => settings[key] = Defaults[key]
            /\ Names(key) # {} /\ AsAsked(key, LastText(key)) =>
                  settings[key] = Meaning(key, LastText(key))
            /\ \A i \in Names(key) : key \notin Lenient => AsAsked(key, Layers[i][key])

\* What keeps a program from starting when the line names it, whatever it is.
\* The line declares none of these but server.port, and that in vain: it is
\* declared as a number and asked for as a text.
NeverFromCmdLine ==
    {"server.port", "local_discovery.interval", "memcache.enable",
     "memcache.ip4_address", "memcache.port"}

\* A program that is given a readable file, a line with none of these, and texts
\* in the form they are asked for, starts.
Refused == given # Null /\ main = "destroy_network"
RefusedForAReason ==
    Refused =>
        \/ given.yaml = Unreadable
        \/ \E key \in Setting \cap DOMAIN given.yaml : ~AsAsked(key, given.yaml[key])
        \/ \E key \in DOMAIN given.line :
              key \notin Setting \ NeverFromCmdLine \/ ~AsAsked(key, given.line[key])

\* The inductive invariant behind these two: until Core starts, the settings
\* are what the loads so far have made of the defaults, all of them good; and
\* a process that returns with what it was given still at hand had a bad one.
FromYaml == load_yaml(Defaults, given.yaml)
FromLine == load_cmd_line(FromYaml.settings, given.line)
LoadInv ==
    /\ main = "yaml" => settings = Defaults
    /\ main = "cmd_line" =>
          given \in Launch /\ FromYaml.answer /\ settings = FromYaml.settings
    /\ main = "start_core" =>
          given \in Launch /\ FromYaml.answer /\ FromLine.answer /\ settings = FromLine.settings
    /\ main \in {"start_network", "signal", "wait", "stop", "join"} => given = Null
    /\ Refused => given \in Launch /\ ~(FromYaml.answer /\ FromLine.answer)

\* The network thread never runs before Core has drawn its identity, and never
\* on a configuration that was refused.
NetworkRuns == net_pc[NetworkLoop] \in Network!Active
IdentityFirst == NetworkRuns => core_pc[CoreLoop] # "unborn"

\* A network thread that was told to stop is waited for, by stop() or by
\* ~UDPNetwork, before Core goes, whose tables it works on: what outlives Core
\* is only a thread nobody has told, which had not announced itself by then.
\* (That one does outlive it, in this model and in the program.)
ToldIsJoined ==
    core_owner = "gone" /\ NetworkRuns =>
        net_running \/ net_pc[NetworkLoop] \in Network!Unannounced

\* The inductive invariant behind these two: the network thread is started
\* after Core's, is in the member while it runs, and is what main waits for
\* once it has told it; UDPNetwork goes before Core.
OrderInv ==
    /\ core_pc \in [{CoreLoop} -> Core!Active \cup {"unborn", "done"}]
    /\ net_pc \in [{NetworkLoop} -> Network!Active \cup {"unborn", "done"}]
    /\ main = "start_network" => core_pc[CoreLoop] # "unborn"
    /\ net_pc[NetworkLoop] # "unborn" => core_pc[CoreLoop] # "unborn"
    /\ NetworkRuns => net_thread = NetworkLoop
    /\ net_running => net_thread = NetworkLoop /\ net_pc[NetworkLoop] = "loop"
    /\ net_owner \in {"stopping", "destroying"} =>
          /\ net_thread = NetworkLoop
          /\ ~net_running
          /\ net_pc[NetworkLoop] \in {"loop", "close", "done"}
    /\ net_owner \in {"idle", "gone"} /\ ~net_running =>
          net_pc[NetworkLoop] \notin {"loop", "close"}
    /\ main = "join_destroyed" => net_owner = "destroying"
    /\ main \in {"destroy_core", "return"} => net_owner = "gone"
    /\ core_owner = "gone" => main = "return"

\* After SIGINT the process ends, whatever its threads were doing and whether
\* or not the network ever got its port.
InterruptEnds == interrupted ~> pc = "down"
=============================================================================
