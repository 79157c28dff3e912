------------------------------ MODULE NodeService ------------------------------
(***************************************************************************)
(* How the node starts, runs and stops (node/src/service.rs, command.rs):  *)
(* the parts new_partial and new_full put together one after the other,    *)
(* each of which may fail and take everything built before with it; the    *)
(* background tasks they spawn, which run from then on and may end at any  *)
(* time, also before the start is over; and the commands that need only    *)
(* some of the parts.                                                      *)
(*                                                                         *)
(* What the parts do once they run is Substrate's and is left out.         *)
(***************************************************************************)
EXTENDS Naturals, Sequences, FiniteSets

CONSTANT MaxEnded   \* a bound of the model: how many tasks end by themselves

\* What the command line asks for.  The key commands need nothing, the tools
\* (build-spec, purge-chain, chain-info and the like) a chain specification, the
\* chain commands (check, export, import, revert) and most benchmarks also the
\* parts of new_partial.
Commands == {"key", "tool", "chain", "benchmark", "node"}

Configuration ==
    [ authority : BOOLEAN, keystore_remote : BOOLEAN, telemetry : BOOLEAN,
      offchain_worker : BOOLEAN, enable_grandpa : BOOLEAN ]

VARIABLES
    command,
    config,
    status,     \* "starting", "running", "failed" or "stopped"
    todo,       \* the steps of the start that are still to be taken
    tasks,      \* the background tasks that have been spawned
    ended,      \* the tasks that have ended by themselves
    network     \* start_network was called

vars == << command, config, status, todo, tasks, ended, network >>

--------------------------------------------------------------------------------
\* The steps of the start

\* create_runner loads the chain specification, from the code or from a file.
LoadSpec == << "chain_spec" >>

NewPartial ==
    << "keystore_check", "telemetry_worker", "client", "telemetry_task",
       "transaction_pool", "grandpa_import", "slot_duration", "import_queue" >>

\* Mutant of Networking: the network is started as soon as it is built.
NetworkingAtOnce == << "remote_keystore", "network", "start_network", "offchain" >>

Networking == << "remote_keystore", "network", "offchain" >>

Services == << "rpc", "aura_slot_duration", "aura", "grandpa_voter" >>

StartNetwork == << "start_network" >>

NewFull == NewPartial \o Networking \o Services \o StartNetwork

\* Mutant of StepsOf: a chain command puts the whole node together.
StepsOfFullNode(c) == IF c \in {"key", "tool"} THEN LoadSpec ELSE LoadSpec \o NewFull

StepsOf(c) ==
    CASE c = "key" -> <<>>
      [] c = "tool" -> LoadSpec
      [] c \in {"chain", "benchmark"} -> LoadSpec \o NewPartial
      [] c = "node" -> LoadSpec \o NewFull

\* Whether the configuration asks for the step; the code passes over the others.
Needed(step) ==
    /\ step \in {"telemetry_worker", "telemetry_task"} => config.telemetry
    /\ step = "offchain" => config.offchain_worker
    /\ step \in {"aura_slot_duration", "aura"} => config.authority
    /\ step = "grandpa_voter" => config.enable_grandpa

\* The steps that end in a question mark.  That of the genesis block is an
\* expect, of a block that the client has written itself.
Fallible ==
    { "chain_spec", "telemetry_worker", "client", "grandpa_import",
      "slot_duration", "import_queue", "network", "rpc", "aura_slot_duration", "aura",
      "grandpa_voter" }

\* Mutant of Refused: only new_full looks at the keystore.
RefusedLate(step) == config.keystore_remote /\ step = "remote_keystore"

\* A remote keystore is refused, in new_partial and once more in new_full.
Refused(step) ==
    config.keystore_remote /\ step \in {"keystore_check", "remote_keystore"}

\* The step ends in an error.
MayFail(step) == Refused(step) \/ (Needed(step) /\ step \in Fallible)

Spawned(step) ==
    CASE step = "telemetry_task" -> {"telemetry"}
      [] step = "transaction_pool" -> {"txpool"}
      [] step = "import_queue" -> {"block-import"}
      [] step = "network" -> {"network-worker"}
      [] step = "offchain" -> {"offchain-notifications"}
      [] step = "rpc" -> {"rpc"}
      [] step = "aura" -> {"aura"}
      [] step = "grandpa_voter" -> {"grandpa-voter"}
      [] OTHER -> {}

\* Mutant of Essential: the consensus tasks are spawned like any other.
EssentialForImport == {"txpool", "block-import"}

\* The tasks of spawn_essential_handle: the node watches them.
Essential == {"txpool", "block-import", "aura", "grandpa-voter"}

--------------------------------------------------------------------------------

\* The command line is parsed.
Begin(c, cfg) ==
    /\ command' = c
    /\ config' = cfg
    /\ status' = "starting"
    /\ todo' = StepsOf(c)
    /\ tasks' = {}
    /\ ended' = {}
    /\ network' = FALSE

\* The next part, if it is needed, is put together and its task spawned.
Advance ==
    /\ status = "starting"
    /\ todo # <<>>
    /\ ~Refused(Head(todo))
    /\ todo' = Tail(todo)
    /\ tasks' = IF Needed(Head(todo)) THEN tasks \cup Spawned(Head(todo)) ELSE tasks
    /\ network' = (network \/ Head(todo) = "start_network")
    /\ UNCHANGED << command, config, status, ended >>

\* The task manager stops its tasks when it is dropped.
DropTaskManager == tasks' = {} /\ ended' = {}

\* Mutant of Down: instead of giving up, it tries again.
DownRetries(how) == Begin(command, config)

Down(how) ==
    /\ status' = how
    /\ todo' = <<>>
    /\ DropTaskManager
    /\ network' = FALSE
    /\ UNCHANGED << command, config >>

FailToStart ==
    /\ status = "starting"
    /\ todo # <<>>
    /\ MayFail(Head(todo))
    /\ Down("failed")

\* A benchmark binds only the client, so that the task manager is dropped before
\* it measures anything.
Started ==
    /\ status = "starting"
    /\ todo = <<>>
    /\ status' = "running"
    /\ IF command = "benchmark" THEN DropTaskManager ELSE UNCHANGED << tasks, ended >>
    /\ UNCHANGED << command, config, todo, network >>

\* A task ends, by an error, a panic or because it has nothing left to do.
TaskEnds(task) ==
    /\ task \in tasks \ ended
    /\ Cardinality(ended) < MaxEnded
    /\ ended' = ended \cup {task}
    /\ UNCHANGED << command, config, status, todo, tasks, network >>

\* run_node_until_exit waits for the first essential task to end; if one has ended
\* during the start, it need not wait.
EssentialTaskFailed ==
    /\ status = "running"
    /\ command = "node"
    /\ ended \cap Essential # {}
    /\ Down("failed")

\* Any other command comes to its end.
CommandFinishes ==
    /\ status = "running"
    /\ command # "node"
    /\ Down("stopped")

\* The operator stops it.
Interrupt ==
    /\ status \in {"starting", "running"}
    /\ Down("stopped")

\* The operator starts it anew, perhaps with other arguments.
Restart ==
    /\ status \in {"failed", "stopped"}
    /\ \E c \in Commands, cfg \in Configuration : Begin(c, cfg)

Init ==
    /\ command \in Commands
    /\ config \in Configuration
    /\ status = "starting"
    /\ todo = StepsOf(command)
    /\ tasks = {}
    /\ ended = {}
    /\ network = FALSE

Next ==
    \/ Advance
    \/ FailToStart
    \/ Started
    \/ \E task \in tasks : TaskEnds(task)
    \/ EssentialTaskFailed
    \/ CommandFinishes
    \/ Interrupt
    \/ Restart

\* The process runs on, and the future it waits for is polled.  Nobody has to
\* stop or restart it, and no task has to end.
Fairness ==
    /\ WF_vars(Advance \/ FailToStart \/ Started)
    /\ WF_vars(EssentialTaskFailed)
    /\ WF_vars(CommandFinishes)

Spec == Init /\ [][Next]_vars /\ Fairness

--------------------------------------------------------------------------------
\* Properties

\* The node joins the network only when it is whole: every task its configuration
\* asks for has been spawned (service.rs:338 comes after everything else), so no
\* peer meets a node that imports blocks without voting or authoring as asked.
JoinsTheNetworkWhole ==
    network => /\ {"txpool", "block-import", "network-worker", "rpc"} \subseteq tasks
               /\ config.authority => "aura" \in tasks
               /\ config.enable_grandpa => "grandpa-voter" \in tasks
               /\ config.telemetry => "telemetry" \in tasks
               /\ config.offchain_worker => "offchain-notifications" \in tasks

\* A command that works on the database alone neither talks to the network nor
\* authors nor votes, whatever role the configuration gives the node.
CommandsStayOffline ==
    command # "node" =>
        ~network /\ tasks \cap {"network-worker", "rpc", "aura", "grandpa-voter"} = {}

\* A configuration with a remote keystore is refused before any task runs, by
\* whichever command (service.rs:61-63); new_full alone would refuse it only
\* when those of new_partial are at work (service.rs:170-179).
RemoteKeystoreIsRefusedFirst ==
    config.keystore_remote => tasks = {} /\ ~network

\* service.rs:288-289 and 329-330: when the authoring or the voter task ends, "we
\* take down the service with it", also when it ends before the start is over,
\* while nobody waits for it yet.
ConsensusFailureStopsTheNode ==
    ended \cap {"aura", "grandpa-voter"} # {} ~> status \in {"failed", "stopped"}

\* Every start ends, one way or the other.
StartEnds == status = "starting" ~> status # "starting"

================================================================================
