---------------------------- MODULE CoreLifecycle ----------------------------
(***************************************************************************)
(* The life of the Core: start_sc(), stop_sc(), the adapters they connect  *)
(* and disconnect, and what an adapter holds while it is connected: its    *)
(* device, its P2P server (for Wi-fi Direct a group and a DHCP daemon),    *)
(* its sockets and its two threads.                                        *)
(*                                                                         *)
(*   App      the application thread, which registers adapters and calls   *)
(*            start_sc() and stop_sc(); both run in the caller's thread    *)
(*   Control  the thread that commands adapters while the Core is running: *)
(*            a switch (sOngoing is set) or a request of the peer          *)
(*                                                                         *)
(* A command of an operating system or a Bluetooth or Wi-fi tool either    *)
(* works or fails; the number of failures is bounded by MaxFaults.  Data   *)
(* are in modules SendPath and ReceivePath; sleeping and waking up, whose  *)
(* steps are in module Handover, are atomic here.                          *)
(***************************************************************************)
EXTENDS Integers, Sequences, FiniteSets

CONSTANTS
  Adapters,     \* the adapters of the program
  WfdAdapters,  \* those of Wi-fi Direct over TCP; the others are Bluetooth
  App, Control, \* the threads
  Loops,        \* the threads of an adapter: its sender and its receiver
  MaxFaults,    \* bound: commands that fail, daemons and links that die
  MaxCommands,  \* bound: commands of Control
  MaxCalls,     \* bound: calls of start_sc() and stop_sc()
  MaxDhcpds     \* bound: DHCP daemons ever forked

ASSUME LifecycleAssumption ==
  /\ IsFiniteSet(Adapters) /\ Adapters # {}
  /\ WfdAdapters \subseteq Adapters
  /\ App # Control
  /\ MaxFaults \in Nat /\ MaxCommands \in Nat /\ MaxCalls \in Nat
  /\ MaxDhcpds \in Nat

Threads == {App, Control}
Pids == 1..MaxDhcpds

VARIABLES
  \* Core and API
  core,        \* CoreState
  registered,  \* mAdapters, in the order of registration
  lock,        \* mAdaptersLock is held by App across a whole transaction
  todo,        \* adapters StopCoreTransaction::start() has still to visit
  stopOngoing, \* StopCoreTransaction::sOngoing is not NULL
  count,       \* mAdaptersCount of that transaction
  counted,     \* history: adapters it counted and has not disconnected yet
  restored,    \* history: Control failed to disconnect one since it began
  isDone,      \* g_is_start_sc_done or g_is_stop_sc_done
  success,     \* g_start_sc_success or g_stop_sc_success
  controlOn,   \* mReceivingThreadOn of the ControlMessageReceiver
  switching,   \* SwitchAdapterTransaction::sOngoing is not NULL
  \* where the threads are
  pc, tgt, old,
  contended,   \* history: adapters whose disconnection began when they were not Sleeping
  calls, commands, faults,
  \* an adapter
  state,       \* ServerAdapterState
  dev, p2p, sock,  \* states of its Device, P2PServer and ServerSocket
  group,       \* a Wi-fi Direct group exists
  listening,   \* a listening socket is open
  client,      \* a connected socket is open
  \* the DHCP daemon of Wi-fi Direct
  pid,         \* sDhcpdPid, 0 for none
  alive,       \* daemons that are running
  forked,      \* number of daemons forked so far
  dhcpdEnabled,\* sDhcpdEnabled
  sigchld,     \* daemons whose SIGCHLD is to be delivered
  relaunch,    \* the signal handler has yet to fork the next daemon
  child,       \* the daemon allow_discover_impl() of a thread has forked last
  lost,        \* history: daemons whose number was overwritten while they ran
  overlap,     \* history: one was relaunched after kill_dhcpd() reset sDhcpdEnabled
  \* the sender and receiver thread of an adapter
  wpc,         \* where each thread is
  running,     \* mIsThreadRunning
  enabled,     \* mIsLoopEnabled
  ends,        \* mIsLoopEnds
  late         \* history: threads enabled before they had begun to run

coreVars == <<core, registered, lock, todo, stopOngoing, count, counted, restored, isDone, success,
              controlOn>>
threadVars == <<pc, tgt, old, contended, switching, calls, commands>>
plugVars == <<dev, p2p, sock, group, listening, client>>
dhcpVars == <<pid, alive, forked, dhcpdEnabled, sigchld, relaunch, child, lost, overlap>>
loopVars == <<wpc, running, enabled, ends, late>>
vars == <<coreVars, threadVars, faults, state, plugVars, dhcpVars, loopVars>>

AdapterStates == {"Disconnected", "Connecting", "Active", "Sleeping", "Disconnecting"}
CoreStates == {"Idle", "Starting", "Ready", "Stopping"}

PCs == {"app", "waitStart", "stopNext", "waitStop", "idle", "crashed",
        "connect", "turnOn", "allow", "assignPid", "checkDhcpd", "open", "accept", "enable",
        "undo", "undoTest", "undoKill", "undoRemove",
        "connected", "connectFailed", "disconnect", "setDisconnecting",
        "disableLoop", "close", "disallow", "test", "kill", "remove", "turnOff", "waitLoop",
        "disconnected", "disconnectFailed"}

CoreTypes ==
  /\ core \in CoreStates /\ registered \in Seq(Adapters) /\ todo \in Seq(Adapters)
  /\ lock \in BOOLEAN /\ stopOngoing \in BOOLEAN /\ restored \in BOOLEAN
  /\ isDone \in BOOLEAN /\ success \in BOOLEAN /\ controlOn \in BOOLEAN
  /\ counted \subseteq Adapters

ThreadTypes ==
  /\ pc \in [Threads -> PCs] /\ tgt \in [Threads -> Adapters]
  /\ old \in [Threads -> AdapterStates] /\ state \in [Adapters -> AdapterStates]
  /\ contended \subseteq Adapters /\ switching \in BOOLEAN
  /\ calls \in 0..MaxCalls /\ commands \in 0..MaxCommands /\ faults \in 0..MaxFaults

PlugTypes ==
  /\ dev \in [Adapters -> {"off", "on"}]
  /\ p2p \in [Adapters -> {"allowed", "disallowed"}]
  /\ sock \in [Adapters -> {"closed", "opening", "opened"}]
  /\ group \in [WfdAdapters -> BOOLEAN]
  /\ listening \in [Adapters -> BOOLEAN] /\ client \in [Adapters -> BOOLEAN]

DhcpdTypes ==
  /\ pid \in 0..MaxDhcpds /\ forked \in 0..MaxDhcpds
  /\ child \in [Threads -> 0..MaxDhcpds]
  /\ alive \subseteq Pids /\ sigchld \subseteq Pids /\ lost \subseteq Pids
  /\ dhcpdEnabled \in BOOLEAN /\ relaunch \in BOOLEAN /\ overlap \in BOOLEAN

LoopTypes ==
  /\ wpc \in [Adapters \X Loops -> {"none", "launched", "ready", "waiting",
                                    "notified", "looping", "ended"}]
  /\ running \in [Adapters \X Loops -> BOOLEAN]
  /\ enabled \in [Adapters \X Loops -> BOOLEAN]
  /\ ends \in [Adapters \X Loops -> BOOLEAN]
  /\ late \subseteq Adapters \X Loops

\* Types of the state of Core.cpp, ServerAdapter.cpp, Device.cpp and WfdP2PServer.cpp
TypeOK ==
  /\ CoreTypes /\ ThreadTypes /\ PlugTypes /\ DhcpdTypes /\ LoopTypes
  /\ count \in -Cardinality(Adapters)..Cardinality(Adapters)

\* mIsLoopEnds has no initial value.
Init ==
  /\ core = "Idle" /\ registered = <<>> /\ lock = FALSE /\ todo = <<>>
  /\ stopOngoing = FALSE /\ count = 0 /\ counted = {} /\ restored = FALSE
  /\ isDone = FALSE /\ success = FALSE /\ controlOn = FALSE /\ switching = FALSE
  /\ pc = [t \in Threads |-> IF t = App THEN "app" ELSE "idle"]
  /\ tgt = [t \in Threads |-> CHOOSE a \in Adapters : TRUE]
  /\ old = [t \in Threads |-> "Sleeping"] /\ contended = {}
  /\ calls = 0 /\ commands = 0 /\ faults = 0
  /\ state = [a \in Adapters |-> "Disconnected"]
  /\ dev = [a \in Adapters |-> "off"]
  /\ p2p = [a \in Adapters |-> "disallowed"]
  /\ sock = [a \in Adapters |-> "closed"]
  /\ group = [a \in WfdAdapters |-> FALSE]
  /\ listening = [a \in Adapters |-> FALSE]
  /\ client = [a \in Adapters |-> FALSE]
  /\ pid = 0 /\ alive = {} /\ forked = 0 /\ dhcpdEnabled = FALSE
  /\ sigchld = {} /\ relaunch = FALSE /\ child = [t \in Threads |-> 0]
  /\ lost = {} /\ overlap = FALSE
  /\ wpc = [w \in Adapters \X Loops |-> "none"]
  /\ running = [w \in Adapters \X Loops |-> FALSE]
  /\ enabled = [w \in Adapters \X Loops |-> FALSE]
  /\ \E b \in BOOLEAN : ends = [w \in Adapters \X Loops |-> b]
  /\ late = {}

Go(t, label) ==
  pc' = [pc EXCEPT ![t] = label] /\ UNCHANGED <<tgt, old, contended, switching, calls, commands>>

Fault == faults < MaxFaults /\ faults' = faults + 1
NoFault == UNCHANGED faults

SetState(t, s) == state' = [state EXCEPT ![tgt[t]] = s]
Of(a) == {a} \X Loops
Each(f, W, v) == [w \in DOMAIN f |-> IF w \in W THEN v ELSE f[w]]

-----------------------------------------------------------------------------
(***************************************************************************)
(* API and Core                                                            *)
(***************************************************************************)

\* launch_threads() and finish_thread(): a thread that was launched stays.
LaunchThreads(a) == wpc' = Each(wpc, Of(a), "launched")
FinishThreads(a) == running' = Each(running, Of(a), FALSE)

\* register_adapter(): only in kCoreStateIdle; it launches the threads.
Register(a) ==
  /\ pc[App] = "app" /\ core = "Idle"
  /\ a \notin {registered[i] : i \in DOMAIN registered}
  /\ registered' = Append(registered, a)
  /\ LaunchThreads(a)
  /\ UNCHANGED <<core, lock, todo, stopOngoing, count, counted, restored, isDone, success,
                 controlOn, threadVars, faults, state, plugVars, dhcpVars, running, enabled, ends, late>>

\* StartCoreTransaction: the first adapter is connected under the lock ...
ConnectFirstAdapter ==
  /\ lock' = TRUE
  /\ pc' = [pc EXCEPT ![App] = "connect"]
  /\ tgt' = [tgt EXCEPT ![App] = Head(registered)]

\* ... which is released when the callback has called done_start().
ConnectFirstAdapterCallback(isSuccess) ==
  /\ pc[App] = IF isSuccess THEN "connected" ELSE "connectFailed"
  /\ lock' = FALSE
  /\ Go(App, "waitStart")

(***************************************************************************)
(* start_sc(): a start that is refused sets kCoreStateIdle, whatever the   *)
(* state was, and does not call start_sc_done().  Otherwise the first      *)
(* adapter is connected with mAdaptersLock held.                           *)
(***************************************************************************)
StartSc ==
  /\ pc[App] = "app" /\ calls < MaxCalls
  /\ calls' = calls + 1
  /\ isDone' = FALSE
  /\ IF core # "Idle" \/ registered = <<>>
     THEN /\ core' = "Idle"
          /\ pc' = [pc EXCEPT ![App] = "waitStart"]
          /\ UNCHANGED <<tgt, lock>>
     ELSE core' = "Starting" /\ ConnectFirstAdapter
  /\ UNCHANGED <<registered, todo, stopOngoing, count, counted, restored, success, controlOn,
                 old, contended, switching, commands, faults, state, plugVars, dhcpVars, loopVars>>

\* connect_first_adapter_callback() and done_start().
DoneStart ==
  /\ \E isSuccess \in BOOLEAN :
       /\ ConnectFirstAdapterCallback(isSuccess)
       /\ core' = IF isSuccess THEN "Ready" ELSE "Idle"
       /\ controlOn' = (controlOn \/ isSuccess)
       /\ isDone' = isSuccess
       /\ success' = IF isSuccess THEN TRUE ELSE success
  /\ UNCHANGED <<registered, todo, stopOngoing, count, counted, restored, faults, state,
                 plugVars, dhcpVars, loopVars>>

\* The wait at the end of start_sc() and stop_sc() ends only if isDone.
Return ==
  /\ pc[App] \in {"waitStart", "waitStop"}
  /\ isDone
  /\ Go(App, "app")
  /\ UNCHANGED <<coreVars, faults, state, plugVars, dhcpVars, loopVars>>

Connected(a) == state[a] \notin {"Disconnected", "Disconnecting"}

\* StopCoreTransaction::run(), and the loop of start() that counts.
StopCoreTransaction ==
  /\ lock' = TRUE /\ stopOngoing' = TRUE
  /\ count' = Cardinality({i \in DOMAIN registered : Connected(registered[i])})
  /\ counted' = {registered[i] : i \in {j \in DOMAIN registered : Connected(registered[j])}}
  /\ restored' = FALSE
  /\ todo' = registered
  /\ pc' = [pc EXCEPT ![App] = "stopNext"]

(***************************************************************************)
(* stop_sc(): Core::stop() is called only with is_logging.  A stop that is *)
(* refused sets kCoreStateReady, whatever the state was.                   *)
(***************************************************************************)
StopSc(isLogging) ==
  /\ pc[App] = "app" /\ calls < MaxCalls
  /\ calls' = calls + 1
  /\ \/ /\ ~isLogging
        /\ isDone' = FALSE
        /\ pc' = [pc EXCEPT ![App] = "waitStop"]
        /\ UNCHANGED <<core, lock, todo, stopOngoing, count, counted, restored, success>>
     \/ /\ isLogging
        /\ core # "Ready" \/ registered = <<>>
        /\ core' = "Ready" /\ isDone' = TRUE /\ success' = FALSE
        /\ pc' = [pc EXCEPT ![App] = "waitStop"]
        /\ UNCHANGED <<lock, todo, stopOngoing, count, counted, restored>>
     \/ /\ isLogging
        /\ core = "Ready" /\ registered # <<>>
        /\ core' = "Stopping" /\ isDone' = FALSE
        /\ StopCoreTransaction
        /\ UNCHANGED success
  /\ UNCHANGED <<registered, controlOn, tgt, old, contended, switching, commands, faults, state,
                 plugVars, dhcpVars, loopVars>>

\* The second loop of StopCoreTransaction::start() reads the states again.
StopNext ==
  /\ pc[App] = "stopNext"
  /\ IF todo = <<>>
     THEN lock' = FALSE /\ Go(App, "waitStop") /\ UNCHANGED todo
     ELSE /\ todo' = Tail(todo) /\ UNCHANGED lock
          /\ IF Connected(Head(todo))
             THEN /\ pc' = [pc EXCEPT ![App] = "disconnect"]
                  /\ tgt' = [tgt EXCEPT ![App] = Head(todo)]
                  /\ UNCHANGED <<old, contended, switching, calls, commands>>
             ELSE UNCHANGED threadVars
  /\ UNCHANGED <<core, registered, stopOngoing, count, counted, restored, isDone, success,
                 controlOn, faults, state, plugVars, dhcpVars, loopVars>>

\* Mutant: the first adapter that is disconnected ends the transaction.
MutantStopAfterFirst ==
  /\ pc[App] = "disconnected" /\ stopOngoing
  /\ count' = 0 /\ core' = "Idle" /\ controlOn' = FALSE
  /\ isDone' = TRUE /\ success' = TRUE /\ stopOngoing' = FALSE
  /\ running' = Each(running, Of(tgt[App]), FALSE)
  /\ Go(App, "stopNext")
  /\ UNCHANGED <<registered, lock, todo, counted, restored, faults, state, plugVars, dhcpVars,
                 wpc, enabled, ends, late>>

\* disconnect_adapter_callback() with is_success: sOngoing is not checked.
StopAdapterDisconnected ==
  /\ pc[App] = "disconnected"
  /\ FinishThreads(tgt[App])
  /\ IF ~stopOngoing
     THEN Go(App, "crashed") /\ UNCHANGED <<count, core, controlOn, isDone, success, stopOngoing>>
     ELSE /\ count' = count - 1
          /\ IF count' = 0
             THEN /\ core' = "Idle" /\ controlOn' = FALSE
                  /\ isDone' = TRUE /\ success' = TRUE /\ stopOngoing' = FALSE
             ELSE UNCHANGED <<core, controlOn, isDone, success, stopOngoing>>
          /\ Go(App, "stopNext")
  /\ UNCHANGED <<registered, lock, todo, counted, restored, faults, state, plugVars, dhcpVars,
                 wpc, enabled, ends, late>>

\* disconnect_adapter_callback() without: the transaction is over, the loop goes on.
StopAdapterFailed ==
  /\ pc[App] = "disconnectFailed"
  /\ IF stopOngoing
     THEN /\ core' = "Ready" /\ isDone' = TRUE /\ success' = FALSE /\ stopOngoing' = FALSE
     ELSE UNCHANGED <<core, isDone, success, stopOngoing>>
  /\ Go(App, "stopNext")
  /\ UNCHANGED <<registered, lock, todo, count, counted, restored, controlOn, faults, state,
                 plugVars, dhcpVars, loopVars>>

-----------------------------------------------------------------------------
(***************************************************************************)
(* Control: a switch or a request of the peer, for one adapter             *)
(***************************************************************************)

\* find_adapter_by_id() and get_adapter() take mAdaptersLock.
BeginCommand(a, label, isSwitch) ==
  /\ pc[Control] = "idle" /\ controlOn /\ ~lock
  /\ a \in {registered[i] : i \in DOMAIN registered}
  /\ commands < MaxCommands
  /\ commands' = commands + 1
  /\ pc' = [pc EXCEPT ![Control] = label]
  /\ tgt' = [tgt EXCEPT ![Control] = a]
  /\ switching' = isSwitch
  /\ UNCHANGED <<old, contended, calls, coreVars, faults, state, plugVars, dhcpVars, loopVars>>

\* sleep() and wake_up(), whose steps are those of module Handover.
SleepOrWakeUp(a, from, to) ==
  /\ pc[Control] = "idle" /\ controlOn /\ ~lock
  /\ commands < MaxCommands
  /\ commands' = commands + 1
  /\ state[a] = from
  /\ state' = [state EXCEPT ![a] = to]
  /\ UNCHANGED <<pc, tgt, old, contended, switching, calls, coreVars, faults, plugVars, dhcpVars,
                 loopVars>>

EndCommand ==
  /\ pc[Control] \in {"connected", "connectFailed", "disconnected", "disconnectFailed"}
  /\ pc' = [pc EXCEPT ![Control] = "idle"]
  /\ switching' = FALSE
  /\ UNCHANGED <<tgt, old, contended, calls, commands, coreVars, faults, state, plugVars, dhcpVars,
                 loopVars>>

-----------------------------------------------------------------------------
(***************************************************************************)
(* The DHCP daemon of WfdP2PServer and its SIGCHLD handler                 *)
(***************************************************************************)

\* launch_dhcpd() up to fork(): the caller has yet to record the daemon.
Fork == /\ forked < MaxDhcpds
        /\ forked' = forked + 1
        /\ alive' = alive \cup {forked + 1}
        /\ dhcpdEnabled' = TRUE

Kill(p) == /\ alive' = alive \ {p}
           /\ sigchld' = sigchld \cup (alive \cap {p})

DhcpdDies(p) ==
  /\ p \in alive /\ Fault
  /\ Kill(p)
  /\ UNCHANGED <<pid, forked, dhcpdEnabled, relaunch, child, lost, overlap,
                 coreVars, threadVars, state, plugVars, loopVars>>

\* sighandler_monitor_udhcpd() up to the call of launch_dhcpd().
HandleSigchld(p) ==
  /\ p \in sigchld /\ ~relaunch
  /\ sigchld' = sigchld \ {p}
  /\ IF p = pid
     THEN pid' = 0 /\ relaunch' = dhcpdEnabled
     ELSE UNCHANGED <<pid, relaunch>>
  /\ UNCHANGED <<alive, forked, dhcpdEnabled, child, lost, overlap,
                 coreVars, threadVars, faults, state, plugVars, loopVars>>

\* sDhcpdPid = launch_dhcpd(): the daemon recorded before is forgotten.
Record(p) == pid' = p /\ lost' = lost \cup ({pid} \cap alive)

\* The rest of the handler.
RelaunchDhcpd ==
  /\ relaunch /\ relaunch' = FALSE
  /\ Fork /\ Record(forked')
  /\ overlap' = (overlap \/ ~dhcpdEnabled)
  /\ UNCHANGED <<sigchld, child, coreVars, threadVars, faults, state, plugVars, loopVars>>

\* wpa_cli adds and removes the group of an interface, or answers FAIL.
P2PGroupAdd(a, ok) == group' = [group EXCEPT ![a] = @ \/ ok]
P2PGroupRemove(a, ok) == group' = [group EXCEPT ![a] = @ /\ ~ok]

\* disallow_discover() has something to kill and to remove.
HasGroup(a) == a \in WfdAdapters /\ p2p[a] = "allowed"

\* Mutant: sDhcpdEnabled is not reset.
MutantResetDhcpd(t, from, to) ==
  /\ pc[t] = from /\ HasGroup(tgt[t])
  /\ overlap' = FALSE
  /\ Go(t, to)
  /\ UNCHANGED <<coreVars, faults, state, plugVars, loopVars,
                 pid, alive, forked, dhcpdEnabled, sigchld, relaunch, child, lost>>

\* kill_dhcpd() up to the reset of sDhcpdEnabled ...
ResetDhcpd(t, from, to) ==
  /\ pc[t] = from /\ HasGroup(tgt[t])
  /\ dhcpdEnabled' = FALSE /\ overlap' = FALSE
  /\ Go(t, to)
  /\ UNCHANGED <<coreVars, faults, state, plugVars, loopVars,
                 pid, alive, forked, sigchld, relaunch, child, lost>>

\* ... its test of sDhcpdPid ...
TestDhcpd(t, from, kill, remove) ==
  /\ pc[t] = from
  /\ Go(t, IF pid = 0 THEN remove ELSE kill)
  /\ UNCHANGED <<coreVars, faults, state, plugVars, dhcpVars, loopVars>>

(***************************************************************************)
(* ... and the kill, which reads sDhcpdPid again: if the handler has set   *)
(* it to 0, kill(0, SIGKILL) kills the process group of the program, its   *)
(* daemons included.                                                       *)
(***************************************************************************)
KillRecorded(t, from, to) ==
  /\ pc[t] = from
  /\ IF pid = 0 THEN alive' = {} /\ UNCHANGED sigchld /\ Go(t, "crashed")
                ELSE Kill(pid) /\ Go(t, to)
  /\ UNCHANGED <<coreVars, faults, state, plugVars, loopVars,
                 pid, forked, dhcpdEnabled, relaunch, child, lost, overlap>>

\* kill_dhcpd(), called to disconnect an adapter or when its socket cannot be opened.
KillDhcpd(t) ==
  \/ ResetDhcpd(t, "disallow", "test") \/ ResetDhcpd(t, "undo", "undoTest")
  \/ TestDhcpd(t, "test", "kill", "remove") \/ TestDhcpd(t, "undoTest", "undoKill", "undoRemove")
  \/ KillRecorded(t, "kill", "remove") \/ KillRecorded(t, "undoKill", "undoRemove")

(***************************************************************************)
(* The end of disallow_discover(): the group of a Wi-fi Direct adapter,    *)
(* whose daemon was killed before, is removed or not (ok).  For the others *)
(* nothing can fail.                                                       *)
(***************************************************************************)
DisallowDiscover(t, begin, remove, ok) ==
  LET a == tgt[t] IN
  \/ /\ pc[t] = begin /\ ~HasGroup(a) /\ ok
     /\ p2p' = [p2p EXCEPT ![a] = "disallowed"] /\ UNCHANGED group
  \/ /\ pc[t] = remove
     /\ p2p' = [p2p EXCEPT ![a] = IF ok THEN "disallowed" ELSE "allowed"]
     /\ P2PGroupRemove(a, ok)

-----------------------------------------------------------------------------
(***************************************************************************)
(* ServerAdapter::connect()                                                *)
(***************************************************************************)

\* connect() and the first assignment of connect_internal().
Connect(t) ==
  /\ pc[t] = "connect"
  /\ IF state[tgt[t]] # "Disconnected"
     THEN Go(t, "connectFailed") /\ UNCHANGED state
     ELSE Go(t, "turnOn") /\ SetState(t, "Connecting")
  /\ UNCHANGED <<coreVars, faults, plugVars, dhcpVars, loopVars>>

\* connect_internal() after __connect_internal() has returned false.
FailConnect(t) == SetState(t, "Disconnected") /\ Go(t, "connectFailed")

\* turn_on_impl() and turn_off_impl() succeed: what they run, if anything, is a
\* child process, and ChildProcess::run() never returns a negative number.
SetDevice(a, s) == dev' = [dev EXCEPT ![a] = s]

TurnOn(t) ==
  /\ pc[t] = "turnOn"
  /\ SetDevice(tgt[t], "on")
  /\ Go(t, "allow")
  /\ UNCHANGED <<coreVars, faults, state, p2p, sock, group, listening, client, dhcpVars, loopVars>>

\* allow_discover() with a failing allow_discover_impl(), which leaves the group.
AllowFails(t) ==
  /\ p2p' = [p2p EXCEPT ![tgt[t]] = "disallowed"]
  /\ SetDevice(tgt[t], "off")
  /\ Fault /\ FailConnect(t)

\* get_p2p_name(), then launch_dhcpd() up to the fork of the daemon.
GetP2PName(t) ==
  \/ AllowFails(t) /\ UNCHANGED dhcpVars
  \/ /\ Fork /\ child' = [child EXCEPT ![t] = forked']
     /\ UNCHANGED <<pid, sigchld, relaunch, lost, overlap>>
     /\ NoFault /\ Go(t, "assignPid") /\ UNCHANGED <<state, dev, p2p>>

\* allow_discover() up to there; for Bluetooth there is nothing to do.
AllowDiscover(t) ==
  /\ pc[t] = "allow"
  /\ LET a == tgt[t] IN
       \/ /\ p2p[a] = "allowed" \/ a \notin WfdAdapters
          /\ p2p' = [p2p EXCEPT ![a] = "allowed"]
          /\ NoFault /\ Go(t, "open") /\ UNCHANGED <<state, dev, group, dhcpVars>>
       \/ /\ p2p[a] = "disallowed" /\ a \in WfdAdapters
          /\ \/ P2PGroupAdd(a, FALSE) /\ AllowFails(t) /\ UNCHANGED dhcpVars
             \/ P2PGroupAdd(a, TRUE) /\ GetP2PName(t)
  /\ UNCHANGED <<coreVars, sock, listening, client, loopVars>>

\* get_p2p_info(): it fails only if wpa_cli prints no status at all.
GetP2PInfo(t) ==
  \/ NoFault /\ Go(t, "checkDhcpd") /\ UNCHANGED <<state, dev, p2p>>
  \/ AllowFails(t)

\* sDhcpdPid = launch_dhcpd(), then the information for the client.
AssignPid(t) ==
  /\ pc[t] = "assignPid"
  /\ Record(child[t])
  /\ GetP2PInfo(t)
  /\ UNCHANGED <<alive, forked, dhcpdEnabled, sigchld, relaunch, child, overlap,
                 coreVars, sock, group, listening, client, loopVars>>

\* get_ip_address(), tried for nine seconds.
GetIpAddress(t) ==
  \/ /\ p2p' = [p2p EXCEPT ![tgt[t]] = "allowed"]
     /\ NoFault /\ Go(t, "open") /\ UNCHANGED <<state, dev>>
  \/ AllowFails(t)

\* The second check of sDhcpdPid; then the interface gets its IP address.
CheckDhcpd(t) ==
  /\ pc[t] = "checkDhcpd"
  /\ IF pid = 0
     THEN Fork /\ Record(forked') /\ UNCHANGED <<sigchld, relaunch, child, overlap>>
     ELSE UNCHANGED dhcpVars
  /\ GetIpAddress(t)
  /\ UNCHANGED <<coreVars, sock, group, listening, client, loopVars>>

\* A socket that cannot be opened.
FailOpen(t) == sock' = [sock EXCEPT ![tgt[t]] = "closed"] /\ Go(t, "undo")

(***************************************************************************)
(* ServerSocket::open() up to accept().  TCP cannot bind its port while an *)
(* earlier socket still listens on it; RFCOMM closes that one first.       *)
(***************************************************************************)
OpenSocket(t) ==
  /\ pc[t] = "open"
  /\ LET a == tgt[t]
         canBind == a \notin WfdAdapters \/ ~listening[a] IN
       \/ /\ canBind
          /\ sock' = [sock EXCEPT ![a] = "opening"]
          /\ listening' = [listening EXCEPT ![a] = TRUE]
          /\ NoFault /\ Go(t, "accept")
       \/ /\ IF canBind THEN Fault ELSE NoFault
          /\ FailOpen(t)
          /\ listening' = [listening EXCEPT ![a] = @ /\ a \in WfdAdapters]
  /\ UNCHANGED <<coreVars, state, dev, p2p, group, client, dhcpVars, loopVars>>

\* Mutant: accept() is not checked.
MutantAcceptUnchecked(t) ==
  /\ pc[t] = "accept"
  /\ \E ok \in BOOLEAN : /\ client' = [client EXCEPT ![tgt[t]] = ok]
                         /\ IF ok THEN NoFault ELSE Fault
  /\ sock' = [sock EXCEPT ![tgt[t]] = "opened"]
  /\ Go(t, "enable")
  /\ UNCHANGED <<state, dev, p2p, group, dhcpVars, coreVars, listening, loopVars>>

\* accept() blocks until the peer connects; it may fail.
Accept(t) ==
  /\ pc[t] = "accept"
  /\ \/ /\ client' = [client EXCEPT ![tgt[t]] = TRUE]
        /\ sock' = [sock EXCEPT ![tgt[t]] = "opened"]
        /\ NoFault /\ Go(t, "enable")
     \/ FailOpen(t) /\ Fault /\ UNCHANGED client
  /\ UNCHANGED <<coreVars, state, dev, p2p, group, dhcpVars, listening, loopVars>>

\* Mutant: a socket that cannot be opened leaves the device on.
MutantUndoKeepsOn(t) ==
  /\ \E ok \in BOOLEAN : /\ DisallowDiscover(t, "undo", "undoRemove", ok)
                         /\ IF ok THEN NoFault ELSE Fault
  /\ FailConnect(t)
  /\ UNCHANGED <<dev, coreVars, sock, listening, client, dhcpVars, loopVars>>

\* What was set up before is undone, whether that works or not.
Undo(t) ==
  /\ \E ok \in BOOLEAN : /\ DisallowDiscover(t, "undo", "undoRemove", ok)
                         /\ IF ok THEN NoFault ELSE Fault
  /\ SetDevice(tgt[t], "off")
  /\ FailConnect(t)
  /\ UNCHANGED <<coreVars, sock, listening, client, dhcpVars, loopVars>>

\* Mutant: enable_loop() does not notify.
MutantEnableDoesNotNotify(t) ==
  /\ pc[t] = "enable"
  /\ enabled' = Each(enabled, Of(tgt[t]), TRUE)
  /\ late' = late \cup {w \in Of(tgt[t]) : wpc[w] = "launched"}
  /\ SetState(t, "Active")
  /\ Go(t, "connected")
  /\ UNCHANGED <<coreVars, faults, plugVars, dhcpVars, wpc, running, ends>>

\* enable_loop() for both threads, then kActive.
EnableLoops(t) ==
  /\ pc[t] = "enable"
  /\ enabled' = Each(enabled, Of(tgt[t]), TRUE)
  /\ wpc' = [w \in DOMAIN wpc |-> IF w \in Of(tgt[t]) /\ wpc[w] = "waiting"
                                  THEN "notified" ELSE wpc[w]]
  /\ late' = late \cup {w \in Of(tgt[t]) : wpc[w] = "launched"}
  /\ SetState(t, "Active")
  /\ Go(t, "connected")
  /\ UNCHANGED <<coreVars, faults, plugVars, dhcpVars, running, ends>>

-----------------------------------------------------------------------------
(***************************************************************************)
(* ServerAdapter::disconnect_on_command(), disconnect_on_peer_command()    *)
(***************************************************************************)

Disconnect(t) ==
  /\ pc[t] = "disconnect"
  /\ Go(t, IF state[tgt[t]] = "Sleeping" THEN "setDisconnecting" ELSE "disconnectFailed")
  /\ UNCHANGED <<coreVars, faults, state, plugVars, dhcpVars, loopVars>>

(***************************************************************************)
(* disconnect_internal() up to __disconnect_internal().  Without a switch  *)
(* getOnGoing() is NULL and gettimeofday() gets an address near 0: the     *)
(* process is killed, or the call fails with EFAULT and nobody looks.      *)
(***************************************************************************)
SetDisconnecting(t) ==
  /\ pc[t] = "setDisconnecting"
  /\ \/ /\ pc' = [pc EXCEPT ![t] = "disableLoop"]
        /\ old' = [old EXCEPT ![t] = state[tgt[t]]]
        /\ contended' = contended \cup (IF state[tgt[t]] = "Sleeping" THEN {} ELSE {tgt[t]})
        /\ SetState(t, "Disconnecting")
     \/ /\ ~switching
        /\ pc' = [pc EXCEPT ![t] = "crashed"] /\ UNCHANGED <<old, contended, state>>
  /\ UNCHANGED <<tgt, switching, calls, commands, coreVars, faults, plugVars, dhcpVars, loopVars>>

DisableLoops(t) ==
  /\ pc[t] = "disableLoop"
  /\ enabled' = Each(enabled, Of(tgt[t]), FALSE)
  /\ Go(t, "close")
  /\ UNCHANGED <<coreVars, faults, state, plugVars, dhcpVars, wpc, running, ends, late>>

\* close_impl(): both sockets, and for RFCOMM the SDP session.
CloseImpl(a) ==
  /\ client' = [client EXCEPT ![a] = FALSE]
  /\ listening' = [listening EXCEPT ![a] = FALSE]

\* A socket whose state is already kClosed is not closed again.
CloseSocket(t) ==
  /\ pc[t] = "close"
  /\ IF sock[tgt[t]] = "opened"
     THEN sock' = [sock EXCEPT ![tgt[t]] = "closed"] /\ CloseImpl(tgt[t])
     ELSE UNCHANGED <<sock, client, listening>>
  /\ Go(t, "disallow")
  /\ UNCHANGED <<coreVars, faults, state, dev, p2p, group, dhcpVars, loopVars>>

\* A group that cannot be removed: disconnect_internal() restores oldState.
Disallow(t) ==
  /\ \E ok \in BOOLEAN :
       /\ DisallowDiscover(t, "disallow", "remove", ok)
       /\ IF ok THEN NoFault /\ Go(t, "turnOff") /\ UNCHANGED state
                ELSE Fault /\ Go(t, "disconnectFailed") /\ SetState(t, old[t])
       /\ restored' = (restored \/ (~ok /\ t = Control))
  /\ UNCHANGED <<core, registered, lock, todo, stopOngoing, count, counted, isDone, success,
                 controlOn, dev, sock, listening, client, dhcpVars, loopVars>>

TurnOff(t) ==
  /\ pc[t] = "turnOff"
  /\ SetDevice(tgt[t], "off")
  /\ Go(t, "waitLoop")
  /\ UNCHANGED <<coreVars, faults, state, p2p, sock, group, listening, client, dhcpVars, loopVars>>

WaitLoops(t) ==
  /\ pc[t] = "waitLoop"
  /\ \A w \in Of(tgt[t]) : ends[w]
  /\ SetState(t, "Disconnected")
  /\ Go(t, "disconnected")
  /\ counted' = IF t = App THEN counted \ {tgt[App]} ELSE counted
  /\ UNCHANGED <<core, registered, lock, todo, stopOngoing, count, restored, isDone, success,
                 controlOn, faults, plugVars, dhcpVars, loopVars>>

-----------------------------------------------------------------------------
(***************************************************************************)
(* SenderThread::run() and ReceiverThread::run()                           *)
(***************************************************************************)

\* run() initialises the flags after the thread was launched.
RunThread(w) ==
  /\ wpc[w] = "launched"
  /\ running' = [running EXCEPT ![w] = TRUE]
  /\ enabled' = [enabled EXCEPT ![w] = FALSE]
  /\ wpc' = [wpc EXCEPT ![w] = "ready"]
  /\ UNCHANGED <<coreVars, threadVars, faults, state, plugVars, dhcpVars, ends, late>>

\* The head of the loop and wait_until_enable_loop().
WaitEnable(w) ==
  /\ wpc[w] = "ready"
  /\ wpc' = [wpc EXCEPT ![w] = IF ~running[w] THEN "ended"
                               ELSE IF enabled[w] THEN "notified" ELSE "waiting"]
  /\ UNCHANGED <<coreVars, threadVars, faults, state, plugVars, dhcpVars, running, enabled, ends, late>>

BeginLoop(w) ==
  /\ wpc[w] = "notified"
  /\ ends' = [ends EXCEPT ![w] = FALSE]
  /\ wpc' = [wpc EXCEPT ![w] = "looping"]
  /\ UNCHANGED <<coreVars, threadVars, faults, state, plugVars, dhcpVars, running, enabled, late>>

\* ServerAdapter::send() and receive() return an error.
TransferFails(a) == state[a] \in {"Disconnected", "Disconnecting"} \/ sock[a] # "opened"

\* The loop ends when it is disabled or cannot send or receive.
EndLoop(w) ==
  /\ wpc[w] = "looping"
  /\ ~enabled[w] \/ TransferFails(w[1])
  /\ enabled' = [enabled EXCEPT ![w] = FALSE]
  /\ ends' = [ends EXCEPT ![w] = TRUE]
  /\ wpc' = [wpc EXCEPT ![w] = "ready"]
  /\ UNCHANGED <<coreVars, threadVars, faults, state, plugVars, dhcpVars, running, late>>

\* send() or receive() fails: kClosed, with the sockets left open.
SocketBreaks(a) ==
  /\ sock[a] = "opened" /\ \E w \in Of(a) : wpc[w] = "looping"
  /\ Fault
  /\ sock' = [sock EXCEPT ![a] = "closed"]
  /\ UNCHANGED <<coreVars, threadVars, state, dev, p2p, group, listening, client, dhcpVars, loopVars>>

-----------------------------------------------------------------------------
AppStep ==
  \/ \E a \in Adapters : Register(a)
  \/ StartSc \/ DoneStart \/ Return
  \/ \E isLogging \in BOOLEAN : StopSc(isLogging)
  \/ StopNext \/ StopAdapterDisconnected \/ StopAdapterFailed

ControlStep ==
  \/ \E a \in Adapters, isSwitch \in BOOLEAN :
        BeginCommand(a, "connect", isSwitch) \/ BeginCommand(a, "disconnect", isSwitch)
  \/ \E a \in Adapters : \/ SleepOrWakeUp(a, "Active", "Sleeping")
                         \/ SleepOrWakeUp(a, "Sleeping", "Active")
  \/ EndCommand

AdapterStep(t) ==
  \/ Connect(t) \/ TurnOn(t) \/ AllowDiscover(t) \/ AssignPid(t) \/ CheckDhcpd(t)
  \/ OpenSocket(t) \/ Accept(t) \/ Undo(t) \/ EnableLoops(t)
  \/ Disconnect(t) \/ SetDisconnecting(t) \/ DisableLoops(t) \/ CloseSocket(t)
  \/ KillDhcpd(t) \/ Disallow(t) \/ TurnOff(t) \/ WaitLoops(t)

ThreadStep(w) == RunThread(w) \/ WaitEnable(w) \/ BeginLoop(w) \/ EndLoop(w)

DhcpdStep == \/ \E p \in Pids : DhcpdDies(p) \/ HandleSigchld(p)
             \/ RelaunchDhcpd

Next ==
  /\ \A t \in Threads : pc[t] # "crashed"
  /\ \/ AppStep \/ ControlStep
     \/ \E t \in Threads : AdapterStep(t)
     \/ \E w \in Adapters \X Loops : ThreadStep(w)
     \/ \E a \in Adapters : SocketBreaks(a)
     \/ DhcpdStep

Spec == Init /\ [][Next]_vars

-----------------------------------------------------------------------------
(***************************************************************************)
(* A connected adapter whose socket is open has its device on, can be      *)
(* discovered and holds its two sockets, whatever failed before and        *)
(* whatever the other thread did (__connect_internal(), and                *)
(* __disconnect_internal() when it fails half way), unless both threads    *)
(* went on to disconnect it; and types.                                    *)
(***************************************************************************)
ActiveIsBacked ==
  /\ TypeOK
  /\ \A a \in Adapters \ contended :
       state[a] \in {"Active", "Sleeping"} /\ sock[a] = "opened" =>
         /\ dev[a] = "on" /\ p2p[a] = "allowed" /\ client[a] /\ listening[a]
         /\ a \in WfdAdapters => group[a]

(***************************************************************************)
(* The threads of a connected adapter serve it: none waits for an enable   *)
(* that has passed, except a thread that began to run after it             *)
(* (enable_loop() against wait_until_enable_loop() and run()) and those of *)
(* an adapter that both Core threads went on to disconnect.                *)
(***************************************************************************)
ActiveIsServed ==
  \A w \in ((Adapters \ contended) \X Loops) \ late :
    /\ state[w[1]] \in {"Active", "Sleeping"} /\ sock[w[1]] = "opened"
    /\ running[w]
    => enabled[w] /\ wpc[w] \in {"ready", "notified", "looping"}

(***************************************************************************)
(* A disconnected adapter has turned its device off and its socket is      *)
(* closed; if nothing failed it can no longer be discovered and holds no   *)
(* socket and no group (the error paths of __connect_internal()).          *)
(***************************************************************************)
DisconnectedIsReleased ==
  \A a \in Adapters \ contended : state[a] = "Disconnected" =>
    /\ dev[a] = "off" /\ sock[a] = "closed"
    /\ faults = 0 => /\ p2p[a] = "disallowed" /\ ~client[a] /\ ~listening[a]
                     /\ a \in WfdAdapters => ~group[a]

(***************************************************************************)
(* A DHCP daemon outlives the last group only in two ways: its number was  *)
(* overwritten while it ran (allow_discover_impl() records a daemon over   *)
(* the one of a connection that failed later, or over a relaunched one),   *)
(* or the handler, which had read sDhcpdEnabled, relaunched one after      *)
(* kill_dhcpd() had reset it.  Every other order of forks, deaths,         *)
(* signals, tests and kills leaves none; and not if both Core threads went *)
(* on to disconnect an adapter.                                            *)
(***************************************************************************)
DhcpdEndsWithGroup ==
  (\A a \in WfdAdapters : ~group[a]) /\ contended = {} /\ ~overlap => alive \subseteq lost

(***************************************************************************)
(* A stop_sc() that succeeds has itself disconnected every adapter that    *)
(* was connected when it began, although Control may go on with the        *)
(* command it had begun, and although the callback of an adapter comes     *)
(* while the others are still to be visited (StopCoreTransaction).  Not if *)
(* that command was a disconnection that failed: its adapter, which was    *)
(* not counted, is then disconnected in the place of a counted one.        *)
(***************************************************************************)
StopIsComplete == [][core = "Stopping" /\ core' = "Idle" /\ ~restored => counted' = {}]_vars
=============================================================================
