------------------------- MODULE CoreLifecycleProofs -------------------------
(***************************************************************************)
(* Proofs about CoreLifecycle, for any adapters, threads per adapter, and  *)
(* numbers of calls, commands, failures and DHCP daemons.                  *)
(***************************************************************************)
EXTENDS CoreLifecycle, FiniteSetTheorems, TLAPS

\* The statements of __connect_internal() and of __disconnect_internal().
UndoPCs == {"undo", "undoTest", "undoKill", "undoRemove"}
ConnectPCs ==
  {"turnOn", "allow", "assignPid", "checkDhcpd", "open", "accept", "enable"} \cup UndoPCs
DisconnectPCs ==
  {"disableLoop", "close", "disallow", "test", "kill", "remove", "turnOff", "waitLoop"}

Busy(t) == pc[t] \in ConnectPCs \cup DisconnectPCs

(***************************************************************************)
(* One thread at a time connects or disconnects an adapter, and the state  *)
(* of the adapter says which: unless both have passed the check of         *)
(* disconnect_on_command().                                                *)
(***************************************************************************)
Exclusive ==
  \A t \in Threads : tgt[t] \notin contended =>
    /\ pc[t] \in ConnectPCs => state[tgt[t]] = "Connecting"
    /\ pc[t] \in DisconnectPCs => state[tgt[t]] = "Disconnecting" /\ old[t] = "Sleeping"
    /\ Busy(t) => \A u \in Threads : u # t /\ tgt[u] = tgt[t] => ~Busy(u)

Backed(a) ==
  /\ dev[a] = "on" /\ p2p[a] = "allowed" /\ client[a] /\ listening[a]
  /\ a \in WfdAdapters => group[a]

\* No part of the connection is left.
Clear(a) ==
  /\ p2p[a] = "disallowed" /\ ~client[a] /\ ~listening[a]
  /\ a \in WfdAdapters => ~group[a]

\* What an adapter holds, by its state.
AdapterSound(a) ==
  /\ a \in WfdAdapters /\ p2p[a] = "allowed" => group[a]
  /\ state[a] \in {"Active", "Sleeping"} =>
       /\ sock[a] \in {"opened", "closed"}
       /\ sock[a] = "opened" => Backed(a)
       /\ faults = 0 => sock[a] = "opened"
  /\ state[a] = "Disconnected" =>
       /\ dev[a] = "off" /\ sock[a] = "closed"
       /\ faults = 0 => Clear(a)

\* What the adapter a holds while a thread connects it and is at label l ...
ConnectSound(l, a) ==
  /\ l \in {"turnOn", "allow", "assignPid", "checkDhcpd", "open"} =>
       /\ sock[a] = "closed"
       /\ faults = 0 => ~client[a] /\ ~listening[a]
  /\ l \in {"turnOn", "allow"} /\ faults = 0 => Clear(a)
  /\ l \in {"allow", "assignPid", "checkDhcpd", "open", "accept", "enable"} => dev[a] = "on"
  /\ l \in {"assignPid", "checkDhcpd"} => a \in WfdAdapters /\ group[a]
  /\ l \in {"open", "accept", "enable"} => p2p[a] = "allowed"
  /\ l \in {"accept", "enable"} => listening[a]
  /\ l = "accept" => sock[a] = "opening"
  /\ l = "enable" => /\ client[a] /\ sock[a] \in {"opened", "closed"}
                     /\ faults = 0 => sock[a] = "opened"
  /\ l \in UndoPCs => faults # 0 /\ sock[a] = "closed"
  /\ l \in UndoPCs \ {"undo"} => HasGroup(a)

\* ... or disconnects it.
DisconnectSound(l, a) ==
  /\ l \in {"disableLoop", "close"} =>
       /\ sock[a] \in {"opened", "closed"}
       /\ faults = 0 => sock[a] = "opened"
  /\ l \in {"disableLoop", "close", "disallow"} /\ faults = 0 => p2p[a] = "allowed"
  /\ l \in {"test", "kill", "remove"} => HasGroup(a)
  /\ l \in {"disallow", "test", "kill", "remove", "turnOff", "waitLoop"} =>
       /\ sock[a] = "closed"
       /\ faults = 0 => ~client[a] /\ ~listening[a]
  /\ l \in {"turnOff", "waitLoop"} /\ faults = 0 => Clear(a)
  /\ l = "waitLoop" => dev[a] = "off"

ResourcesSound ==
  /\ \A a \in Adapters \ contended : AdapterSound(a)
  /\ \A t \in Threads : tgt[t] \notin contended =>
       ConnectSound(pc[t], tgt[t]) /\ DisconnectSound(pc[t], tgt[t])

Registered == {registered[i] : i \in DOMAIN registered}
AtRest == {"app", "idle", "waitStart", "waitStop", "stopNext", "crashed"}

\* Only registered adapters are connected, and only their threads are launched.
RegisteredSound ==
  /\ \A i \in DOMAIN todo : todo[i] \in Registered
  /\ \A t \in Threads : pc[t] \notin AtRest => tgt[t] \in Registered
  /\ \A a \in Adapters \ Registered :
       state[a] = "Disconnected" /\ \A l \in Loops : wpc[<<a, l>>] = "none"

\* The threads of an adapter.
LoopsSound ==
  /\ \A w \in Adapters \X Loops : wpc[w] \in {"none", "launched", "ended"} => ~running[w]
  /\ \A w \in ((Adapters \ contended) \X Loops) \ late :
       wpc[w] = "launched" => state[w[1]] \in {"Disconnected", "Connecting"}

\* A group that nobody has begun to remove.
KeptGroup(a) ==
  /\ group[a]
  /\ \A t \in Threads :
       tgt[t] = a => pc[t] \notin {"test", "kill", "remove"} \cup (UndoPCs \ {"undo"})

\* A thread that will kill the daemon whose number is recorded.
WillKill(t) ==
  pc[t] \in {"test", "kill", "undoTest", "undoKill"} /\ tgt[t] \in WfdAdapters /\ group[tgt[t]]

\* The numbers of the daemons.
DhcpdNumbers ==
  /\ alive \subseteq 1..forked /\ sigchld \subseteq 1..forked /\ alive \cap sigchld = {}
  /\ pid \in 0..forked /\ \A t \in Threads : child[t] \in 0..forked

\* The number of a daemon is recorded, or about to be, or was overwritten.
DhcpdKnown ==
  \A p \in alive : \/ p = pid \/ p \in lost
                   \/ \E t \in Threads : pc[t] = "assignPid" /\ child[t] = p

(***************************************************************************)
(* sDhcpdEnabled says that there is a group that nobody has begun to       *)
(* remove, and the daemon whose number is recorded runs only beside such a *)
(* group or until a thread that is on its way kills it: unless the handler *)
(* has launched a daemon after kill_dhcpd() reset sDhcpdEnabled.           *)
(***************************************************************************)
DhcpdBacked ==
  contended = {} /\ ~overlap =>
    /\ dhcpdEnabled => \E a \in WfdAdapters : KeptGroup(a)
    /\ pid \in alive => \/ \E a \in WfdAdapters : KeptGroup(a)
                        \/ \E t \in Threads : WillKill(t)

DhcpdSound == DhcpdNumbers /\ DhcpdKnown /\ DhcpdBacked

\* Where stop_sc() is in StopCoreTransaction, and start_sc() in connect().
VisitPCs == {"disconnect", "setDisconnecting", "disconnected"} \cup DisconnectPCs
StopPCs == {"stopNext", "disconnectFailed"} \cup VisitPCs
StartPCs == {"connect", "connected", "connectFailed"} \cup ConnectPCs

CoreSound ==
  /\ pc[App] \in StopPCs => lock
  /\ pc[App] \in StartPCs => core = "Starting"
  /\ core = "Stopping" => ~isDone /\ pc[App] \in StopPCs \cup {"waitStop", "crashed"}

(***************************************************************************)
(* The count of a stop is the number of counted adapters that it has not   *)
(* disconnected: only they can be Sleeping.                                *)
(***************************************************************************)
CountSound ==
  stopOngoing /\ ~restored /\ pc[App] \in StopPCs =>
    /\ count = Cardinality(counted) + (IF pc[App] = "disconnected" THEN 1 ELSE 0)
    /\ \A a \in Adapters : state[a] = "Sleeping" => a \in counted
    /\ pc[App] \in {"setDisconnecting"} \cup DisconnectPCs => tgt[App] \in counted

CountBounded ==
  /\ \A i, j \in DOMAIN registered : registered[i] = registered[j] => i = j
  /\ -Len(registered) <= count /\ count <= Len(registered)
  /\ stopOngoing /\ pc[App] \in StopPCs =>
       Len(todo) + (IF pc[App] \in VisitPCs THEN 1 ELSE 0) <= count + Len(registered)

LInv == /\ TypeOK /\ Exclusive /\ ResourcesSound /\ RegisteredSound /\ LoopsSound
        /\ ActiveIsServed /\ DhcpdSound /\ CoreSound /\ CountSound /\ CountBounded
-----------------------------------------------------------------------------
(***************************************************************************)
(* Types                                                                   *)
(***************************************************************************)

\* launch_dhcpd() forks a daemon with a number of its own.
LEMMA ForkTyped ==
  ASSUME LifecycleAssumption, DhcpdTypes, Fork
  PROVE  /\ forked' \in 1..MaxDhcpds /\ forked' = forked + 1
         /\ alive' \subseteq Pids /\ dhcpdEnabled' \in BOOLEAN
BY DEF LifecycleAssumption, DhcpdTypes, Fork, Pids

\* wpa_cli changes the group of one interface.
LEMMA GroupTyped ==
  ASSUME PlugTypes, NEW a \in WfdAdapters, NEW ok \in BOOLEAN
  PROVE  /\ P2PGroupAdd(a, ok) => group' \in [WfdAdapters -> BOOLEAN]
         /\ P2PGroupRemove(a, ok) => group' \in [WfdAdapters -> BOOLEAN]
BY DEF PlugTypes, P2PGroupAdd, P2PGroupRemove

\* disallow_discover() keeps the types of the P2P server.
LEMMA DisallowDiscoverTyped ==
  ASSUME PlugTypes, NEW t \in Threads, NEW b, NEW l, NEW ok \in BOOLEAN,
         DisallowDiscover(t, b, l, ok)
  PROVE  /\ p2p' \in [Adapters -> {"allowed", "disallowed"}]
         /\ group' \in [WfdAdapters -> BOOLEAN]
BY DEF DisallowDiscover, PlugTypes, P2PGroupRemove

(***************************************************************************)
(* kill_dhcpd() moves its thread on towards the removal of the group, or   *)
(* kills the program, and changes nothing but the daemon.                  *)
(***************************************************************************)
LEMMA KillFrame ==
  ASSUME NEW t \in Threads, KillDhcpd(t)
  PROVE  /\ UNCHANGED <<coreVars, faults, state, plugVars, loopVars,
                        tgt, old, contended, switching, calls, commands,
                        pid, forked, relaunch, child, lost>>
         /\ pc[t] \in {"disallow", "undo"} => HasGroup(tgt[t])
         /\ \E l \in PCs :
              /\ pc' = [pc EXCEPT ![t] = l]
              /\ \/ /\ pc[t] \in {"disallow", "test", "kill"} /\ l \in {"test", "kill", "remove"}
                 \/ /\ pc[t] \in {"undo", "undoTest", "undoKill"}
                    /\ l \in {"undoTest", "undoKill", "undoRemove"}
                 \/ pc[t] \in {"kill", "undoKill"} /\ l = "crashed"
<1>. USE DEF Go, PCs, dhcpVars
<1>1. ASSUME NEW b \in {"disallow", "undo"}, NEW l, ResetDhcpd(t, b, l)
      PROVE  HasGroup(tgt[t])
  BY <1>1 DEF ResetDhcpd
<1>2. CASE ResetDhcpd(t, "disallow", "test") \/ ResetDhcpd(t, "undo", "undoTest")
  BY <1>1, <1>2 DEF ResetDhcpd
<1>3. CASE TestDhcpd(t, "test", "kill", "remove")
  BY <1>3 DEF TestDhcpd
<1>4. CASE TestDhcpd(t, "undoTest", "undoKill", "undoRemove")
  BY <1>4 DEF TestDhcpd
<1>5. CASE KillRecorded(t, "kill", "remove") \/ KillRecorded(t, "undoKill", "undoRemove")
  BY <1>5 DEF KillRecorded
<1>. QED
  BY <1>2, <1>3, <1>4, <1>5 DEF KillDhcpd

\* A failing allow_discover_impl() keeps the types.
LEMMA AllowFailsTyped ==
  ASSUME LifecycleAssumption, ThreadTypes, PlugTypes, NEW t \in Threads, AllowFails(t)
  PROVE  /\ ThreadTypes'
         /\ p2p' \in [Adapters -> {"allowed", "disallowed"}]
         /\ dev' \in [Adapters -> {"off", "on"}]
<1>1. tgt[t] \in Adapters /\ faults' \in 0..MaxFaults
  BY DEF ThreadTypes, AllowFails, Fault, LifecycleAssumption
<1>. QED
  BY <1>1 DEF AllowFails, SetDevice, FailConnect, SetState, Go, ThreadTypes, PlugTypes,
     AdapterStates, PCs

\* Types of the Core, along every step.
LEMMA CoreTypesStep ==
  ASSUME LifecycleAssumption, TypeOK, [Next]_vars
  PROVE  CoreTypes'
<1>. USE DEF TypeOK, LifecycleAssumption, Threads, CoreTypes, ThreadTypes, CoreStates,
       coreVars, threadVars, plugVars, dhcpVars, loopVars
<1>1. CASE UNCHANGED vars
  BY <1>1 DEF vars
<1>2. ASSUME NEW a \in Adapters, Register(a)
      PROVE  CoreTypes'
  BY <1>2 DEF Register, LaunchThreads, Each, Of
<1>3. ASSUME StartSc
      PROVE  CoreTypes'
  BY <1>3 DEF StartSc, ConnectFirstAdapter
<1>4. ASSUME DoneStart
      PROVE  CoreTypes'
  BY <1>4 DEF DoneStart, ConnectFirstAdapterCallback, Go
<1>5. ASSUME Return
      PROVE  CoreTypes'
  BY <1>5 DEF Return, Go
<1>6. ASSUME NEW isLogging \in BOOLEAN, StopSc(isLogging)
      PROVE  CoreTypes'
  <2>1. {registered[i] : i \in {j \in DOMAIN registered : Connected(registered[j])}}
          \subseteq Adapters
    OBVIOUS
  <2>. QED
    BY <1>6, <2>1 DEF StopSc, StopCoreTransaction
<1>7. ASSUME StopNext
      PROVE  CoreTypes'
  <2>1. CASE todo = <<>>
    BY <1>7, <2>1 DEF StopNext, Go
  <2>2. CASE todo # <<>>
    <3>1. Tail(todo) \in Seq(Adapters)
      BY <2>2
    <3>. QED
      BY <1>7, <2>2, <3>1 DEF StopNext
  <2>. QED
    BY <2>1, <2>2
<1>8. ASSUME StopAdapterDisconnected
      PROVE  CoreTypes'
  BY <1>8 DEF StopAdapterDisconnected, FinishThreads, Each, Of, Go
<1>9. ASSUME StopAdapterFailed
      PROVE  CoreTypes'
  BY <1>9 DEF StopAdapterFailed, Go
<1>10. ASSUME NEW a \in Adapters, NEW l \in {"connect", "disconnect"},
              NEW s \in BOOLEAN, BeginCommand(a, l, s)
      PROVE  CoreTypes'
  BY <1>10 DEF BeginCommand
<1>11. ASSUME NEW a \in Adapters, NEW f \in {"Active", "Sleeping"},
              NEW s \in {"Active", "Sleeping"}, SleepOrWakeUp(a, f, s)
      PROVE  CoreTypes'
  BY <1>11 DEF SleepOrWakeUp
<1>12. ASSUME EndCommand
      PROVE  CoreTypes'
  BY <1>12 DEF EndCommand
<1>13. ASSUME NEW t \in Threads, Connect(t)
      PROVE  CoreTypes'
  BY <1>13 DEF Connect, Go, SetState
<1>14. ASSUME NEW t \in Threads, TurnOn(t)
      PROVE  CoreTypes'
  BY <1>14 DEF TurnOn, Go, SetDevice
<1>15. ASSUME NEW t \in Threads, AllowDiscover(t)
      PROVE  CoreTypes'
  BY <1>15 DEF AllowDiscover, Go, NoFault, P2PGroupAdd, AllowFails, SetDevice, Fault,
      FailConnect, SetState, GetP2PName, Fork
<1>16. ASSUME NEW t \in Threads, AssignPid(t)
      PROVE  CoreTypes'
  BY <1>16 DEF AssignPid, GetP2PInfo, Go, NoFault, AllowFails, SetDevice, Fault,
      FailConnect, SetState
<1>17. ASSUME NEW t \in Threads, CheckDhcpd(t)
      PROVE  CoreTypes'
  BY <1>17 DEF CheckDhcpd, Fork, GetIpAddress, Go, NoFault, AllowFails, SetDevice, Fault,
      FailConnect, SetState
<1>18. ASSUME NEW t \in Threads, OpenSocket(t)
      PROVE  CoreTypes'
  BY <1>18 DEF OpenSocket, Go, NoFault, Fault, FailOpen
<1>19. ASSUME NEW t \in Threads, Accept(t)
      PROVE  CoreTypes'
  BY <1>19 DEF Accept, Go, NoFault, Fault, FailOpen
<1>20. ASSUME NEW t \in Threads, EnableLoops(t)
      PROVE  CoreTypes'
  BY <1>20 DEF EnableLoops, Go, SetState, Each, Of
<1>21. ASSUME NEW t \in Threads, Disconnect(t)
      PROVE  CoreTypes'
  BY <1>21 DEF Disconnect, Go
<1>22. ASSUME NEW t \in Threads, SetDisconnecting(t)
      PROVE  CoreTypes'
  BY <1>22 DEF SetDisconnecting, SetState
<1>23. ASSUME NEW t \in Threads, DisableLoops(t)
      PROVE  CoreTypes'
  BY <1>23 DEF DisableLoops, Go, Each, Of
<1>24. ASSUME NEW t \in Threads, CloseSocket(t)
      PROVE  CoreTypes'
  BY <1>24 DEF CloseSocket, Go, CloseImpl
<1>25. ASSUME NEW t \in Threads, Disallow(t)
      PROVE  CoreTypes'
  BY <1>25 DEF Disallow, Go, NoFault, Fault, SetState, DisallowDiscover, P2PGroupRemove
<1>26. ASSUME NEW t \in Threads, TurnOff(t)
      PROVE  CoreTypes'
  BY <1>26 DEF TurnOff, Go, SetDevice
<1>27. ASSUME NEW t \in Threads, WaitLoops(t)
      PROVE  CoreTypes'
  BY <1>27 DEF WaitLoops, Go, SetState
<1>28. ASSUME NEW w \in Adapters \X Loops, ThreadStep(w)
      PROVE  CoreTypes'
  BY <1>28 DEF ThreadStep, RunThread, WaitEnable, BeginLoop, EndLoop
<1>29. ASSUME NEW a \in Adapters, SocketBreaks(a)
      PROVE  CoreTypes'
  BY <1>29 DEF SocketBreaks, Fault
<1>30. ASSUME DhcpdStep
      PROVE  CoreTypes'
  BY <1>30 DEF DhcpdStep, DhcpdDies, Kill, Fault, HandleSigchld, RelaunchDhcpd, Fork
<1>40. ASSUME NEW t \in Threads, Undo(t)
      PROVE  CoreTypes'
  BY <1>40 DEF Undo, DisallowDiscover, P2PGroupRemove, NoFault, Fault, SetDevice,
     FailConnect, SetState, Go
<1>41. ASSUME NEW t \in Threads, KillDhcpd(t)
      PROVE  CoreTypes'
  BY <1>41, KillFrame
<1>. QED
  BY <1>40, <1>41, <1>1, <1>2, <1>3, <1>4, <1>5, <1>6, <1>7, <1>8, <1>9, <1>10, <1>11, <1>12, <1>13,
      <1>14, <1>15, <1>16, <1>17, <1>18, <1>19, <1>20, <1>21, <1>22, <1>23, <1>24, <1>25,
      <1>26, <1>27, <1>28, <1>29, <1>30 DEF Next, AppStep, ControlStep, AdapterStep

\* Types of the threads, along every step.
LEMMA ThreadTypesStep ==
  ASSUME LifecycleAssumption, TypeOK, [Next]_vars
  PROVE  ThreadTypes'
<1>. USE DEF TypeOK, LifecycleAssumption, Threads, ThreadTypes, CoreTypes, AdapterStates,
       PCs, coreVars, threadVars, plugVars, dhcpVars, loopVars
<1>1. CASE UNCHANGED vars
  BY <1>1 DEF vars
<1>2. ASSUME NEW a \in Adapters, Register(a)
      PROVE  ThreadTypes'
  BY <1>2 DEF Register, LaunchThreads, Each, Of
<1>3. ASSUME StartSc
      PROVE  ThreadTypes'
  BY <1>3 DEF StartSc, ConnectFirstAdapter
<1>4. ASSUME DoneStart
      PROVE  ThreadTypes'
  BY <1>4 DEF DoneStart, ConnectFirstAdapterCallback, Go
<1>5. ASSUME Return
      PROVE  ThreadTypes'
  BY <1>5 DEF Return, Go
<1>6. ASSUME NEW isLogging \in BOOLEAN, StopSc(isLogging)
      PROVE  ThreadTypes'
  BY <1>6 DEF StopSc, StopCoreTransaction
<1>7. ASSUME StopNext
      PROVE  ThreadTypes'
  BY <1>7 DEF StopNext, Go
<1>8. ASSUME StopAdapterDisconnected
      PROVE  ThreadTypes'
  BY <1>8 DEF StopAdapterDisconnected, FinishThreads, Each, Of, Go
<1>9. ASSUME StopAdapterFailed
      PROVE  ThreadTypes'
  BY <1>9 DEF StopAdapterFailed, Go
<1>10. ASSUME NEW a \in Adapters, NEW l \in {"connect", "disconnect"},
              NEW s \in BOOLEAN, BeginCommand(a, l, s)
      PROVE  ThreadTypes'
  BY <1>10 DEF BeginCommand
<1>11. ASSUME NEW a \in Adapters, NEW f \in {"Active", "Sleeping"},
              NEW s \in {"Active", "Sleeping"}, SleepOrWakeUp(a, f, s)
      PROVE  ThreadTypes'
  BY <1>11 DEF SleepOrWakeUp
<1>12. ASSUME EndCommand
      PROVE  ThreadTypes'
  BY <1>12 DEF EndCommand
<1>13. ASSUME NEW t \in Threads, Connect(t)
      PROVE  ThreadTypes'
  BY <1>13 DEF Connect, Go, SetState
<1>14. ASSUME NEW t \in Threads, TurnOn(t)
      PROVE  ThreadTypes'
  BY <1>14 DEF TurnOn, Go, SetDevice
<1>15. ASSUME NEW t \in Threads, AllowDiscover(t)
      PROVE  ThreadTypes'
  <2>1. CASE AllowFails(t)
    BY <2>1, AllowFailsTyped
  <2>2. CASE ~AllowFails(t)
    <3>1. NoFault /\ UNCHANGED state /\ (Go(t, "open") \/ Go(t, "assignPid"))
      BY <1>15, <2>2 DEF AllowDiscover, GetP2PName
    <3>. QED
      BY <3>1 DEF Go, NoFault, PCs
  <2>. QED
    BY <2>1, <2>2
<1>16. ASSUME NEW t \in Threads, AssignPid(t)
      PROVE  ThreadTypes'
  <2>1. CASE AllowFails(t)
    BY <2>1, AllowFailsTyped
  <2>2. CASE ~AllowFails(t)
    BY <1>16, <2>2 DEF AssignPid, GetP2PInfo, Go, NoFault, PCs
  <2>. QED
    BY <2>1, <2>2
<1>17. ASSUME NEW t \in Threads, CheckDhcpd(t)
      PROVE  ThreadTypes'
  <2>1. CASE AllowFails(t)
    BY <2>1, AllowFailsTyped
  <2>2. CASE ~AllowFails(t)
    BY <1>17, <2>2 DEF CheckDhcpd, GetIpAddress, Go, NoFault, PCs
  <2>. QED
    BY <2>1, <2>2
<1>18. ASSUME NEW t \in Threads, OpenSocket(t)
      PROVE  ThreadTypes'
  BY <1>18 DEF OpenSocket, Go, NoFault, Fault, FailOpen
<1>19. ASSUME NEW t \in Threads, Accept(t)
      PROVE  ThreadTypes'
  BY <1>19 DEF Accept, Go, NoFault, Fault, FailOpen
<1>20. ASSUME NEW t \in Threads, EnableLoops(t)
      PROVE  ThreadTypes'
  BY <1>20 DEF EnableLoops, Go, SetState, Each, Of
<1>21. ASSUME NEW t \in Threads, Disconnect(t)
      PROVE  ThreadTypes'
  BY <1>21 DEF Disconnect, Go
<1>22. ASSUME NEW t \in Threads, SetDisconnecting(t)
      PROVE  ThreadTypes'
  BY <1>22 DEF SetDisconnecting, SetState
<1>23. ASSUME NEW t \in Threads, DisableLoops(t)
      PROVE  ThreadTypes'
  BY <1>23 DEF DisableLoops, Go, Each, Of
<1>24. ASSUME NEW t \in Threads, CloseSocket(t)
      PROVE  ThreadTypes'
  BY <1>24 DEF CloseSocket, Go, CloseImpl
<1>25. ASSUME NEW t \in Threads, Disallow(t)
      PROVE  ThreadTypes'
  BY <1>25 DEF Disallow, Go, NoFault, Fault, SetState, DisallowDiscover, P2PGroupRemove
<1>26. ASSUME NEW t \in Threads, TurnOff(t)
      PROVE  ThreadTypes'
  BY <1>26 DEF TurnOff, Go, SetDevice
<1>27. ASSUME NEW t \in Threads, WaitLoops(t)
      PROVE  ThreadTypes'
  BY <1>27 DEF WaitLoops, Go, SetState
<1>28. ASSUME NEW w \in Adapters \X Loops, ThreadStep(w)
      PROVE  ThreadTypes'
  BY <1>28 DEF ThreadStep, RunThread, WaitEnable, BeginLoop, EndLoop
<1>29. ASSUME NEW a \in Adapters, SocketBreaks(a)
      PROVE  ThreadTypes'
  BY <1>29 DEF SocketBreaks, Fault
<1>30. ASSUME DhcpdStep
      PROVE  ThreadTypes'
  BY <1>30 DEF DhcpdStep, DhcpdDies, Kill, Fault, HandleSigchld, RelaunchDhcpd, Fork
<1>40. ASSUME NEW t \in Threads, Undo(t)
      PROVE  ThreadTypes'
  BY <1>40 DEF Undo, DisallowDiscover, P2PGroupRemove, NoFault, Fault, SetDevice,
     FailConnect, SetState, Go
<1>41. ASSUME NEW t \in Threads, KillDhcpd(t)
      PROVE  ThreadTypes'
  BY <1>41, KillFrame
<1>. QED
  BY <1>40, <1>41, <1>1, <1>2, <1>3, <1>4, <1>5, <1>6, <1>7, <1>8, <1>9, <1>10, <1>11, <1>12, <1>13,
      <1>14, <1>15, <1>16, <1>17, <1>18, <1>19, <1>20, <1>21, <1>22, <1>23, <1>24, <1>25,
      <1>26, <1>27, <1>28, <1>29, <1>30 DEF Next, AppStep, ControlStep, AdapterStep

\* Types of the plugins, along every step.
LEMMA PlugTypesStep ==
  ASSUME LifecycleAssumption, TypeOK, [Next]_vars
  PROVE  PlugTypes'
<1>. USE DEF TypeOK, LifecycleAssumption, Threads, PlugTypes, coreVars, threadVars,
       plugVars, dhcpVars, loopVars
<1>1. CASE UNCHANGED vars
  BY <1>1 DEF vars
<1>2. ASSUME NEW a \in Adapters, Register(a)
      PROVE  PlugTypes'
  BY <1>2, ThreadTypes DEF Register, LaunchThreads, Each, Of
<1>3. ASSUME StartSc
      PROVE  PlugTypes'
  BY <1>3, ThreadTypes DEF StartSc, ConnectFirstAdapter
<1>4. ASSUME DoneStart
      PROVE  PlugTypes'
  BY <1>4, ThreadTypes DEF DoneStart, ConnectFirstAdapterCallback, Go
<1>5. ASSUME Return
      PROVE  PlugTypes'
  BY <1>5, ThreadTypes DEF Return, Go
<1>6. ASSUME NEW isLogging \in BOOLEAN, StopSc(isLogging)
      PROVE  PlugTypes'
  BY <1>6, ThreadTypes DEF StopSc, StopCoreTransaction
<1>7. ASSUME StopNext
      PROVE  PlugTypes'
  BY <1>7, ThreadTypes DEF StopNext, Go
<1>8. ASSUME StopAdapterDisconnected
      PROVE  PlugTypes'
  BY <1>8, ThreadTypes DEF StopAdapterDisconnected, FinishThreads, Each, Of, Go
<1>9. ASSUME StopAdapterFailed
      PROVE  PlugTypes'
  BY <1>9, ThreadTypes DEF StopAdapterFailed, Go
<1>10. ASSUME NEW a \in Adapters, NEW l \in {"connect", "disconnect"},
              NEW s \in BOOLEAN, BeginCommand(a, l, s)
      PROVE  PlugTypes'
  BY <1>10, ThreadTypes DEF BeginCommand
<1>11. ASSUME NEW a \in Adapters, NEW f \in {"Active", "Sleeping"},
              NEW s \in {"Active", "Sleeping"}, SleepOrWakeUp(a, f, s)
      PROVE  PlugTypes'
  BY <1>11, ThreadTypes DEF SleepOrWakeUp
<1>12. ASSUME EndCommand
      PROVE  PlugTypes'
  BY <1>12, ThreadTypes DEF EndCommand
<1>13. ASSUME NEW t \in Threads, Connect(t)
      PROVE  PlugTypes'
  BY <1>13, ThreadTypes DEF Connect, Go, SetState
<1>14. ASSUME NEW t \in Threads, TurnOn(t)
      PROVE  PlugTypes'
  BY <1>14, ThreadTypes DEF TurnOn, Go, SetDevice
<1>15. ASSUME NEW t \in Threads, AllowDiscover(t)
      PROVE  PlugTypes'
  <2>1. tgt[t] \in Adapters
    BY DEF ThreadTypes
  <2>2. CASE p2p[tgt[t]] = "allowed" \/ tgt[t] \notin WfdAdapters
    BY <1>15, <2>1, <2>2 DEF AllowDiscover
  <2>3. CASE tgt[t] \in WfdAdapters /\ ~(p2p[tgt[t]] = "allowed")
    <3>1. group' \in [WfdAdapters -> BOOLEAN]
      BY <1>15, <2>3, GroupTyped DEF AllowDiscover
    <3>2. AllowFails(t) \/ UNCHANGED <<dev, p2p>>
      BY <1>15, <2>3 DEF AllowDiscover, GetP2PName
    <3>. QED
      BY <1>15, <3>1, <3>2, AllowFailsTyped DEF AllowDiscover
  <2>. QED
    BY <2>2, <2>3
<1>16. ASSUME NEW t \in Threads, AssignPid(t)
      PROVE  PlugTypes'
  BY <1>16, ThreadTypes DEF AssignPid, GetP2PInfo, Go, NoFault, AllowFails, SetDevice,
      Fault, FailConnect, SetState
<1>17. ASSUME NEW t \in Threads, CheckDhcpd(t)
      PROVE  PlugTypes'
  BY <1>17, ThreadTypes DEF CheckDhcpd, Fork, GetIpAddress, Go, NoFault, AllowFails,
      SetDevice, Fault, FailConnect, SetState
<1>18. ASSUME NEW t \in Threads, OpenSocket(t)
      PROVE  PlugTypes'
  <2>1. tgt[t] \in Adapters
    BY DEF ThreadTypes
  <2>. QED
    BY <1>18, <2>1 DEF OpenSocket, FailOpen
<1>19. ASSUME NEW t \in Threads, Accept(t)
      PROVE  PlugTypes'
  <2>1. tgt[t] \in Adapters
    BY DEF ThreadTypes
  <2>. QED
    BY <1>19, <2>1 DEF Accept, FailOpen
<1>20. ASSUME NEW t \in Threads, EnableLoops(t)
      PROVE  PlugTypes'
  BY <1>20, ThreadTypes DEF EnableLoops, Go, SetState, Each, Of
<1>21. ASSUME NEW t \in Threads, Disconnect(t)
      PROVE  PlugTypes'
  BY <1>21, ThreadTypes DEF Disconnect, Go
<1>22. ASSUME NEW t \in Threads, SetDisconnecting(t)
      PROVE  PlugTypes'
  BY <1>22, ThreadTypes DEF SetDisconnecting, SetState
<1>23. ASSUME NEW t \in Threads, DisableLoops(t)
      PROVE  PlugTypes'
  BY <1>23, ThreadTypes DEF DisableLoops, Go, Each, Of
<1>24. ASSUME NEW t \in Threads, CloseSocket(t)
      PROVE  PlugTypes'
  BY <1>24, ThreadTypes DEF CloseSocket, Go, CloseImpl
<1>25. ASSUME NEW t \in Threads, Disallow(t)
      PROVE  PlugTypes'
  <2>1. tgt[t] \in Adapters
    BY DEF ThreadTypes
  <2>2. PICK ok \in BOOLEAN : DisallowDiscover(t, "disallow", "remove", ok)
    BY <1>25 DEF Disallow
  <2>3. UNCHANGED <<dev, sock, listening, client>>
    BY <1>25 DEF Disallow
  <2>. QED
    BY <2>1, <2>2, <2>3, DisallowDiscoverTyped
<1>26. ASSUME NEW t \in Threads, TurnOff(t)
      PROVE  PlugTypes'
  BY <1>26, ThreadTypes DEF TurnOff, Go, SetDevice
<1>27. ASSUME NEW t \in Threads, WaitLoops(t)
      PROVE  PlugTypes'
  BY <1>27, ThreadTypes DEF WaitLoops, Go, SetState
<1>28. ASSUME NEW w \in Adapters \X Loops, ThreadStep(w)
      PROVE  PlugTypes'
  BY <1>28, ThreadTypes DEF ThreadStep, RunThread, WaitEnable, BeginLoop, EndLoop
<1>29. ASSUME NEW a \in Adapters, SocketBreaks(a)
      PROVE  PlugTypes'
  BY <1>29, ThreadTypes DEF SocketBreaks, Fault
<1>30. ASSUME DhcpdStep
      PROVE  PlugTypes'
  BY <1>30, ThreadTypes DEF DhcpdStep, DhcpdDies, Kill, Fault, HandleSigchld,
      RelaunchDhcpd, Fork
<1>40. ASSUME NEW t \in Threads, Undo(t)
      PROVE  PlugTypes'
  <2>1. tgt[t] \in Adapters
    BY DEF ThreadTypes
  <2>2. PICK ok \in BOOLEAN : DisallowDiscover(t, "undo", "undoRemove", ok)
    BY <1>40 DEF Undo
  <2>3. UNCHANGED <<sock, listening, client>> /\ dev' = [dev EXCEPT ![tgt[t]] = "off"]
    BY <1>40 DEF Undo, SetDevice
  <2>. QED
    BY <2>1, <2>2, <2>3, DisallowDiscoverTyped
<1>41. ASSUME NEW t \in Threads, KillDhcpd(t)
      PROVE  PlugTypes'
  BY <1>41, KillFrame
<1>. QED
  BY <1>40, <1>41, <1>1, <1>2, <1>3, <1>4, <1>5, <1>6, <1>7, <1>8, <1>9, <1>10, <1>11, <1>12, <1>13,
      <1>14, <1>15, <1>16, <1>17, <1>18, <1>19, <1>20, <1>21, <1>22, <1>23, <1>24, <1>25,
      <1>26, <1>27, <1>28, <1>29, <1>30 DEF Next, AppStep, ControlStep, AdapterStep

\* Types of the DHCP daemon, along every step.
LEMMA DhcpdTypesStep ==
  ASSUME LifecycleAssumption, TypeOK, [Next]_vars
  PROVE  DhcpdTypes'
<1>. USE DEF TypeOK, LifecycleAssumption, Threads, DhcpdTypes, coreVars, threadVars,
       plugVars, dhcpVars, loopVars
<1>1. CASE UNCHANGED vars
  BY <1>1 DEF vars
<1>2. ASSUME NEW a \in Adapters, Register(a)
      PROVE  DhcpdTypes'
  BY <1>2 DEF Register, LaunchThreads, Each, Of
<1>3. ASSUME StartSc
      PROVE  DhcpdTypes'
  BY <1>3 DEF StartSc, ConnectFirstAdapter
<1>4. ASSUME DoneStart
      PROVE  DhcpdTypes'
  BY <1>4 DEF DoneStart, ConnectFirstAdapterCallback, Go
<1>5. ASSUME Return
      PROVE  DhcpdTypes'
  BY <1>5 DEF Return, Go
<1>6. ASSUME NEW isLogging \in BOOLEAN, StopSc(isLogging)
      PROVE  DhcpdTypes'
  BY <1>6 DEF StopSc, StopCoreTransaction
<1>7. ASSUME StopNext
      PROVE  DhcpdTypes'
  BY <1>7 DEF StopNext, Go
<1>8. ASSUME StopAdapterDisconnected
      PROVE  DhcpdTypes'
  BY <1>8 DEF StopAdapterDisconnected, FinishThreads, Each, Of, Go
<1>9. ASSUME StopAdapterFailed
      PROVE  DhcpdTypes'
  BY <1>9 DEF StopAdapterFailed, Go
<1>10. ASSUME NEW a \in Adapters, NEW l \in {"connect", "disconnect"},
              NEW s \in BOOLEAN, BeginCommand(a, l, s)
      PROVE  DhcpdTypes'
  BY <1>10 DEF BeginCommand
<1>11. ASSUME NEW a \in Adapters, NEW f \in {"Active", "Sleeping"},
              NEW s \in {"Active", "Sleeping"}, SleepOrWakeUp(a, f, s)
      PROVE  DhcpdTypes'
  BY <1>11 DEF SleepOrWakeUp
<1>12. ASSUME EndCommand
      PROVE  DhcpdTypes'
  BY <1>12 DEF EndCommand
<1>13. ASSUME NEW t \in Threads, Connect(t)
      PROVE  DhcpdTypes'
  BY <1>13 DEF Connect, Go, SetState
<1>14. ASSUME NEW t \in Threads, TurnOn(t)
      PROVE  DhcpdTypes'
  BY <1>14 DEF TurnOn, Go, SetDevice
<1>15. ASSUME NEW t \in Threads, AllowDiscover(t)
      PROVE  DhcpdTypes'
  <2>1. CASE UNCHANGED dhcpVars
    BY <2>1
  <2>2. CASE /\ Fork /\ child' = [child EXCEPT ![t] = forked']
             /\ UNCHANGED <<pid, sigchld, relaunch, lost, overlap>>
    BY <2>2, ForkTyped
  <2>. QED
    BY <1>15, <2>1, <2>2 DEF AllowDiscover, GetP2PName
<1>16. ASSUME NEW t \in Threads, AssignPid(t)
      PROVE  DhcpdTypes'
  BY <1>16 DEF AssignPid, Record
<1>17. ASSUME NEW t \in Threads, CheckDhcpd(t)
      PROVE  DhcpdTypes'
  BY <1>17, ForkTyped DEF CheckDhcpd, Record
<1>18. ASSUME NEW t \in Threads, OpenSocket(t)
      PROVE  DhcpdTypes'
  BY <1>18 DEF OpenSocket
<1>19. ASSUME NEW t \in Threads, Accept(t)
      PROVE  DhcpdTypes'
  BY <1>19 DEF Accept
<1>20. ASSUME NEW t \in Threads, EnableLoops(t)
      PROVE  DhcpdTypes'
  BY <1>20 DEF EnableLoops, Go, SetState, Each, Of
<1>21. ASSUME NEW t \in Threads, Disconnect(t)
      PROVE  DhcpdTypes'
  BY <1>21 DEF Disconnect, Go
<1>22. ASSUME NEW t \in Threads, SetDisconnecting(t)
      PROVE  DhcpdTypes'
  BY <1>22 DEF SetDisconnecting, SetState
<1>23. ASSUME NEW t \in Threads, DisableLoops(t)
      PROVE  DhcpdTypes'
  BY <1>23 DEF DisableLoops, Go, Each, Of
<1>24. ASSUME NEW t \in Threads, CloseSocket(t)
      PROVE  DhcpdTypes'
  BY <1>24 DEF CloseSocket, Go, CloseImpl
<1>25. ASSUME NEW t \in Threads, Disallow(t)
      PROVE  DhcpdTypes'
  BY <1>25 DEF Disallow
<1>26. ASSUME NEW t \in Threads, TurnOff(t)
      PROVE  DhcpdTypes'
  BY <1>26 DEF TurnOff, Go, SetDevice
<1>27. ASSUME NEW t \in Threads, WaitLoops(t)
      PROVE  DhcpdTypes'
  BY <1>27 DEF WaitLoops, Go, SetState
<1>28. ASSUME NEW w \in Adapters \X Loops, ThreadStep(w)
      PROVE  DhcpdTypes'
  BY <1>28 DEF ThreadStep, RunThread, WaitEnable, BeginLoop, EndLoop
<1>29. ASSUME NEW a \in Adapters, SocketBreaks(a)
      PROVE  DhcpdTypes'
  BY <1>29 DEF SocketBreaks, Fault
<1>30. ASSUME NEW p \in Pids, DhcpdDies(p)
      PROVE  DhcpdTypes'
  BY <1>30 DEF DhcpdDies, Kill, Fault, Pids
<1>31. ASSUME NEW p \in Pids, HandleSigchld(p)
      PROVE  DhcpdTypes'
  <2>1. CASE p = pid
    BY <1>31, <2>1 DEF HandleSigchld
  <2>2. CASE p # pid
    BY <1>31, <2>2 DEF HandleSigchld
  <2>. QED
    BY <2>1, <2>2
<1>32. ASSUME RelaunchDhcpd
      PROVE  DhcpdTypes'
  <2>1. /\ Fork /\ pid' = forked' /\ relaunch' = FALSE /\ UNCHANGED <<sigchld, child>>
        /\ lost' \subseteq Pids /\ overlap' = (overlap \/ ~dhcpdEnabled)
    BY <1>32 DEF RelaunchDhcpd, Record
  <2>2. forked' \in 1..MaxDhcpds /\ alive' \subseteq Pids /\ dhcpdEnabled' \in BOOLEAN
    BY <2>1, ForkTyped
  <2>3. pid' \in 0..MaxDhcpds /\ forked' \in 0..MaxDhcpds
    BY <2>1, <2>2
  <2>4. relaunch' \in BOOLEAN
    BY <2>1
  <2>. QED
    BY <2>1, <2>2, <2>3, <2>4
<1>40. ASSUME NEW t \in Threads, Undo(t)
      PROVE  DhcpdTypes'
  BY <1>40 DEF Undo
<1>41. ASSUME NEW t \in Threads, KillDhcpd(t)
      PROVE  DhcpdTypes'
  <2>1. ASSUME NEW f, NEW l, ResetDhcpd(t, f, l)
        PROVE  DhcpdTypes'
    BY <2>1 DEF ResetDhcpd
  <2>2. ASSUME NEW f, NEW l, NEW m, TestDhcpd(t, f, l, m)
        PROVE  DhcpdTypes'
    BY <2>2 DEF TestDhcpd
  <2>3. ASSUME NEW f, NEW l, KillRecorded(t, f, l)
        PROVE  DhcpdTypes'
    BY <2>3 DEF KillRecorded, Kill
  <2>. QED
    BY <1>41, <2>1, <2>2, <2>3 DEF KillDhcpd
<1>. QED
  BY <1>40, <1>41, <1>1, <1>2, <1>3, <1>4, <1>5, <1>6, <1>7, <1>8, <1>9, <1>10, <1>11, <1>12, <1>13,
      <1>14, <1>15, <1>16, <1>17, <1>18, <1>19, <1>20, <1>21, <1>22, <1>23, <1>24, <1>25,
      <1>26, <1>27, <1>28, <1>29, <1>30, <1>31, <1>32 DEF Next, AppStep, ControlStep,
      AdapterStep, DhcpdStep

\* Types of the sender and receiver threads, along every step.
LEMMA LoopTypesStep ==
  ASSUME LifecycleAssumption, TypeOK, [Next]_vars
  PROVE  LoopTypes'
<1>. USE DEF TypeOK, LifecycleAssumption, Threads, LoopTypes, ThreadTypes, coreVars,
       threadVars, plugVars, dhcpVars, loopVars
<1>1. CASE UNCHANGED vars
  BY <1>1 DEF vars
<1>2. ASSUME NEW a \in Adapters, Register(a)
      PROVE  LoopTypes'
  BY <1>2 DEF Register, LaunchThreads, Each, Of
<1>3. ASSUME StartSc
      PROVE  LoopTypes'
  BY <1>3 DEF StartSc, ConnectFirstAdapter
<1>4. ASSUME DoneStart
      PROVE  LoopTypes'
  BY <1>4 DEF DoneStart, ConnectFirstAdapterCallback, Go
<1>5. ASSUME Return
      PROVE  LoopTypes'
  BY <1>5 DEF Return, Go
<1>6. ASSUME NEW isLogging \in BOOLEAN, StopSc(isLogging)
      PROVE  LoopTypes'
  BY <1>6 DEF StopSc, StopCoreTransaction
<1>7. ASSUME StopNext
      PROVE  LoopTypes'
  BY <1>7 DEF StopNext, Go
<1>8. ASSUME StopAdapterDisconnected
      PROVE  LoopTypes'
  BY <1>8 DEF StopAdapterDisconnected, FinishThreads, Each, Of, Go
<1>9. ASSUME StopAdapterFailed
      PROVE  LoopTypes'
  BY <1>9 DEF StopAdapterFailed, Go
<1>10. ASSUME NEW a \in Adapters, NEW l \in {"connect", "disconnect"},
              NEW s \in BOOLEAN, BeginCommand(a, l, s)
      PROVE  LoopTypes'
  BY <1>10 DEF BeginCommand
<1>11. ASSUME NEW a \in Adapters, NEW f \in {"Active", "Sleeping"},
              NEW s \in {"Active", "Sleeping"}, SleepOrWakeUp(a, f, s)
      PROVE  LoopTypes'
  BY <1>11 DEF SleepOrWakeUp
<1>12. ASSUME EndCommand
      PROVE  LoopTypes'
  BY <1>12 DEF EndCommand
<1>13. ASSUME NEW t \in Threads, Connect(t)
      PROVE  LoopTypes'
  BY <1>13 DEF Connect, Go, SetState
<1>14. ASSUME NEW t \in Threads, TurnOn(t)
      PROVE  LoopTypes'
  BY <1>14 DEF TurnOn, Go, SetDevice
<1>15. ASSUME NEW t \in Threads, AllowDiscover(t)
      PROVE  LoopTypes'
  BY <1>15 DEF AllowDiscover, Go, NoFault, P2PGroupAdd, AllowFails, SetDevice, Fault,
      FailConnect, SetState, GetP2PName, Fork
<1>16. ASSUME NEW t \in Threads, AssignPid(t)
      PROVE  LoopTypes'
  BY <1>16 DEF AssignPid, GetP2PInfo, Go, NoFault, AllowFails, SetDevice, Fault,
      FailConnect, SetState
<1>17. ASSUME NEW t \in Threads, CheckDhcpd(t)
      PROVE  LoopTypes'
  BY <1>17 DEF CheckDhcpd, Fork, GetIpAddress, Go, NoFault, AllowFails, SetDevice, Fault,
      FailConnect, SetState
<1>18. ASSUME NEW t \in Threads, OpenSocket(t)
      PROVE  LoopTypes'
  BY <1>18 DEF OpenSocket, Go, NoFault, Fault, FailOpen
<1>19. ASSUME NEW t \in Threads, Accept(t)
      PROVE  LoopTypes'
  BY <1>19 DEF Accept, Go, NoFault, Fault, FailOpen
<1>20. ASSUME NEW t \in Threads, EnableLoops(t)
      PROVE  LoopTypes'
  BY <1>20 DEF EnableLoops, Go, SetState, Each, Of
<1>21. ASSUME NEW t \in Threads, Disconnect(t)
      PROVE  LoopTypes'
  BY <1>21 DEF Disconnect, Go
<1>22. ASSUME NEW t \in Threads, SetDisconnecting(t)
      PROVE  LoopTypes'
  BY <1>22 DEF SetDisconnecting, SetState
<1>23. ASSUME NEW t \in Threads, DisableLoops(t)
      PROVE  LoopTypes'
  BY <1>23 DEF DisableLoops, Go, Each, Of
<1>24. ASSUME NEW t \in Threads, CloseSocket(t)
      PROVE  LoopTypes'
  BY <1>24 DEF CloseSocket, Go, CloseImpl
<1>25. ASSUME NEW t \in Threads, Disallow(t)
      PROVE  LoopTypes'
  BY <1>25 DEF Disallow, Go, NoFault, Fault, SetState, DisallowDiscover, P2PGroupRemove
<1>26. ASSUME NEW t \in Threads, TurnOff(t)
      PROVE  LoopTypes'
  BY <1>26 DEF TurnOff, Go, SetDevice
<1>27. ASSUME NEW t \in Threads, WaitLoops(t)
      PROVE  LoopTypes'
  BY <1>27 DEF WaitLoops, Go, SetState
<1>28. ASSUME NEW w \in Adapters \X Loops, RunThread(w)
      PROVE  LoopTypes'
  BY <1>28 DEF RunThread
<1>29. ASSUME NEW w \in Adapters \X Loops, WaitEnable(w)
      PROVE  LoopTypes'
  BY <1>29 DEF WaitEnable
<1>30. ASSUME NEW w \in Adapters \X Loops, BeginLoop(w)
      PROVE  LoopTypes'
  BY <1>30 DEF BeginLoop
<1>31. ASSUME NEW w \in Adapters \X Loops, EndLoop(w)
      PROVE  LoopTypes'
  BY <1>31 DEF EndLoop
<1>32. ASSUME NEW a \in Adapters, SocketBreaks(a)
      PROVE  LoopTypes'
  BY <1>32 DEF SocketBreaks, Fault
<1>33. ASSUME DhcpdStep
      PROVE  LoopTypes'
  BY <1>33 DEF DhcpdStep, DhcpdDies, Kill, Fault, HandleSigchld, RelaunchDhcpd, Fork
<1>40. ASSUME NEW t \in Threads, Undo(t)
      PROVE  LoopTypes'
  BY <1>40 DEF Undo, DisallowDiscover, P2PGroupRemove, NoFault, Fault, SetDevice,
     FailConnect, SetState, Go
<1>41. ASSUME NEW t \in Threads, KillDhcpd(t)
      PROVE  LoopTypes'
  BY <1>41, KillFrame
<1>. QED
  BY <1>40, <1>41, <1>1, <1>2, <1>3, <1>4, <1>5, <1>6, <1>7, <1>8, <1>9, <1>10, <1>11, <1>12, <1>13,
      <1>14, <1>15, <1>16, <1>17, <1>18, <1>19, <1>20, <1>21, <1>22, <1>23, <1>24, <1>25,
      <1>26, <1>27, <1>28, <1>29, <1>30, <1>31, <1>32, <1>33 DEF Next, AppStep, ControlStep,
      AdapterStep, ThreadStep
-----------------------------------------------------------------------------
(***************************************************************************)
(* What a step of connect() or disconnect() leaves alone                   *)
(***************************************************************************)

\* disallow_discover() touches nothing of another adapter.
LEMMA DisallowDiscoverFrame ==
  ASSUME PlugTypes, NEW t \in Threads, tgt[t] \in Adapters, NEW b, NEW l, NEW ok \in BOOLEAN,
         DisallowDiscover(t, b, l, ok)
  PROVE  /\ \A a \in Adapters : a # tgt[t] => p2p'[a] = p2p[a]
         /\ \A a \in WfdAdapters : a # tgt[t] => group'[a] = group[a]
         /\ p2p'[tgt[t]] = (IF ok THEN "disallowed" ELSE "allowed")
         /\ \/ pc[t] = b /\ ~HasGroup(tgt[t]) /\ ok /\ UNCHANGED group
            \/ /\ pc[t] = l
               /\ tgt[t] \in WfdAdapters => group'[tgt[t]] = (group[tgt[t]] /\ ~ok)
BY DEF DisallowDiscover, PlugTypes, P2PGroupRemove

(***************************************************************************)
(* A step that connects an adapter, up to its enabling, changes only that  *)
(* adapter and leaves it Connecting or Disconnected.                       *)
(***************************************************************************)
SetUpStep(t) ==
  AllowDiscover(t) \/ AssignPid(t) \/ CheckDhcpd(t) \/ OpenSocket(t) \/ Accept(t) \/ Undo(t)

SetUpPCs == {"allow", "assignPid", "checkDhcpd", "open", "accept"} \cup UndoPCs

LEMMA SetUpFrame ==
  ASSUME TypeOK, NEW t \in Threads, SetUpStep(t)
  PROVE  /\ UNCHANGED <<coreVars, loopVars, tgt, old, contended, switching, calls, commands>>
         /\ pc[t] \in SetUpPCs
         /\ \A u \in Threads : u # t => pc'[u] = pc[u]
         /\ \A a \in Adapters : a # tgt[t] => state'[a] = state[a] /\ sock'[a] = sock[a]
         /\ \/ state' = state /\ pc'[t] \in SetUpPCs \cup {"enable"}
            \/ state'[tgt[t]] = "Disconnected" /\ pc'[t] = "connectFailed"
<1>1. /\ UNCHANGED <<coreVars, loopVars>> /\ pc[t] \in SetUpPCs
      /\ \/ FailConnect(t)
         \/ UNCHANGED state /\ \E l \in SetUpPCs \cup {"enable"} : Go(t, l)
      /\ UNCHANGED sock \/ \E s \in {"closed", "opening", "opened"} : sock' = [sock EXCEPT ![tgt[t]] = s]
  <2>1. CASE AllowDiscover(t)
    BY <2>1 DEF AllowDiscover, GetP2PName, AllowFails, SetUpPCs, UndoPCs
  <2>2. CASE AssignPid(t)
    BY <2>2 DEF AssignPid, GetP2PInfo, AllowFails, SetUpPCs, UndoPCs
  <2>3. CASE CheckDhcpd(t)
    BY <2>3 DEF CheckDhcpd, GetIpAddress, AllowFails, SetUpPCs, UndoPCs
  <2>4. CASE OpenSocket(t)
    BY <2>4 DEF OpenSocket, FailOpen, SetUpPCs, UndoPCs
  <2>5. CASE Accept(t)
    BY <2>5 DEF Accept, FailOpen, SetUpPCs, UndoPCs
  <2>6. CASE Undo(t)
    BY <2>6 DEF Undo, DisallowDiscover, SetUpPCs, UndoPCs
  <2>. QED
    BY <2>1, <2>2, <2>3, <2>4, <2>5, <2>6 DEF SetUpStep
<1>2. \A a \in Adapters : a # tgt[t] => sock'[a] = sock[a]
  BY <1>1 DEF TypeOK, PlugTypes
<1>3. CASE FailConnect(t)
  BY <1>1, <1>2, <1>3 DEF FailConnect, SetState, Go, TypeOK, ThreadTypes
<1>4. CASE UNCHANGED state /\ \E l \in SetUpPCs \cup {"enable"} : Go(t, l)
  BY <1>1, <1>2, <1>4 DEF Go, TypeOK, ThreadTypes
<1>. QED
  BY <1>1, <1>3, <1>4

\* A fork gives the daemon a new number.
LEMMA ForkNumbers ==
  ASSUME LifecycleAssumption, TypeOK, DhcpdNumbers, Fork
  PROVE  /\ forked' = forked + 1 /\ forked \in Nat
         /\ alive' = alive \cup {forked + 1} /\ alive' \subseteq 1..forked'
         /\ sigchld \subseteq 1..forked' /\ alive' \cap sigchld = {}
         /\ pid \in 0..forked' /\ \A t \in Threads : child[t] \in 0..forked'
         /\ forked + 1 \notin sigchld /\ pid # forked + 1
BY DEF LifecycleAssumption, TypeOK, DhcpdTypes, DhcpdNumbers, Fork
-----------------------------------------------------------------------------
(***************************************************************************)
(* The threads and what an adapter holds, along every step                 *)
(***************************************************************************)

\* One thread at a time, along every step.
LEMMA ExclusiveStep ==
  ASSUME LifecycleAssumption, TypeOK, Exclusive, [Next]_vars
  PROVE  Exclusive'
<1>. USE DEF TypeOK, CoreTypes, ThreadTypes, Threads, PCs, AdapterStates, Exclusive, Busy,
       ConnectPCs, DisconnectPCs, UndoPCs, coreVars, threadVars, plugVars, dhcpVars, loopVars
<1>1. CASE UNCHANGED vars
  BY <1>1 DEF vars
<1>2. ASSUME NEW a \in Adapters, Register(a)
      PROVE  Exclusive'
  BY <1>2 DEF Register, LaunchThreads, Each, Of
<1>3. ASSUME StartSc
      PROVE  Exclusive'
  BY <1>3 DEF StartSc, ConnectFirstAdapter
<1>4. ASSUME DoneStart
      PROVE  Exclusive'
  BY <1>4 DEF DoneStart, ConnectFirstAdapterCallback, Go
<1>5. ASSUME Return
      PROVE  Exclusive'
  BY <1>5 DEF Return, Go
<1>6. ASSUME NEW isLogging \in BOOLEAN, StopSc(isLogging)
      PROVE  Exclusive'
  BY <1>6 DEF StopSc, StopCoreTransaction
<1>7. ASSUME StopNext
      PROVE  Exclusive'
  BY <1>7 DEF StopNext, Go
<1>8. ASSUME StopAdapterDisconnected
      PROVE  Exclusive'
  BY <1>8 DEF StopAdapterDisconnected, FinishThreads, Each, Of, Go
<1>9. ASSUME StopAdapterFailed
      PROVE  Exclusive'
  BY <1>9 DEF StopAdapterFailed, Go
<1>10. ASSUME NEW a \in Adapters, NEW l \in {"connect", "disconnect"},
              NEW s \in BOOLEAN, BeginCommand(a, l, s)
      PROVE  Exclusive'
  BY <1>10 DEF BeginCommand
<1>11. ASSUME NEW a \in Adapters, NEW f \in {"Active", "Sleeping"},
              NEW s \in {"Active", "Sleeping"}, SleepOrWakeUp(a, f, s)
      PROVE  Exclusive'
  BY <1>11 DEF SleepOrWakeUp
<1>12. ASSUME EndCommand
      PROVE  Exclusive'
  BY <1>12 DEF EndCommand
<1>13. ASSUME NEW t \in Threads, Connect(t)
      PROVE  Exclusive'
  BY <1>13 DEF Connect, Go, SetState
<1>14. ASSUME NEW t \in Threads, TurnOn(t)
      PROVE  Exclusive'
  BY <1>14 DEF TurnOn, Go, SetDevice
<1>15. ASSUME NEW t \in Threads, AllowDiscover(t)
      PROVE  Exclusive'
  BY <1>15 DEF AllowDiscover, Go, NoFault, P2PGroupAdd, AllowFails, SetDevice, Fault,
      FailConnect, SetState, GetP2PName, Fork
<1>16. ASSUME NEW t \in Threads, AssignPid(t)
      PROVE  Exclusive'
  BY <1>16 DEF AssignPid, GetP2PInfo, Go, NoFault, AllowFails, SetDevice, Fault,
      FailConnect, SetState
<1>17. ASSUME NEW t \in Threads, CheckDhcpd(t)
      PROVE  Exclusive'
  BY <1>17 DEF CheckDhcpd, Fork, GetIpAddress, Go, NoFault, AllowFails, SetDevice, Fault,
      FailConnect, SetState
<1>18. ASSUME NEW t \in Threads, OpenSocket(t)
      PROVE  Exclusive'
  BY <1>18 DEF OpenSocket, Go, NoFault, Fault, FailOpen
<1>19. ASSUME NEW t \in Threads, Accept(t)
      PROVE  Exclusive'
  BY <1>19 DEF Accept, Go, NoFault, Fault, FailOpen
<1>20. ASSUME NEW t \in Threads, EnableLoops(t)
      PROVE  Exclusive'
  BY <1>20 DEF EnableLoops, Go, SetState, Each, Of
<1>21. ASSUME NEW t \in Threads, Disconnect(t)
      PROVE  Exclusive'
  BY <1>21 DEF Disconnect, Go
<1>22. ASSUME NEW t \in Threads, SetDisconnecting(t)
      PROVE  Exclusive'
  BY <1>22 DEF SetDisconnecting, SetState
<1>23. ASSUME NEW t \in Threads, DisableLoops(t)
      PROVE  Exclusive'
  BY <1>23 DEF DisableLoops, Go, Each, Of
<1>24. ASSUME NEW t \in Threads, CloseSocket(t)
      PROVE  Exclusive'
  BY <1>24 DEF CloseSocket, Go, CloseImpl
<1>25. ASSUME NEW t \in Threads, Disallow(t)
      PROVE  Exclusive'
  BY <1>25 DEF Disallow, Go, NoFault, Fault, SetState, DisallowDiscover, P2PGroupRemove
<1>26. ASSUME NEW t \in Threads, TurnOff(t)
      PROVE  Exclusive'
  BY <1>26 DEF TurnOff, Go, SetDevice
<1>27. ASSUME NEW t \in Threads, WaitLoops(t)
      PROVE  Exclusive'
  BY <1>27 DEF WaitLoops, Go, SetState
<1>28. ASSUME NEW w \in Adapters \X Loops, ThreadStep(w)
      PROVE  Exclusive'
  BY <1>28 DEF ThreadStep, RunThread, WaitEnable, BeginLoop, EndLoop
<1>29. ASSUME NEW a \in Adapters, SocketBreaks(a)
      PROVE  Exclusive'
  BY <1>29 DEF SocketBreaks, Fault
<1>30. ASSUME DhcpdStep
      PROVE  Exclusive'
  BY <1>30 DEF DhcpdStep, DhcpdDies, Kill, Fault, HandleSigchld, RelaunchDhcpd, Fork
<1>40. ASSUME NEW t \in Threads, Undo(t)
      PROVE  Exclusive'
  BY <1>40 DEF Undo, DisallowDiscover, P2PGroupRemove, NoFault, Fault, SetDevice,
     FailConnect, SetState, Go
<1>41. ASSUME NEW t \in Threads, KillDhcpd(t)
      PROVE  Exclusive'
  <2>1. UNCHANGED <<tgt, old, contended, state>>
    BY <1>41, KillFrame
  <2>2. PICK l \in PCs :
          /\ pc' = [pc EXCEPT ![t] = l]
          /\ \/ pc[t] \in {"disallow", "test", "kill"} /\ l \in {"test", "kill", "remove"}
             \/ /\ pc[t] \in {"undo", "undoTest", "undoKill"}
                /\ l \in {"undoTest", "undoKill", "undoRemove"}
             \/ pc[t] \in {"kill", "undoKill"} /\ l = "crashed"
    BY <1>41, KillFrame
  <2>3. pc'[t] = l /\ \A u \in Threads : u # t => pc'[u] = pc[u]
    BY <2>2
  <2>4. Busy(t)
    BY <2>2
  <2>5. ASSUME NEW u \in Threads, tgt[u] \notin contended
        PROVE  /\ pc'[u] \in ConnectPCs => state[tgt[u]] = "Connecting"
               /\ pc'[u] \in DisconnectPCs =>
                    state[tgt[u]] = "Disconnecting" /\ old[u] = "Sleeping"
               /\ Busy(u)' => Busy(u)
    BY <2>1, <2>2, <2>3, <2>4, <2>5
  <2>. HIDE DEF Busy, ConnectPCs, DisconnectPCs
  <2>. QED
    BY <2>1, <2>5
<1>. QED
  BY <1>40, <1>41, <1>1, <1>2, <1>3, <1>4, <1>5, <1>6, <1>7, <1>8, <1>9, <1>10, <1>11, <1>12, <1>13,
      <1>14, <1>15, <1>16, <1>17, <1>18, <1>19, <1>20, <1>21, <1>22, <1>23, <1>24, <1>25,
      <1>26, <1>27, <1>28, <1>29, <1>30 DEF Next, AppStep, ControlStep, AdapterStep

\* The state of the Core says where the application is, along every step.
LEMMA CoreSoundStep ==
  ASSUME LifecycleAssumption, TypeOK, CoreSound, [Next]_vars
  PROVE  CoreSound'
<1>. USE DEF TypeOK, CoreTypes, ThreadTypes, LifecycleAssumption, Threads, CoreSound,
       StartPCs, StopPCs, VisitPCs, ConnectPCs, DisconnectPCs, UndoPCs, coreVars, threadVars, plugVars,
       dhcpVars, loopVars
<1>1. CASE UNCHANGED vars
  BY <1>1 DEF vars
<1>2. ASSUME NEW a \in Adapters, Register(a)
      PROVE  CoreSound'
  BY <1>2 DEF Register, LaunchThreads, Each, Of
<1>3. ASSUME StartSc
      PROVE  CoreSound'
  BY <1>3 DEF StartSc, ConnectFirstAdapter
<1>4. ASSUME DoneStart
      PROVE  CoreSound'
  BY <1>4 DEF DoneStart, ConnectFirstAdapterCallback, Go
<1>5. ASSUME Return
      PROVE  CoreSound'
  BY <1>5 DEF Return, Go
<1>6. ASSUME NEW isLogging \in BOOLEAN, StopSc(isLogging)
      PROVE  CoreSound'
  BY <1>6 DEF StopSc, StopCoreTransaction
<1>7. ASSUME StopNext
      PROVE  CoreSound'
  BY <1>7 DEF StopNext, Go
<1>8. ASSUME StopAdapterDisconnected
      PROVE  CoreSound'
  BY <1>8 DEF StopAdapterDisconnected, FinishThreads, Each, Of, Go
<1>9. ASSUME StopAdapterFailed
      PROVE  CoreSound'
  BY <1>9 DEF StopAdapterFailed, Go
<1>10. ASSUME NEW a \in Adapters, NEW l \in {"connect", "disconnect"},
              NEW s \in BOOLEAN, BeginCommand(a, l, s)
      PROVE  CoreSound'
  BY <1>10 DEF BeginCommand
<1>11. ASSUME NEW a \in Adapters, NEW f \in {"Active", "Sleeping"},
              NEW s \in {"Active", "Sleeping"}, SleepOrWakeUp(a, f, s)
      PROVE  CoreSound'
  BY <1>11 DEF SleepOrWakeUp
<1>12. ASSUME EndCommand
      PROVE  CoreSound'
  BY <1>12 DEF EndCommand
<1>13. ASSUME NEW t \in Threads, Connect(t)
      PROVE  CoreSound'
  BY <1>13 DEF Connect, Go, SetState
<1>14. ASSUME NEW t \in Threads, TurnOn(t)
      PROVE  CoreSound'
  BY <1>14 DEF TurnOn, Go, SetDevice
<1>15. ASSUME NEW t \in Threads, AllowDiscover(t)
      PROVE  CoreSound'
  BY <1>15 DEF AllowDiscover, Go, NoFault, P2PGroupAdd, AllowFails, SetDevice, Fault,
      FailConnect, SetState, GetP2PName, Fork
<1>16. ASSUME NEW t \in Threads, AssignPid(t)
      PROVE  CoreSound'
  BY <1>16 DEF AssignPid, GetP2PInfo, Go, NoFault, AllowFails, SetDevice, Fault,
      FailConnect, SetState
<1>17. ASSUME NEW t \in Threads, CheckDhcpd(t)
      PROVE  CoreSound'
  BY <1>17 DEF CheckDhcpd, Fork, GetIpAddress, Go, NoFault, AllowFails, SetDevice, Fault,
      FailConnect, SetState
<1>18. ASSUME NEW t \in Threads, OpenSocket(t)
      PROVE  CoreSound'
  BY <1>18 DEF OpenSocket, Go, NoFault, Fault, FailOpen
<1>19. ASSUME NEW t \in Threads, Accept(t)
      PROVE  CoreSound'
  BY <1>19 DEF Accept, Go, NoFault, Fault, FailOpen
<1>20. ASSUME NEW t \in Threads, EnableLoops(t)
      PROVE  CoreSound'
  BY <1>20 DEF EnableLoops, Go, SetState, Each, Of
<1>21. ASSUME NEW t \in Threads, Disconnect(t)
      PROVE  CoreSound'
  BY <1>21 DEF Disconnect, Go
<1>22. ASSUME NEW t \in Threads, SetDisconnecting(t)
      PROVE  CoreSound'
  BY <1>22 DEF SetDisconnecting, SetState
<1>23. ASSUME NEW t \in Threads, DisableLoops(t)
      PROVE  CoreSound'
  BY <1>23 DEF DisableLoops, Go, Each, Of
<1>24. ASSUME NEW t \in Threads, CloseSocket(t)
      PROVE  CoreSound'
  BY <1>24 DEF CloseSocket, Go, CloseImpl
<1>25. ASSUME NEW t \in Threads, Disallow(t)
      PROVE  CoreSound'
  BY <1>25 DEF Disallow, Go, NoFault, Fault, SetState, DisallowDiscover, P2PGroupRemove
<1>26. ASSUME NEW t \in Threads, TurnOff(t)
      PROVE  CoreSound'
  BY <1>26 DEF TurnOff, Go, SetDevice
<1>27. ASSUME NEW t \in Threads, WaitLoops(t)
      PROVE  CoreSound'
  BY <1>27 DEF WaitLoops, Go, SetState
<1>28. ASSUME NEW w \in Adapters \X Loops, ThreadStep(w)
      PROVE  CoreSound'
  BY <1>28 DEF ThreadStep, RunThread, WaitEnable, BeginLoop, EndLoop
<1>29. ASSUME NEW a \in Adapters, SocketBreaks(a)
      PROVE  CoreSound'
  BY <1>29 DEF SocketBreaks, Fault
<1>30. ASSUME DhcpdStep
      PROVE  CoreSound'
  BY <1>30 DEF DhcpdStep, DhcpdDies, Kill, Fault, HandleSigchld, RelaunchDhcpd, Fork
<1>40. ASSUME NEW t \in Threads, Undo(t)
      PROVE  CoreSound'
  BY <1>40 DEF Undo, DisallowDiscover, P2PGroupRemove, NoFault, Fault, SetDevice,
     FailConnect, SetState, Go
<1>41. ASSUME NEW t \in Threads, KillDhcpd(t)
      PROVE  CoreSound'
  BY <1>41, KillFrame
<1>. QED
  BY <1>40, <1>41, <1>1, <1>2, <1>3, <1>4, <1>5, <1>6, <1>7, <1>8, <1>9, <1>10, <1>11, <1>12, <1>13,
      <1>14, <1>15, <1>16, <1>17, <1>18, <1>19, <1>20, <1>21, <1>22, <1>23, <1>24, <1>25,
      <1>26, <1>27, <1>28, <1>29, <1>30 DEF Next, AppStep, ControlStep, AdapterStep

\* What register_adapter() adds to mAdapters.
LEMMA RegisterAdds ==
  ASSUME registered \in Seq(Adapters), NEW a \in Adapters,
         registered' = Append(registered, a)
  PROVE  Registered' = Registered \cup {a}
<1>1. /\ DOMAIN registered = 1..Len(registered)
      /\ DOMAIN registered' = 1..Len(registered) + 1 /\ Len(registered) \in Nat
      /\ \A i \in 1..Len(registered) : registered'[i] = registered[i]
      /\ registered'[Len(registered) + 1] = a
  OBVIOUS
<1>2. \A b \in Registered' : b \in Registered \cup {a}
  BY <1>1 DEF Registered
<1>3. \A b \in Registered : b \in Registered'
  BY <1>1 DEF Registered
<1>4. a \in Registered'
  BY <1>1 DEF Registered
<1>. QED
  BY <1>2, <1>3, <1>4
(***************************************************************************)
(* Only registered adapters are connected, and registering one finds its   *)
(* threads not launched, along every step.                                 *)
(***************************************************************************)
LEMMA RegisteredStep ==
  ASSUME LifecycleAssumption, TypeOK, Exclusive, RegisteredSound, [Next]_vars
  PROVE  RegisteredSound'
<1>. USE DEF TypeOK, CoreTypes, ThreadTypes, Threads, PCs, AdapterStates, LoopTypes,
       RegisteredSound, Registered, AtRest, coreVars, threadVars, plugVars, dhcpVars, loopVars
<1>1. CASE UNCHANGED vars
  BY <1>1 DEF vars
<1>2. ASSUME NEW a \in Adapters, Register(a)
      PROVE  RegisteredSound'
  <2>1. /\ registered' = Append(registered, a) /\ wpc' = Each(wpc, Of(a), "launched")
        /\ UNCHANGED <<todo, pc, tgt, state>>
    BY <1>2 DEF Register, LaunchThreads
  <2>2. Registered' = Registered \cup {a}
    BY <2>1, RegisterAdds
  <2>3. \A b \in Adapters, l \in Loops : b # a => wpc'[<<b, l>>] = wpc[<<b, l>>]
    BY <2>1 DEF Each, Of
  <2>4. \A i \in DOMAIN todo' : todo'[i] \in Registered'
    BY <2>1, <2>2
  <2>5. \A t \in Threads : pc'[t] \notin AtRest => tgt'[t] \in Registered'
    BY <2>1, <2>2
  <2>6. \A b \in Adapters \ Registered' :
          state'[b] = "Disconnected" /\ \A l \in Loops : wpc'[<<b, l>>] = "none"
    <3>1. \A b \in Adapters \ (Registered \cup {a}) :
            state[b] = "Disconnected" /\ \A l \in Loops : wpc[<<b, l>>] = "none"
      OBVIOUS
    <3>. HIDE DEF Registered
    <3>. QED
      BY <2>1, <2>2, <2>3, <3>1
  <2>. HIDE DEF Registered, AtRest
  <2>. QED
    BY <2>4, <2>5, <2>6
<1>3. ASSUME StartSc
      PROVE  RegisteredSound'
  BY <1>3 DEF StartSc, ConnectFirstAdapter
<1>4. ASSUME DoneStart
      PROVE  RegisteredSound'
  BY <1>4 DEF DoneStart, ConnectFirstAdapterCallback, Go
<1>5. ASSUME Return
      PROVE  RegisteredSound'
  BY <1>5 DEF Return, Go
<1>6. ASSUME NEW isLogging \in BOOLEAN, StopSc(isLogging)
      PROVE  RegisteredSound'
  BY <1>6 DEF StopSc, StopCoreTransaction
<1>7. ASSUME StopNext
      PROVE  RegisteredSound'
  <2>1. UNCHANGED <<registered, state, wpc>>
    BY <1>7 DEF StopNext
  <2>2. CASE todo = <<>>
    BY <1>7, <2>1, <2>2 DEF StopNext, Go
  <2>3. CASE todo # <<>>
    <3>1. /\ todo' = Tail(todo) /\ Head(todo) \in Registered
          /\ \A i \in DOMAIN Tail(todo) : Tail(todo)[i] \in Registered
      BY <1>7, <2>3 DEF StopNext
    <3>2. \/ UNCHANGED <<pc, tgt>>
          \/ /\ pc' = [pc EXCEPT ![App] = "disconnect"]
             /\ tgt' = [tgt EXCEPT ![App] = Head(todo)]
      BY <1>7, <2>3 DEF StopNext
    <3>3. Registered' = Registered
      BY <2>1
    <3>4. \A t \in Threads : pc'[t] \notin AtRest => tgt'[t] \in Registered
      BY <3>1, <3>2
    <3>. HIDE DEF Registered, AtRest
    <3>. QED
      BY <2>1, <3>1, <3>3, <3>4
  <2>. QED
    BY <2>2, <2>3
<1>8. ASSUME StopAdapterDisconnected
      PROVE  RegisteredSound'
  BY <1>8 DEF StopAdapterDisconnected, FinishThreads, Each, Of, Go
<1>9. ASSUME StopAdapterFailed
      PROVE  RegisteredSound'
  BY <1>9 DEF StopAdapterFailed, Go
<1>10. ASSUME NEW a \in Adapters, NEW l \in {"connect", "disconnect"},
              NEW s \in BOOLEAN, BeginCommand(a, l, s)
      PROVE  RegisteredSound'
  BY <1>10 DEF BeginCommand
<1>11. ASSUME NEW a \in Adapters, NEW f \in {"Active", "Sleeping"},
              NEW s \in {"Active", "Sleeping"}, SleepOrWakeUp(a, f, s)
      PROVE  RegisteredSound'
  BY <1>11 DEF SleepOrWakeUp
<1>12. ASSUME EndCommand
      PROVE  RegisteredSound'
  BY <1>12 DEF EndCommand
<1>13. ASSUME NEW t \in Threads, Connect(t)
      PROVE  RegisteredSound'
  <2>1. UNCHANGED <<registered, todo, tgt, wpc>> /\ pc[t] = "connect"
    BY <1>13 DEF Connect, Go
  <2>2. \A u \in Threads : u # t => pc'[u] = pc[u]
    BY <1>13 DEF Connect, Go
  <2>3. \A a \in Adapters : a # tgt[t] => state'[a] = state[a]
    BY <1>13 DEF Connect, SetState
  <2>. QED
    BY <2>1, <2>2, <2>3
<1>14. ASSUME NEW t \in Threads, TurnOn(t)
      PROVE  RegisteredSound'
  BY <1>14 DEF TurnOn, Go, SetDevice
<1>15. ASSUME NEW t \in Threads, SetUpStep(t)
      PROVE  RegisteredSound'
  <2>1. /\ UNCHANGED <<registered, todo, tgt, wpc>> /\ pc[t] \in SetUpPCs
        /\ \A u \in Threads : u # t => pc'[u] = pc[u]
        /\ \A a \in Adapters : a # tgt[t] => state'[a] = state[a]
    BY <1>15, SetUpFrame
  <2>. QED
    BY <2>1 DEF SetUpPCs, UndoPCs
<1>16. ASSUME NEW t \in Threads, EnableLoops(t)
      PROVE  RegisteredSound'
  BY <1>16 DEF EnableLoops, Go, SetState, Each, Of
<1>17. ASSUME NEW t \in Threads, Disconnect(t)
      PROVE  RegisteredSound'
  BY <1>17 DEF Disconnect, Go
<1>18. ASSUME NEW t \in Threads, SetDisconnecting(t)
      PROVE  RegisteredSound'
  BY <1>18 DEF SetDisconnecting, SetState
<1>19. ASSUME NEW t \in Threads, DisableLoops(t)
      PROVE  RegisteredSound'
  BY <1>19 DEF DisableLoops, Go, Each, Of
<1>20. ASSUME NEW t \in Threads, CloseSocket(t)
      PROVE  RegisteredSound'
  BY <1>20 DEF CloseSocket, Go, CloseImpl
<1>21. ASSUME NEW t \in Threads, Disallow(t)
      PROVE  RegisteredSound'
  BY <1>21 DEF Disallow, Go, NoFault, Fault, SetState, DisallowDiscover, P2PGroupRemove
<1>22. ASSUME NEW t \in Threads, TurnOff(t)
      PROVE  RegisteredSound'
  BY <1>22 DEF TurnOff, Go, SetDevice
<1>23. ASSUME NEW t \in Threads, WaitLoops(t)
      PROVE  RegisteredSound'
  BY <1>23 DEF WaitLoops, Go, SetState
<1>24. ASSUME NEW w \in Adapters \X Loops, RunThread(w)
      PROVE  RegisteredSound'
  BY <1>24 DEF RunThread
<1>25. ASSUME NEW w \in Adapters \X Loops, WaitEnable(w)
      PROVE  RegisteredSound'
  BY <1>25 DEF WaitEnable
<1>26. ASSUME NEW w \in Adapters \X Loops, BeginLoop(w)
      PROVE  RegisteredSound'
  BY <1>26 DEF BeginLoop
<1>27. ASSUME NEW w \in Adapters \X Loops, EndLoop(w)
      PROVE  RegisteredSound'
  BY <1>27 DEF EndLoop
<1>28. ASSUME NEW a \in Adapters, SocketBreaks(a)
      PROVE  RegisteredSound'
  BY <1>28 DEF SocketBreaks, Fault
<1>29. ASSUME DhcpdStep
      PROVE  RegisteredSound'
  <2>1. UNCHANGED <<registered, todo, pc, tgt, state, wpc>>
    BY <1>29 DEF DhcpdStep, DhcpdDies, HandleSigchld, RelaunchDhcpd
  <2>. QED
    BY <2>1
<1>41. ASSUME NEW t \in Threads, KillDhcpd(t)
      PROVE  RegisteredSound'
  BY <1>41, KillFrame
<1>. HIDE DEF RegisteredSound, TypeOK
<1>. QED
  BY <1>41, <1>1, <1>2, <1>3, <1>4, <1>5, <1>6, <1>7, <1>8, <1>9, <1>10, <1>11, <1>12, <1>13,
      <1>14, <1>15, <1>16, <1>17, <1>18, <1>19, <1>20, <1>21, <1>22, <1>23, <1>24, <1>25,
      <1>26, <1>27, <1>28, <1>29 DEF Next, AppStep, ControlStep, AdapterStep, SetUpStep,
      ThreadStep

(***************************************************************************)
(* What an adapter holds, along every step: only the thread that connects  *)
(* or disconnects it changes that, but for a socket that breaks.           *)
(***************************************************************************)
LEMMA ResourcesStep ==
  ASSUME LifecycleAssumption, TypeOK, Exclusive, ResourcesSound, [Next]_vars
  PROVE  ResourcesSound'
<1>. USE DEF TypeOK, ThreadTypes, PlugTypes, Threads, PCs, AdapterStates, Exclusive, Busy,
       ConnectPCs, DisconnectPCs, UndoPCs, ResourcesSound, AdapterSound, Backed, Clear, ConnectSound,
       DisconnectSound, HasGroup, coreVars, threadVars, plugVars, dhcpVars, loopVars
<1>1. CASE UNCHANGED vars
  BY <1>1 DEF vars
<1>2. ASSUME NEW a \in Adapters, Register(a)
      PROVE  ResourcesSound'
  BY <1>2 DEF Register, LaunchThreads, Each, Of
<1>3. ASSUME StartSc
      PROVE  ResourcesSound'
  BY <1>3 DEF StartSc, ConnectFirstAdapter
<1>4. ASSUME DoneStart
      PROVE  ResourcesSound'
  BY <1>4 DEF DoneStart, ConnectFirstAdapterCallback, Go
<1>5. ASSUME Return
      PROVE  ResourcesSound'
  BY <1>5 DEF Return, Go
<1>6. ASSUME NEW isLogging \in BOOLEAN, StopSc(isLogging)
      PROVE  ResourcesSound'
  BY <1>6 DEF StopSc, StopCoreTransaction
<1>7. ASSUME StopNext
      PROVE  ResourcesSound'
  BY <1>7 DEF StopNext, Go
<1>8. ASSUME StopAdapterDisconnected
      PROVE  ResourcesSound'
  BY <1>8 DEF StopAdapterDisconnected, FinishThreads, Each, Of, Go
<1>9. ASSUME StopAdapterFailed
      PROVE  ResourcesSound'
  BY <1>9 DEF StopAdapterFailed, Go
<1>10. ASSUME NEW a \in Adapters, NEW l \in {"connect", "disconnect"},
              NEW s \in BOOLEAN, BeginCommand(a, l, s)
      PROVE  ResourcesSound'
  BY <1>10 DEF BeginCommand
<1>11. ASSUME NEW a \in Adapters, NEW f \in {"Active", "Sleeping"},
              NEW s \in {"Active", "Sleeping"}, SleepOrWakeUp(a, f, s)
      PROVE  ResourcesSound'
  BY <1>11 DEF SleepOrWakeUp
<1>12. ASSUME EndCommand
      PROVE  ResourcesSound'
  BY <1>12 DEF EndCommand
<1>13. ASSUME NEW t \in Threads, Connect(t)
      PROVE  ResourcesSound'
  BY <1>13 DEF Connect, Go, SetState
<1>14. ASSUME NEW t \in Threads, TurnOn(t)
      PROVE  ResourcesSound'
  BY <1>14 DEF TurnOn, Go, SetDevice
<1>15. ASSUME NEW t \in Threads, AllowDiscover(t)
      PROVE  ResourcesSound'
  <2>1. tgt[t] \in Adapters
    OBVIOUS
  <2>2. CASE p2p[tgt[t]] = "allowed" \/ tgt[t] \notin WfdAdapters
    <3>1. /\ p2p' = [p2p EXCEPT ![tgt[t]] = "allowed"] /\ pc' = [pc EXCEPT ![t] = "open"]
          /\ pc[t] = "allow"
          /\ UNCHANGED <<faults, tgt, contended, state, dev, group, sock, listening, client>>
      BY <1>15, <2>2 DEF AllowDiscover, NoFault, Go
    <3>. QED
      BY <2>1, <2>2, <3>1
  <2>3. CASE p2p[tgt[t]] = "disallowed" /\ tgt[t] \in WfdAdapters /\ AllowFails(t)
    <3>1. /\ \E ok \in BOOLEAN : group' = [group EXCEPT ![tgt[t]] = group[tgt[t]] \/ ok]
          /\ pc[t] = "allow"
          /\ UNCHANGED <<sock, listening, client>>
      BY <1>15, <2>3 DEF AllowDiscover, P2PGroupAdd
    <3>2. \A a \in WfdAdapters : group[a] => group'[a]
      BY <3>1
    <3>3. \A a \in WfdAdapters : a # tgt[t] => group'[a] = group[a]
      BY <3>1
    <3>. QED
      BY <2>1, <2>3, <3>1, <3>2, <3>3 DEF AllowFails, SetDevice, Fault, FailConnect, SetState, Go
  <2>4. CASE p2p[tgt[t]] = "disallowed" /\ tgt[t] \in WfdAdapters /\ ~AllowFails(t)
    <3>1. /\ group' = [group EXCEPT ![tgt[t]] = group[tgt[t]] \/ TRUE]
          /\ pc[t] = "allow" /\ pc' = [pc EXCEPT ![t] = "assignPid"]
          /\ UNCHANGED <<faults, tgt, contended, state, dev, p2p, sock, listening, client>>
      BY <1>15, <2>4 DEF AllowDiscover, P2PGroupAdd, GetP2PName, NoFault, Go
    <3>2. group'[tgt[t]] /\ \A a \in WfdAdapters : a # tgt[t] => group'[a] = group[a]
      BY <2>4, <3>1
    <3>. QED
      BY <2>1, <2>4, <3>1, <3>2
  <2>. QED
    BY <2>1, <2>2, <2>3, <2>4
<1>16. ASSUME NEW t \in Threads, AssignPid(t)
      PROVE  ResourcesSound'
  BY <1>16 DEF AssignPid, GetP2PInfo, Go, NoFault, AllowFails, SetDevice, Fault,
      FailConnect, SetState
<1>17. ASSUME NEW t \in Threads, CheckDhcpd(t)
      PROVE  ResourcesSound'
  BY <1>17 DEF CheckDhcpd, Fork, GetIpAddress, Go, NoFault, AllowFails, SetDevice, Fault,
      FailConnect, SetState
<1>18. ASSUME NEW t \in Threads, OpenSocket(t)
      PROVE  ResourcesSound'
  BY <1>18 DEF OpenSocket, Go, NoFault, Fault, FailOpen
<1>19. ASSUME NEW t \in Threads, Accept(t)
      PROVE  ResourcesSound'
  BY <1>19 DEF Accept, Go, NoFault, Fault, FailOpen
<1>20. ASSUME NEW t \in Threads, EnableLoops(t)
      PROVE  ResourcesSound'
  BY <1>20 DEF EnableLoops, Go, SetState, Each, Of
<1>21. ASSUME NEW t \in Threads, Disconnect(t)
      PROVE  ResourcesSound'
  BY <1>21 DEF Disconnect, Go
<1>22. ASSUME NEW t \in Threads, SetDisconnecting(t)
      PROVE  ResourcesSound'
  BY <1>22 DEF SetDisconnecting, SetState
<1>23. ASSUME NEW t \in Threads, DisableLoops(t)
      PROVE  ResourcesSound'
  BY <1>23 DEF DisableLoops, Go, Each, Of
<1>24. ASSUME NEW t \in Threads, CloseSocket(t)
      PROVE  ResourcesSound'
  BY <1>24 DEF CloseSocket, Go, CloseImpl
<1>25. ASSUME NEW t \in Threads, Disallow(t)
      PROVE  ResourcesSound'
  BY <1>25 DEF Disallow, Go, NoFault, Fault, SetState, DisallowDiscover, P2PGroupRemove
<1>26. ASSUME NEW t \in Threads, TurnOff(t)
      PROVE  ResourcesSound'
  BY <1>26 DEF TurnOff, Go, SetDevice
<1>27. ASSUME NEW t \in Threads, WaitLoops(t)
      PROVE  ResourcesSound'
  BY <1>27 DEF WaitLoops, Go, SetState
<1>28. ASSUME NEW w \in Adapters \X Loops, ThreadStep(w)
      PROVE  ResourcesSound'
  BY <1>28 DEF ThreadStep, RunThread, WaitEnable, BeginLoop, EndLoop
<1>29. ASSUME NEW a \in Adapters, SocketBreaks(a)
      PROVE  ResourcesSound'
  BY <1>29 DEF SocketBreaks, Fault
<1>30. ASSUME DhcpdStep
      PROVE  ResourcesSound'
  BY <1>30 DEF DhcpdStep, DhcpdDies, Kill, Fault, HandleSigchld, RelaunchDhcpd, Fork
<1>40. ASSUME NEW t \in Threads, Undo(t)
      PROVE  ResourcesSound'
  BY <1>40 DEF Undo, DisallowDiscover, P2PGroupRemove, NoFault, Fault, SetDevice,
     FailConnect, SetState, Go
<1>41. ASSUME NEW t \in Threads, KillDhcpd(t)
      PROVE  ResourcesSound'
  BY <1>41, KillFrame
<1>. HIDE DEF ResourcesSound, TypeOK
<1>. QED
  BY <1>40, <1>41, <1>1, <1>2, <1>3, <1>4, <1>5, <1>6, <1>7, <1>8, <1>9, <1>10, <1>11, <1>12, <1>13,
      <1>14, <1>15, <1>16, <1>17, <1>18, <1>19, <1>20, <1>21, <1>22, <1>23, <1>24, <1>25,
      <1>26, <1>27, <1>28, <1>29, <1>30 DEF Next, AppStep, ControlStep, AdapterStep

(***************************************************************************)
(* A thread that has not begun to run, along every step: enable_loop() is  *)
(* only called for an adapter that is Connecting.                          *)
(***************************************************************************)
LEMMA LoopsSoundStep ==
  ASSUME LifecycleAssumption, TypeOK, Exclusive, RegisteredSound, LoopsSound, [Next]_vars
  PROVE  LoopsSound'
<1>. USE DEF TypeOK, ThreadTypes, LoopTypes, Threads, PCs, AdapterStates, Exclusive,
       ConnectPCs, DisconnectPCs, UndoPCs, LoopsSound, coreVars, threadVars, plugVars, dhcpVars, loopVars
<1>1. CASE UNCHANGED vars
  BY <1>1 DEF vars
<1>2. ASSUME NEW a \in Adapters, Register(a)
      PROVE  LoopsSound'
  <2>1. /\ UNCHANGED <<running, late, contended, state>>
        /\ a \notin Registered
        /\ wpc' = [w \in Adapters \X Loops |-> IF w \in {a} \X Loops THEN "launched" ELSE wpc[w]]
    BY <1>2 DEF Register, LaunchThreads, Each, Of, Registered
  <2>2. state[a] = "Disconnected" /\ \A l \in Loops : wpc[<<a, l>>] = "none"
    BY <2>1 DEF RegisteredSound
  <2>3. \A w \in {a} \X Loops : state[w[1]] = "Disconnected" /\ wpc[w] = "none"
    BY <2>2
  <2>4. \A w \in Adapters \X Loops :
          wpc'[w] = wpc[w] \/ (wpc'[w] = "launched" /\ wpc[w] = "none" /\ state[w[1]] = "Disconnected")
    BY <2>1, <2>3
  <2>. QED
    BY <2>1, <2>4
<1>3. ASSUME StartSc
      PROVE  LoopsSound'
  BY <1>3 DEF StartSc, ConnectFirstAdapter
<1>4. ASSUME DoneStart
      PROVE  LoopsSound'
  BY <1>4 DEF DoneStart, ConnectFirstAdapterCallback, Go
<1>5. ASSUME Return
      PROVE  LoopsSound'
  BY <1>5 DEF Return, Go
<1>6. ASSUME NEW isLogging \in BOOLEAN, StopSc(isLogging)
      PROVE  LoopsSound'
  BY <1>6 DEF StopSc, StopCoreTransaction
<1>7. ASSUME StopNext
      PROVE  LoopsSound'
  BY <1>7 DEF StopNext, Go
<1>8. ASSUME StopAdapterDisconnected
      PROVE  LoopsSound'
  BY <1>8 DEF StopAdapterDisconnected, FinishThreads, Each, Of, Go
<1>9. ASSUME StopAdapterFailed
      PROVE  LoopsSound'
  BY <1>9 DEF StopAdapterFailed, Go
<1>10. ASSUME NEW a \in Adapters, NEW l \in {"connect", "disconnect"},
              NEW s \in BOOLEAN, BeginCommand(a, l, s)
      PROVE  LoopsSound'
  BY <1>10 DEF BeginCommand
<1>11. ASSUME NEW a \in Adapters, NEW f \in {"Active", "Sleeping"},
              NEW s \in {"Active", "Sleeping"}, SleepOrWakeUp(a, f, s)
      PROVE  LoopsSound'
  BY <1>11 DEF SleepOrWakeUp
<1>12. ASSUME EndCommand
      PROVE  LoopsSound'
  BY <1>12 DEF EndCommand
<1>13. ASSUME NEW t \in Threads, Connect(t)
      PROVE  LoopsSound'
  BY <1>13 DEF Connect, Go, SetState
<1>14. ASSUME NEW t \in Threads, TurnOn(t)
      PROVE  LoopsSound'
  BY <1>14 DEF TurnOn, Go, SetDevice
<1>15. ASSUME NEW t \in Threads, SetUpStep(t)
      PROVE  LoopsSound'
  <2>1. /\ UNCHANGED <<loopVars, tgt, contended>> /\ pc[t] \in ConnectPCs
        /\ \A a \in Adapters : a # tgt[t] => state'[a] = state[a] /\ sock'[a] = sock[a]
        /\ state' = state \/ state'[tgt[t]] = "Disconnected"
    BY <1>15, SetUpFrame DEF SetUpPCs
  <2>. QED
    BY <2>1
<1>16. ASSUME NEW t \in Threads, EnableLoops(t)
      PROVE  LoopsSound'
  BY <1>16 DEF EnableLoops, Go, SetState, Each, Of
<1>17. ASSUME NEW t \in Threads, Disconnect(t)
      PROVE  LoopsSound'
  BY <1>17 DEF Disconnect, Go
<1>18. ASSUME NEW t \in Threads, SetDisconnecting(t)
      PROVE  LoopsSound'
  BY <1>18 DEF SetDisconnecting, SetState
<1>19. ASSUME NEW t \in Threads, DisableLoops(t)
      PROVE  LoopsSound'
  BY <1>19 DEF DisableLoops, Go, Each, Of
<1>20. ASSUME NEW t \in Threads, CloseSocket(t)
      PROVE  LoopsSound'
  BY <1>20 DEF CloseSocket, Go, CloseImpl
<1>21. ASSUME NEW t \in Threads, Disallow(t)
      PROVE  LoopsSound'
  BY <1>21 DEF Disallow, Go, NoFault, Fault, SetState, DisallowDiscover, P2PGroupRemove
<1>22. ASSUME NEW t \in Threads, TurnOff(t)
      PROVE  LoopsSound'
  BY <1>22 DEF TurnOff, Go, SetDevice
<1>23. ASSUME NEW t \in Threads, WaitLoops(t)
      PROVE  LoopsSound'
  BY <1>23 DEF WaitLoops, Go, SetState
<1>24. ASSUME NEW w \in Adapters \X Loops, RunThread(w)
      PROVE  LoopsSound'
  BY <1>24 DEF RunThread
<1>25. ASSUME NEW w \in Adapters \X Loops, WaitEnable(w)
      PROVE  LoopsSound'
  BY <1>25 DEF WaitEnable
<1>26. ASSUME NEW w \in Adapters \X Loops, BeginLoop(w)
      PROVE  LoopsSound'
  BY <1>26 DEF BeginLoop
<1>27. ASSUME NEW w \in Adapters \X Loops, EndLoop(w)
      PROVE  LoopsSound'
  BY <1>27 DEF EndLoop
<1>28. ASSUME NEW a \in Adapters, SocketBreaks(a)
      PROVE  LoopsSound'
  BY <1>28 DEF SocketBreaks, Fault
<1>29. ASSUME DhcpdStep
      PROVE  LoopsSound'
  <2>1. UNCHANGED <<wpc, running, late, contended, state>>
    BY <1>29 DEF DhcpdStep, DhcpdDies, HandleSigchld, RelaunchDhcpd
  <2>. QED
    BY <2>1
<1>41. ASSUME NEW t \in Threads, KillDhcpd(t)
      PROVE  LoopsSound'
  BY <1>41, KillFrame
<1>. HIDE DEF LoopsSound, TypeOK
<1>. QED
  BY <1>41, <1>1, <1>2, <1>3, <1>4, <1>5, <1>6, <1>7, <1>8, <1>9, <1>10, <1>11, <1>12, <1>13,
      <1>14, <1>15, <1>16, <1>17, <1>18, <1>19, <1>20, <1>21, <1>22, <1>23, <1>24, <1>25,
      <1>26, <1>27, <1>28, <1>29 DEF Next, AppStep, ControlStep, AdapterStep, SetUpStep,
      ThreadStep

(***************************************************************************)
(* The threads of a connected adapter serve it, along every step.          *)
(***************************************************************************)
LEMMA ServedStep ==
  ASSUME LifecycleAssumption, TypeOK, Exclusive, ResourcesSound, LoopsSound,
    ActiveIsServed, RegisteredSound, [Next]_vars
  PROVE  ActiveIsServed'
<1>. USE DEF TypeOK, ThreadTypes, LoopTypes, Threads, PCs, AdapterStates, PlugTypes,
       ConnectPCs, DisconnectPCs, UndoPCs, Exclusive, LoopsSound, ActiveIsServed, coreVars, threadVars,
       plugVars, dhcpVars, loopVars
<1>1. CASE UNCHANGED vars
  BY <1>1 DEF vars
<1>2. ASSUME NEW a \in Adapters, Register(a)
      PROVE  ActiveIsServed'
  <2>1. UNCHANGED <<running, enabled, late, contended, state, sock>>
    BY <1>2 DEF Register
  <2>2. \A w \in Adapters \X Loops : w[1] # a => wpc'[w] = wpc[w]
    BY <1>2 DEF Register, LaunchThreads, Each, Of
  <2>3. state[a] = "Disconnected"
    BY <1>2 DEF Register, RegisteredSound, Registered
  <2>. QED
    BY <2>1, <2>2, <2>3
<1>3. ASSUME StartSc
      PROVE  ActiveIsServed'
  BY <1>3 DEF StartSc, ConnectFirstAdapter
<1>4. ASSUME DoneStart
      PROVE  ActiveIsServed'
  BY <1>4 DEF DoneStart, ConnectFirstAdapterCallback, Go
<1>5. ASSUME Return
      PROVE  ActiveIsServed'
  BY <1>5 DEF Return, Go
<1>6. ASSUME NEW isLogging \in BOOLEAN, StopSc(isLogging)
      PROVE  ActiveIsServed'
  BY <1>6 DEF StopSc, StopCoreTransaction
<1>7. ASSUME StopNext
      PROVE  ActiveIsServed'
  BY <1>7 DEF StopNext, Go
<1>8. ASSUME StopAdapterDisconnected
      PROVE  ActiveIsServed'
  BY <1>8 DEF StopAdapterDisconnected, FinishThreads, Each, Of, Go
<1>9. ASSUME StopAdapterFailed
      PROVE  ActiveIsServed'
  BY <1>9 DEF StopAdapterFailed, Go
<1>10. ASSUME NEW a \in Adapters, NEW l \in {"connect", "disconnect"},
              NEW s \in BOOLEAN, BeginCommand(a, l, s)
      PROVE  ActiveIsServed'
  BY <1>10 DEF BeginCommand
<1>11. ASSUME NEW a \in Adapters, NEW f \in {"Active", "Sleeping"},
              NEW s \in {"Active", "Sleeping"}, SleepOrWakeUp(a, f, s)
      PROVE  ActiveIsServed'
  BY <1>11 DEF SleepOrWakeUp
<1>12. ASSUME EndCommand
      PROVE  ActiveIsServed'
  BY <1>12 DEF EndCommand
<1>13. ASSUME NEW t \in Threads, Connect(t)
      PROVE  ActiveIsServed'
  BY <1>13 DEF Connect, Go, SetState
<1>14. ASSUME NEW t \in Threads, TurnOn(t)
      PROVE  ActiveIsServed'
  BY <1>14 DEF TurnOn, Go, SetDevice
<1>15. ASSUME NEW t \in Threads, SetUpStep(t)
      PROVE  ActiveIsServed'
  <2>1. /\ UNCHANGED <<loopVars, tgt, contended>> /\ pc[t] \in ConnectPCs
        /\ \A a \in Adapters : a # tgt[t] => state'[a] = state[a] /\ sock'[a] = sock[a]
        /\ state' = state \/ state'[tgt[t]] = "Disconnected"
    BY <1>15, SetUpFrame DEF SetUpPCs
  <2>. QED
    BY <2>1
<1>16. ASSUME NEW t \in Threads, EnableLoops(t)
      PROVE  ActiveIsServed'
  <2>1. /\ UNCHANGED <<running, contended, sock>>
        /\ late' = late \cup {w \in Of(tgt[t]) : wpc[w] = "launched"}
    BY <1>16 DEF EnableLoops, Go
  <2>2. \A w \in Adapters \X Loops : w \in Of(tgt[t]) <=> w[1] = tgt[t]
    BY DEF Of
  <2>3. enabled' = [w \in Adapters \X Loops |-> IF w \in Of(tgt[t]) THEN TRUE ELSE enabled[w]]
    BY <1>16 DEF EnableLoops, Each
  <2>4. wpc' = [w \in Adapters \X Loops |->
                  IF w \in Of(tgt[t]) /\ wpc[w] = "waiting" THEN "notified" ELSE wpc[w]]
    BY <1>16 DEF EnableLoops, Go
  <2>5. \A a \in Adapters : a # tgt[t] => state'[a] = state[a]
    BY <1>16 DEF EnableLoops, SetState
  <2>6. SUFFICES ASSUME NEW w \in ((Adapters \ contended) \X Loops) \ late',
                        state'[w[1]] \in {"Active", "Sleeping"}, sock[w[1]] = "opened", running[w]
                 PROVE  enabled'[w] /\ wpc'[w] \in {"ready", "notified", "looping"}
    BY <2>1
  <2>7. w \in Adapters \X Loops /\ w[1] \in Adapters \ contended /\ w \notin late
    BY <2>1
  <2>8. CASE w[1] = tgt[t]
    <3>1. wpc[w] \notin {"none", "launched", "ended"}
      BY <2>1, <2>2, <2>6, <2>7, <2>8
    <3>. QED
      BY <2>2, <2>3, <2>4, <2>7, <2>8, <3>1
  <2>9. CASE w[1] # tgt[t]
    BY <2>2, <2>3, <2>4, <2>5, <2>6, <2>7, <2>9
  <2>. QED
    BY <2>8, <2>9
<1>17. ASSUME NEW t \in Threads, Disconnect(t)
      PROVE  ActiveIsServed'
  BY <1>17 DEF Disconnect, Go
<1>18. ASSUME NEW t \in Threads, SetDisconnecting(t)
      PROVE  ActiveIsServed'
  BY <1>18 DEF SetDisconnecting, SetState
<1>19. ASSUME NEW t \in Threads, DisableLoops(t)
      PROVE  ActiveIsServed'
  BY <1>19 DEF DisableLoops, Go, Each, Of
<1>20. ASSUME NEW t \in Threads, CloseSocket(t)
      PROVE  ActiveIsServed'
  <2>1. UNCHANGED <<loopVars, contended, state>>
    BY <1>20 DEF CloseSocket, Go
  <2>2. UNCHANGED sock \/ sock' = [sock EXCEPT ![tgt[t]] = "closed"]
    BY <1>20 DEF CloseSocket
  <2>3. \A a \in Adapters : sock'[a] = "opened" => sock[a] = "opened"
    BY <2>2
  <2>. QED
    BY <2>1, <2>3
<1>21. ASSUME NEW t \in Threads, Disallow(t)
      PROVE  ActiveIsServed'
  <2>1. /\ UNCHANGED <<loopVars, contended, sock, tgt>> /\ pc[t] \in {"disallow", "remove"}
        /\ \A a \in Adapters : a # tgt[t] => state'[a] = state[a]
    BY <1>21 DEF Disallow, DisallowDiscover, SetState, Go
  <2>2. tgt[t] \notin contended => sock[tgt[t]] = "closed"
    BY <2>1 DEF ResourcesSound, DisconnectSound
  <2>. QED
    BY <2>1, <2>2
<1>22. ASSUME NEW t \in Threads, TurnOff(t)
      PROVE  ActiveIsServed'
  BY <1>22 DEF TurnOff, Go, SetDevice
<1>23. ASSUME NEW t \in Threads, WaitLoops(t)
      PROVE  ActiveIsServed'
  BY <1>23 DEF WaitLoops, Go, SetState
<1>24. ASSUME NEW w \in Adapters \X Loops, RunThread(w)
      PROVE  ActiveIsServed'
  BY <1>24 DEF RunThread
<1>25. ASSUME NEW w \in Adapters \X Loops, WaitEnable(w)
      PROVE  ActiveIsServed'
  BY <1>25 DEF WaitEnable
<1>26. ASSUME NEW w \in Adapters \X Loops, BeginLoop(w)
      PROVE  ActiveIsServed'
  BY <1>26 DEF BeginLoop
<1>27. ASSUME NEW w \in Adapters \X Loops, EndLoop(w)
      PROVE  ActiveIsServed'
  <2>1. /\ UNCHANGED <<running, late, contended, sock, state>>
        /\ \A v \in Adapters \X Loops : v # w => enabled'[v] = enabled[v] /\ wpc'[v] = wpc[v]
        /\ ~enabled[w] \/ TransferFails(w[1])
    BY <1>27 DEF EndLoop
  <2>2. TransferFails(w[1]) => ~(state[w[1]] \in {"Active", "Sleeping"} /\ sock[w[1]] = "opened")
    BY DEF TransferFails
  <2>. QED
    BY <2>1, <2>2
<1>28. ASSUME NEW a \in Adapters, SocketBreaks(a)
      PROVE  ActiveIsServed'
  BY <1>28 DEF SocketBreaks, Fault
<1>29. ASSUME DhcpdStep
      PROVE  ActiveIsServed'
  <2>1. UNCHANGED <<loopVars, contended, state, sock>>
    BY <1>29 DEF DhcpdStep, DhcpdDies, HandleSigchld, RelaunchDhcpd
  <2>. QED
    BY <2>1
<1>41. ASSUME NEW t \in Threads, KillDhcpd(t)
      PROVE  ActiveIsServed'
  BY <1>41, KillFrame
<1>. HIDE DEF ActiveIsServed, TypeOK
<1>. QED
  BY <1>41, <1>1, <1>2, <1>3, <1>4, <1>5, <1>6, <1>7, <1>8, <1>9, <1>10, <1>11, <1>12, <1>13,
      <1>14, <1>15, <1>16, <1>17, <1>18, <1>19, <1>20, <1>21, <1>22, <1>23, <1>24, <1>25,
      <1>26, <1>27, <1>28, <1>29 DEF Next, AppStep, ControlStep, AdapterStep, SetUpStep,
      ThreadStep
-----------------------------------------------------------------------------
(***************************************************************************)
(* The DHCP daemon and the count of a stop, along every step               *)
(***************************************************************************)

(***************************************************************************)
(* The DHCP daemon, along every step.                                      *)
(***************************************************************************)

\* disallow_discover() between the call of kill_dhcpd() and its end.
RemovePCs == {"test", "kill", "remove"} \cup (UndoPCs \ {"undo"})

\* A step that changes no daemon and keeps the groups and the threads of the invariant.
LEMMA QuietDhcpd ==
  ASSUME DhcpdSound, UNCHANGED dhcpVars, contended \subseteq contended',
         \A t \in Threads : pc[t] = "assignPid" => pc'[t] = "assignPid",
         contended' = {} => \A a \in WfdAdapters : KeptGroup(a) => KeptGroup(a)',
         contended' = {} => \A t \in Threads : WillKill(t) => WillKill(t)'
  PROVE  DhcpdSound'
<1>. USE DEF dhcpVars
<1>1. DhcpdNumbers'
  BY DEF DhcpdSound, DhcpdNumbers
<1>2. DhcpdKnown'
  BY DEF DhcpdSound, DhcpdKnown
<1>3. DhcpdBacked'
  BY DEF DhcpdSound, DhcpdBacked
<1>. QED
  BY <1>1, <1>2, <1>3 DEF DhcpdSound

\* A step that changes no group either, and moves no thread of disallow_discover().
LEMMA QuietStep ==
  ASSUME DhcpdSound, UNCHANGED <<dhcpVars, group>>, contended \subseteq contended',
         \A t \in Threads :
            \/ pc'[t] = pc[t] /\ tgt'[t] = tgt[t]
            \/ pc[t] \notin {"assignPid"} \cup RemovePCs /\ pc'[t] \notin RemovePCs
  PROVE  DhcpdSound'
<1>1. \A t \in Threads : pc[t] = "assignPid" => pc'[t] = "assignPid"
  OBVIOUS
<1>2. ASSUME NEW a \in WfdAdapters, KeptGroup(a)
      PROVE  KeptGroup(a)'
  BY <1>2 DEF KeptGroup, RemovePCs
<1>3. ASSUME NEW t \in Threads, WillKill(t)
      PROVE  WillKill(t)'
  BY <1>3 DEF WillKill, RemovePCs, UndoPCs
<1>. QED
  BY <1>1, <1>2, <1>3, QuietDhcpd

\* The group of a connection that has launched its daemon stays.
LEMMA LaunchKept ==
  ASSUME TypeOK, Exclusive, ResourcesSound, contended = {}, NEW t \in Threads,
         pc[t] \in {"assignPid", "checkDhcpd"}
  PROVE  tgt[t] \in WfdAdapters /\ KeptGroup(tgt[t])
<1>1. tgt[t] \in WfdAdapters /\ group[tgt[t]]
  BY DEF ResourcesSound, ConnectSound
<1>2. Busy(t)
  BY DEF Busy, ConnectPCs
<1>3. \A u \in Threads : u # t /\ tgt[u] = tgt[t] => ~Busy(u)
  BY <1>2 DEF Exclusive
<1>. QED
  BY <1>1, <1>3 DEF KeptGroup, Busy, ConnectPCs, DisconnectPCs, UndoPCs

\* The end of disallow_discover() removes a group whose daemon was killed before.
LEMMA DisallowDhcpd ==
  ASSUME TypeOK, Exclusive, DhcpdSound, NEW t \in Threads, NEW ok \in BOOLEAN,
         DisallowDiscover(t, "disallow", "remove", ok)
           \/ DisallowDiscover(t, "undo", "undoRemove", ok),
         NEW l \in {"turnOff", "disconnectFailed", "connectFailed"},
         pc' = [pc EXCEPT ![t] = l], UNCHANGED <<tgt, contended, dhcpVars>>
  PROVE  DhcpdSound'
<1>1. tgt[t] \in Adapters /\ WfdAdapters \subseteq WfdAdapters
  BY DEF TypeOK, ThreadTypes
<1>2. /\ \A a \in WfdAdapters : a # tgt[t] => group'[a] = group[a]
      /\ \/ pc[t] \in {"disallow", "undo"} /\ UNCHANGED group
         \/ pc[t] \in {"remove", "undoRemove"}
  BY <1>1, DisallowDiscoverFrame DEF TypeOK
<1>3. pc'[t] = l /\ \A u \in Threads : u # t => pc'[u] = pc[u]
  BY DEF TypeOK, ThreadTypes
<1>4. \A u \in Threads : pc[u] = "assignPid" => pc'[u] = "assignPid"
  BY <1>2, <1>3
<1>5. ASSUME NEW a \in WfdAdapters, KeptGroup(a)
      PROVE  KeptGroup(a)'
  BY <1>2, <1>3, <1>5 DEF KeptGroup, UndoPCs
<1>6. ASSUME contended' = {}, NEW u \in Threads, WillKill(u)
      PROVE  WillKill(u)'
  <2>1. u # t
    BY <1>2, <1>6 DEF WillKill
  <2>2. tgt[u] \notin contended /\ Busy(u) /\ Busy(t)
    BY <1>2, <1>6 DEF WillKill, Busy, ConnectPCs, DisconnectPCs, UndoPCs
  <2>3. tgt[u] # tgt[t]
    BY <2>1, <2>2 DEF Exclusive
  <2>. QED
    BY <1>2, <1>3, <1>6, <2>1, <2>3 DEF WillKill
<1>. QED
  BY <1>4, <1>5, <1>6, QuietDhcpd

\* kill_dhcpd(): what it has not killed yet it is about to kill.
LEMMA KillKeepsDhcpd ==
  ASSUME TypeOK, ResourcesSound, DhcpdSound, NEW t \in Threads, KillDhcpd(t)
  PROVE  DhcpdSound'
<1>1. tgt[t] \in Adapters /\ UNCHANGED <<group, tgt, contended, pid, forked, child, lost>>
  BY KillFrame DEF TypeOK, ThreadTypes, plugVars
<1>2. PICK l \in PCs :
        /\ pc' = [pc EXCEPT ![t] = l]
        /\ \/ /\ pc[t] \in {"disallow", "test", "kill"} /\ l \in {"test", "kill", "remove"}
           \/ /\ pc[t] \in {"undo", "undoTest", "undoKill"}
              /\ l \in {"undoTest", "undoKill", "undoRemove"}
           \/ pc[t] \in {"kill", "undoKill"} /\ l = "crashed"
  BY KillFrame
<1>3. pc'[t] = l /\ \A u \in Threads : u # t => pc'[u] = pc[u]
  BY <1>2 DEF TypeOK, ThreadTypes
<1>4. \A u \in Threads : pc[u] = "assignPid" => pc'[u] = "assignPid"
  BY <1>2, <1>3
<1>5. ASSUME NEW b \in {<<"disallow", "test">>, <<"undo", "undoTest">>},
             ResetDhcpd(t, b[1], b[2])
      PROVE  DhcpdSound'
  <2>1. /\ HasGroup(tgt[t]) /\ dhcpdEnabled' = FALSE /\ UNCHANGED <<alive, sigchld>>
        /\ pc' = [pc EXCEPT ![t] = b[2]]
    BY <1>5 DEF ResetDhcpd, Go
  <2>2. pc'[t] \in {"test", "undoTest"}
    BY <2>1 DEF TypeOK, ThreadTypes
  <2>3. contended = {} => WillKill(t)'
    BY <1>1, <2>1, <2>2 DEF WillKill, HasGroup, ResourcesSound, AdapterSound
  <2>4. DhcpdBacked'
    BY <1>1, <2>1, <2>3 DEF DhcpdBacked
  <2>5. DhcpdNumbers' /\ DhcpdKnown'
    BY <1>1, <1>4, <2>1 DEF DhcpdSound, DhcpdNumbers, DhcpdKnown
  <2>. QED
    BY <2>4, <2>5 DEF DhcpdSound
<1>6. ASSUME NEW b \in {<<"test", "kill", "remove">>, <<"undoTest", "undoKill", "undoRemove">>},
             TestDhcpd(t, b[1], b[2], b[3])
      PROVE  DhcpdSound'
  <2>1. /\ UNCHANGED dhcpVars /\ pc[t] = b[1]
        /\ pc' = [pc EXCEPT ![t] = IF pid = 0 THEN b[3] ELSE b[2]]
    BY <1>6 DEF TestDhcpd, Go
  <2>2. pc'[t] = (IF pid = 0 THEN b[3] ELSE b[2])
    BY <2>1 DEF TypeOK, ThreadTypes
  <2>3. \A a \in WfdAdapters : KeptGroup(a) => KeptGroup(a)'
    BY <1>1, <1>3, <2>1 DEF KeptGroup, UndoPCs
  <2>4. \A u \in Threads : WillKill(u) => WillKill(u)' \/ (u = t /\ pid = 0)
    BY <1>1, <1>3, <2>1, <2>2 DEF WillKill
  <2>5. pid = 0 => pid \notin alive
    BY DEF DhcpdSound, DhcpdNumbers
  <2>6. DhcpdBacked'
    BY <1>1, <2>1, <2>3, <2>4, <2>5 DEF DhcpdSound, DhcpdBacked, dhcpVars
  <2>7. DhcpdNumbers' /\ DhcpdKnown'
    BY <1>4, <2>1 DEF DhcpdSound, DhcpdNumbers, DhcpdKnown, dhcpVars
  <2>. QED
    BY <2>6, <2>7 DEF DhcpdSound
<1>7. ASSUME NEW b \in {<<"kill", "remove">>, <<"undoKill", "undoRemove">>},
             KillRecorded(t, b[1], b[2])
      PROVE  DhcpdSound'
  <2>1. /\ UNCHANGED <<dhcpdEnabled, overlap>> /\ pc[t] = b[1]
        /\ \/ alive' = {} /\ UNCHANGED sigchld
           \/ Kill(pid)
    BY <1>7 DEF KillRecorded
  <2>2. pid \notin alive' /\ alive' \subseteq alive
    BY <2>1 DEF Kill
  <2>3. \A a \in WfdAdapters : KeptGroup(a) => KeptGroup(a)'
    BY <1>1, <1>3, <2>1 DEF KeptGroup, UndoPCs
  <2>4. DhcpdBacked'
    BY <1>1, <2>1, <2>2, <2>3 DEF DhcpdSound, DhcpdBacked
  <2>5. DhcpdNumbers' /\ DhcpdKnown'
    BY <1>1, <1>4, <2>1, <2>2 DEF DhcpdSound, DhcpdNumbers, DhcpdKnown, Kill
  <2>. QED
    BY <2>4, <2>5 DEF DhcpdSound
<1>8. CASE ResetDhcpd(t, "disallow", "test")
  BY <1>5, <1>8
<1>9. CASE ResetDhcpd(t, "undo", "undoTest")
  BY <1>5, <1>9
<1>10. CASE TestDhcpd(t, "test", "kill", "remove")
  BY <1>6, <1>10
<1>11. CASE TestDhcpd(t, "undoTest", "undoKill", "undoRemove")
  BY <1>6, <1>11
<1>12. CASE KillRecorded(t, "kill", "remove")
  BY <1>7, <1>12
<1>13. CASE KillRecorded(t, "undoKill", "undoRemove")
  BY <1>7, <1>13
<1>. QED
  BY <1>8, <1>9, <1>10, <1>11, <1>12, <1>13 DEF KillDhcpd

\* The SIGCHLD handler and the death of a daemon.
LEMMA HandlerKeepsDhcpd ==
  ASSUME LifecycleAssumption, TypeOK, DhcpdSound, DhcpdStep
  PROVE  DhcpdSound'
<1>1. UNCHANGED <<pc, tgt, contended, group, child>>
  BY DEF DhcpdStep, DhcpdDies, HandleSigchld, RelaunchDhcpd, threadVars, plugVars
<1>2. /\ \A a \in WfdAdapters : KeptGroup(a)' <=> KeptGroup(a)
      /\ \A t \in Threads : WillKill(t)' <=> WillKill(t)
  BY <1>1 DEF KeptGroup, WillKill
<1>3. ASSUME NEW p \in Pids, DhcpdDies(p)
      PROVE  DhcpdSound'
  <2>1. UNCHANGED <<pid, forked, dhcpdEnabled, lost, overlap>> /\ Kill(p)
    BY <1>3 DEF DhcpdDies
  <2>2. DhcpdNumbers' /\ DhcpdKnown'
    BY <1>1, <2>1 DEF DhcpdSound, DhcpdNumbers, DhcpdKnown, Kill
  <2>3. DhcpdBacked'
    BY <1>1, <1>2, <2>1 DEF DhcpdSound, DhcpdBacked, Kill
  <2>. QED
    BY <2>2, <2>3 DEF DhcpdSound
<1>4. ASSUME NEW p \in Pids, HandleSigchld(p)
      PROVE  DhcpdSound'
  <2>1. /\ UNCHANGED <<alive, forked, dhcpdEnabled, lost, overlap>>
        /\ sigchld' = sigchld \ {p} /\ p \in sigchld
        /\ pid' = pid \/ (p = pid /\ pid' = 0)
    BY <1>4 DEF HandleSigchld
  <2>2. p \notin alive /\ 0 \notin alive /\ forked \in Nat
    BY <2>1 DEF DhcpdSound, DhcpdNumbers, TypeOK, DhcpdTypes, LifecycleAssumption
  <2>3. DhcpdNumbers' /\ DhcpdKnown'
    BY <1>1, <2>1, <2>2 DEF DhcpdSound, DhcpdNumbers, DhcpdKnown
  <2>4. pid' \in alive => pid' = pid
    BY <2>1, <2>2
  <2>5. DhcpdBacked'
    BY <1>1, <1>2, <2>1, <2>4 DEF DhcpdSound, DhcpdBacked
  <2>. QED
    BY <2>3, <2>5 DEF DhcpdSound
<1>5. ASSUME RelaunchDhcpd
      PROVE  DhcpdSound'
  <2>1. /\ Fork /\ pid' = forked' /\ lost' = lost \cup ({pid} \cap alive)
        /\ overlap' = (overlap \/ ~dhcpdEnabled) /\ UNCHANGED <<sigchld, child>>
    BY <1>5 DEF RelaunchDhcpd, Record
  <2>2. /\ forked' = forked + 1 /\ forked \in Nat /\ alive' = alive \cup {forked + 1}
        /\ alive' \subseteq 1..forked' /\ sigchld \subseteq 1..forked'
        /\ alive' \cap sigchld = {} /\ \A t \in Threads : child[t] \in 0..forked'
    BY <2>1, ForkNumbers DEF DhcpdSound
  <2>3. DhcpdNumbers'
    BY <2>1, <2>2 DEF DhcpdNumbers
  <2>4. DhcpdKnown'
    BY <1>1, <2>1, <2>2 DEF DhcpdSound, DhcpdKnown
  <2>5. DhcpdBacked'
    BY <1>1, <1>2, <2>1 DEF DhcpdSound, DhcpdBacked, TypeOK, DhcpdTypes
  <2>. QED
    BY <2>3, <2>4, <2>5 DEF DhcpdSound
<1>. QED
  BY <1>3, <1>4, <1>5 DEF DhcpdStep

\* allow_discover() up to the fork of the daemon.
LEMMA AllowKeepsDhcpd ==
  ASSUME LifecycleAssumption, TypeOK, Exclusive, DhcpdSound, NEW t \in Threads,
         AllowDiscover(t)
  PROVE  DhcpdSound'
<1>1. tgt[t] \in Adapters /\ pc[t] = "allow" /\ UNCHANGED <<tgt, contended>>
  BY DEF AllowDiscover, AllowFails, FailConnect, GetP2PName, Go, TypeOK, ThreadTypes
<1>2. CASE p2p[tgt[t]] = "allowed" \/ tgt[t] \notin WfdAdapters
  <2>1. pc' = [pc EXCEPT ![t] = "open"] /\ UNCHANGED <<group, dhcpVars>>
    BY <1>2 DEF AllowDiscover, Go
  <2>2. pc'[t] = "open" /\ \A u \in Threads : u # t => pc'[u] = pc[u]
    BY <2>1 DEF TypeOK, ThreadTypes
  <2>. QED
    BY <1>1, <2>1, <2>2, QuietStep DEF RemovePCs, UndoPCs
<1>3. CASE p2p[tgt[t]] = "disallowed" /\ tgt[t] \in WfdAdapters
  <2>1. group[tgt[t]] => group'[tgt[t]]
    BY <1>3 DEF AllowDiscover, P2PGroupAdd, TypeOK, PlugTypes
  <2>2. \A a \in WfdAdapters : a # tgt[t] => group'[a] = group[a]
    BY <1>3 DEF AllowDiscover, P2PGroupAdd, TypeOK, PlugTypes
  <2>3. \E l \in {"connectFailed", "assignPid"} : pc' = [pc EXCEPT ![t] = l]
    BY <1>3 DEF AllowDiscover, GetP2PName, AllowFails, FailConnect, Go
  <2>4. pc'[t] \in {"connectFailed", "assignPid"} /\ \A u \in Threads : u # t => pc'[u] = pc[u]
    BY <2>3 DEF TypeOK, ThreadTypes
  <2>5. \A u \in Threads : pc[u] = "assignPid" => pc'[u] = "assignPid"
    BY <1>1, <2>4
  <2>6. \A a \in WfdAdapters : KeptGroup(a) => KeptGroup(a)'
    BY <1>1, <2>1, <2>2, <2>4 DEF KeptGroup, UndoPCs
  <2>7. \A u \in Threads : WillKill(u) => WillKill(u)'
    BY <1>1, <2>1, <2>2, <2>4 DEF WillKill
  <2>8. CASE UNCHANGED dhcpVars
    BY <1>1, <2>5, <2>6, <2>7, <2>8, QuietDhcpd
  <2>9. CASE ~UNCHANGED dhcpVars
    <3>1. /\ Fork /\ child' = [child EXCEPT ![t] = forked']
          /\ UNCHANGED <<pid, sigchld, relaunch, lost, overlap>>
          /\ pc' = [pc EXCEPT ![t] = "assignPid"] /\ P2PGroupAdd(tgt[t], TRUE)
      BY <1>3, <2>9 DEF AllowDiscover, GetP2PName, Go
    <3>2. /\ forked' = forked + 1 /\ forked \in Nat /\ alive' = alive \cup {forked + 1}
          /\ alive' \subseteq 1..forked' /\ sigchld \subseteq 1..forked'
          /\ alive' \cap sigchld = {} /\ pid \in 0..forked' /\ pid # forked + 1
          /\ \A u \in Threads : child[u] \in 0..forked'
      BY <3>1, ForkNumbers DEF DhcpdSound
    <3>3. child'[t] = forked' /\ \A u \in Threads : u # t => child'[u] = child[u]
      BY <3>1 DEF TypeOK, DhcpdTypes
    <3>4. pc'[t] = "assignPid"
      BY <3>1 DEF TypeOK, ThreadTypes
    <3>5. DhcpdNumbers'
      BY <3>1, <3>2, <3>3 DEF DhcpdNumbers
    <3>6. ASSUME NEW p \in alive'
          PROVE  \/ p = pid' \/ p \in lost'
                 \/ \E u \in Threads : pc'[u] = "assignPid" /\ child'[u] = p
      <4>1. CASE p = forked + 1
        BY <3>2, <3>3, <3>4, <4>1
      <4>2. CASE p # forked + 1
        <5>1. p \in alive
          BY <3>2, <4>2
        <5>2. CASE \E u \in Threads : pc[u] = "assignPid" /\ child[u] = p
          <6>1. PICK u \in Threads : pc[u] = "assignPid" /\ child[u] = p
            BY <5>2
          <6>. QED
            BY <1>1, <3>3, <6>1, <2>5
        <5>. QED
          BY <3>1, <5>1, <5>2 DEF DhcpdSound, DhcpdKnown
      <4>. QED
        BY <4>1, <4>2
    <3>7. group'[tgt[t]]
      BY <1>3, <3>1 DEF P2PGroupAdd, TypeOK, PlugTypes
    <3>8. contended = {} => KeptGroup(tgt[t])'
      <4>1. ASSUME contended = {}, NEW u \in Threads, u # t, tgt[u] = tgt[t]
            PROVE  ~Busy(u)
        <5>1. Busy(t)
          BY <1>1 DEF Busy, ConnectPCs
        <5>. QED
          BY <1>1, <4>1, <5>1 DEF Exclusive
      <4>. QED
        BY <1>1, <2>4, <3>4, <3>7, <4>1 DEF KeptGroup, Busy, ConnectPCs, DisconnectPCs, UndoPCs
    <3>9. DhcpdBacked'
      BY <1>1, <1>3, <3>1, <3>8 DEF DhcpdBacked
    <3>10. DhcpdKnown'
      BY <3>6 DEF DhcpdKnown
    <3>. QED
      BY <3>5, <3>9, <3>10 DEF DhcpdSound
  <2>. QED
    BY <2>8, <2>9
<1>. QED
  BY <1>1, <1>2, <1>3 DEF TypeOK, PlugTypes

\* Recording the daemon, and launching it again if it has died.
LEMMA LaunchKeepsDhcpd ==
  ASSUME LifecycleAssumption, TypeOK, Exclusive, ResourcesSound, DhcpdSound,
         NEW t \in Threads, AssignPid(t) \/ CheckDhcpd(t)
  PROVE  DhcpdSound'
<1>1. /\ pc[t] \in {"assignPid", "checkDhcpd"} /\ UNCHANGED <<group, tgt, contended, overlap>>
      /\ \E l \in {"checkDhcpd", "open", "connectFailed"} : pc' = [pc EXCEPT ![t] = l]
  BY DEF AssignPid, GetP2PInfo, CheckDhcpd, GetIpAddress, AllowFails, FailConnect, Go, dhcpVars
<1>2. /\ pc'[t] \in {"checkDhcpd", "open", "connectFailed"}
      /\ \A u \in Threads : u # t => pc'[u] = pc[u]
  BY <1>1 DEF TypeOK, ThreadTypes
<1>3. \A a \in WfdAdapters : KeptGroup(a) => KeptGroup(a)'
  BY <1>1, <1>2 DEF KeptGroup, UndoPCs
<1>4. contended = {} => tgt[t] \in WfdAdapters /\ KeptGroup(tgt[t])'
  BY <1>1, <1>3, LaunchKept
<1>5. DhcpdBacked'
  BY <1>1, <1>4 DEF DhcpdBacked
<1>6. CASE AssignPid(t)
  <2>1. /\ pid' = child[t] /\ lost' = lost \cup ({pid} \cap alive)
        /\ UNCHANGED <<alive, forked, sigchld, child>>
    BY <1>6 DEF AssignPid, Record
  <2>2. DhcpdNumbers' /\ DhcpdKnown'
    BY <1>2, <2>1 DEF DhcpdSound, DhcpdNumbers, DhcpdKnown
  <2>. QED
    BY <1>5, <2>2 DEF DhcpdSound
<1>7. CASE CheckDhcpd(t) /\ pid # 0
  <2>1. UNCHANGED dhcpVars /\ pc[t] = "checkDhcpd"
    BY <1>7 DEF CheckDhcpd
  <2>2. DhcpdNumbers' /\ DhcpdKnown'
    BY <1>2, <2>1 DEF DhcpdSound, DhcpdNumbers, DhcpdKnown, dhcpVars
  <2>. QED
    BY <1>5, <2>2 DEF DhcpdSound
<1>8. CASE CheckDhcpd(t) /\ pid = 0
  <2>1. /\ Fork /\ pid' = forked' /\ lost' = lost \cup ({pid} \cap alive)
        /\ UNCHANGED <<sigchld, child>> /\ pc[t] = "checkDhcpd"
    BY <1>8 DEF CheckDhcpd, Record
  <2>2. /\ forked' = forked + 1 /\ forked \in Nat /\ alive' = alive \cup {forked + 1}
        /\ alive' \subseteq 1..forked' /\ sigchld \subseteq 1..forked'
        /\ alive' \cap sigchld = {} /\ \A u \in Threads : child[u] \in 0..forked'
    BY <2>1, ForkNumbers DEF DhcpdSound
  <2>3. DhcpdNumbers'
    BY <2>1, <2>2 DEF DhcpdNumbers
  <2>4. DhcpdKnown'
    BY <1>2, <2>1, <2>2 DEF DhcpdSound, DhcpdKnown
  <2>. QED
    BY <1>5, <2>3, <2>4 DEF DhcpdSound
<1>. QED
  BY <1>6, <1>7, <1>8

\* The DHCP daemon, along every step.
LEMMA DhcpdSoundStep ==
  ASSUME LifecycleAssumption, TypeOK, Exclusive, ResourcesSound, DhcpdSound, [Next]_vars
  PROVE  DhcpdSound'
<1>. DEFINE Quiet ==
       /\ UNCHANGED <<dhcpVars, group>> /\ contended \subseteq contended'
       /\ \A t \in Threads :
            \/ pc'[t] = pc[t] /\ tgt'[t] = tgt[t]
            \/ pc[t] \notin {"assignPid"} \cup RemovePCs /\ pc'[t] \notin RemovePCs
<1>1. CASE UNCHANGED vars
  <2>1. Quiet
    BY <1>1 DEF vars, threadVars, plugVars
  <2>. QED
    BY <2>1, QuietStep
<1>2. CASE AppStep \/ ControlStep
  <2>. USE DEF threadVars, plugVars, RemovePCs, UndoPCs, Go, TypeOK, ThreadTypes, Threads
  <2>1. CASE \/ \E a \in Adapters : Register(a)
             \/ StartSc \/ DoneStart \/ Return
             \/ \E isLogging \in BOOLEAN : StopSc(isLogging)
    <3>1. Quiet
      BY <2>1 DEF Register, StartSc, ConnectFirstAdapter, DoneStart,
         ConnectFirstAdapterCallback, Return, StopSc, StopCoreTransaction
    <3>. HIDE DEF TypeOK
    <3>. QED
      BY <3>1, QuietStep
  <2>2. CASE StopNext \/ StopAdapterDisconnected \/ StopAdapterFailed
    <3>1. Quiet
      BY <2>2 DEF StopNext, StopAdapterDisconnected, StopAdapterFailed
    <3>. HIDE DEF TypeOK
    <3>. QED
      BY <3>1, QuietStep
  <2>3. CASE ControlStep
    <3>1. Quiet
      BY <2>3 DEF ControlStep, BeginCommand, SleepOrWakeUp, EndCommand
    <3>. HIDE DEF TypeOK
    <3>. QED
      BY <3>1, QuietStep
  <2>. QED
    BY <1>2, <2>1, <2>2, <2>3 DEF AppStep
<1>3. ASSUME NEW t \in Threads,
             \/ Connect(t) \/ TurnOn(t) \/ OpenSocket(t) \/ Accept(t) \/ EnableLoops(t)
             \/ Disconnect(t) \/ SetDisconnecting(t) \/ DisableLoops(t) \/ CloseSocket(t)
             \/ TurnOff(t) \/ WaitLoops(t)
      PROVE  DhcpdSound'
  <2>1. UNCHANGED <<dhcpVars, group, tgt>> /\ contended \subseteq contended'
    BY <1>3 DEF Connect, TurnOn, OpenSocket, FailOpen, Accept, EnableLoops, Disconnect,
       SetDisconnecting, DisableLoops, CloseSocket, TurnOff, WaitLoops, Go, plugVars
  <2>2. \E l \in {"connectFailed", "turnOn", "allow", "accept", "undo", "enable", "connected",
                  "setDisconnecting", "disconnectFailed", "disableLoop", "crashed", "close",
                  "disallow", "waitLoop", "disconnected"} :
          pc' = [pc EXCEPT ![t] = l]
    BY <1>3 DEF Connect, TurnOn, OpenSocket, FailOpen, Accept, EnableLoops, Disconnect,
       SetDisconnecting, DisableLoops, CloseSocket, TurnOff, WaitLoops, Go
  <2>3. pc[t] \in {"connect", "turnOn", "open", "accept", "enable", "disconnect",
                   "setDisconnecting", "disableLoop", "close", "turnOff", "waitLoop"}
    BY <1>3 DEF Connect, TurnOn, OpenSocket, Accept, EnableLoops, Disconnect,
       SetDisconnecting, DisableLoops, CloseSocket, TurnOff, WaitLoops
  <2>4. Quiet
    BY <2>1, <2>2, <2>3 DEF TypeOK, ThreadTypes, RemovePCs, UndoPCs
  <2>. QED
    BY <2>4, QuietStep
<1>4. ASSUME NEW t \in Threads, AllowDiscover(t)
      PROVE  DhcpdSound'
  BY <1>4, AllowKeepsDhcpd
<1>5. ASSUME NEW t \in Threads, AssignPid(t) \/ CheckDhcpd(t)
      PROVE  DhcpdSound'
  BY <1>5, LaunchKeepsDhcpd
<1>6. ASSUME NEW t \in Threads, KillDhcpd(t)
      PROVE  DhcpdSound'
  BY <1>6, KillKeepsDhcpd
<1>7. ASSUME NEW t \in Threads, Undo(t)
      PROVE  DhcpdSound'
  <2>1. PICK ok \in BOOLEAN : DisallowDiscover(t, "undo", "undoRemove", ok)
    BY <1>7 DEF Undo
  <2>2. pc' = [pc EXCEPT ![t] = "connectFailed"] /\ UNCHANGED <<tgt, contended, dhcpVars>>
    BY <1>7 DEF Undo, FailConnect, Go
  <2>. QED
    BY <2>1, <2>2, DisallowDhcpd
<1>8. ASSUME NEW t \in Threads, Disallow(t)
      PROVE  DhcpdSound'
  <2>1. PICK ok \in BOOLEAN : DisallowDiscover(t, "disallow", "remove", ok)
    BY <1>8 DEF Disallow
  <2>2. /\ \E l \in {"turnOff", "disconnectFailed"} : pc' = [pc EXCEPT ![t] = l]
        /\ UNCHANGED <<tgt, contended, dhcpVars>>
    BY <1>8 DEF Disallow, Go
  <2>. QED
    BY <2>1, <2>2, DisallowDhcpd
<1>9. ASSUME \/ \E w \in Adapters \X Loops : ThreadStep(w)
             \/ \E a \in Adapters : SocketBreaks(a)
      PROVE  DhcpdSound'
  <2>1. Quiet
    BY <1>9 DEF ThreadStep, RunThread, WaitEnable, BeginLoop, EndLoop, SocketBreaks,
       threadVars, plugVars
  <2>. QED
    BY <2>1, QuietStep
<1>10. ASSUME DhcpdStep
       PROVE  DhcpdSound'
  BY <1>10, HandlerKeepsDhcpd
<1>. QED
  BY <1>1, <1>2, <1>3, <1>4, <1>5, <1>6, <1>7, <1>8, <1>9, <1>10 DEF Next, AdapterStep

(***************************************************************************)
(* mAdapters holds no adapter twice, so the number of its adapters that    *)
(* are connected is that of the set of them, and bounded.                  *)
(***************************************************************************)
LEMMA CountedNumber ==
  ASSUME LifecycleAssumption, NEW s \in Seq(Adapters), NEW P \in SUBSET DOMAIN s,
         \A i, j \in DOMAIN s : s[i] = s[j] => i = j
  PROVE  /\ Cardinality(P) = Cardinality({s[i] : i \in P})
         /\ Cardinality(P) \in 0..Len(s)
         /\ Len(s) <= Cardinality(Adapters)
         /\ Cardinality(Adapters) \in Nat
<1>. DEFINE S == {s[i] : i \in P}
            f == [i \in P |-> s[i]]
            g == [i \in DOMAIN s |-> s[i]]
<1>1. /\ DOMAIN s = 1..Len(s) /\ Len(s) \in Nat
      /\ \A i \in DOMAIN s : s[i] \in Adapters
  OBVIOUS
<1>2. IsFiniteSet(DOMAIN s) /\ Cardinality(DOMAIN s) = Len(s)
  <2>1. /\ IsFiniteSet(1..Len(s))
        /\ Cardinality(1..Len(s)) =
             IF 1 > Len(s) THEN 0 ELSE Len(s) - 1 + 1
    BY <1>1, FS_Interval
  <2>. QED
    BY <1>1, <2>1
<1>3. IsFiniteSet(P) /\ Cardinality(P) <= Len(s) /\ Cardinality(P) \in Nat
  BY <1>2, FS_Subset, FS_CardinalityType
<1>4. f \in Surjection(P, S) /\ f \in Injection(P, S)
  BY DEF Injection, IsInjective, Surjection
<1>5. Cardinality(P) = Cardinality(S)
  BY <1>3, <1>4, FS_Surjection
<1>6. IsFiniteSet(Adapters) /\ Cardinality(Adapters) \in Nat
  BY FS_CardinalityType DEF LifecycleAssumption
<1>7. g \in Injection(DOMAIN s, Adapters)
  BY <1>1 DEF Injection, IsInjective
<1>8. Len(s) <= Cardinality(Adapters)
  BY <1>2, <1>6, <1>7, FS_Injection
<1>. QED
  BY <1>1, <1>3, <1>5, <1>6, <1>8

\* The count of a stop is a number, along every step.
LEMMA CountTyped ==
  ASSUME LifecycleAssumption, TypeOK, [Next]_vars
  PROVE  count' \in Int
<1>. USE DEF TypeOK, CoreTypes, coreVars, threadVars, plugVars, dhcpVars, loopVars
<1>1. CASE UNCHANGED vars
  BY <1>1 DEF vars
<1>2. ASSUME NEW a \in Adapters, Register(a)
      PROVE  count' \in Int
  BY <1>2 DEF Register, LaunchThreads, Each, Of
<1>3. ASSUME StartSc
      PROVE  count' \in Int
  BY <1>3 DEF StartSc, ConnectFirstAdapter
<1>4. ASSUME DoneStart
      PROVE  count' \in Int
  BY <1>4 DEF DoneStart, ConnectFirstAdapterCallback, Go
<1>5. ASSUME Return
      PROVE  count' \in Int
  BY <1>5 DEF Return, Go
<1>6. ASSUME NEW isLogging \in BOOLEAN, StopSc(isLogging)
      PROVE  count' \in Int
  <2>1. CASE StopCoreTransaction
    <3>1. IsFiniteSet({i \in DOMAIN registered : Connected(registered[i])})
      <4>1. DOMAIN registered = 1..Len(registered) /\ Len(registered) \in Nat
        OBVIOUS
      <4>2. IsFiniteSet(1..Len(registered))
        BY <4>1, FS_Interval
      <4>. QED
        BY <4>1, <4>2, FS_Subset
    <3>. QED
      BY <2>1, <3>1, FS_CardinalityType DEF StopCoreTransaction
  <2>2. CASE ~StopCoreTransaction
    BY <1>6, <2>2 DEF StopSc
  <2>. QED
    BY <2>1, <2>2
<1>7. ASSUME StopNext
      PROVE  count' \in Int
  BY <1>7 DEF StopNext, Go
<1>8. ASSUME StopAdapterDisconnected
      PROVE  count' \in Int
  BY <1>8 DEF StopAdapterDisconnected, FinishThreads, Each, Of, Go
<1>9. ASSUME StopAdapterFailed
      PROVE  count' \in Int
  BY <1>9 DEF StopAdapterFailed, Go
<1>10. ASSUME NEW a \in Adapters, NEW l \in {"connect", "disconnect"},
              NEW s \in BOOLEAN, BeginCommand(a, l, s)
      PROVE  count' \in Int
  BY <1>10 DEF BeginCommand
<1>11. ASSUME NEW a \in Adapters, NEW f \in {"Active", "Sleeping"},
              NEW s \in {"Active", "Sleeping"}, SleepOrWakeUp(a, f, s)
      PROVE  count' \in Int
  BY <1>11 DEF SleepOrWakeUp
<1>12. ASSUME EndCommand
      PROVE  count' \in Int
  BY <1>12 DEF EndCommand
<1>13. ASSUME NEW t \in Threads, Connect(t)
      PROVE  count' \in Int
  BY <1>13 DEF Connect, Go, SetState
<1>14. ASSUME NEW t \in Threads, TurnOn(t)
      PROVE  count' \in Int
  BY <1>14 DEF TurnOn, Go, SetDevice
<1>15. ASSUME NEW t \in Threads, AllowDiscover(t)
      PROVE  count' \in Int
  BY <1>15 DEF AllowDiscover, Go, NoFault, P2PGroupAdd, AllowFails, SetDevice, Fault,
      FailConnect, SetState, GetP2PName, Fork
<1>16. ASSUME NEW t \in Threads, AssignPid(t)
      PROVE  count' \in Int
  BY <1>16 DEF AssignPid, GetP2PInfo, Go, NoFault, AllowFails, SetDevice, Fault,
      FailConnect, SetState
<1>17. ASSUME NEW t \in Threads, CheckDhcpd(t)
      PROVE  count' \in Int
  BY <1>17 DEF CheckDhcpd, Fork, GetIpAddress, Go, NoFault, AllowFails, SetDevice, Fault,
      FailConnect, SetState
<1>18. ASSUME NEW t \in Threads, OpenSocket(t)
      PROVE  count' \in Int
  BY <1>18 DEF OpenSocket, Go, NoFault, Fault, FailOpen
<1>19. ASSUME NEW t \in Threads, Accept(t)
      PROVE  count' \in Int
  BY <1>19 DEF Accept, Go, NoFault, Fault, FailOpen
<1>20. ASSUME NEW t \in Threads, EnableLoops(t)
      PROVE  count' \in Int
  BY <1>20 DEF EnableLoops, Go, SetState, Each, Of
<1>21. ASSUME NEW t \in Threads, Disconnect(t)
      PROVE  count' \in Int
  BY <1>21 DEF Disconnect, Go
<1>22. ASSUME NEW t \in Threads, SetDisconnecting(t)
      PROVE  count' \in Int
  BY <1>22 DEF SetDisconnecting, SetState
<1>23. ASSUME NEW t \in Threads, DisableLoops(t)
      PROVE  count' \in Int
  BY <1>23 DEF DisableLoops, Go, Each, Of
<1>24. ASSUME NEW t \in Threads, CloseSocket(t)
      PROVE  count' \in Int
  BY <1>24 DEF CloseSocket, Go, CloseImpl
<1>25. ASSUME NEW t \in Threads, Disallow(t)
      PROVE  count' \in Int
  BY <1>25 DEF Disallow, Go, NoFault, Fault, SetState, DisallowDiscover, P2PGroupRemove
<1>26. ASSUME NEW t \in Threads, TurnOff(t)
      PROVE  count' \in Int
  BY <1>26 DEF TurnOff, Go, SetDevice
<1>27. ASSUME NEW t \in Threads, WaitLoops(t)
      PROVE  count' \in Int
  BY <1>27 DEF WaitLoops, Go, SetState
<1>28. ASSUME NEW w \in Adapters \X Loops, ThreadStep(w)
      PROVE  count' \in Int
  BY <1>28 DEF ThreadStep, RunThread, WaitEnable, BeginLoop, EndLoop
<1>29. ASSUME NEW a \in Adapters, SocketBreaks(a)
      PROVE  count' \in Int
  BY <1>29 DEF SocketBreaks, Fault
<1>30. ASSUME DhcpdStep
      PROVE  count' \in Int
  BY <1>30 DEF DhcpdStep, DhcpdDies, Kill, Fault, HandleSigchld, RelaunchDhcpd, Fork
<1>40. ASSUME NEW t \in Threads, Undo(t)
      PROVE  count' \in Int
  BY <1>40 DEF Undo, DisallowDiscover, P2PGroupRemove, NoFault, Fault, SetDevice,
     FailConnect, SetState, Go
<1>41. ASSUME NEW t \in Threads, KillDhcpd(t)
      PROVE  count' \in Int
  BY <1>41, KillFrame
<1>. QED
  BY <1>40, <1>41, <1>1, <1>2, <1>3, <1>4, <1>5, <1>6, <1>7, <1>8, <1>9, <1>10, <1>11, <1>12, <1>13,
      <1>14, <1>15, <1>16, <1>17, <1>18, <1>19, <1>20, <1>21, <1>22, <1>23, <1>24, <1>25,
      <1>26, <1>27, <1>28, <1>29, <1>30 DEF Next, AppStep, ControlStep, AdapterStep

(***************************************************************************)
(* The count of a stop, along every step: no adapter becomes Sleeping      *)
(* while it goes on, unless a disconnection of Control fails.              *)
(***************************************************************************)
LEMMA CountSoundStep ==
  ASSUME LifecycleAssumption, TypeOK, CoreSound, RegisteredSound, CountSound, CountBounded,
    [Next]_vars
  PROVE  CountSound'
<1>. USE DEF TypeOK, CoreTypes, ThreadTypes, LifecycleAssumption, Threads, CoreSound,
       CountSound, StartPCs, StopPCs, VisitPCs, ConnectPCs, DisconnectPCs, UndoPCs, coreVars, threadVars,
       plugVars, dhcpVars, loopVars
<1>1. CASE UNCHANGED vars
  BY <1>1 DEF vars
<1>2. ASSUME NEW a \in Adapters, Register(a)
      PROVE  CountSound'
  BY <1>2 DEF Register, LaunchThreads, Each, Of
<1>3. ASSUME StartSc
      PROVE  CountSound'
  BY <1>3 DEF StartSc, ConnectFirstAdapter
<1>4. ASSUME DoneStart
      PROVE  CountSound'
  BY <1>4 DEF DoneStart, ConnectFirstAdapterCallback, Go
<1>5. ASSUME Return
      PROVE  CountSound'
  BY <1>5 DEF Return, Go
<1>6. ASSUME NEW isLogging \in BOOLEAN, StopSc(isLogging)
      PROVE  CountSound'
  <2>1. CASE StopCoreTransaction
    <3>. DEFINE P == {i \in DOMAIN registered : Connected(registered[i])}
    <3>1. /\ count' = Cardinality(P) /\ counted' = {registered[i] : i \in P}
          /\ pc' = [pc EXCEPT ![App] = "stopNext"]
      BY <2>1 DEF StopCoreTransaction
    <3>2. count' = Cardinality(counted')
      BY <3>1, CountedNumber DEF CountBounded
    <3>3. Cardinality(counted') \in Nat
      <4>1. Cardinality(P) \in 0..Len(registered) /\ Len(registered) \in Nat
        <5>1. /\ registered \in Seq(Adapters) /\ P \in SUBSET DOMAIN registered
              /\ Len(registered) \in Nat
              /\ \A i, j \in DOMAIN registered : registered[i] = registered[j] => i = j
          BY DEF CountBounded
        <5>. HIDE DEF P
        <5>. QED
          BY <5>1, CountedNumber
      <4>. QED
        BY <3>1, <3>2, <4>1
    <3>4. \A a \in Adapters : state[a] = "Sleeping" => a \in counted'
      BY <3>1 DEF RegisteredSound, Registered, Connected
    <3>5. state' = state
      BY <1>6 DEF StopSc
    <3>. QED
      BY <3>1, <3>2, <3>3, <3>4, <3>5
  <2>2. CASE ~StopCoreTransaction
    BY <1>6, <2>2 DEF StopSc
  <2>. QED
    BY <2>1, <2>2
<1>7. ASSUME StopNext
      PROVE  CountSound'
  BY <1>7 DEF StopNext, Go
<1>8. ASSUME StopAdapterDisconnected
      PROVE  CountSound'
  <2>1. CASE stopOngoing
    <3>1. /\ count' = count - 1 /\ pc[App] = "disconnected" /\ pc' = [pc EXCEPT ![App] = "stopNext"]
          /\ UNCHANGED <<counted, state, restored, tgt>>
      BY <1>8, <2>1 DEF StopAdapterDisconnected, Go
    <3>2. IsFiniteSet(counted)
      BY FS_Subset
    <3>3. Cardinality(counted) \in Nat
      BY <3>2, FS_CardinalityType
    <3>. QED
      BY <2>1, <3>1, <3>3
  <2>2. CASE ~stopOngoing
    BY <1>8, <2>2 DEF StopAdapterDisconnected, Go
  <2>. QED
    BY <2>1, <2>2
<1>9. ASSUME StopAdapterFailed
      PROVE  CountSound'
  BY <1>9 DEF StopAdapterFailed, Go
<1>10. ASSUME NEW a \in Adapters, NEW l \in {"connect", "disconnect"},
              NEW s \in BOOLEAN, BeginCommand(a, l, s)
      PROVE  CountSound'
  BY <1>10 DEF BeginCommand
<1>11. ASSUME NEW a \in Adapters, NEW f \in {"Active", "Sleeping"},
              NEW s \in {"Active", "Sleeping"}, SleepOrWakeUp(a, f, s)
      PROVE  CountSound'
  BY <1>11 DEF SleepOrWakeUp
<1>12. ASSUME EndCommand
      PROVE  CountSound'
  BY <1>12 DEF EndCommand
<1>13. ASSUME NEW t \in Threads, Connect(t)
      PROVE  CountSound'
  BY <1>13 DEF Connect, Go, SetState
<1>14. ASSUME NEW t \in Threads, TurnOn(t)
      PROVE  CountSound'
  BY <1>14 DEF TurnOn, Go, SetDevice
<1>15. ASSUME NEW t \in Threads, AllowDiscover(t)
      PROVE  CountSound'
  BY <1>15 DEF AllowDiscover, Go, NoFault, P2PGroupAdd, AllowFails, SetDevice, Fault,
      FailConnect, SetState, GetP2PName, Fork
<1>16. ASSUME NEW t \in Threads, AssignPid(t)
      PROVE  CountSound'
  BY <1>16 DEF AssignPid, GetP2PInfo, Go, NoFault, AllowFails, SetDevice, Fault,
      FailConnect, SetState
<1>17. ASSUME NEW t \in Threads, CheckDhcpd(t)
      PROVE  CountSound'
  BY <1>17 DEF CheckDhcpd, Fork, GetIpAddress, Go, NoFault, AllowFails, SetDevice, Fault,
      FailConnect, SetState
<1>18. ASSUME NEW t \in Threads, OpenSocket(t)
      PROVE  CountSound'
  BY <1>18 DEF OpenSocket, Go, NoFault, Fault, FailOpen
<1>19. ASSUME NEW t \in Threads, Accept(t)
      PROVE  CountSound'
  BY <1>19 DEF Accept, Go, NoFault, Fault, FailOpen
<1>20. ASSUME NEW t \in Threads, EnableLoops(t)
      PROVE  CountSound'
  BY <1>20 DEF EnableLoops, Go, SetState, Each, Of
<1>21. ASSUME NEW t \in Threads, Disconnect(t)
      PROVE  CountSound'
  BY <1>21 DEF Disconnect, Go
<1>22. ASSUME NEW t \in Threads, SetDisconnecting(t)
      PROVE  CountSound'
  BY <1>22 DEF SetDisconnecting, SetState
<1>23. ASSUME NEW t \in Threads, DisableLoops(t)
      PROVE  CountSound'
  BY <1>23 DEF DisableLoops, Go, Each, Of
<1>24. ASSUME NEW t \in Threads, CloseSocket(t)
      PROVE  CountSound'
  BY <1>24 DEF CloseSocket, Go, CloseImpl
<1>25. ASSUME NEW t \in Threads, Disallow(t)
      PROVE  CountSound'
  BY <1>25 DEF Disallow, Go, NoFault, Fault, SetState, DisallowDiscover, P2PGroupRemove
<1>26. ASSUME NEW t \in Threads, TurnOff(t)
      PROVE  CountSound'
  BY <1>26 DEF TurnOff, Go, SetDevice
<1>27. ASSUME NEW t \in Threads, WaitLoops(t)
      PROVE  CountSound'
  <2>1. /\ pc[t] = "waitLoop" /\ pc' = [pc EXCEPT ![t] = "disconnected"]
        /\ state' = [state EXCEPT ![tgt[t]] = "Disconnected"]
        /\ counted' = IF t = App THEN counted \ {tgt[App]} ELSE counted
        /\ UNCHANGED <<tgt, count, stopOngoing, restored>>
    BY <1>27 DEF WaitLoops, SetState, Go
  <2>2. SUFFICES ASSUME stopOngoing, ~restored, pc'[App] \in StopPCs
                 PROVE  /\ count = Cardinality(counted')
                                   + (IF pc'[App] = "disconnected" THEN 1 ELSE 0)
                        /\ \A a \in Adapters : state'[a] = "Sleeping" => a \in counted'
                        /\ pc'[App] \in {"setDisconnecting"} \cup DisconnectPCs
                             => tgt[App] \in counted'
    BY <2>1
  <2>3. CASE t = App
    <3>0. pc[App] \in DisconnectPCs /\ pc[App] \in StopPCs /\ pc[App] # "disconnected"
      BY <2>1, <2>3
    <3>1. /\ count = Cardinality(counted) /\ tgt[App] \in counted
          /\ \A a \in Adapters : state[a] = "Sleeping" => a \in counted
      <4>1. stopOngoing /\ ~restored /\ pc[App] \in StopPCs
        BY <2>1, <2>2, <3>0
      <4>2. count = Cardinality(counted) + 0 /\ counted \subseteq Adapters
        BY <3>0, <4>1
      <4>3. IsFiniteSet(counted)
        BY <4>2, FS_Subset
      <4>. QED
        BY <3>0, <4>1, <4>2, <4>3, FS_CardinalityType
    <3>2. IsFiniteSet(counted)
      BY FS_Subset
    <3>3. Cardinality(counted \ {tgt[App]}) = Cardinality(counted) - 1
      BY <3>1, <3>2, FS_RemoveElement
    <3>4. Cardinality(counted) \in Nat
      BY <3>2, FS_CardinalityType
    <3>. QED
      BY <2>1, <2>3, <3>1, <3>3, <3>4
  <2>4. CASE t # App
    BY <2>1, <2>2, <2>4
  <2>. QED
    BY <2>3, <2>4
<1>28. ASSUME NEW w \in Adapters \X Loops, ThreadStep(w)
      PROVE  CountSound'
  <2>1. UNCHANGED <<coreVars, threadVars, state>>
    BY <1>28 DEF ThreadStep, RunThread, WaitEnable, BeginLoop, EndLoop
  <2>. QED
    BY <2>1
<1>29. ASSUME NEW a \in Adapters, SocketBreaks(a)
      PROVE  CountSound'
  BY <1>29 DEF SocketBreaks, Fault
<1>30. ASSUME DhcpdStep
      PROVE  CountSound'
  <2>1. UNCHANGED <<coreVars, threadVars, state>>
    BY <1>30 DEF DhcpdStep, DhcpdDies, HandleSigchld, RelaunchDhcpd
  <2>. QED
    BY <2>1
<1>40. ASSUME NEW t \in Threads, Undo(t)
      PROVE  CountSound'
  BY <1>40 DEF Undo, DisallowDiscover, P2PGroupRemove, NoFault, Fault, SetDevice,
     FailConnect, SetState, Go
<1>41. ASSUME NEW t \in Threads, KillDhcpd(t)
      PROVE  CountSound'
  <2>1. UNCHANGED <<coreVars, state, tgt>>
    BY <1>41, KillFrame
  <2>2. PICK l \in PCs :
          /\ pc' = [pc EXCEPT ![t] = l]
          /\ \/ pc[t] \in {"disallow", "test", "kill"} /\ l \in {"test", "kill", "remove"}
             \/ /\ pc[t] \in {"undo", "undoTest", "undoKill"}
                /\ l \in {"undoTest", "undoKill", "undoRemove"}
             \/ pc[t] \in {"kill", "undoKill"} /\ l = "crashed"
    BY <1>41, KillFrame
  <2>3. pc'[t] = l /\ \A u \in Threads : u # t => pc'[u] = pc[u]
    BY <2>2
  <2>. QED
    BY <2>1, <2>2, <2>3
<1>. HIDE DEF CountSound, TypeOK
<1>. QED
  BY <1>40, <1>41, <1>1, <1>2, <1>3, <1>4, <1>5, <1>6, <1>7, <1>8, <1>9, <1>10, <1>11, <1>12, <1>13,
      <1>14, <1>15, <1>16, <1>17, <1>18, <1>19, <1>20, <1>21, <1>22, <1>23, <1>24, <1>25,
      <1>26, <1>27, <1>28, <1>29, <1>30 DEF Next, AppStep, ControlStep, AdapterStep

\* Bounds of the count of a stop, along every step.
LEMMA CountBoundedStep ==
  ASSUME LifecycleAssumption, TypeOK, CoreSound, CountBounded, [Next]_vars
  PROVE  CountBounded'
<1>. USE DEF TypeOK, CoreTypes, ThreadTypes, LifecycleAssumption, Threads, CoreSound,
       CountBounded, StartPCs, StopPCs, VisitPCs, ConnectPCs, DisconnectPCs, UndoPCs, coreVars, threadVars,
       plugVars, dhcpVars, loopVars
<1>1. CASE UNCHANGED vars
  BY <1>1 DEF vars
<1>2. ASSUME NEW a \in Adapters, Register(a)
      PROVE  CountBounded'
  BY <1>2 DEF Register, LaunchThreads, Each, Of
<1>3. ASSUME StartSc
      PROVE  CountBounded'
  BY <1>3 DEF StartSc, ConnectFirstAdapter
<1>4. ASSUME DoneStart
      PROVE  CountBounded'
  BY <1>4 DEF DoneStart, ConnectFirstAdapterCallback, Go
<1>5. ASSUME Return
      PROVE  CountBounded'
  BY <1>5 DEF Return, Go
<1>6. ASSUME NEW isLogging \in BOOLEAN, StopSc(isLogging)
      PROVE  CountBounded'
  <2>1. CASE StopCoreTransaction
    <3>. DEFINE P == {i \in DOMAIN registered : Connected(registered[i])}
    <3>1. /\ count' = Cardinality(P) /\ todo' = registered
          /\ pc' = [pc EXCEPT ![App] = "stopNext"]
      BY <2>1 DEF StopCoreTransaction
    <3>2. Cardinality(P) \in 0..Len(registered)
      BY CountedNumber
    <3>3. UNCHANGED registered
      BY <1>6 DEF StopSc
    <3>. HIDE DEF P
    <3>. QED
      BY <3>1, <3>2, <3>3
  <2>2. CASE ~StopCoreTransaction
    BY <1>6, <2>2 DEF StopSc
  <2>. QED
    BY <2>1, <2>2
<1>7. ASSUME StopNext
      PROVE  CountBounded'
  <2>1. UNCHANGED <<registered, count, stopOngoing>> /\ pc[App] = "stopNext"
    BY <1>7 DEF StopNext
  <2>2. CASE todo = <<>>
    <3>1. pc' = [pc EXCEPT ![App] = "waitStop"]
      BY <1>7, <2>2 DEF StopNext, Go
    <3>. QED
      BY <2>1, <3>1
  <2>3. CASE todo # <<>>
    <3>1. todo' = Tail(todo) /\ Len(Tail(todo)) = Len(todo) - 1 /\ Len(todo) \in Nat
      BY <1>7, <2>3 DEF StopNext
    <3>2. \/ pc'[App] = "stopNext" \/ pc'[App] = "disconnect"
      BY <1>7, <2>1, <2>3 DEF StopNext
    <3>3. pc'[App] \in StopPCs
      BY <3>2
    <3>4. Len(todo) + 0 <= count + Len(registered) \/ ~stopOngoing
      BY <2>1
    <3>5. stopOngoing' /\ pc'[App] \in StopPCs =>
            Len(todo') + (IF pc'[App] \in VisitPCs THEN 1 ELSE 0) <= count' + Len(registered')
      <4>1. count \in Int /\ Len(registered) \in Nat
        OBVIOUS
      <4>2. Len(todo') = Len(todo) - 1 /\ Len(todo) \in Nat
        BY <3>1
      <4>3. /\ stopOngoing' = stopOngoing /\ count' = count
            /\ Len(registered') = Len(registered)
        BY <2>1
      <4>4. (IF pc'[App] \in VisitPCs THEN 1 ELSE 0) \in {0, 1}
        OBVIOUS
      <4>. HIDE DEF TypeOK, CountBounded, CoreSound, CoreTypes, ThreadTypes, VisitPCs
      <4>. QED
        BY <3>4, <4>1, <4>2, <4>3, <4>4
    <3>. QED
      BY <2>1, <3>5
  <2>. QED
    BY <2>2, <2>3
<1>8. ASSUME StopAdapterDisconnected
      PROVE  CountBounded'
  BY <1>8 DEF StopAdapterDisconnected, FinishThreads, Each, Of, Go
<1>9. ASSUME StopAdapterFailed
      PROVE  CountBounded'
  BY <1>9 DEF StopAdapterFailed, Go
<1>10. ASSUME NEW a \in Adapters, NEW l \in {"connect", "disconnect"},
              NEW s \in BOOLEAN, BeginCommand(a, l, s)
      PROVE  CountBounded'
  BY <1>10 DEF BeginCommand
<1>11. ASSUME NEW a \in Adapters, NEW f \in {"Active", "Sleeping"},
              NEW s \in {"Active", "Sleeping"}, SleepOrWakeUp(a, f, s)
      PROVE  CountBounded'
  BY <1>11 DEF SleepOrWakeUp
<1>12. ASSUME EndCommand
      PROVE  CountBounded'
  BY <1>12 DEF EndCommand
<1>13. ASSUME NEW t \in Threads, Connect(t)
      PROVE  CountBounded'
  BY <1>13 DEF Connect, Go, SetState
<1>14. ASSUME NEW t \in Threads, TurnOn(t)
      PROVE  CountBounded'
  BY <1>14 DEF TurnOn, Go, SetDevice
<1>15. ASSUME NEW t \in Threads, AllowDiscover(t)
      PROVE  CountBounded'
  BY <1>15 DEF AllowDiscover, Go, NoFault, P2PGroupAdd, AllowFails, SetDevice, Fault,
      FailConnect, SetState, GetP2PName, Fork
<1>16. ASSUME NEW t \in Threads, AssignPid(t)
      PROVE  CountBounded'
  BY <1>16 DEF AssignPid, GetP2PInfo, Go, NoFault, AllowFails, SetDevice, Fault,
      FailConnect, SetState
<1>17. ASSUME NEW t \in Threads, CheckDhcpd(t)
      PROVE  CountBounded'
  BY <1>17 DEF CheckDhcpd, Fork, GetIpAddress, Go, NoFault, AllowFails, SetDevice, Fault,
      FailConnect, SetState
<1>18. ASSUME NEW t \in Threads, OpenSocket(t)
      PROVE  CountBounded'
  BY <1>18 DEF OpenSocket, Go, NoFault, Fault, FailOpen
<1>19. ASSUME NEW t \in Threads, Accept(t)
      PROVE  CountBounded'
  BY <1>19 DEF Accept, Go, NoFault, Fault, FailOpen
<1>20. ASSUME NEW t \in Threads, EnableLoops(t)
      PROVE  CountBounded'
  BY <1>20 DEF EnableLoops, Go, SetState, Each, Of
<1>21. ASSUME NEW t \in Threads, Disconnect(t)
      PROVE  CountBounded'
  BY <1>21 DEF Disconnect, Go
<1>22. ASSUME NEW t \in Threads, SetDisconnecting(t)
      PROVE  CountBounded'
  BY <1>22 DEF SetDisconnecting, SetState
<1>23. ASSUME NEW t \in Threads, DisableLoops(t)
      PROVE  CountBounded'
  BY <1>23 DEF DisableLoops, Go, Each, Of
<1>24. ASSUME NEW t \in Threads, CloseSocket(t)
      PROVE  CountBounded'
  BY <1>24 DEF CloseSocket, Go, CloseImpl
<1>25. ASSUME NEW t \in Threads, Disallow(t)
      PROVE  CountBounded'
  BY <1>25 DEF Disallow, Go, NoFault, Fault, SetState, DisallowDiscover, P2PGroupRemove
<1>26. ASSUME NEW t \in Threads, TurnOff(t)
      PROVE  CountBounded'
  BY <1>26 DEF TurnOff, Go, SetDevice
<1>27. ASSUME NEW t \in Threads, WaitLoops(t)
      PROVE  CountBounded'
  BY <1>27 DEF WaitLoops, Go, SetState
<1>28. ASSUME NEW w \in Adapters \X Loops, ThreadStep(w)
      PROVE  CountBounded'
  BY <1>28 DEF ThreadStep, RunThread, WaitEnable, BeginLoop, EndLoop
<1>29. ASSUME NEW a \in Adapters, SocketBreaks(a)
      PROVE  CountBounded'
  BY <1>29 DEF SocketBreaks, Fault
<1>30. ASSUME DhcpdStep
      PROVE  CountBounded'
  BY <1>30 DEF DhcpdStep, DhcpdDies, Kill, Fault, HandleSigchld, RelaunchDhcpd, Fork
<1>40. ASSUME NEW t \in Threads, Undo(t)
      PROVE  CountBounded'
  BY <1>40 DEF Undo, DisallowDiscover, P2PGroupRemove, NoFault, Fault, SetDevice,
     FailConnect, SetState, Go
<1>41. ASSUME NEW t \in Threads, KillDhcpd(t)
      PROVE  CountBounded'
  BY <1>41, KillFrame
<1>. HIDE DEF CountBounded, TypeOK
<1>. QED
  BY <1>40, <1>41, <1>1, <1>2, <1>3, <1>4, <1>5, <1>6, <1>7, <1>8, <1>9, <1>10, <1>11, <1>12, <1>13,
      <1>14, <1>15, <1>16, <1>17, <1>18, <1>19, <1>20, <1>21, <1>22, <1>23, <1>24, <1>25,
      <1>26, <1>27, <1>28, <1>29, <1>30 DEF Next, AppStep, ControlStep, AdapterStep
-----------------------------------------------------------------------------
(***************************************************************************)
(* The inductive invariant                                                 *)
(***************************************************************************)

\* Types, along every step: the count of a stop is that of registered adapters.
LEMMA TypeStep ==
  ASSUME LifecycleAssumption, TypeOK, CoreSound, CountBounded, [Next]_vars
  PROVE  TypeOK'
<1>1. CoreTypes' /\ ThreadTypes' /\ PlugTypes' /\ DhcpdTypes' /\ LoopTypes'
  BY CoreTypesStep, ThreadTypesStep, PlugTypesStep, DhcpdTypesStep, LoopTypesStep
<1>2. /\ \A i, j \in DOMAIN registered' : registered'[i] = registered'[j] => i = j
      /\ -Len(registered') <= count' /\ count' <= Len(registered') /\ count' \in Int
  <2>1. CountBounded'
    BY CountBoundedStep
  <2>2. count' \in Int
    BY CountTyped
  <2>. QED
    BY <2>1, <2>2 DEF CountBounded
<1>3. registered' \in Seq(Adapters) /\ Len(registered') \in Nat
  BY <1>1 DEF CoreTypes
<1>4. Len(registered') <= Cardinality(Adapters) /\ Cardinality(Adapters) \in Nat
  BY <1>2, <1>3, CountedNumber, {} \in SUBSET DOMAIN registered'
<1>5. count' \in -Cardinality(Adapters)..Cardinality(Adapters)
  BY <1>2, <1>3, <1>4
<1>. QED
  BY <1>1, <1>5 DEF TypeOK

\* At first nothing is registered, connected or launched.
LEMMA LInvInit == LifecycleAssumption /\ Init => LInv
<1>. SUFFICES ASSUME LifecycleAssumption, Init PROVE LInv
  OBVIOUS
<1>. USE DEF Init
<1>1. (CHOOSE a \in Adapters : TRUE) \in Adapters /\ App \in Threads
  BY DEF LifecycleAssumption, Threads
<1>2. Cardinality(Adapters) \in Nat /\ Cardinality({}) = 0
  BY FS_CardinalityType, FS_EmptySet DEF LifecycleAssumption
<1>3. TypeOK
  <2>1. CoreTypes
    <3>1. <<>> \in Seq(Adapters)
      OBVIOUS
    <3>2. registered \in Seq(Adapters) /\ todo \in Seq(Adapters)
      BY <3>1
    <3>3. core \in CoreStates /\ counted \subseteq Adapters
      BY DEF CoreStates
    <3>4. /\ lock \in BOOLEAN /\ stopOngoing \in BOOLEAN /\ restored \in BOOLEAN
          /\ isDone \in BOOLEAN /\ success \in BOOLEAN /\ controlOn \in BOOLEAN
      BY Zenon
    <3>. QED
      BY <3>2, <3>3, <3>4, Zenon DEF CoreTypes
  <2>2. ThreadTypes
    <3>1. /\ pc \in [Threads -> PCs] /\ tgt \in [Threads -> Adapters]
          /\ old \in [Threads -> AdapterStates] /\ state \in [Adapters -> AdapterStates]
      BY <1>1 DEF PCs, AdapterStates
    <3>2. contended \subseteq Adapters /\ switching \in BOOLEAN
      OBVIOUS
    <3>3. calls \in 0..MaxCalls /\ commands \in 0..MaxCommands /\ faults \in 0..MaxFaults
      BY DEF LifecycleAssumption
    <3>. QED
      BY <3>1, <3>2, <3>3 DEF ThreadTypes
  <2>3. PlugTypes
    BY DEF PlugTypes
  <2>4. DhcpdTypes
    <3>1. /\ pid \in 0..MaxDhcpds /\ forked \in 0..MaxDhcpds
          /\ child \in [Threads -> 0..MaxDhcpds]
      BY DEF LifecycleAssumption
    <3>2. dhcpdEnabled \in BOOLEAN /\ relaunch \in BOOLEAN /\ overlap \in BOOLEAN
      OBVIOUS
    <3>3. alive \subseteq Pids /\ sigchld \subseteq Pids /\ lost \subseteq Pids
      OBVIOUS
    <3>. QED
      BY <3>1, <3>2, <3>3 DEF DhcpdTypes
  <2>5. LoopTypes
    BY DEF LoopTypes
  <2>. QED
    BY <1>2, <2>1, <2>2, <2>3, <2>4, <2>5 DEF TypeOK
<1>4. \A t \in Threads : pc[t] \in {"app", "idle"}
  OBVIOUS
<1>5. Exclusive
  BY <1>4 DEF Exclusive, Busy, ConnectPCs, DisconnectPCs, UndoPCs
<1>6. ResourcesSound
  BY <1>1, <1>4 DEF ResourcesSound, AdapterSound, ConnectSound, DisconnectSound, Clear,
     LifecycleAssumption, Threads, UndoPCs
<1>7. RegisteredSound
  BY <1>4 DEF RegisteredSound, Registered, AtRest
<1>8. LoopsSound /\ ActiveIsServed
  BY DEF LoopsSound, ActiveIsServed
<1>9. DhcpdSound
  BY DEF DhcpdSound, DhcpdNumbers, DhcpdKnown, DhcpdBacked
<1>10. CoreSound
  BY <1>1, <1>4 DEF CoreSound, StopPCs, VisitPCs, DisconnectPCs, StartPCs, ConnectPCs, UndoPCs
<1>11. CountSound /\ CountBounded
  BY DEF CountSound, CountBounded
<1>. QED
  BY <1>3, <1>5, <1>6, <1>7, <1>8, <1>9, <1>10, <1>11 DEF LInv

\* Every step keeps all of it.
LEMMA LInvStep == LifecycleAssumption /\ LInv /\ [Next]_vars => LInv'
BY TypeStep, ExclusiveStep, ResourcesStep, RegisteredStep, LoopsSoundStep, ServedStep,
   DhcpdSoundStep, CoreSoundStep, CountSoundStep, CountBoundedStep DEF LInv

(***************************************************************************)
(* The inductive invariant of the lifecycle, of which the next theorems    *)
(* are consequences.                                                       *)
(***************************************************************************)
THEOREM LifecycleInvariant == Spec => []LInv
<1>1. LInv /\ [Next]_vars => LInv'
  BY LInvStep, LifecycleAssumption
<1>2. Init => LInv
  BY LInvInit, LifecycleAssumption
<1>. QED
  BY <1>1, <1>2, PTL DEF Spec

(***************************************************************************)
(* A connected adapter whose socket is open has its device, its P2P server *)
(* and its two sockets, whatever failed before and whatever the other      *)
(* thread did (__connect_internal(), and __disconnect_internal() when it   *)
(* fails half way); and types.                                             *)
(***************************************************************************)
THEOREM ConnectedIsBacked == Spec => []ActiveIsBacked
<1>1. LInv => ActiveIsBacked
  BY DEF LInv, ResourcesSound, AdapterSound, Backed, ActiveIsBacked
<1>. QED
  BY <1>1, LifecycleInvariant, PTL

(***************************************************************************)
(* No thread of a connected adapter waits for an enable that has passed    *)
(* (enable_loop() against wait_until_enable_loop()), except one that began *)
(* to run after it.                                                        *)
(***************************************************************************)
THEOREM ConnectedIsServed == Spec => []ActiveIsServed
<1>1. LInv => ActiveIsServed
  BY DEF LInv
<1>. QED
  BY <1>1, LifecycleInvariant, PTL

(***************************************************************************)
(* A disconnected adapter has turned its device off and its socket is      *)
(* closed; if nothing failed it holds nothing (the error paths of          *)
(* __connect_internal()).                                                  *)
(***************************************************************************)
THEOREM ReleasedOnDisconnect == Spec => []DisconnectedIsReleased
<1>1. LInv => DisconnectedIsReleased
  BY DEF LInv, ResourcesSound, AdapterSound, Clear, DisconnectedIsReleased
<1>. QED
  BY <1>1, LifecycleInvariant, PTL

(***************************************************************************)
(* A DHCP daemon outlives the last group only if its number was            *)
(* overwritten while it ran, or if the handler relaunched one after        *)
(* kill_dhcpd() had reset sDhcpdEnabled (kill_dhcpd() against              *)
(* launch_dhcpd() and sighandler_monitor_udhcpd()).                        *)
(***************************************************************************)
THEOREM DaemonEndsWithGroup == Spec => []DhcpdEndsWithGroup
<1>1. LInv => DhcpdEndsWithGroup
  <2>. SUFFICES ASSUME LInv, \A a \in WfdAdapters : ~group[a], contended = {}, ~overlap,
                       NEW p \in alive
                PROVE  p \in lost
    BY DEF DhcpdEndsWithGroup
  <2>1. \A a \in WfdAdapters : ~KeptGroup(a)
    BY DEF KeptGroup
  <2>2. \A t \in Threads : ~WillKill(t)
    BY DEF WillKill
  <2>3. p # pid
    BY <2>1, <2>2 DEF LInv, DhcpdSound, DhcpdBacked
  <2>4. \A t \in Threads : pc[t] # "assignPid"
    BY <2>1, LaunchKept DEF LInv
  <2>. QED
    BY <2>3, <2>4 DEF LInv, DhcpdSound, DhcpdKnown
<1>. QED
  BY <1>1, LifecycleInvariant, PTL

(***************************************************************************)
(* A stop_sc() that succeeds has itself disconnected every adapter that    *)
(* was connected when it began, unless a disconnection of Control failed   *)
(* meanwhile (StopCoreTransaction::disconnect_adapter_callback()).         *)
(***************************************************************************)
THEOREM StopDisconnectsAll == Spec => StopIsComplete
<1>1. LInv /\ [Next]_vars /\ core = "Stopping" /\ core' = "Idle" /\ ~restored
      => counted' = {}
  <2>. SUFFICES ASSUME LInv, [Next]_vars, core = "Stopping", core' = "Idle", ~restored
                PROVE  counted' = {}
    OBVIOUS
  <2>. USE LifecycleAssumption
  <2>1. /\ ~isDone /\ pc[App] \in StopPCs \cup {"waitStop", "crashed"}
        /\ counted \subseteq Adapters /\ stopOngoing \in BOOLEAN
    BY DEF LInv, CoreSound, TypeOK, CoreTypes
  <2>2. StopAdapterDisconnected \/ UNCHANGED core
    BY <2>1 DEF StopPCs, VisitPCs, DisconnectPCs, Next, AppStep, ControlStep, AdapterStep,
       ThreadStep, DhcpdStep, vars, coreVars, Register, StartSc, DoneStart, Return, StopSc,
       ConnectFirstAdapterCallback, StopNext, StopAdapterFailed, BeginCommand, SleepOrWakeUp,
       EndCommand, Connect, TurnOn, AllowDiscover, AssignPid, CheckDhcpd, OpenSocket, Accept,
       EnableLoops, Disconnect, SetDisconnecting, DisableLoops, CloseSocket, KillDhcpd, ResetDhcpd,
       TestDhcpd, KillRecorded, Undo, Disallow, TurnOff,
       WaitLoops, RunThread, WaitEnable, BeginLoop, EndLoop, SocketBreaks, DhcpdDies,
       HandleSigchld, RelaunchDhcpd
  <2>3. StopAdapterDisconnected
    BY <2>2
  <2>4. /\ stopOngoing /\ count - 1 = 0 /\ pc[App] = "disconnected" /\ counted' = counted
    BY <2>3 DEF StopAdapterDisconnected
  <2>5. count = Cardinality(counted) + 1
    BY <2>4 DEF LInv, CountSound, StopPCs, VisitPCs
  <2>6. IsFiniteSet(counted)
    BY <2>1, FS_Subset DEF LifecycleAssumption
  <2>7. Cardinality(counted) = 0
    BY <2>4, <2>5, <2>6, FS_CardinalityType
  <2>. QED
    BY <2>4, <2>6, <2>7, FS_EmptySet
<1>2. LInv /\ [Next]_vars
      => [core = "Stopping" /\ core' = "Idle" /\ ~restored => counted' = {}]_vars
  BY <1>1
<1>. QED
  BY <1>2, LifecycleInvariant, PTL DEF Spec, StopIsComplete
=============================================================================
