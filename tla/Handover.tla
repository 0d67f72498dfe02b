------------------------------- MODULE Handover -------------------------------
(***************************************************************************)
(* Handover between adapters: the sending half (module SendPath) composed  *)
(* with the threads that command adapters.                                 *)
(*                                                                         *)
(*   Monitor  the NetworkMonitorThread, which runs a                       *)
(*            SwitchAdapterTransaction when the policy asks for a switch:  *)
(*            connect or wake up the next adapter, put the previous one to *)
(*            sleep, disconnect it                                         *)
(*   Peer     the ControlMessageReceiver thread, which executes the peer's *)
(*            requests to connect, sleep or wake up an adapter             *)
(*                                                                         *)
(* A commander at label cpc[c] executes the operations of ServerAdapter    *)
(* for adapter tgt[c]; every flag, state or list it touches has a mutex    *)
(* (or nothing) of its own, so that every access is a step.  Devices and   *)
(* P2P servers are behind OpenSocket; the receiver threads are in module   *)
(* ReceivePath.                                                            *)
(***************************************************************************)
EXTENDS SendPath

CONSTANTS
  Monitor,          \* the thread that switches
  Peer,             \* the thread that executes the peer's requests
  FirstActive,      \* the adapter that is connected at the start
  MaxSwitches,      \* bound: switches decided by the policy
  MaxPeerRequests,  \* bound: requests of the peer
  PeerOperations,   \* the requests, among "connect", "sleep" and "wakeUp"
  MaxDisturbances   \* bound: requests and spurious wake-ups together

ASSUME HandoverAssumption ==
  /\ Monitor \in Callers /\ CallerKind[Monitor] = "control"
  /\ Peer \notin Callers
  /\ FirstActive \in Adapters
  /\ {MaxSwitches, MaxPeerRequests, MaxDisturbances} \subseteq Nat
  /\ PeerOperations \subseteq {"connect", "sleep", "wakeUp"}
  /\ MaxSeq["control"] >= 2 * MaxSwitches   \* the bound never blocks a switch

Commanders == {Monitor, Peer}

VARIABLES
  cpc,       \* where each commander is
  tgt,       \* the adapter its operation is about
  old,       \* oldState of disconnect_internal()
  after,     \* where Monitor goes on when done() returns
  ns,        \* NSState of the NetworkSwitcher
  ongoing,   \* SwitchAdapterTransaction::sOngoing is not NULL
  next,      \* mNextIndex of that transaction
  active,    \* mActiveAdapterIndex of the Core
  switches,  \* number of switches so far
  requests   \* number of requests of the peer so far

switchVars == <<after, ns, ongoing, next, active, switches, requests>>
commandVars == <<cpc, tgt, old, switchVars>>
vars == <<sendVars, commandVars>>

CommanderPCs ==
  {"monitor", "switch", "start", "connectOrWakeUp", "connected", "slept",
   "pollSleeping", "doneTrue", "doneFalse", "crashed",
   "peer", "peerSet", "peerDone",
   "connect", "setConnecting", "openSocket", "accept", "enableLoop",
   "connectDone", "wakeUp", "wakeUpPaused", "setWakingUp", "resumeLoop",
   "sleep", "sleepPaused", "setGoingSleeping", "pauseLoop", "wakeUpDequeue",
   "disconnect", "pollDisconnect", "startOnPurpose", "readOldState",
   "setDisconnecting", "disableLoop", "resumeDisabled", "closeSocket",
   "waitLoopEnds", "loopEndsWait", "finishOnPurpose", "setDisconnected"}

\* Types of the state of ServerAdapter's commands and of NetworkSwitcher
TypeOK ==
  /\ SendTypeOK
  /\ cpc \in [Commanders -> CommanderPCs]
  /\ tgt \in [Commanders -> Adapters]
  /\ old \in [Commanders -> AdapterStates]
  /\ after \in {"monitor", "sleep", "slept"}
  /\ ns \in {"ready", "switching"}
  /\ ongoing \in BOOLEAN
  /\ next \in Adapters /\ active \in Adapters
  /\ switches \in 0..MaxSwitches
  /\ requests \in 0..MaxPeerRequests

HandoverInit ==
  /\ \E asleep \in SUBSET (Adapters \ {FirstActive}) :
       SendInit({FirstActive} \cup asleep, asleep)
  /\ cpc = [c \in Commanders |-> IF c = Monitor THEN "monitor" ELSE "peer"]
  /\ tgt = [c \in Commanders |-> FirstActive]
  /\ old = [c \in Commanders |-> "Disconnected"]
  /\ after = "monitor"
  /\ ns = "ready"
  /\ ongoing = FALSE
  /\ next = FirstActive
  /\ active = FirstActive
  /\ switches = 0
  /\ requests = 0

Jump(c, label) == cpc' = [cpc EXCEPT ![c] = label] /\ UNCHANGED tgt
Call(c, label, a) == /\ cpc' = [cpc EXCEPT ![c] = label]
                     /\ tgt' = [tgt EXCEPT ![c] = a]

\* Mutant: connect_next_adapter_callback() ignores is_success.
MutantCallbackIgnoresFailure(c, operation, isSuccess) ==
  CASE c = Peer                 -> "peerDone"
    [] ~ongoing                 -> "crashed"
    [] operation = "connect"    -> "connected"
    [] OTHER                    -> IF ~isSuccess THEN "doneFalse"
                                   ELSE IF operation = "sleep" THEN "slept"
                                   ELSE "doneTrue"

(***************************************************************************)
(* Where a commander goes on when an operation calls its callback.  The    *)
(* callbacks of the switch dereference sOngoing without a check; the       *)
(* peer's requests end in set_state(kNSStateReady) or done_switch().       *)
(***************************************************************************)
Callback(c, operation, isSuccess) ==
  CASE c = Peer      -> "peerDone"
    [] ~ongoing      -> "crashed"
    [] ~isSuccess    -> "doneFalse"
    [] OTHER         -> CASE operation = "connect"    -> "connected"
                          [] operation = "sleep"      -> "slept"
                          [] operation = "disconnect" -> "doneTrue"

SetState(c, s) == state' = [state EXCEPT ![tgt[c]] = s] /\ UNCHANGED onPurpose

\* Steps that read or write nothing of the sending half.
Elsewhere == UNCHANGED <<sendVars, old>>

-----------------------------------------------------------------------------
(***************************************************************************)
(* NetworkMonitorThread and SwitchAdapterTransaction                       *)
(***************************************************************************)

\* monitor_thread() sees kNSStateReady and the policy asks for a switch.
DecideSwitch ==
  /\ cpc[Monitor] = "monitor"
  /\ ns = "ready"
  /\ switches < MaxSwitches
  /\ switches' = switches + 1
  /\ \E a \in Adapters \ {active} : next' = a
  /\ Jump(Monitor, "switch")
  /\ UNCHANGED <<after, ns, ongoing, active, requests>> /\ Elsewhere

\* switch_adapters() and run(): kNSStateSwitching whatever the state is now.
SwitchAdapters ==
  /\ cpc[Monitor] = "switch"
  /\ IF ongoing
     THEN ns' = "ready" /\ Jump(Monitor, "monitor") /\ UNCHANGED ongoing
     ELSE ns' = "switching" /\ ongoing' = TRUE /\ Jump(Monitor, "start")
  /\ UNCHANGED <<after, next, active, switches, requests>> /\ Elsewhere

StartSwitch ==
  /\ cpc[Monitor] = "start"
  /\ Call(Monitor, CASE state[next] = "Active" -> "connected"
                     [] state[next] \in {"Disconnected", "Sleeping"} -> "connectOrWakeUp"
                     [] OTHER -> "doneFalse", next)
  /\ UNCHANGED switchVars /\ Elsewhere

\* connect_or_wake_up() reads the state again; in a third state it returns
\* without calling anybody back, and the transaction stays ongoing.
ConnectOrWakeUp ==
  /\ cpc[Monitor] = "connectOrWakeUp"
  /\ Jump(Monitor, CASE state[next] = "Disconnected" -> "connect"
                     [] state[next] = "Sleeping"     -> "wakeUp"
                     [] OTHER                        -> "monitor")
  /\ UNCHANGED switchVars /\ Elsewhere

\* connect_next_adapter_callback(true).  When the previous adapter sleeps
\* already the next callback is run first, and sleep() is called after it.
ConnectNextAdapterCallback ==
  /\ cpc[Monitor] = "connected"
  /\ Call(Monitor, CASE state[active] = "Disconnected" -> "doneTrue"
                     [] state[active] \in {"Sleeping", "GoingSleeping"} -> "slept"
                     [] state[active] = "Active" -> "sleep"
                     [] OTHER -> "doneFalse", active)
  /\ after' = IF state[active] \in {"Sleeping", "GoingSleeping"} THEN "sleep" ELSE after
  /\ UNCHANGED <<ns, ongoing, next, active, switches, requests>> /\ Elsewhere

\* sleep_prev_adapter_callback(true).
SleepPrevAdapterCallback ==
  /\ cpc[Monitor] = "slept"
  /\ Jump(Monitor, CASE ~ongoing -> "crashed"
                     [] ongoing /\ state[active] = "Disconnected"  -> "doneTrue"
                     [] ongoing /\ state[active] = "GoingSleeping" -> "pollSleeping"
                     [] ongoing /\ state[active] \in {"Sleeping", "Active"} -> "disconnect"
                     [] OTHER -> "doneFalse")
  /\ UNCHANGED switchVars /\ Elsewhere

PollSleeping ==
  /\ cpc[Monitor] = "pollSleeping"
  /\ state[active] = "Sleeping"
  /\ Jump(Monitor, "disconnect")
  /\ UNCHANGED switchVars /\ Elsewhere

\* done() and done_switch().
DoneSwitch ==
  /\ cpc[Monitor] \in {"doneTrue", "doneFalse"}
  /\ active' = IF cpc[Monitor] = "doneTrue" THEN next ELSE active
  /\ ns' = "ready"
  /\ ongoing' = FALSE
  /\ after' = "monitor"
  /\ Jump(Monitor, after)
  /\ UNCHANGED <<next, switches, requests>> /\ Elsewhere

-----------------------------------------------------------------------------
(***************************************************************************)
(* Requests of the peer                                                    *)
(***************************************************************************)

\* connect_, sleep_ and wake_up_adapter_by_peer(): refused while switching;
\* the state is set in a later step than the one that read it.
PeerRequest ==
  /\ cpc[Peer] = "peer"
  /\ requests < MaxPeerRequests
  /\ requests + spurious < MaxDisturbances
  /\ ns # "switching"
  /\ requests' = requests + 1
  /\ \E a \in Adapters : Call(Peer, "peerSet", a)
  /\ UNCHANGED <<after, ns, ongoing, next, active, switches>> /\ Elsewhere

\* on_receive_normal_message() calls the operation the message asks for.
OnReceiveNormalMessage == \E operation \in PeerOperations : Jump(Peer, operation)

PeerSetSwitching ==
  /\ cpc[Peer] = "peerSet"
  /\ ns' = "switching"
  /\ OnReceiveNormalMessage
  /\ UNCHANGED <<after, ongoing, next, active, switches, requests>> /\ Elsewhere

PeerDone ==
  /\ cpc[Peer] = "peerDone"
  /\ ns' = "ready"
  /\ Jump(Peer, "peer")
  /\ UNCHANGED <<after, ongoing, next, active, switches, requests>> /\ Elsewhere

-----------------------------------------------------------------------------
(***************************************************************************)
(* ServerAdapter: connect() and wake_up()                                  *)
(***************************************************************************)

Connect(c) ==
  /\ cpc[c] = "connect"
  /\ Jump(c, IF state[tgt[c]] = "Disconnected"
             THEN "setConnecting" ELSE Callback(c, "connect", FALSE))
  /\ UNCHANGED switchVars /\ Elsewhere

SetConnecting(c) ==
  /\ cpc[c] = "setConnecting"
  /\ SetState(c, "Connecting")
  /\ Jump(c, "openSocket")
  /\ UNCHANGED <<callerVars, sq, listVars, spc, hand, flagVars, sockVars, old, switchVars>>

\* A request to the peer: a message of one segment of the control stream.
SendRequest(c) == Reserve(c, 1)

SetSock(a, s) == sock' = [sock EXCEPT ![a] = s] /\ UNCHANGED <<errno, failures, spurious>>

\* ServerSocket::open(), skipped when somebody else is opening the socket.
\* The Connect request of open_impl() is sent by Monitor only.
OpenSocket(c) ==
  /\ cpc[c] = "openSocket"
  /\ IF sock[tgt[c]] = "closed"
     THEN /\ SetSock(tgt[c], "opening")
          /\ IF c = Monitor THEN SendRequest(c) ELSE UNCHANGED callerVars
          /\ Jump(c, "accept")
     ELSE Jump(c, "enableLoop") /\ UNCHANGED <<callerVars, sockVars>>
  /\ UNCHANGED <<sq, listVars, spc, hand, flagVars, adapterVars, old, switchVars>>

\* The peer connects, or one of the steps of __connect_internal() fails.
Accept(c) ==
  /\ cpc[c] = "accept"
  /\ c = Monitor => ~Busy(c)
  /\ \/ SetSock(tgt[c], "opened") /\ Jump(c, "enableLoop") /\ UNCHANGED adapterVars
     \/ /\ SetSock(tgt[c], "closed")
        /\ SetState(c, "Disconnected")
        /\ Jump(c, Callback(c, "connect", FALSE))
  /\ UNCHANGED <<callerVars, sq, listVars, spc, hand, flagVars, old, switchVars>>

EnableLoop(c) ==
  /\ cpc[c] = "enableLoop"
  /\ enabled' = [enabled EXCEPT ![tgt[c]] = TRUE]
  /\ spc' = IF spc[tgt[c]] = "enableWait" THEN [spc EXCEPT ![tgt[c]] = "begin"] ELSE spc
  /\ Jump(c, "connectDone")
  /\ UNCHANGED <<callerVars, sq, listVars, hand, paused, loopEnds, adapterVars, sockVars, old, switchVars>>

ConnectDone(c) ==
  /\ cpc[c] = "connectDone"
  /\ SetState(c, "Active")
  /\ Jump(c, Callback(c, "connect", TRUE))
  /\ UNCHANGED <<callerVars, sq, listVars, spc, hand, flagVars, sockVars, old, switchVars>>

WakeUp(c) ==
  /\ cpc[c] = "wakeUp"
  /\ Jump(c, IF state[tgt[c]] = "Sleeping"
             THEN "wakeUpPaused" ELSE Callback(c, "connect", FALSE))
  /\ UNCHANGED switchVars /\ Elsewhere

\* is_loop_paused(), then the WakeUp request, which Monitor sends.
WakeUpPaused(c) ==
  /\ cpc[c] = "wakeUpPaused"
  /\ IF paused[tgt[c]] /\ c = Monitor THEN SendRequest(c) ELSE UNCHANGED callerVars
  /\ Jump(c, IF paused[tgt[c]] THEN "setWakingUp" ELSE Callback(c, "connect", FALSE))
  /\ UNCHANGED <<sq, listVars, spc, hand, flagVars, adapterVars, sockVars, old, switchVars>>

SetWakingUp(c) ==
  /\ cpc[c] = "setWakingUp"
  /\ c = Monitor => ~Busy(c)
  /\ SetState(c, "WakingUp")
  /\ Jump(c, "resumeLoop")
  /\ UNCHANGED <<callerVars, sq, listVars, spc, hand, flagVars, sockVars, old, switchVars>>

\* Mutant: the flag is cleared without a notification.
MutantResumeSilently(a) ==
  paused' = [paused EXCEPT ![a] = FALSE] /\ UNCHANGED spc

\* set_is_loop_paused(false): a thread in wait_until_resume_loop() goes on.
Resume(a) ==
  /\ paused' = [paused EXCEPT ![a] = FALSE]
  /\ spc' = IF spc[a] = "resumeWait" THEN [spc EXCEPT ![a] = "resumed"] ELSE spc

ResumeLoop(c) ==
  /\ cpc[c] = "resumeLoop"
  /\ Resume(tgt[c])
  /\ Jump(c, Callback(c, "connect", TRUE))
  /\ UNCHANGED <<callerVars, sq, listVars, hand, enabled, loopEnds, adapterVars, sockVars, old, switchVars>>

-----------------------------------------------------------------------------
(***************************************************************************)
(* ServerAdapter: sleep()                                                  *)
(***************************************************************************)

Sleep(c) ==
  /\ cpc[c] = "sleep"
  /\ Jump(c, IF state[tgt[c]] = "Active"
             THEN "sleepPaused" ELSE Callback(c, "sleep", FALSE))
  /\ UNCHANGED switchVars /\ Elsewhere

\* If the sender is paused already the callback is called twice, first with
\* false and then with true.
SleepPaused(c) ==
  /\ cpc[c] = "sleepPaused"
  /\ IF paused[tgt[c]]
     THEN /\ Jump(c, Callback(c, "sleep", FALSE))
          /\ after' = IF c = Monitor THEN "slept" ELSE after
     ELSE Jump(c, "setGoingSleeping") /\ UNCHANGED after
  /\ UNCHANGED <<ns, ongoing, next, active, switches, requests>> /\ Elsewhere

\* Mutant: the adapter is declared asleep before its sender is.
MutantSetSleeping(c) ==
  /\ cpc[c] = "setGoingSleeping"
  /\ SetState(c, "Sleeping")
  /\ Jump(c, "pauseLoop")
  /\ UNCHANGED <<callerVars, sq, listVars, spc, hand, flagVars, sockVars, old, switchVars>>

SetGoingSleeping(c) ==
  /\ cpc[c] = "setGoingSleeping"
  /\ SetState(c, "GoingSleeping")
  /\ Jump(c, "pauseLoop")
  /\ UNCHANGED <<callerVars, sq, listVars, spc, hand, flagVars, sockVars, old, switchVars>>

PauseLoop(c) ==
  /\ cpc[c] = "pauseLoop"
  /\ paused' = [paused EXCEPT ![tgt[c]] = TRUE]
  /\ Jump(c, "wakeUpDequeue")
  /\ UNCHANGED <<callerVars, sq, listVars, spc, hand, enabled, loopEnds, adapterVars, sockVars, old, switchVars>>

\* Mutant: a sender that waits for a segment is not woken up.
MutantWakeUpDequeue(c) ==
  /\ cpc[c] = "wakeUpDequeue"
  /\ Jump(c, Callback(c, "sleep", TRUE))
  /\ UNCHANGED <<sendVars, old, switchVars>>

\* wake_up_dequeue_waiting(), without mDequeueLock.
WakeUpDequeue(c) ==
  /\ cpc[c] = "wakeUpDequeue"
  /\ spc' = WakeUpDequeueWaiting
  /\ Jump(c, Callback(c, "sleep", TRUE))
  /\ UNCHANGED <<callerVars, sq, listVars, hand, flagVars, adapterVars, sockVars, old, switchVars>>

-----------------------------------------------------------------------------
(***************************************************************************)
(* ServerAdapter: disconnect_on_command(), called by the switch only       *)
(***************************************************************************)

DisconnectOnCommand(c) ==
  /\ \/ /\ cpc[c] = "disconnect"
        /\ Jump(c, CASE state[tgt[c]] = "GoingSleeping" -> "pollDisconnect"
                     [] state[tgt[c]] = "Sleeping"      -> "startOnPurpose"
                     [] OTHER -> Callback(c, "disconnect", FALSE))
     \/ /\ cpc[c] = "pollDisconnect"
        /\ state[tgt[c]] = "Sleeping"
        /\ Jump(c, "startOnPurpose")
  /\ UNCHANGED switchVars /\ Elsewhere

\* The flag is set and the Disconnect request sent.
StartDisconnectingOnPurpose(c) ==
  /\ cpc[c] = "startOnPurpose"
  /\ onPurpose' = [onPurpose EXCEPT ![tgt[c]] = TRUE]
  /\ SendRequest(c)
  /\ Jump(c, "readOldState")
  /\ UNCHANGED <<sq, listVars, spc, hand, flagVars, state, sockVars, old, switchVars>>

\* disconnect_internal()
ReadOldState(c) ==
  /\ cpc[c] = "readOldState"
  /\ ~Busy(c)
  /\ old' = [old EXCEPT ![c] = state[tgt[c]]]
  /\ Jump(c, "setDisconnecting")
  /\ UNCHANGED <<sendVars, switchVars>>

SetDisconnecting(c) ==
  /\ cpc[c] = "setDisconnecting"
  /\ SetState(c, "Disconnecting")
  /\ Jump(c, "disableLoop")
  /\ UNCHANGED <<callerVars, sq, listVars, spc, hand, flagVars, sockVars, old, switchVars>>

DisableLoop(c) ==
  /\ cpc[c] = "disableLoop"
  /\ enabled' = [enabled EXCEPT ![tgt[c]] = FALSE]
  /\ Jump(c, IF old[c] = "Sleeping" THEN "resumeDisabled" ELSE "closeSocket")
  /\ UNCHANGED <<callerVars, sq, listVars, spc, hand, paused, loopEnds, adapterVars, sockVars, old, switchVars>>

\* Mutant: the paused sender is not resumed.
MutantResumeDisabled(c) ==
  /\ cpc[c] = "resumeDisabled"
  /\ Jump(c, "closeSocket")
  /\ UNCHANGED <<sendVars, old, switchVars>>

ResumeDisabled(c) ==
  /\ cpc[c] = "resumeDisabled"
  /\ Resume(tgt[c])
  /\ Jump(c, "closeSocket")
  /\ UNCHANGED <<callerVars, sq, listVars, hand, enabled, loopEnds, adapterVars, sockVars, old, switchVars>>

CloseSocket(c) ==
  /\ cpc[c] = "closeSocket"
  /\ SetSock(tgt[c], "closed")
  /\ Jump(c, "waitLoopEnds")
  /\ UNCHANGED <<callerVars, sq, listVars, spc, hand, flagVars, adapterVars, old, switchVars>>

\* wait_until_disable_loop_done()
WaitLoopEnds(c) ==
  /\ cpc[c] = "waitLoopEnds"
  /\ Jump(c, IF loopEnds[tgt[c]] THEN "finishOnPurpose" ELSE "loopEndsWait")
  /\ UNCHANGED switchVars /\ Elsewhere

FinishDisconnectingOnPurpose(c) ==
  /\ cpc[c] = "finishOnPurpose"
  /\ onPurpose' = [onPurpose EXCEPT ![tgt[c]] = FALSE]
  /\ Jump(c, "setDisconnected")
  /\ UNCHANGED <<callerVars, sq, listVars, spc, hand, flagVars, state, sockVars, old, switchVars>>

SetDisconnected(c) ==
  /\ cpc[c] = "setDisconnected"
  /\ SetState(c, "Disconnected")
  /\ Jump(c, Callback(c, "disconnect", TRUE))
  /\ UNCHANGED <<callerVars, sq, listVars, spc, hand, flagVars, sockVars, old, switchVars>>

-----------------------------------------------------------------------------
\* A sender thread; set_is_loop_ends(true) notifies the waiting commander.
SenderStep(a) ==
  /\ Sender(a) \/ PausedSender(a)
  /\ cpc' = [c \in Commanders |->
               IF cpc[c] = "loopEndsWait" /\ tgt[c] = a /\ spc[a] = "end3"
               THEN "finishOnPurpose" ELSE cpc[c]]
  /\ UNCHANGED <<tgt, old, switchVars>>

\* A sender's wait, or wait_until_disable_loop_done() of a commander, returns
\* without a notification.
SpuriousSenderWakeup(a) ==
  /\ requests + spurious < MaxDisturbances
  /\ SpuriousWakeup(a)
  /\ UNCHANGED commandVars

SpuriousLoopEnds(c) ==
  /\ cpc[c] = "loopEndsWait"
  /\ spurious < MaxSpurious
  /\ requests + spurious < MaxDisturbances
  /\ spurious' = spurious + 1
  /\ Jump(c, "finishOnPurpose")
  /\ UNCHANGED <<callerVars, sq, listVars, spc, hand, flagVars, adapterVars,
                 sock, errno, failures, old, switchVars>>

\* Applications send data; the segments of the commands are enqueued too.
CallerStep(c) ==
  /\ EnqueueToSend(c) \/ (c # Monitor /\ SendToSegmentManager(c))
  /\ UNCHANGED commandVars

AdapterOperation(c) ==
  \/ Connect(c) \/ SetConnecting(c) \/ OpenSocket(c) \/ Accept(c)
  \/ EnableLoop(c) \/ ConnectDone(c)
  \/ WakeUp(c) \/ WakeUpPaused(c) \/ SetWakingUp(c) \/ ResumeLoop(c)
  \/ Sleep(c) \/ SleepPaused(c) \/ SetGoingSleeping(c) \/ PauseLoop(c)
  \/ WakeUpDequeue(c)

Disconnection(c) ==
  \/ DisconnectOnCommand(c) \/ StartDisconnectingOnPurpose(c)
  \/ ReadOldState(c) \/ SetDisconnecting(c) \/ DisableLoop(c)
  \/ ResumeDisabled(c) \/ CloseSocket(c) \/ WaitLoopEnds(c)
  \/ FinishDisconnectingOnPurpose(c) \/ SetDisconnected(c)

Transaction ==
  \/ SwitchAdapters \/ StartSwitch \/ ConnectOrWakeUp
  \/ ConnectNextAdapterCallback \/ SleepPrevAdapterCallback \/ PollSleeping
  \/ DoneSwitch

HandoverNext ==
  \/ \E c \in Callers : CallerStep(c)
  \/ \E a \in Adapters : SenderStep(a) \/ SpuriousSenderWakeup(a)
  \/ \E c \in Commanders : AdapterOperation(c)
  \/ SpuriousLoopEnds(Monitor)
  \/ Disconnection(Monitor)
  \/ DecideSwitch \/ Transaction
  \/ PeerRequest \/ PeerSetSwitching \/ PeerDone

HandoverSpec == HandoverInit /\ [][HandoverNext]_vars

(***************************************************************************)
(* Runnable threads run, and accept() returns.  Nothing is assumed of the  *)
(* policy, of the peer's requests or of applications.                      *)
(***************************************************************************)
HandoverFairness ==
  /\ \A c \in Callers : WF_vars(EnqueueToSend(c) /\ UNCHANGED commandVars)
  /\ \A a \in Adapters : WF_vars(SenderStep(a))
  /\ WF_vars(AdapterOperation(Monitor) \/ Disconnection(Monitor) \/ Transaction)
  /\ WF_vars(AdapterOperation(Peer) \/ PeerSetSwitching \/ PeerDone)

HandoverFairSpec == HandoverSpec /\ HandoverFairness

-----------------------------------------------------------------------------
(***************************************************************************)
(* A sleeping adapter holds no segment: what it had in hand when it was    *)
(* paused went to the failed list, where the other adapter can take it.    *)
(***************************************************************************)
SleepingHoldsNothing ==
  \A a \in Adapters : state[a] = "Sleeping" => ~HoldsSegment(a)

\* Nothing but the switch has moved the adapters and their senders.
Undisturbed == spurious = 0 /\ requests = 0

(***************************************************************************)
(* When an adapter is Disconnected its sender thread has left              *)
(* sender_loop(): disconnect_internal() waited for the right loop's end    *)
(* and not for an earlier one's.  So it is as long as no wait of           *)
(* SenderThread.h, none of which is in a loop, has returned without a      *)
(* notification, and no request of the peer has come between the steps of  *)
(* a switch; after either the sender may still be in its loop.  And types. *)
(***************************************************************************)
DisconnectedSenderIdle ==
  /\ TypeOK
  /\ Undisturbed =>
       \A a \in Adapters :
         state[a] = "Disconnected" => spc[a] \in {"idle", "enableWait"}

(***************************************************************************)
(* Seamless handover: while the previous adapter is being disconnected the *)
(* next one is active, or woken up and about to be, and the callbacks of   *)
(* the switch find the transaction they belong to (sOngoing).  On the same *)
(* conditions: a sender that wakes up from its pause makes its adapter     *)
(* Active again, and a request of the peer changes it.                     *)
(***************************************************************************)
NextAdapterReady ==
  Undisturbed =>
    /\ cpc[Monitor] # "crashed"
    /\ ongoing /\ state[active] = "Disconnecting" => state[next] \in {"Active", "WakingUp"}

\* sleep() is about to wake up the sender of adapter a.
WokenToSleep(a) == \E c \in Commanders : cpc[c] = "wakeUpDequeue" /\ tgt[c] = a

\* Adapter a is not going to sleep, or never will.
SleepOver(a) ==
  state[a] # "GoingSleeping" \/ spc[a] \in {"enableWait", "sendConnecting"}

\* A woken adapter becomes active: the notification of resume_loop() is not lost.
WakeUpEnds == \A a \in Adapters : (state[a] = "WakingUp") ~> (state[a] # "WakingUp")

(***************************************************************************)
(* ServerAdapter.cpp:519 "Wake up sender thread waiting segment queue": an *)
(* adapter told to sleep goes to sleep.  A sender that waits for a segment *)
(* when it is woken up for this does, and any other one too, with three    *)
(* exceptions: a sender that has left its loop on an error, one that polls *)
(* for its adapter to be Active (ServerAdapter.cpp:431-434), and one that  *)
(* the wake-up finds between its test of the flag and its wait: it missed  *)
(* the notification.                                                       *)
(***************************************************************************)
SleepEnds ==
  \A a \in Adapters :
    /\ (WokenToSleep(a) /\ spc[a] \notin {"popFailed", "dequeue"}) ~> SleepOver(a)
    /\ (state[a] = "GoingSleeping") ~> (SleepOver(a) \/ spc[a] = "deqWait")

(***************************************************************************)
(* ServerAdapter.cpp:389 "Wait for sender/receiver thread": a disconnection *)
(* ends.  The one thing that holds it up is a sender resumed for it, which *)
(* does not test mIsLoopEnabled before it waits for a segment.             *)
(***************************************************************************)
DisconnectEnds ==
  \A a \in Adapters : (state[a] = "Disconnecting")
    ~> (state[a] = "Disconnected" \/ spc[a] = "deqWait")
=============================================================================
