------------------------------ MODULE ClientSwitch -----------------------------
(***************************************************************************)
(* The Android client: Core starts and stops it, NetworkSwitcher executes  *)
(* the commands of the server, a ClientAdapter connects, sleeps, wakes up  *)
(* and disconnects with threads of its own, and its SenderThread takes     *)
(* segments from the common queues.                                        *)
(*                                                                         *)
(* Commands of the server arrive in the order it sends them.  The server   *)
(* commands only what it has: an adapter it has accepted a socket for can  *)
(* be put to sleep, woken up and disconnected, any other be connected.     *)
(* An exception that no thread catches ends the process: crashed.          *)
(*                                                                         *)
(* A stop asks the server to disconnect a sleeping adapter.  Core.send()   *)
(* refuses that request while the core is Stopping, so that it is sent     *)
(* only when the refusal of an earlier adapter has made the core Ready.    *)
(* The control messages of the client are taken to arrive and are not      *)
(* among the segments.  reconnectAdapter() is called by nobody.            *)
(***************************************************************************)
EXTENDS Integers, Sequences, FiniteSets, FiniteSetsExt

CONSTANTS
  Bt, Wfd,      \* the two adapters, in the order of registration
  Threads,      \* identities of the threads that connect or disconnect
  MaxCalls,     \* bound: calls of startSC() and stopSC()
  MaxEvents     \* bound: those calls, segments sent by the application, commands of the server,
                \* failures and spurious wake-ups, together

Adapters == {Bt, Wfd}

ASSUME ClientSwitchAssumption ==
  /\ Bt # Wfd /\ IsFiniteSet(Threads)
  /\ {MaxCalls, MaxEvents} \subseteq Nat

VARIABLES
  crashed,   \* an exception ended the process
  core,      \* Core and its transactions
  switcher,  \* NetworkSwitcher and the control message receiver
  adapter,   \* ClientAdapter with its Device, P2PClient and ClientSocket
  threads,   \* ConnectThread, SocketOpenThread, DisconnectThread
  sender,    \* SenderThread of every adapter
  receiver,  \* ReceiverThread of every adapter
  segments,  \* number of segments at every place
  server,    \* commands on their way, and the adapters it has accepted or is asked to disconnect
  faults,    \* failures so far
  spurious   \* spurious wake-ups so far

vars == <<crashed, core, switcher, adapter, threads, sender, receiver, segments, server, faults, spurious>>

States == {"Disconnected", "Connecting", "Active", "Disconnecting", "GoingSleep", "Sleeping", "WakingUp"}
Listeners == {"none", "start", "request", "stop", "peer"}
ThreadPcs == {"none", "connect", "turnOn", "p2pConnect", "wifi", "late", "open", "launch", "active",
              "disconnect", "enterWait", "waitPeer", "finish", "close", "p2pDisconnect",
              "waitSender", "stuck", "finishPurpose", "fail"}
SenderPcs == {"new", "starting", "loop", "suspend", "enterWait", "suspended", "wakeup",
              "pop", "waiting", "woken", "have", "send", "ended"}

\* Types of the state of ClientAdapter, its threads and NetworkSwitcher on the
\* Android side
TypeOK ==
  /\ crashed \in BOOLEAN /\ faults \in [socket : 0..MaxEvents, wifi : 0..MaxEvents] /\ spurious \in 0..MaxEvents
  /\ core \in [state : {"Idle", "Starting", "Ready", "Stopping"}, starting : BOOLEAN, stopping : BOOLEAN,
               count : Int, todo : Seq(Adapters), polling : BOOLEAN, calls : 0..MaxEvents, reports : Nat]
  /\ switcher \in [state : {"Ready", "Switching"}, info : BOOLEAN,
                   receiving : {"off", "on", "blocked", "finishing"}]
  /\ adapter \in [Adapters -> [state : States, device : {"Off", "TurningOn", "On"},
                               p2p : {"Disconnected", "Connecting", "Connected"}, socket : {"Closed", "Opened"},
                               onPurpose : BOOLEAN, onPurposePeer : BOOLEAN]]
  /\ threads \in [Threads -> [pc : ThreadPcs, adapter : Adapters, listener : Listeners, old : States]]
  /\ sender \in [Adapters -> [pc : SenderPcs, isOn : BOOLEAN, isSuspended : BOOLEAN, isWaiting : BOOLEAN,
                              monitor : BOOLEAN]]
  /\ receiver \in [Adapters -> [pc : {"new", "loop", "read", "ended"}, isOn : BOOLEAN]]
  /\ segments \in [written : 0..MaxEvents, queue : 0..MaxEvents, failed : 0..MaxEvents, sent : 0..MaxEvents]
  /\ server \in [inbox : Seq({"connect", "sleep", "wakeup", "disconnect", "priv", "ack"} \X Adapters),
                 accepted : SUBSET Adapters, asked : SUBSET Adapters, commands : 0..MaxEvents]

NoThread == [pc |-> "none", adapter |-> Bt, listener |-> "none", old |-> "Disconnected"]

Init ==
  /\ crashed = FALSE /\ faults = [socket |-> 0, wifi |-> 0] /\ spurious = 0
  /\ core = [state |-> "Idle", starting |-> FALSE, stopping |-> FALSE, count |-> 0, todo |-> <<>>,
             polling |-> FALSE, calls |-> 0, reports |-> 0]
  /\ switcher = [state |-> "Ready", info |-> FALSE, receiving |-> "off"]
  /\ adapter = [a \in Adapters |-> [state |-> "Disconnected", device |-> "Off", p2p |-> "Disconnected",
                                    socket |-> "Closed", onPurpose |-> FALSE, onPurposePeer |-> FALSE]]
  /\ threads = [t \in Threads |-> NoThread]
  /\ sender = [a \in Adapters |-> [pc |-> "new", isOn |-> FALSE, isSuspended |-> FALSE, isWaiting |-> FALSE,
                                   monitor |-> FALSE]]
  /\ receiver = [a \in Adapters |-> [pc |-> "new", isOn |-> FALSE]]
  /\ segments = [written |-> 0, queue |-> 0, failed |-> 0, sent |-> 0]
  /\ server = [inbox |-> <<>>, accepted |-> {}, asked |-> {}, commands |-> 0]

\* Every sender that waits in dequeue(), after mDequeueCond was notified.
DequeueNotified(senders) ==
  [a \in Adapters |-> IF senders[a].pc = "waiting" THEN [senders[a] EXCEPT !.pc = "woken"] ELSE senders[a]]

Events == core.calls + segments.written + server.commands + faults.socket + faults.wifi + spurious

\* One more event of the environment is within the bound.
MayHappen == Events < MaxEvents

Free == {t \in Threads : threads[t].pc = "none"}

\* The threads ths after one more was created and started.
Spawn(ths, pc, a, listener) ==
  [ths EXCEPT ![CHOOSE t \in Free : TRUE] = [NoThread EXCEPT !.pc = pc, !.adapter = a, !.listener = listener]]

-----------------------------------------------------------------------------
(***************************************************************************)
(* The listeners                                                           *)
(***************************************************************************)
DoneStart(c, isSuccess) ==
  [c EXCEPT !.state = IF isSuccess THEN "Ready" ELSE "Idle", !.reports = @ + 1]

DoneStartTx(c, isSuccess) == [DoneStart(c, isSuccess) EXCEPT !.starting = FALSE]

DoneStop(c, isSuccess) ==
  [c EXCEPT !.state = IF isSuccess THEN "Idle" ELSE "Ready", !.reports = @ + 1]

DoneStopTx(c, isSuccess) == [DoneStop(c, isSuccess) EXCEPT !.stopping = FALSE]

\* Core after an operation of an adapter has called its listener.
CoreReported(listener, isSuccess) ==
  CASE listener = "start" -> DoneStartTx(core, isSuccess)
    [] listener = "stop" /\ ~isSuccess -> DoneStopTx(core, FALSE)
    [] listener = "stop" /\ isSuccess ->
         LET c == [core EXCEPT !.count = @ - 1] IN IF c.count = 0 THEN DoneStopTx(c, TRUE) ELSE c
    [] OTHER -> core

\* A blocked control message receiver handles one more message after its end.
Finished(receiving) == CASE receiving = "blocked" -> "finishing" [] receiving = "on" -> "off" [] OTHER -> receiving

\* The switcher after the same call: doneSwitch(), and the control receiver.
SwitcherReported(listener, isSuccess) ==
  CASE listener \in {"request", "peer"} -> [switcher EXCEPT !.state = "Ready"]
    [] listener = "start" /\ isSuccess -> [switcher EXCEPT !.receiving = "blocked"]
    [] listener = "stop" /\ isSuccess /\ core.count = 1 -> [switcher EXCEPT !.receiving = Finished(@)]
    [] OTHER -> switcher

Report(listener, isSuccess) ==
  /\ core' = CoreReported(listener, isSuccess)
  /\ switcher' = SwitcherReported(listener, isSuccess)

-----------------------------------------------------------------------------
(***************************************************************************)
(* Core                                                                    *)
(***************************************************************************)

\* A refused start makes the core Idle.
Start ==
  /\ MayHappen /\ core.calls < MaxCalls
  /\ LET called == [core EXCEPT !.calls = @ + 1] IN
       IF core.state # "Idle" \/ core.starting \/ adapter[Bt].state # "Disconnected"
       THEN /\ core' = IF core.state # "Idle" THEN DoneStart(called, FALSE) ELSE DoneStartTx(called, FALSE)
            /\ UNCHANGED threads
       ELSE /\ core' = [called EXCEPT !.state = "Starting", !.starting = TRUE]
            /\ Free # {} /\ threads' = Spawn(threads, "connect", Bt, "start")
  /\ UNCHANGED <<crashed, switcher, adapter, sender, receiver, segments, server, faults, spurious>>

Connected(a) == adapter[a].state \notin {"Disconnected", "Disconnecting"}

\* A refused stop makes the core Ready.
Stop ==
  /\ MayHappen /\ core.calls < MaxCalls
  /\ LET called == [core EXCEPT !.calls = @ + 1] IN
       core' = IF core.state # "Ready" THEN DoneStop(called, FALSE)
               ELSE IF core.stopping THEN DoneStopTx(called, FALSE)
               ELSE [called EXCEPT !.state = "Stopping", !.stopping = TRUE, !.todo = <<Bt, Wfd>>,
                                   !.count = Cardinality({a \in Adapters : Connected(a)})]
  /\ UNCHANGED <<crashed, switcher, adapter, threads, sender, receiver, segments, server, faults, spurious>>

(***************************************************************************)
(* StopCoreTransaction.start(): an adapter that is going to sleep is       *)
(* polled until it sleeps, and any other one that does not sleep refuses.  *)
(***************************************************************************)
StopNext ==
  /\ core.todo # <<>>
  /\ LET a == Head(core.todo)
         next == [core EXCEPT !.todo = Tail(@), !.polling = FALSE] IN
       \/ /\ adapter[a].state = "GoingSleep" /\ ~core.polling
          /\ core' = [core EXCEPT !.polling = TRUE]
          /\ UNCHANGED <<switcher, adapter, threads, server>>
       \/ /\ adapter[a].state = "Sleeping"
          /\ core' = next
          /\ adapter' = [adapter EXCEPT ![a].onPurpose = TRUE]
          /\ server' = [server EXCEPT !.asked = IF core.state = "Ready" THEN @ \cup {a} ELSE @]
          /\ Free # {} /\ threads' = Spawn(threads, "disconnect", a, "stop")
          /\ UNCHANGED switcher
       \/ /\ ~core.polling /\ adapter[a].state \notin {"GoingSleep", "Sleeping"}
          /\ core' = IF Connected(a) THEN DoneStopTx(next, FALSE) ELSE next
          /\ UNCHANGED <<switcher, adapter, threads, server>>
  /\ UNCHANGED <<crashed, sender, receiver, segments, faults, spurious>>

\* Core.send() for the application.
Send ==
  /\ core.state = "Ready" /\ MayHappen
  /\ segments' = [segments EXCEPT !.written = @ + 1, !.queue = @ + 1]
  /\ sender' = DequeueNotified(sender)
  /\ UNCHANGED <<crashed, core, switcher, adapter, threads, receiver, server, faults, spurious>>

-----------------------------------------------------------------------------
(***************************************************************************)
(* The server and its commands                                             *)
(***************************************************************************)

\* A request to connect Wi-Fi is followed by the data to connect with.
ServerCommand(code, a) ==
  /\ MayHappen /\ server.inbox = <<>>
  /\ code = "connect" <=> a \notin server.accepted
  /\ server' = [server EXCEPT
       !.commands = @ + 1,
       !.inbox = @ \o IF <<code, a>> = <<"connect", Wfd>> THEN <<<<code, a>>, <<"priv", a>>>> ELSE <<<<code, a>>>>,
       !.accepted = IF code = "disconnect" THEN @ \ {a} ELSE @]
  /\ UNCHANGED <<crashed, core, switcher, adapter, threads, sender, receiver, segments, faults, spurious>>

\* The server disconnects an adapter it was asked to, and says so.
ServerAcknowledges(a) ==
  /\ a \in server.asked /\ server.inbox = <<>>
  /\ server' = [server EXCEPT !.asked = @ \ {a}, !.accepted = @ \ {a}, !.inbox = <<<<"ack", a>>>>]
  /\ UNCHANGED <<crashed, core, switcher, adapter, threads, sender, receiver, segments, faults, spurious>>

\* Core.receive() blocks only while the core is Ready.
EnterReceive ==
  /\ switcher.receiving = "on" /\ core.state = "Ready"
  /\ switcher' = [switcher EXCEPT !.receiving = "blocked"]
  /\ UNCHANGED <<crashed, core, adapter, threads, sender, receiver, segments, server, faults, spurious>>

\* The receiver takes a message; the result is the switcher while it is handled.
Received(code, a) ==
  /\ switcher.receiving \in {"blocked", "finishing"}
  /\ server.inbox # <<>> /\ Head(server.inbox) = <<code, a>>
  /\ server' = [server EXCEPT !.inbox = Tail(@)]

\* Then it receives again: at once if the core is Ready.
Handling ==
  [switcher EXCEPT !.receiving = CASE @ = "finishing" -> "off" [] core.state = "Ready" -> "blocked" [] OTHER -> "on"]

Switching == switcher.state = "Switching"

PrivateMessage(a) ==
  /\ Received("priv", a)
  /\ switcher' = [Handling EXCEPT !.info = TRUE]
  /\ UNCHANGED <<crashed, core, adapter, threads, sender, receiver, segments, faults, spurious>>

\* Mutant: kSwitching is not tested.
MutantConnectAdapterByPeer(a) ==
  /\ Received("connect", a)
  /\ IF adapter[a].state = "Disconnected"
     THEN /\ switcher' = [Handling EXCEPT !.state = "Switching"]
          /\ Free # {} /\ threads' = Spawn(threads, "connect", a, "request")
     ELSE switcher' = Handling /\ UNCHANGED threads
  /\ UNCHANGED <<crashed, core, adapter, sender, receiver, segments, faults, spurious>>

\* connectAdapterByPeer(); an adapter that is not Disconnected refuses at once.
ConnectAdapterByPeer(a) ==
  /\ Received("connect", a)
  /\ IF ~Switching /\ adapter[a].state = "Disconnected"
     THEN /\ switcher' = [Handling EXCEPT !.state = "Switching"]
          /\ Free # {} /\ threads' = Spawn(threads, "connect", a, "request")
     ELSE switcher' = Handling /\ UNCHANGED threads
  /\ UNCHANGED <<crashed, core, adapter, sender, receiver, segments, faults, spurious>>

\* The threads after mWaitForDisconnectAck of adapter a was notified.
PeerKnows(a) ==
  [t \in Threads |-> IF threads[t].pc = "waitPeer" /\ threads[t].adapter = a
                     THEN [threads[t] EXCEPT !.pc = "finish"] ELSE threads[t]]

\* disconnectAdapterByPeer() and disconnectOnPeerCommand(), which does not look at the state.
DisconnectAdapterByPeer(a) ==
  /\ Received("disconnect", a)
  /\ IF Switching
     THEN switcher' = Handling /\ UNCHANGED <<adapter, threads>>
     ELSE /\ switcher' = [Handling EXCEPT !.state = "Switching"]
          /\ adapter' = [adapter EXCEPT ![a].onPurpose = TRUE, ![a].onPurposePeer = TRUE]
          /\ Free # {} /\ threads' = Spawn(PeerKnows(a), "disconnect", a, "peer")
  /\ UNCHANGED <<crashed, core, sender, receiver, segments, faults, spurious>>

\* peerKnowsDisconnectingOnPurpose(), of whatever state the adapter is in.
AcknowledgeDisconnect(a) ==
  /\ Received("ack", a)
  /\ switcher' = Handling
  /\ adapter' = [adapter EXCEPT ![a].onPurposePeer = TRUE]
  /\ threads' = PeerKnows(a)
  /\ UNCHANGED <<crashed, core, sender, receiver, segments, faults, spurious>>

\* sleepAdapterByPeer() and sleep(), which ends with wakeUpDequeueWaiting().
SleepAdapterByPeer(a) ==
  /\ Received("sleep", a)
  /\ switcher' = Handling
  /\ IF ~Switching /\ adapter[a].state = "Active" /\ ~sender[a].isSuspended
     THEN /\ adapter' = [adapter EXCEPT ![a].state = "GoingSleep"]
          /\ sender' = DequeueNotified([sender EXCEPT ![a].isSuspended = TRUE])
     ELSE UNCHANGED <<adapter, sender>>
  /\ UNCHANGED <<crashed, core, threads, receiver, segments, faults, spurious>>

(***************************************************************************)
(* wakeUpAdapterByPeer(): wakeupSending() locks the Boolean TRUE, replaces *)
(* it by FALSE and calls notifyAll() of FALSE, whose monitor it does not   *)
(* own.  That is an exception.                                             *)
(***************************************************************************)
WakeUpAdapterByPeer(a) ==
  /\ Received("wakeup", a)
  /\ IF ~Switching /\ adapter[a].state = "Sleeping" /\ sender[a].isSuspended
     THEN /\ crashed' = TRUE
          /\ adapter' = [adapter EXCEPT ![a].state = "WakingUp"]
          /\ sender' = [sender EXCEPT ![a].isSuspended = FALSE]
          /\ switcher' = [Handling EXCEPT !.state = "Switching"]
     ELSE switcher' = Handling /\ UNCHANGED <<crashed, adapter, sender>>
  /\ UNCHANGED <<core, threads, receiver, segments, faults, spurious>>

-----------------------------------------------------------------------------
(***************************************************************************)
(* ConnectThread and SocketOpenThread                                      *)
(***************************************************************************)
At(t, pc) == threads[t].pc = pc

Goto(t, pc) == threads' = [threads EXCEPT ![t].pc = pc]

\* Mutant: onFail() does not call its listener.
MutantConnectFail(t, adapters, pc) ==
  /\ adapter' = [adapters EXCEPT ![threads[t].adapter].state = "Disconnected"]
  /\ threads' = [threads EXCEPT ![t] = [NoThread EXCEPT !.pc = pc, !.adapter = threads[t].adapter]]
  /\ UNCHANGED <<core, switcher>>

\* onFail(): adapters is what the failed step made of the adapters.
ConnectFail(t, adapters, pc) ==
  /\ adapter' = [adapters EXCEPT ![threads[t].adapter].state = "Disconnected"]
  /\ threads' = [threads EXCEPT ![t] = [NoThread EXCEPT !.pc = pc, !.adapter = threads[t].adapter]]
  /\ Report(threads[t].listener, FALSE)

ConnectRun(t) ==
  /\ At(t, "connect")
  /\ adapter' = [adapter EXCEPT ![threads[t].adapter] = [@ EXCEPT !.state = "Connecting", !.device = "TurningOn"]]
  /\ Goto(t, "turnOn")
  /\ UNCHANGED <<crashed, core, switcher, sender, receiver, segments, server, faults, spurious>>

\* doneTurnOn(), at once or when Bluetooth is on, and the discovery, which finds a bonded device.
TurnOn(t) ==
  /\ At(t, "turnOn")
  /\ LET a == threads[t].adapter
         on == [adapter EXCEPT ![a].device = "On"] IN
       IF adapter[a].p2p # "Disconnected"
       THEN ConnectFail(t, [on EXCEPT ![a].p2p = "Disconnected"], "none")
       ELSE /\ adapter' = [on EXCEPT ![a].p2p = "Connecting"]
            /\ Goto(t, "p2pConnect")
            /\ UNCHANGED <<core, switcher>>
  /\ UNCHANGED <<crashed, sender, receiver, segments, server, faults, spurious>>

(***************************************************************************)
(* connectImpl(): Bluetooth is bonded; Wi-Fi waits for the information of  *)
(* the server and registers a receiver of the broadcasts about networks,   *)
(* which stays registered if the connection fails.  Without a Wi-Fi        *)
(* service it returns and reports nothing, as if no broadcast ever came.   *)
(***************************************************************************)
P2PConnect(t) ==
  /\ At(t, "p2pConnect")
  /\ LET a == threads[t].adapter IN
       \/ /\ a = Bt
          /\ adapter' = [adapter EXCEPT ![a].p2p = "Connected"]
          /\ Goto(t, "open")
          /\ UNCHANGED <<core, switcher, faults>>
       \/ /\ a = Wfd /\ switcher.info
          /\ Goto(t, "wifi")
          /\ UNCHANGED <<core, switcher, adapter, faults>>
       \/ /\ a = Wfd /\ switcher.info /\ MayHappen
          /\ faults' = [faults EXCEPT !.wifi = @ + 1]
          /\ ConnectFail(t, [adapter EXCEPT ![a] = [@ EXCEPT !.p2p = "Disconnected", !.device = "Off"]], "late")
  /\ UNCHANGED <<crashed, sender, receiver, segments, server, spurious>>

\* A network is connected: the registered receiver calls onDoneConnect(true).
WifiConnected(t) ==
  /\ At(t, "wifi") \/ At(t, "late")
  /\ adapter' = [adapter EXCEPT ![threads[t].adapter].p2p = "Connected"]
  /\ Goto(t, "open")
  /\ UNCHANGED <<crashed, core, switcher, sender, receiver, segments, server, faults, spurious>>

\* P2PClient.disconnect(), which a disconnected one refuses and then is Connected.
P2PDisconnected(p2p) == IF p2p = "Disconnected" THEN "Connected" ELSE "Disconnected"

OpenSocket(t) ==
  /\ At(t, "open")
  /\ LET a == threads[t].adapter IN
       \/ /\ adapter' = [adapter EXCEPT ![a].socket = "Opened"]
          /\ server' = [server EXCEPT !.accepted = @ \cup {a}]
          /\ Goto(t, "launch")
          /\ UNCHANGED <<core, switcher, faults>>
       \/ /\ adapter[a].socket = "Closed" /\ MayHappen
          /\ faults' = [faults EXCEPT !.socket = @ + 1]
          /\ ConnectFail(t, [adapter EXCEPT ![a] =
               [@ EXCEPT !.p2p = P2PDisconnected(adapter[a].p2p), !.device = "Off"]], "none")
          /\ UNCHANGED server
  /\ UNCHANGED <<crashed, sender, receiver, segments, spurious>>

\* Thread.start() of a thread that was started before is an exception.
LaunchThreads(t) ==
  /\ At(t, "launch")
  /\ LET a == threads[t].adapter IN
       /\ crashed' = \/ ~sender[a].isOn /\ sender[a].pc # "new"
                     \/ ~receiver[a].isOn /\ receiver[a].pc # "new"
       /\ sender' = IF sender[a].pc = "new" THEN [sender EXCEPT ![a].pc = "starting"] ELSE sender
       /\ receiver' = IF receiver[a].pc = "new"
                      THEN [receiver EXCEPT ![a] = [pc |-> "loop", isOn |-> TRUE]] ELSE receiver
  /\ Goto(t, "active")
  /\ UNCHANGED <<core, switcher, adapter, segments, server, faults, spurious>>

ConnectDone(t) ==
  /\ At(t, "active")
  /\ adapter' = [adapter EXCEPT ![threads[t].adapter].state = "Active"]
  /\ threads' = [threads EXCEPT ![t] = NoThread]
  /\ Report(threads[t].listener, TRUE)
  /\ UNCHANGED <<crashed, sender, receiver, segments, server, faults, spurious>>

-----------------------------------------------------------------------------
(***************************************************************************)
(* DisconnectThread                                                        *)
(***************************************************************************)
\* The flags are tested before the monitor of mWaitForDisconnectAck is entered.
DisconnectRun(t) ==
  /\ At(t, "disconnect")
  /\ LET a == adapter[threads[t].adapter] IN
       threads' = [threads EXCEPT ![t] = [@ EXCEPT
         !.pc = IF a.onPurpose /\ ~a.onPurposePeer THEN "enterWait" ELSE "finish", !.old = a.state]]
  /\ adapter' = [adapter EXCEPT ![threads[t].adapter].state = "Disconnecting"]
  /\ UNCHANGED <<crashed, core, switcher, sender, receiver, segments, server, faults, spurious>>

WaitForDisconnectingOnPurposePeer(t) ==
  /\ At(t, "enterWait") /\ Goto(t, "waitPeer")
  /\ UNCHANGED <<crashed, core, switcher, adapter, sender, receiver, segments, server, faults, spurious>>

(***************************************************************************)
(* finish() of both threads.  A sender that was asleep is woken up by      *)
(* notifyAll() of the Boolean FALSE, which wakes only the senders, of      *)
(* either adapter, that wait for FALSE and not for TRUE.                   *)
(***************************************************************************)
FinishThreads(t) ==
  /\ At(t, "finish")
  /\ LET a == threads[t].adapter
         off == [sender EXCEPT ![a] = [@ EXCEPT !.isOn = FALSE, !.isSuspended = FALSE]] IN
       sender' = IF threads[t].old # "Sleeping" THEN off
                 ELSE [b \in Adapters |-> IF off[b].pc = "suspended" /\ ~off[b].monitor
                                          THEN [off[b] EXCEPT !.pc = "wakeup"] ELSE off[b]]
  /\ receiver' = [receiver EXCEPT ![threads[t].adapter].isOn = FALSE]
  /\ Goto(t, "close")
  /\ UNCHANGED <<crashed, core, switcher, adapter, segments, server, faults, spurious>>

\* wakeUpDequeueWaiting() and close(); a socket that fails to close is Closed all the same.
CloseSocket(t) ==
  /\ At(t, "close")
  /\ sender' = DequeueNotified(sender)
  /\ adapter' = [adapter EXCEPT ![threads[t].adapter].socket = "Closed"]
  /\ \/ Goto(t, "p2pDisconnect") /\ UNCHANGED faults
     \/ /\ adapter[threads[t].adapter].socket = "Opened" /\ MayHappen
        /\ faults' = [faults EXCEPT !.socket = @ + 1]
        /\ Goto(t, "fail")
  /\ UNCHANGED <<crashed, core, switcher, receiver, segments, server, spurious>>

\* Mutant: a refused disconnection is taken for a disconnection.
MutantP2PDisconnect(t) ==
  /\ At(t, "p2pDisconnect")
  /\ adapter' = [adapter EXCEPT ![threads[t].adapter] = [@ EXCEPT !.p2p = P2PDisconnected(@), !.state = "Disconnected"]]
  /\ threads' = [threads EXCEPT ![t] = [@ EXCEPT !.pc = "waitSender", !.listener = "none"]]
  /\ Report(threads[t].listener, TRUE)
  /\ UNCHANGED <<crashed, sender, receiver, segments, server, faults, spurious>>

\* P2PClient.disconnect() and its callbacks, which turn off the device and report.
P2PDisconnect(t) ==
  /\ At(t, "p2pDisconnect")
  /\ LET a == threads[t].adapter
         done == P2PDisconnected(adapter[a].p2p) = "Disconnected" IN
       /\ adapter' = [adapter EXCEPT ![a] =
            IF done THEN [@ EXCEPT !.p2p = "Disconnected", !.device = "Off", !.state = "Disconnected"]
                    ELSE [@ EXCEPT !.p2p = "Connected", !.state = "Active"]]
       /\ Report(threads[t].listener, done)
  /\ threads' = [threads EXCEPT ![t] = [@ EXCEPT !.pc = "waitSender", !.listener = "none"]]
  /\ UNCHANGED <<crashed, sender, receiver, segments, server, faults, spurious>>

\* waitUntilFinish(): nobody notifies mWaitObject from inside its monitor.
WaitUntilFinish(t) ==
  /\ At(t, "waitSender")
  /\ LET a == threads[t].adapter IN
       IF sender[a].isOn
       THEN Goto(t, "stuck") /\ sender' = [sender EXCEPT ![a].isWaiting = TRUE]
       ELSE Goto(t, "finishPurpose") /\ UNCHANGED sender
  /\ UNCHANGED <<crashed, core, switcher, adapter, receiver, segments, server, faults, spurious>>

FinishDisconnectingOnPurpose(t) ==
  /\ At(t, "finishPurpose") \/ At(t, "fail")
  /\ LET a == threads[t].adapter IN
       adapter' = [adapter EXCEPT ![a] =
         [@ EXCEPT !.onPurpose = FALSE, !.onPurposePeer = FALSE,
                   !.state = IF At(t, "fail") THEN "Active" ELSE adapter[a].state]]
  /\ threads' = [threads EXCEPT ![t] = NoThread]
  /\ Report(threads[t].listener, FALSE)
  /\ UNCHANGED <<crashed, sender, receiver, segments, server, faults, spurious>>

-----------------------------------------------------------------------------
(***************************************************************************)
(* SenderThread and ReceiverThread                                         *)
(***************************************************************************)
SenderAt(a, pc) == sender[a].pc = pc

SenderGoto(a, pc) == sender' = [sender EXCEPT ![a].pc = pc]

SenderRun(a) ==
  /\ SenderAt(a, "starting")
  /\ sender' = [sender EXCEPT ![a] = [@ EXCEPT !.pc = "loop", !.isOn = TRUE, !.isWaiting = FALSE, !.isSuspended = FALSE]]
  /\ UNCHANGED <<crashed, core, switcher, adapter, threads, receiver, segments, server, faults, spurious>>

\* The loop condition and isSuspended(); notifyFinished() of an awaited thread is an exception.
SenderLoop(a) ==
  /\ SenderAt(a, "loop")
  /\ SenderGoto(a, IF ~sender[a].isOn THEN "ended" ELSE IF sender[a].isSuspended THEN "suspend" ELSE "pop")
  /\ crashed' = (~sender[a].isOn /\ sender[a].isWaiting)
  /\ UNCHANGED <<core, switcher, adapter, threads, receiver, segments, server, faults, spurious>>

OnSuspendSender(a) ==
  /\ SenderAt(a, "suspend") /\ SenderGoto(a, "enterWait")
  /\ adapter' = [adapter EXCEPT ![a].state = "Sleeping"]
  /\ UNCHANGED <<crashed, core, switcher, threads, receiver, segments, server, faults, spurious>>

\* The sender waits for the Boolean that mIsSuspended is now.
WaitSuspended(a) ==
  /\ SenderAt(a, "enterWait")
  /\ sender' = [sender EXCEPT ![a] = [@ EXCEPT !.pc = "suspended", !.monitor = sender[a].isSuspended]]
  /\ UNCHANGED <<crashed, core, switcher, adapter, threads, receiver, segments, server, faults, spurious>>

SpuriousWakeup(a) ==
  /\ SenderAt(a, "suspended") /\ MayHappen
  /\ spurious' = spurious + 1 /\ SenderGoto(a, "wakeup")
  /\ UNCHANGED <<crashed, core, switcher, adapter, threads, receiver, segments, server, faults>>

OnWakeupSender(a) ==
  /\ SenderAt(a, "wakeup") /\ SenderGoto(a, IF sender[a].isSuspended THEN "suspend" ELSE "pop")
  /\ adapter' = [adapter EXCEPT ![a].state = "Active"]
  /\ UNCHANGED <<crashed, core, switcher, threads, receiver, segments, server, faults, spurious>>

\* popFailedSegment(), else dequeue().
TakeSegment(a) ==
  /\ SenderAt(a, "pop") \/ SenderAt(a, "woken")
  /\ IF segments.failed > 0 /\ SenderAt(a, "pop")
     THEN SenderGoto(a, "have") /\ segments' = [segments EXCEPT !.failed = @ - 1]
     ELSE IF segments.queue > 0
     THEN SenderGoto(a, "have") /\ segments' = [segments EXCEPT !.queue = @ - 1]
     ELSE SenderGoto(a, IF SenderAt(a, "woken") THEN "loop" ELSE "waiting") /\ UNCHANGED segments
  /\ UNCHANGED <<crashed, core, switcher, adapter, threads, receiver, server, faults, spurious>>

\* addFailedSegmentToList(), after which the sender of a is at pc.
AddFailedSegment(a, pc) ==
  /\ segments' = [segments EXCEPT !.failed = @ + 1]
  /\ sender' = [DequeueNotified(sender) EXCEPT ![a].pc = pc]

\* Mutant: a suspended sender drops the segment.
MutantHaveSegment(a) ==
  /\ SenderAt(a, "have")
  /\ SenderGoto(a, IF sender[a].isSuspended THEN "loop" ELSE "send")
  /\ UNCHANGED <<crashed, core, switcher, adapter, threads, receiver, segments, server, faults, spurious>>

HaveSegment(a) ==
  /\ SenderAt(a, "have")
  /\ IF adapter[a].state \in {"Disconnecting", "Disconnected"} \/ adapter[a].onPurpose \/ sender[a].isSuspended
     THEN AddFailedSegment(a, "loop")
     ELSE SenderGoto(a, "send") /\ UNCHANGED segments
  /\ UNCHANGED <<crashed, core, switcher, adapter, threads, receiver, server, faults, spurious>>

\* ClientAdapter.send(): after a failure the sender leaves its loop and mIsOn stays true.
SendSegment(a) ==
  /\ SenderAt(a, "send")
  /\ \/ /\ adapter[a].state = "Active" /\ adapter[a].socket = "Opened"
        /\ segments' = [segments EXCEPT !.sent = @ + 1]
        /\ SenderGoto(a, "loop")
        /\ UNCHANGED <<adapter, crashed, faults>>
     \/ /\ adapter[a].state = "Active" /\ adapter[a].socket = "Opened" => MayHappen
        /\ IF adapter[a].state = "Active" /\ adapter[a].socket = "Opened"
           THEN faults' = [faults EXCEPT !.socket = @ + 1] /\ adapter' = [adapter EXCEPT ![a].socket = "Closed"]
           ELSE UNCHANGED <<faults, adapter>>
        /\ AddFailedSegment(a, "ended")
        /\ crashed' = sender[a].isWaiting
  /\ UNCHANGED <<core, switcher, threads, receiver, server, spurious>>

ReceiverGoto(a, pc) == receiver' = [receiver EXCEPT ![a].pc = pc]

\* receiverThreadLoop() and receive(): a thread that is off or an adapter in another state ends it.
Receiving(a) == receiver[a].isOn /\ adapter[a].state \in {"Active", "GoingSleep", "Sleeping", "WakingUp"}

Receive(a) ==
  /\ receiver[a].pc = "loop"
  /\ ReceiverGoto(a, IF Receiving(a) THEN "read" ELSE "ended")
  /\ UNCHANGED <<crashed, core, switcher, adapter, threads, sender, segments, server, faults, spurious>>

\* The read returns with a segment, the last one if the loop then ends, or the socket is closed
\* or broken; mIsOn stays as it is.
ReadSegment(a) ==
  /\ receiver[a].pc = "read"
  /\ \/ /\ ~Receiving(a) \/ adapter[a].socket = "Closed"
        /\ UNCHANGED <<faults, adapter>>
     \/ /\ adapter[a].socket = "Opened" /\ MayHappen
        /\ faults' = [faults EXCEPT !.socket = @ + 1]
        /\ adapter' = [adapter EXCEPT ![a].socket = "Closed"]
  /\ ReceiverGoto(a, "ended")
  /\ UNCHANGED <<crashed, core, switcher, threads, sender, segments, server, spurious>>

-----------------------------------------------------------------------------
ThreadStep(t) ==
  \/ ConnectRun(t) \/ TurnOn(t) \/ P2PConnect(t) \/ OpenSocket(t) \/ LaunchThreads(t) \/ ConnectDone(t)
  \/ DisconnectRun(t) \/ WaitForDisconnectingOnPurposePeer(t) \/ FinishThreads(t)
  \/ CloseSocket(t) \/ P2PDisconnect(t) \/ WaitUntilFinish(t) \/ FinishDisconnectingOnPurpose(t)

SenderStep(a) ==
  \/ SenderRun(a) \/ SenderLoop(a) \/ OnSuspendSender(a) \/ WaitSuspended(a)
  \/ OnWakeupSender(a) \/ TakeSegment(a) \/ HaveSegment(a) \/ SendSegment(a)

HandleMessage(a) ==
  \/ PrivateMessage(a) \/ ConnectAdapterByPeer(a) \/ DisconnectAdapterByPeer(a)
  \/ AcknowledgeDisconnect(a) \/ SleepAdapterByPeer(a) \/ WakeUpAdapterByPeer(a)

Next ==
  /\ ~crashed
  /\ \/ Start \/ Stop \/ StopNext \/ Send \/ EnterReceive
     \/ \E code \in {"connect", "sleep", "wakeup", "disconnect"}, a \in Adapters : ServerCommand(code, a)
     \/ \E a \in Adapters : ServerAcknowledges(a)
     \/ \E a \in Adapters : HandleMessage(a) \/ SenderStep(a) \/ SpuriousWakeup(a) \/ Receive(a) \/ ReadSegment(a)
     \/ \E t \in Threads : ThreadStep(t) \/ WifiConnected(t)

Spec == Init /\ [][Next]_vars

(***************************************************************************)
(* The threads that connect and disconnect and the control receiver run,   *)
(* and Android reports a network that was asked for.  Nothing is assumed   *)
(* of the application, of the server and of the other threads.             *)
(***************************************************************************)
Fairness ==
  /\ WF_vars(~crashed /\ (EnterReceive \/ \E a \in Adapters : HandleMessage(a)))
  /\ \A t \in Threads : WF_vars(~crashed /\ (ThreadStep(t) \/ WifiConnected(t)))

FairSpec == Spec /\ Fairness

-----------------------------------------------------------------------------
\* The threads that may still change the adapter or report.
Working(a) ==
  {t \in Threads : threads[t].pc \notin {"none", "late", "waitSender", "finishPurpose", "stuck"} /\ threads[t].adapter = a}

(***************************************************************************)
(* An adapter is connected or disconnected by one thread at a time.        *)
(* ClientAdapter.connect() tests the state and starts a thread that        *)
(* changes it, disconnectOnPeerCommand() does not test it: it is the       *)
(* switcher's state that keeps two of them apart.  It does not when the    *)
(* application stops the core or a Wi-Fi receiver was left behind.         *)
(***************************************************************************)
OnePerAdapter == core.calls < 2 /\ faults.wifi = 0 => \A a \in Adapters : Cardinality(Working(a)) <= 1

(***************************************************************************)
(* An adapter that is Disconnected, with no thread at work on it, holds    *)
(* neither socket nor P2P connection and its device is off, however its    *)
(* connection failed or ended; except for a late Wi-Fi connection.         *)
(***************************************************************************)
DisconnectedIsReleased == core.calls < 2 /\ faults.wifi = 0 =>
  \A a \in Adapters : adapter[a].state = "Disconnected" /\ Working(a) = {} =>
    adapter[a].socket = "Closed" /\ adapter[a].p2p = "Disconnected" /\ adapter[a].device = "Off"

(***************************************************************************)
(* Every segment of the application is in the queue, in the failed list,   *)
(* with one sender or on a socket: none is lost and none is sent twice by  *)
(* sleeping, disconnecting or failing in the middle of senderThreadLoop(). *)
(* A sleeping adapter has none in the hands of its sender: sleep() leaves  *)
(* kSleeping to onSuspendSender(), at a point of the loop where the sender *)
(* holds none, and a stale kSleeping is set there too.  And types.         *)
(***************************************************************************)
SegmentsConserved ==
  LET holders == {a \in Adapters : sender[a].pc \in {"have", "send"}} IN
    /\ TypeOK
    /\ segments.written = segments.queue + segments.failed + segments.sent + Cardinality(holders)
    /\ \A a \in holders : adapter[a].state # "Sleeping"

(***************************************************************************)
(* A switch the server commanded ends: every path of the connect and       *)
(* disconnect threads, failures included, calls the listener that makes    *)
(* the switcher Ready; else every later command would be dropped.  The     *)
(* information about Wi-Fi may not come any more once the core is called.  *)
(***************************************************************************)
SwitchEnds ==
  switcher.state = "Switching" /\ core.calls < 2 ~> switcher.state = "Ready" \/ crashed \/ core.calls = 2
=============================================================================
