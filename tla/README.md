# A verification development of Virtual-Connection

Virtual-Connection carries one logical connection over several network
adapters (Bluetooth, Wi-Fi Direct) and switches between them while data flows.
The Linux side (`linux/`, C++) is the server; the Android side
(`android/app/.../sc/`, Java) is the client. This directory holds TLA+ modules
that model both sides, TLC configurations that check them on small instances,
and proofs checked by TLAPS.

## Inventory

| Component | State | Operations | What makes it correct |
|---|---|---|---|
| `SegmentQueue` | main list, pending list, expected number | `enqueue`, `dequeue` | main list continuous, pending list sorted behind a gap, assertions never fail |
| `SegmentManager` | four queues, next numbers, failed, sent and free lists, wait flag | `send_to_`/`recv_from_segment_manager`, `enqueue`, `dequeue`, failed list, retransmission, `wait_receiving` | segments neither lost nor doubled, messages whole and in order, no lost wake-up, no block used after its release |
| `ProtocolManager` | the serialized packet | `serialize`, `parse_header` | the receiver finds the message that was sent |
| `SenderThread` (one per adapter) | enabled / paused / ended flags with condition variables, last numbers | `run`, `sender_loop`, pause, resume, enable, disable | a paused thread holds nothing, every wait ends |
| `ReceiverThread` (one per adapter) | enabled flag, segment in hand | `run`, `receiver_loop` | every segment received is enqueued |
| `ServerAdapter` | state (7 values), disconnecting-on-purpose flag | connect, disconnect, sleep, wake up, send, receive | the state agrees with what its threads do and its resources are; every transitional state is left |
| `NetworkSwitcher` | Ready/Switching, `sOngoing` transaction | switch, requests of the peer | one transaction at a time, the next adapter works before the previous one stops |
| `NetworkMonitorThread`, policies | statistics, counts, mode, times | decide to switch | decisions rest on a whole series of samples, only while Ready; the adapter asked for is reached |
| `Core`, `API` | core state, adapter list, active adapter | start, stop, send, receive | a successful stop has disconnected everything |
| `ServerSocket`, `Device`, `P2PServer` and plugins | open/opening/closed, on/off, group, DHCP daemon | open, close, send, receive, allow, disallow | nothing is held by a disconnected adapter, everything by a connected one |
| `ControlMessageSender/Receiver` | receiving thread | control messages | a request is executed as sent |
| Android `SegmentManager`, `QueueWatcherThread` | queues with a pending list that is not sorted, last numbers seen | enqueue, dequeue, ask for missing segments | in order and once, although links lose and repeat segments |
| Android `Core`, `NetworkSwitcher`, `ClientAdapter` and threads | core, switcher and adapter states, suspended flag | start, stop, the server's commands, connect and disconnect threads | one thread changes an adapter, every command ends |
| Android plugins | device, P2P connection, socket | connect over Bluetooth or Wi-Fi | released when disconnected |

The components interact through shared lists under mutexes, condition
variables, callbacks called on the commanding thread, and control messages.
The behaviours that are hard to test: several adapters that feed or drain one
queue; waits that are entered once, without a loop around the condition; flags
and states that each have their own mutex, so that every pair of accesses can
be separated; the check and the assignment of the switcher state in different
steps; failures in the middle of a connection or a switch; signals. `PROJECT.json`
lists these hazards at their lines.

## Modules

| Module | Models | Composition |
|---|---|---|
| `SegmentQueue` | `core/inc/SegmentQueue.h` as operators on a record | - |
| `OrderedDelivery` | the promise of a receive queue: whole messages, in order, once | abstract specification |
| `ReceivePath` | `ReceiverThread`, receiving half of `SegmentManager`, `wait_receiving` | uses `SegmentQueue`, implements `OrderedDelivery` |
| `SendPath` | sending half of `SegmentManager`, `SenderThread`, `ServerAdapter::send`, `ServerSocket::send` | uses `SegmentQueue` |
| `Handover` | `ServerAdapter`'s commands, `NetworkSwitcher`, `NetworkMonitorThread` | extends `SendPath` |
| `CoreLifecycle` | `Core` and `API`, `ServerAdapter`'s connection and its threads' launch, `Device`, `P2PServer`, `ServerSocket` and their plugins | sleeping and waking up atomic, see `Handover` |
| `SegmentPool` | free, sent and failed lists, `deallocate_sent_segments_by_peer`, `retransmit_missing_segments_by_peer` | the queues in order, see `SendPath` |
| `Policy` | `NetworkMonitorThread` and the six policies | the switch as a transaction, see `Handover` |
| `Framing` | `ProtocolManager`, segmentation, sockets, reassembly, on both sides | the queues reduced to their promise |
| `ClientQueue` | receive queues, receiver and watcher threads of the client | - |
| `ClientSwitch` | core, switcher, adapters, threads and plugins of the client | - |
| `SegmentQueueProofs` | lemmas on `enqueue()` and `dequeue()` | used by the next two, `SegmentPoolProofs`, `ClientProofs` and `FramingProofs` |
| `ReceivePathProofs` | theorems about `ReceivePath`, among them that it implements `OrderedDelivery` | - |
| `HandoverProofs` | theorems about `SendPath` and, from their lemmas, about `Handover` | - |
| `SegmentPoolProofs` | theorems about `SegmentPool` | - |
| `CoreLifecycleProofs` | theorems about `CoreLifecycle` | - |
| `ClientProofs` | theorems about `ClientQueue` and `ClientSwitch`, which share no variable | - |
| `FramingProofs`, `PolicyProofs` | theorems about `Framing` and `Policy` | - |
| `MC*` | instances for TLC | - |

A step is a region under one mutex, or one system call. A condition variable
is the set of threads whose program counter is at its wait; `notify_all` moves
all of them on. The waits of the code are not in loops, so a woken thread goes
on. A segment is its kind (control or data) and its sequence number, except in
`Framing`, which is about payload and offsets. Sequence numbers do not wrap:
streams are shorter than 2^32 segments. The announced last numbers of a
Disconnect message do wrap (`UInt32Size`), because the peer may announce -1.

`ReceivePath`: `pc` is where a receiver thread is, with "wake" and "clear" the
two statements at the end of `check_receiving_done()` which run while the
thread still holds `mDequeueLock` but no longer `mWaitReceivingMutex`. `cpc`
is where a consumer is. "crashed" is the dereference of NULL at
`SegmentManager.cpp:175`. `errno` belongs to a thread and is never reset.
`signals` counts interrupted calls and spurious wake-ups. The
process aborts when an assertion of `enqueue()` fails; `EnqueueReceived` is
enabled only where they hold, and `AssertionsNeverFail` says that they do.
The peer is the environment: it hands each segment once to some adapter.

`SendPath`: `spc` names the statements of `run()` and `sender_loop()`. An error
of `send()` is soft (`EINTR`, `EAGAIN`) or hard; a hard one closes the socket.
A short write ends the loop in the code like a hard error does and is one here.
A caller's reserved numbers are the interval `todo`. `loopEnds` is not
initialized by the constructor and starts with either value. `SpuriousWakeup`
ends any of the un-looped waits without a notification: `dequeue()`, which then
returns no segment, and the three of `SenderThread.h:106-138`; `spurious` counts
them and `MaxSpurious` bounds them for TLC.

`Handover`: a commander is the monitor thread or the control receiver thread.
`cpc` names the statements of the operations of `ServerAdapter`; `Callback` is
where a commander continues when an operation calls its callback. The policy's
decision is nondeterministic. The wait of `wait_until_loop_ends()`
(`SenderThread.h:76-81`) is a single one too: after a spurious wake-up the
disconnection goes on while the sender is still in its loop. Devices and P2P servers are part of `OpenSocket`
and `Accept`, which may fail. `after` is the statement a thread returns to when
`done()` was called from a nested callback.

`CoreLifecycle`: two threads, the application in `start_sc()`/`stop_sc()` and
one that executes a switch or a request of the peer. Each step of
`__connect_internal()` and `__disconnect_internal()` may fail, with the clean-up
the code does there. The DHCP daemons are processes: `alive`, the pid that was
recorded, and a SIGCHLD handler that may run between any two steps; `kill_dhcpd()`
disables the daemon, tests the pid and kills in three steps. `lost` holds the
daemons whose number was overwritten while they ran, `overlap` says that a
handler that had passed its test of `sDhcpdEnabled` relaunched a daemon after
`kill_dhcpd()` had begun. Adapter
threads wait for their enable flag; `late` are those that began to run after it.
Two more variables are history: `contended` holds the adapters that a thread
went on to disconnect although the other one was already doing so, `restored`
says that the other thread failed to disconnect one during the stop.

`SegmentPool`: a block is its address and `content` what it holds; the lists are
sequences of blocks, so that a block can be in the sent and the failed list at
once. `reused` records that a block was released in use, `raced` that two
threads changed the free list together: after either, memory is undefined, and
the invariants claim nothing. The control message receiver walks over the sent
list with its lock held, one element per step (`control.at`): meanwhile senders
take, send and fail to send segments and receivers use the free list, but nobody
adds to the sent list (`SentListLocked`). Giving a block to the free list and
erasing it from the sent list is one step, since nobody else sees that list in
between. A receiver thread takes a block for each segment it reads (`Receive`) and
drops one more on a time-out, for an acknowledgement or when it means to give one
back (`LeakBlock`). The loop that shrinks the free list without its lock is two
steps, its condition and one iteration, and any use of the list in between sets
`raced`; `NumReceived` bounds the blocks that receivers take for TLC. The client may ask for every gap in front of a segment that it has
pending; its pending list is not sorted, so a gap may hold segments it has.

`Policy`: a sample is "up", "down" or "same"; `streak` is the history of the
samples of one direction. `alone` says that one monitor thread runs and no
request of the peer has interfered. Time counts in steps of the hold-off.

`Framing`: a packet is a sequence of units, each with its owner and position, so
that mixing and misplacing are visible. A socket carries pieces; an interrupted
call leaves the stream between two segments (`garbled`).

`ClientQueue`: links lose everything on them when they break; the server
sends again what the watcher asks for: its senders look into the failed list when
something wakes them (`awake`), and the request itself notifies nobody
(`SegmentManager.cpp:398-402`), so that they may wait for the next segment that
the server enqueues (`ServerEnqueue`). `steady` is the (inverted) test
`isAdaptersSwitching()`. Names that `ClientSwitch` has too (`Init`, `Next`, ...)
begin with `Receiving` here, so that one module can prove about both.

`ClientSwitch`: records per component; `threads` are the connecting and
disconnecting threads with the statements they are at; `crashed` is an exception
that nobody catches.

## Runs

| Run | Instance | Distinct states | Shows |
|---|---|---|---|
| `receive` | 2 adapters, 2 control messages (one is Disconnect), data messages of 2 and 1 segments, 1 signal or spurious wake-up | 173 k | order, no loss, no lost wake-up, refinement of `OrderedDelivery` |
| `send` | 3 callers, 2 data segments and 1 control segment, 1 error, 1 spurious wake-up | 299 k | conservation of segments, order, assertions, every segment is sent unless a sender ended on a hard error |
| `handover` | 2 adapters, 1 switch, 1 application segment, 1 send error, failing connections, 1 spurious wake-up or 1 request of the peer | 2.4 M | conservation, disconnected means idle, the next adapter is ready, the transaction exists, sleeping adapters hold nothing |
| `handover_progress` | control segments only, 1 failure, 1 switch, no spurious wake-up, no request of the peer | 29 k | wake-up, sleep and disconnection end, with the exceptions below |
| `lifecycle` | Bluetooth and Wi-Fi Direct, 1 fault, 2 commands, 2 calls, 3 daemons | 3.7 M | states and resources agree, threads serve, daemons die, stop is complete |
| `segment_pool` | 2 senders, 3 segments, 2 blocks taken by receivers, 2 messages of the client, any losses, threshold 1, senders interchangeable | 6.2 M | nothing lost, lists sound, retransmission finds its segments |
| `policy` | 6 policies, 1 monitor, 2 adapters, thresholds 2, hold-off 2, 2 events, 1 request of the peer and 1 failed switch, two of the three at most | 516 k | switches are justified, the next adapter exists, mode and adapter agree, the choice is reached |
| `framing` | control message of 1 segment, data messages of 1 and 3 segments, 2 pieces, 1 interrupt, offsets modulo 4 | 694 k | undisturbed messages arrive, whole and once |
| `client_receive` | 2 links of length 1, 4 segments, 1 loss, 2 copies | 244 k | in order and once, no lost wake-up, pending segments are delivered |
| `client_switch` | 2 adapters, 3 threads, 2 calls, 4 events | 630 k | one thread per adapter, disconnected means released, conservation, switches end |
| `segment_pool_released` | as `segment_pool` | - | a violation, below |
| `policy_peer` | manual policy, 2 adapters, 1 event, 1 request of the peer | - | a violation, below |

Why the bounds are enough. Two adapters are what the system has. Three data
segments are the fewest that put two of them out of order in a pending list;
two callers of one kind are the fewest that enqueue out of order; a message of
three segments is the shortest with one in the middle. One switch passes every
statement of the transaction; one request is enough to interfere with it. One
spurious wake-up shows what each single wait lets through, since none of them is
entered again by the thread that it woke. One
fault reaches every error path; two commands and two calls bring an adapter up,
down and up again next to another one. Three daemons are the first one, one that
is relaunched and one of the next connection. Four segments leave
three of them pending behind a lost one, in any order. Two copies of a segment in
the pending queue and on the links are a repetition. Two messages of the client
are a retransmission and a release while it is being walked through or sent. Two
blocks taken by receivers are one that is used and one that leaks. Senders are
interchangeable there (`Symmetry`): a sender is nothing but an index of `sender`,
no property names one, and none is a liveness property. Offsets
modulo 4 wrap within the longest message, and the other two do not.

Every module's type invariant is checked by its run, on its own (`receive`) or
as the first conjunct of an invariant.

`CHECK_DEADLOCK FALSE` is set because the system may rest: everything is
received, or sent, and all threads wait.

### The violations

`segment_pool_released`: `deallocate_sent_segments_by_peer()` releases a block
that `retransmit_missing_segments_by_peer()` has put in the failed list, where a
sender will take it. The comment at `SegmentManager.cpp:379` speaks of a segment
"which is not further used".

`policy_peer`: a request of the peer ends with `set_state(kNSStateReady)`
(`NetworkSwitcher.cpp:87`) in the middle of a switch, so that the monitor thread
decides meanwhile. `increase_adapter()` tests the active index and reads it
again (`NetworkMonitorThread.cpp:172`, `:182`); the switch ends in between, and
with two adapters the index of the next one is 2, on which
`assert(index < this->mAdapters.size())` (`Core.h:204`) aborts the process.
`AdapterExists` states when it does not.

### Where the code departs from what one would expect

The models contain the following, and the properties are stated around them,
with the condition that excludes them written in the property.

Receiving: `check_receiving_done()` compares by `>=` and so ends the wait one
segment early (`RemainingSegmentsReceived` is stated up to that). A stale
`errno` discards segments after a signal (`NoSegmentDiscarded`).
`wait_receiving()` does not test before it waits, so that it never ends when the
last segment came before. After a send error the last number a sender
records may go back.

Single waits: a spurious wake-up of `wait_until_loop_ends()` sets an adapter
Disconnected while its sender is still in its loop, and one of the other waits of
`SenderThread.h` sends a paused or disabled sender on, so that
`DisconnectedSenderIdle` and `NextAdapterReady` are stated while none has come
and `SleepEnds` and `DisconnectEnds` are checked without any. What they do not
break is the conservation of segments and what a Sleeping adapter means.

Switching: the notification of `sleep()` is lost when the sender is between its
test and its wait (`SleepEnds`); a sender resumed for a disconnection waits for
a segment first (`DisconnectEnds`); a sender that has a segment in hand polls
for its adapter to be Active and does not look at the pause flag
(`ServerAdapter.cpp:431-434`); nobody is notified of a failed segment, so that a
segment that the client lacks may wait for ever at a server that enqueues nothing
more (`PendingIsDelivered` is stated for one that does).
`PeerRequest` and `PeerSetSwitching` are two steps and `SwitchAdapters` makes no
check, so that a request of the peer and a switch run together; then the
callback of `sleep()` runs twice and finds no transaction, and
`DisconnectedSenderIdle` and `NextAdapterReady` fail, which is why they are
stated until a request has come. A disconnection by the peer leaves the switcher
Switching for ever.

Life cycle: two threads may disconnect one adapter (`contended`). A `stop_sc()`
that runs together with a disconnection of the other thread does not count its
adapter; if that disconnection fails, the adapter is Sleeping again, may be
visited and is subtracted from the count, and the stop succeeds with a counted
adapter still connected (seen from three commands on; `StopIsComplete` excludes
it by `restored`, while the comment at `Core.cpp:326` says that all adapters are
checked).
After a broken link or a failed `accept()` the listening socket stays open. A
failed `allow_discover()` leaves group and daemon. The number of a DHCP daemon is
overwritten when another one is forked: daemon 1 is recorded, `get_p2p_info()`
fails, the next connection forks daemon 2, and the disconnection kills only that
one; the same after a relaunch by the SIGCHLD handler. The handler may also
have passed its test of `sDhcpdEnabled` before `kill_dhcpd()` resets it, and
relaunch after the kill. `DhcpdEndsWithGroup` says that these are the only daemons that outlive the
last group. If the handler clears `sDhcpdPid` between the test and the kill of
`WfdP2PServer.cpp:276-281`, the call is `kill(0, SIGKILL)`, which ends the process
group; the model ends there. `stop_sc()` refused
while idle sets Ready, `start_sc()` refused sets Idle; a failed start never
reports, so that the caller hangs; a thread that is launched late misses the
enable.

Policies: with three adapters they never return from the middle one; `start()`
soon after `stop()` leaves two monitor threads; the mode changes even if the
switch fails. The comment at `NMPolicyHistoryBased.cpp:99` says that there is no
decision in the prediction window after a switch. Two ways around it are in the
code and in the model: a time of the latest switch with 0 microseconds reads as
not set (`:99-100`), and an event of the application resets that time, without a
lock, also while `decide()` is between its reads. Nothing is stated about the
window, since nothing beyond the test itself is left of it. The counts of the
throughput-aware policy survive when it decides while a switch is under way,
which a request of the peer or a second monitor thread makes possible; the next
series of the other direction is then shorter (`SwitchIsJustified` excepts it).
A request of the peer can make the monitor abort the process (`policy_peer`).

Memory: the receiver thread pops a second block where it means to give one back
and drops the one it has on a time-out and for an acknowledgement
(`received.leaked`); the free list is shrunk without its lock (`raced`).

Framing: SIGCHLD is handled without `SA_RESTART`, so that a system call stops in
the middle of a segment; the offset of reassembly is a `uint16_t` (`Fits`); the
client's serialized packet is static and its next number unlocked, so that
concurrent calls mix (`overlapped`).

Client: every wake-up notifies a monitor it does not own, an exception;
`Thread.start()` twice crashes at the second connection; commands that arrive
while it switches are dropped; threads are started before the adapter is Active
and may end at once; the Wi-Fi receiver stays registered after a time-out.

### Fairness

Weak fairness of every thread: a thread that can run does. Nothing is assumed
of signals, of spurious wake-ups, of the peer's requests, of applications or of
the policy. `HandoverFairness` also lets `accept()` return, successfully or
not. Mutexes are held for one step only, or, in `ReceivePath`, for the two
steps "wake" and "clear", so weak fairness is enough. In `ClientQueue` the
watcher wakes up every second and looks at a state that changes, so it is
strongly fair; so is a sender of the server that does not wait and has a failed
segment to take and room on its link, since it takes the oldest first. That it
does not wait is not assumed: nothing is said of what the server enqueues, and
`PendingIsDelivered` has as its premise that it enqueues something again and
again, without which it is false. In `ClientSwitch`
Android's broadcast about Wi-Fi comes some time. `Policy` is fair to the
monitor thread and to a switch under way, `Framing` to every caller, sender and
receiver; neither to interrupts and failures.

## Proofs

TLAPS proves the following for every value of the constants that satisfies the
assumption of the module: any adapters, callers, streams, links, thresholds,
failures, signals and spurious wake-ups.

| Theorem | States | Module |
|---|---|---|
| `TypeCorrect` | `Spec => []TypeOK` | `ReceivePathProofs` |
| `ReceiveQueuesInOrder` | `Spec => []QueuesInOrder` | |
| `ReceiveAssertionsHold` | `Spec => []AssertionsNeverFail` | |
| `ReceiveDiscardsNothing` | `Spec => []NoSegmentDiscarded` | |
| `DisconnectionWaitsForSegments` | `Spec => []RemainingSegmentsReceived` | |
| `ReceivePathIsOrderedChannel` | `Spec => IsOrderedChannel` (refinement of `OrderedDelivery`) | |
| `SendConservesSegments` | `Spec => []SegmentsConserved`, of `SendPath` | `HandoverProofs` |
| `SendKeepsQueuesInOrder` | `Spec => []SendQueuesInOrder` | |
| `SendAssertionsHold` | `Spec => []SendAssertionsNeverFail` | |
| `HandoverConservesSegments` | `HandoverSpec => []SegmentsConserved` | |
| `HandoverAssertionsHold` | `HandoverSpec => []SendAssertionsNeverFail` | |
| `SleepersHoldNothing` | `HandoverSpec => []SleepingHoldsNothing` | |
| `SwitchLeavesSenderIdle` | `HandoverSpec => []DisconnectedSenderIdle` | |
| `SwitchIsSeamless` | `HandoverSpec => []NextAdapterReady` | |
| `ConnectedIsBacked` | `Spec => []ActiveIsBacked` | `CoreLifecycleProofs` |
| `ConnectedIsServed` | `Spec => []ActiveIsServed` | |
| `ReleasedOnDisconnect` | `Spec => []DisconnectedIsReleased` | |
| `DaemonEndsWithGroup` | `Spec => []DhcpdEndsWithGroup` | |
| `StopDisconnectsAll` | `Spec => StopIsComplete`, an action property | |
| `SegmentsKept` | `Spec => []NothingLost` | `SegmentPoolProofs` |
| `ListsAreSound` | `Spec => []ListsSound` | |
| `AskedForIsSent` | `Spec => RetransmittedIsSent`, an action property | |
| `ClientReceivesInOrder` | `ReceivingSpec => []ReceivedInOrder` | `ClientProofs` |
| `ClientWakeupsArrive` | `ReceivingSpec => []NoLostWakeup` | |
| `OneThreadPerAdapter` | `Spec => []OnePerAdapter`, of `ClientSwitch` | |
| `DisconnectedReleases` | `Spec => []DisconnectedIsReleased` | |
| `ClientConservesSegments` | `Spec => []SegmentsConserved` | |
| `MessagesIntact` | `Spec => []MessageIntact` | `FramingProofs` |
| `SwitchesAreJustified` | `Spec => SwitchIsJustified`, an action property | `PolicyProofs` |
| `NextAdapterExists` | `Spec => []AdapterExists` | |
| `ModeFollowsActive` | `Spec => []ModeIsActive`, if `AdapterCount = 2` | |

One theorem has a hypothesis beside the assumption of its module.
`ModeIsActive` compares a flag with an index: with one adapter the flag is never
set, and from three on the middle adapter is neither value. Two are what the
system has. Conditions on what has happened in a behaviour (no request of the
peer has come, nobody overlapped) are written in the properties.

### The queue

`SegmentQueueProofs`: the insertion position and the length of the drained run
exist (`InsertPositionProperties`, `DrainLengthProperties`, by the least element
of a set of naturals), the insertion keeps the list sorted and adds one element
(`InsertPendingSorted`), the draining loop leaves a gap (`BeyondRun`), and
`enqueue()` keeps the queue in order and accepts exactly its argument
(`EnqueueInOrder`). A queue in order that has not accepted `n` has neither passed
it nor has it pending (`NotAccepted`), which is what the assertions ask.

### Receiving

The inductive invariant `IInv` is the type invariant, the order of the queues and
`OnePlace`: a segment is on the network, in one thread's hand or accepted by the
queue, never in two of these. `OnePlace` makes the assertions hold. `DeliveryInv`
adds that nothing was dropped while no signal has come, and `WaitSound`: what a
thread that found the announced numbers received, on its way from the test to
the wake-up, knows of the queues is still so when the commander goes on, since
the expected number never decreases.

The refinement maps the set of arrived segments to what the queue has
accepted. Two more conjuncts make the invariant (`RInv`) strong enough: only
segments that the peer sends are on the network and in hands (`InRange`), and
the buffer of a consumer holds exactly the segments between the last message
returned and the head of the queue, none of which ends a message (`Buffered`).
Then `enqueue()` is an arrival, taking the segment that ends a message is its
delivery, and every other step is a stutter (`StepRefines`). A segment that a
stale `errno` discards leaves a gap that no later message crosses: it is a loss,
never a reordering.

### Sending and switching

`SegmentsConserved` counts the places of a segment and is not inductive. `SendInv`
says the same place by place: `Upstream`, a number is reserved by one caller or
accepted by the queue; `Downstream`, what has left the queue is at one position
of the failed list, in one hand or sent by one adapter, and nothing else is. Each
step moves a segment over one of these borders; the set of owners is then a
singleton. `Upstream` also gives the assertions.

The commands of `Handover` touch the same senders, so that its proofs reuse the
lemmas on `SendPath` and need one on commands: they change flags and notify
waiting threads, and change no owner (`NotifiesKeeps`). `HandoverInv` adds the
types of the commands and `SleeperWaits`: a Sleeping adapter's sender is in
`wait_until_resume_loop()` or on its way out. It holds for any requests and spurious wake-ups.

`SoloInv` holds while the system is `Undisturbed`, that is, until the first
spurious wake-up or request of the peer, for any number of switches, adapters,
callers, errors and segments: `AdapterSound` relates an adapter's
state, flags and sender; `TargetSound` and `MonitorSound` say for every statement
of the switching thread what it has established about the adapter it works on,
the previous and the next one. It has one lemma for each statement of the
commands and for each step of a sender.

### The life cycle

`LInv`, of which all five theorems follow, has ten parts; TLC checked it on the
instance of `lifecycle` first. `Exclusive` is what the others rest on: a thread
that connects or disconnects an adapter is alone at it, and the adapter's state
says which of the two, because `connect()` begins only when it is Disconnected
and `disconnect_on_command()` only when it is Sleeping. The code tests the state
and changes it in two steps, so it holds only for adapters that are not
`contended`. Then `ResourcesSound` can say for every statement of a thread what
its adapter holds (`ConnectSound`, `DisconnectSound`) and for an adapter at rest
what its state means (`AdapterSound`).

`RegisteredSound` and `LoopsSound`: only registered adapters are connected, and a
thread that has not begun to run belongs to an adapter that is not yet Active.
`DhcpdSound`: daemons have numbers in the order of their forks (`DhcpdNumbers`);
one that runs and is not `lost` has its number recorded, or whoever forked it is
about to record it (`DhcpdKnown`); and what is recorded and runs has a group that
nobody has begun to remove, or a thread on its way to kill it (`DhcpdBacked`), as
long as the handler relaunched none after the reset of `sDhcpdEnabled`.

`CoreSound` says where `stop_sc()` is when the Core is Stopping, and `CountSound`
that the count is the number of counted adapters that it has not disconnected.
The latter needs that only counted adapters are Sleeping while it visits them,
and this is what a failed disconnection of the other thread breaks.
`CountBounded` bounds the count by the number of registered adapters, which is
what its type needs.

### The segment pool

All three theorems follow from `PInv`, which TLC checked on the instance of
`segment_pool` first. Its parts:

- `HeapBounded`: no more blocks are allocated than segments were written and
  blocks taken by receivers, used or leaked. So `pop_free_segment()` always finds
  a new block.
- `BlocksSound`: the blocks that sending still needs hold different segments, each
  of which was written, and the sent list is ascending. A segment is in one block,
  though that block may be in the sent list and several times in the failed list;
  so adding it to the sent list again finds it there.
- `MemorySound`: the free list has its counted length, each block once, all of
  them allocated, and none of those that a list, a sender or the application uses.
- `ClientSound`: the client acknowledges only what it has, asks only for what was
  written, and so do its messages in the inbox and the one under way. What is
  released is therefore something the client has.
- `WalkSound`: what the walk of a retransmission has passed and was asked for is
  in the failed list or with a sender. A sender that is done with a segment adds it
  to the sent list, and that list is locked; a sender that fails gives it back.
- `SendersSound`, and `NothingLost` itself.

`BlocksSound`, `WalkSound` and `NothingLost` hold until a block was `reused`;
`MemorySound` also until two threads have `raced`. The position at which
`add_sent_segment_to_list()` stops exists by the least element of a set of
naturals, as in the queue. For thresholds greater than 1 the counted size of the
free list is bounded by nothing once a block was released in use, so that its type
is `Nat`; the invariants bound it before.

### The client's queue

`enqueue()` of the client walks a list that is not sorted while it removes from
it. `Drain` is a recursive function, and what it keeps (`WalkSound`) is shown by
its least counterexample, as the library's induction theorems cannot be used.
`QueueInv` is the type invariant, the order of taken and queued segments,
`PendingTyped` and `NoLostWakeup` itself: the segment is added and the notification
is pending in one synchronized block, and the test and the wait of `dequeue()`
are another.

### The client's threads

`SwitchInv` is the type invariant; `Conserved`, the count of the segments with the
two senders' hands; `SleeperWaits`, as on the server; and `ThreadInv`. The latter
is what keeps the threads of an adapter apart, although
`disconnectOnPeerCommand()` tests no state. `OneThread`: until the start has
succeeded nobody receives commands, and from then on the switcher is Switching
while a thread works; it is Ready again only in the step in which the thread
reports. `Reported`: a thread that waits for the sender's end has reported, so
that its own end makes nothing Ready. `ResourcesSound`: for every statement of a
thread what it knows of its adapter's socket, P2P connection and device, which no
other thread can change but for breaking the socket, and that an adapter at rest
and Disconnected holds none of them.

`OneThread` and `ResourcesSound` are stated while the application has called the
core at most once and no Wi-Fi receiver was left behind: a stop starts
disconnecting threads without the switcher, and a left-behind receiver comes back
to life beside other threads. Conservation needs neither condition.

### Framing

`MessageIntact` relates what `receive()` returns to what callers of `send()` meant,
over two queues, a socket that cuts segments into pieces, and a reassembly that
knows only sequence numbers and the flag `mf`. `FInv`, which TLC checked on the
instance of `framing` first, follows a message on this way:

- `SendSound`, unless calls of the client overlap: a caller serializes its own
  packet; the number at which a packet ends is the next one free or the first of
  another packet, and packets share no number (`NumbersSound`); a segment in the
  send queue is the piece of its caller's packet that its number says. The cuts
  are the multiples of the segment size and the end of the packet (`End`), so that
  a caller's offset determines how many segments it has cut off.
- `CarriedSound`: what has left the send queue was in there, wherever it is now,
  and nothing is taken from a receive queue that was not taken from the send queue.
- `PipeSound`, until a call is interrupted: the read and the unread pieces are,
  one after the other, those of whole segments.
- `ReassemblySound`, unless calls overlap: the next number to be taken is the first
  of a packet and no message is under reassembly, or it is inside a packet, whose
  message has been filled up to that cut and no further; what was returned are
  messages all of whose segments were taken. That no message is returned twice
  follows, since a packet ends at the number that completes it.

The last one needs `Fits`: beyond `OffsetModulus` units, which is 2^16 in the
code, the offset wraps around. The segment taken with a number is the one cut
off for it (`SendSound`), whichever way it came (`CarriedSound`); the flag `mf`
and its length then lead to the next cut.

### The policies

A request is justified only because of what several samples before it left
behind. `PolicyInv` is `Remembered` (types; `SerialSound`: a series that the
history-based policy has counted was seen, whoever decides at the same time),
`PredictSound`, and, as long as one monitor is alone and no request of the peer
has come, `AloneSound`: a switch under way keeps the switcher's state
(`SwitchSound`), counts are of the possible direction and were seen, and there
are none while a switch is under way (`CountSound`), and for every statement of the
monitor what it has read is still so (`MonitorSound`): the index read twice is the
same, so that `get_adapter()` finds its adapter. For the history-based policy
`SwitchIsJustified` needs only `Remembered`, and the policies that ask on every
sample need nothing; the throughput-aware one needs `CountSound`. `ModeSound`, for two adapters, says which
adapter the recorded mode means while the request travels from the policy to the
end of the switch.

### Only model-checked

The liveness properties (`DataConsumed`, `EventuallySent`, `WakeUpEnds`,
`SleepEnds`, `DisconnectEnds`, `PendingIsDelivered`, `SwitchEnds`, `ModeIsReached`,
`IdleReturns`, `EverythingArrives`), which are out of the prover's reach. Every other property
that a run expects to hold is stated by a theorem.

## Not modelled, and the plan

Not modelled: the energy predictor (floating point over a table of
measurements; `Policy` lets the comparison it is used for come out either way); the counters (real time); the
shell commands behind the devices, which here succeed or fail; the logging
threads; the CSV parser (third-party); the test programs, the trace player and
the Android test application, which drive the system. On the client, the
acknowledgements its receiver thread writes to the socket of the sender thread
(whether two writes mix is up to Android's sockets), the Wi-Fi Direct discovery,
which `mIsUseP2P` switches off, and `reconnectAdapter()`, which nobody calls.

Where a model is coarser than the code. Nothing is stated of what happens after
the process has aborted or memory has become undefined (`crashed`, `raced`,
`reused`): `SegmentPool` stops where two threads use the free list at once.
`ReceivePath` ends with the first wait before a disconnection: a thread that is
still between the wake-up and the clearing of the flag
(`SegmentManager.h:225-227`) could end a second one early. `CoreLifecycle` has no
spurious wake-up of the waits that `Handover` has them for. In `Policy` a call of
`decide()` reads and writes the counters of its policy in one step, except where
an event of the application can come in between; two monitor threads
do not lose increments of each other there. The client's control messages are taken to arrive,
and the static packet of the client is interleaved in `Framing` only. The return
of `WfdP2PClient` when there is no `WifiManager` (`WfdP2PClient.java:245`), which
reports nothing, is left out: Android has that service.

Every item of the plan is done. What could follow: the acknowledgements on the
client with the round-trip times that the server takes from them, and the
liveness properties by hand-written ranking arguments, should the prover learn
to handle fairness.
