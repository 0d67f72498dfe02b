-------------------------------- MODULE Policy --------------------------------
(***************************************************************************)
(* The decision to switch: the monitor thread, which every 100 ms shows    *)
(* the statistics to the policy and carries out what it answers, and the   *)
(* six policies.  The switch itself is in module Handover; here it is a    *)
(* transaction that succeeds or fails some time later on another thread.   *)
(*                                                                         *)
(* Nothing but the switcher's state keeps a decision and a switch apart,   *)
(* and the requests of the peer write that state too.  The application     *)
(* calls the policy from a thread of its own, without a lock.              *)
(*                                                                         *)
(* Time is counted in steps of the hold-off; statistics are reduced to     *)
(* what the test that reads them makes of them: "up" (the queue is long,   *)
(* the media bandwidth high or rising), "down" (the bandwidth low or       *)
(* falling) or "same".                                                     *)
(***************************************************************************)
EXTENDS Integers, Sequences

CONSTANTS
  Monitors,       \* threads that start() can launch
  AdapterCount,   \* registered adapters: 0 is Bluetooth, the last Wi-Fi Direct
  Policies,       \* the policies to choose from
  IncreaseCount,  \* INCREASE_COUNT_THRESHOLD of NMPolicyThroughputAware
  DecreaseCount,  \* DECREASE_COUNT_THRESHOLD of NMPolicyThroughputAware
  SpeedCount,     \* INC_COUNT_THRESHOLD and DEC_COUNT_THRESHOLD
  SerialCount,    \* SERIAL_INC_COUNT_THRESHOLD and SERIAL_DEC_COUNT_THRESHOLD
  HoldOff,        \* PREDICTION_WINDOW_SEC / 2
  Apps, BgApp,    \* foreground applications, and the one in the background
  Types,          \* event types
  Table,          \* <<application, type>> pairs of the TrafficHistoryTable
  HistoryEvents,  \* events for NMPolicyHistoryBased: <<application, type>>,
                  \* where the type may be left out (NoType), or <<>>
  MaxEvents,      \* bound: custom events
  MaxRequests,    \* bound: requests of the peer
  MaxFailures,    \* bound: failed or refused switches
  MaxDisturbances \* bound: all three together

NoApp == "none"
NoType == 99
AllPolicies ==
  {"wfdOnly", "btOnly", "throughput", "manual", "appManual", "history"}

ASSUME PolicyAssumption ==
  /\ AdapterCount \in Nat \ {0}
  /\ Policies \subseteq AllPolicies
  /\ {IncreaseCount, DecreaseCount, SpeedCount, SerialCount, HoldOff}
       \subseteq Nat \ {0}
  /\ NoApp \notin Apps \cup {BgApp} /\ BgApp \notin Apps
  /\ 0 \in Types /\ NoType \notin Types
  /\ Table \subseteq (Apps \cup {BgApp}) \X Types
  /\ HistoryEvents
       \subseteq ((Apps \cup {BgApp}) \X (Types \cup {NoType})) \cup {<<>>}
  /\ {MaxEvents, MaxRequests, MaxFailures, MaxDisturbances} \subseteq Nat

VARIABLES
  policy,     \* mPolicy
  on,         \* mMonitorThreadOn
  pc,         \* where each monitor thread is
  call,       \* the locals of its call of check_and_decide_switching()
  active,     \* mActiveAdapterIndex of the Core
  ns,         \* NSState of the NetworkSwitcher
  switch,     \* SwitchAdapterTransaction::sOngoing
  peer,       \* what the peer's command makes the receiver thread do
  connecting, \* ConnectRequestTransaction::sOngoing is not NULL
  mode,       \* mWFDMode, mIsRecentWfdOn or mIsAppStarted of the policy
  count,      \* the policy's counts of samples in a series
  serial,     \* mSerialIncCount and mSerialDecCount
  fgApp, fgType, bgType,  \* mPresentFGAppName, mPresent[FB]GEventType
  recent,     \* ticks since mRecentSwitchTS, or Unset
  event,      \* the custom event being handled
  events, requests, failures,  \* numbers of them so far
  alone,      \* no request of the peer and one monitor thread so far
  streak      \* the latest verdict on a sample, and how often in a row; the
              \* throughput-aware policy starts again after a request

monitorVars == <<on, pc, call>>
switchVars == <<active, ns, switch, peer, connecting>>
policyVars == <<mode, count, serial, fgApp, fgType, bgType, recent, event>>
ghosts == <<events, requests, failures, alone, streak>>
vars == <<policy, monitorVars, switchVars, policyVars, ghosts>>

Unset == -1

\* The statistics, is_increasable, is_decreasable, fgAppEntry, what the policy
\* answered and prev_index
Calls == [load : {"up", "down", "same"}, inc : BOOLEAN, dec : BOOLEAN,
          app : Apps \cup {NoApp},
          behavior : {"none", "up", "down"}, prev : 0..AdapterCount - 1]
NoCall == [load |-> "same", inc |-> FALSE, dec |-> FALSE, app |-> NoApp,
           behavior |-> "none", prev |-> 0]

NoSwitch == [phase |-> "none", next |-> 0]
NoStreak == [of |-> "none", length |-> 0]

\* The longest series of equal verdicts a policy asks for
SeriesLength ==
  LET longest == {IncreaseCount, DecreaseCount, SerialCount + 1}
  IN CHOOSE n \in longest : \A k \in longest : k <= n

\* Custom events a policy may be sent
Events ==
  CASE policy = "appManual" ->
         {"1-newsbriefing", "2-remotecamera", "3-navermap", "4-webbrowsing", ""}
    [] policy = "history" -> HistoryEvents
    [] OTHER -> {"wfd", "bt", ""}

\* Types of the state of the policies, of NetworkMonitorThread and NetworkSwitcher
TypeOK ==
  /\ policy \in Policies
  /\ on \in BOOLEAN
  /\ pc \in [Monitors -> {"off", "loop", "check", "inc", "dec", "decide",
       "predict", "recheck", "read", "switch", "run", "aborted"}]
  /\ call \in [Monitors -> Calls]
  /\ active \in 0..AdapterCount - 1
  /\ ns \in {"ready", "switching"}
  /\ switch \in [phase : {"none", "running", "done", "ready"},
                 next : 0..AdapterCount - 1]
  /\ peer \in {"none", "connect", "sleepOrWakeUp", "disconnect", "ready"}
  /\ connecting \in BOOLEAN
  /\ mode \in BOOLEAN
  /\ count \in [{"up", "down"} -> Nat]
  /\ serial \in [{"up", "down"} -> 0..SerialCount]
  /\ fgApp \in Apps \cup {NoApp} /\ fgType \in Types /\ bgType \in Types
  /\ recent \in {Unset} \cup 0..HoldOff
  /\ event.at \in {"none", "name", "type", "reset"}
  /\ events \in 0..MaxEvents /\ requests \in 0..MaxRequests
  /\ failures \in 0..MaxFailures
  /\ alone \in BOOLEAN
  /\ streak \in [of : {"up", "down", "none"}, length : 0..SeriesLength]
  \* a count that reaches its threshold is a request, and starts again
  /\ policy = "throughput" => /\ count["up"] < IncreaseCount
                              /\ count["down"] < DecreaseCount
  /\ policy = "history" => count["up"] = 0 \/ count["down"] = 0

Zero == [d \in {"up", "down"} |-> 0]

Init ==
  /\ policy \in Policies
  /\ on = FALSE
  /\ pc = [m \in Monitors |-> "off"]
  /\ call = [m \in Monitors |-> NoCall]
  /\ active = 0
  /\ ns = "ready"
  /\ switch = NoSwitch
  /\ peer = "none"
  /\ connecting = FALSE
  /\ mode = FALSE
  /\ count = Zero /\ serial = Zero
  /\ fgApp = NoApp /\ fgType = 0 /\ bgType = 0
  /\ recent = Unset
  /\ event = [at |-> "none", what |-> <<>>]
  /\ events = 0 /\ requests = 0 /\ failures = 0
  /\ alone = TRUE
  /\ streak = NoStreak

MayHappen(n, max) == n < max /\ events + requests + failures < MaxDisturbances

Go(m, label) == pc' = [pc EXCEPT ![m] = label] /\ UNCHANGED call

\* The same, with c as the locals of the call
GoWith(m, label, c) ==
  pc' = [pc EXCEPT ![m] = label] /\ call' = [call EXCEPT ![m] = c]

\* The call returns
Return(m) == GoWith(m, "loop", NoCall)
-------------------------------------------------------------------------------
(* The monitor thread *)

\* start(): sets the flag and launches a thread, whether or not the thread of
\* an earlier start() has already seen the flag of stop()
Start ==
  /\ ~on
  /\ \E m \in Monitors :
       /\ pc[m] = "off"
       /\ Go(m, "loop")
  /\ on' = TRUE
  /\ alone' = (alone /\ \A m \in Monitors : pc[m] = "off")
  /\ UNCHANGED <<policy, switchVars, policyVars, events, requests, failures,
                 streak>>

\* stop(): the thread ends when it comes back to the test of its loop
Stop ==
  /\ on
  /\ on' = FALSE
  /\ UNCHANGED <<policy, pc, call, switchVars, policyVars, ghosts>>

\* The test of the loop, and stats.acquire_values()
Sample(m) ==
  /\ pc[m] = "loop"
  /\ IF on
       THEN \E l \in {"up", "down", "same"} :
              GoWith(m, "check", [NoCall EXCEPT !.load = l])
       ELSE Go(m, "off")
  /\ UNCHANGED <<policy, on, switchVars, policyVars, ghosts>>

\* Mutant: the state of the switcher is not tested
MutantCheckReady(m) ==
  /\ pc[m] = "check"
  /\ Go(m, "inc")
  /\ UNCHANGED <<policy, on, switchVars, policyVars, ghosts>>

\* No decision while the switcher is switching
CheckReady(m) ==
  /\ pc[m] = "check"
  /\ IF ns = "ready" THEN Go(m, "inc") ELSE Return(m)
  /\ UNCHANGED <<policy, on, switchVars, policyVars, ghosts>>

IsIncreaseable == AdapterCount > 1 /\ active < AdapterCount - 1
IsDecreaseable == AdapterCount > 1 /\ active > 0

\* The two conditions are read one after the other
CheckIncreaseable(m) ==
  /\ pc[m] = "inc"
  /\ GoWith(m, "dec", [call[m] EXCEPT !.inc = IsIncreaseable])
  /\ UNCHANGED <<policy, on, switchVars, policyVars, ghosts>>

CheckDecreaseable(m) ==
  /\ pc[m] = "dec"
  /\ GoWith(m, "decide", [call[m] EXCEPT !.dec = IsDecreaseable])
  /\ UNCHANGED <<policy, on, switchVars, policyVars, ghosts>>

\* The streak after one more verdict
Longer(vote) ==
  [of |-> vote,
   length |-> IF streak.of # vote THEN 1
              ELSE IF streak.length < SeriesLength THEN streak.length + 1
              ELSE SeriesLength]

\* The policy answers b to a sample on which its verdict is vote
Answer(m, b, vote) ==
  /\ IF b = "none"
       THEN Return(m)
       ELSE GoWith(m, "recheck", [call[m] EXCEPT !.behavior = b])
  /\ streak' = IF policy = "throughput" /\ b # "none" THEN NoStreak ELSE Longer(vote)

\* increase_adapter() and decrease_adapter() check the condition again
Recheck(m) ==
  /\ pc[m] = "recheck"
  /\ IF IF call[m].behavior = "up" THEN IsIncreaseable ELSE IsDecreaseable
       THEN Go(m, "read")
       ELSE Return(m)
  /\ UNCHANGED <<policy, on, switchVars, policyVars, ghosts>>

\* ... and then read the active index once more
ReadIndex(m) ==
  /\ pc[m] = "read"
  /\ GoWith(m, "switch", [call[m] EXCEPT !.prev = active])
  /\ UNCHANGED <<policy, on, switchVars, policyVars, ghosts>>

\* switch_adapters() sets the state without testing it
SwitchAdapters(m) ==
  /\ pc[m] = "switch"
  /\ ns' = "switching"
  /\ Go(m, "run")
  /\ UNCHANGED <<policy, on, active, switch, peer, connecting, policyVars,
                 ghosts>>

NextIndex(m) ==
  IF call[m].behavior = "up" THEN call[m].prev + 1 ELSE call[m].prev - 1

\* SwitchAdapterTransaction::run(): refused while another one is under way;
\* otherwise start() takes the next adapter with get_adapter(), which asserts
\* that the index is one of an adapter
RunSwitch(m) ==
  /\ pc[m] = "run"
  /\ IF switch.phase # "none"
       THEN /\ ns' = "ready"
            /\ MayHappen(failures, MaxFailures) /\ failures' = failures + 1
            /\ Return(m)
            /\ UNCHANGED switch
       ELSE /\ IF NextIndex(m) \in 0..AdapterCount - 1
                 THEN /\ switch' = [phase |-> "running", next |-> NextIndex(m)]
                      /\ Return(m)
                 ELSE Go(m, "aborted") /\ UNCHANGED switch
            /\ UNCHANGED <<ns, failures>>
  /\ UNCHANGED <<policy, on, active, peer, connecting, policyVars, events,
                 requests, alone, streak>>
-------------------------------------------------------------------------------
(* The policies *)

\* NMPolicyWfdOnly::decide()
WfdOnlyDecide(m) ==
  /\ policy = "wfdOnly"
  /\ LET b == IF mode /\ call[m].inc THEN "up" ELSE "none" IN Answer(m, b, b)
  /\ UNCHANGED <<mode, count>>

\* NMPolicyBtOnly::decide()
BtOnlyDecide(m) ==
  /\ policy = "btOnly"
  /\ LET b == IF call[m].dec THEN "down" ELSE "none" IN Answer(m, b, b)
  /\ UNCHANGED <<mode, count>>

\* decide() of NMPolicyManual and of NMPolicyAppManual
ManualDecide(m) ==
  /\ policy \in {"manual", "appManual"}
  /\ LET b == CASE mode /\ call[m].inc -> "up"
                [] ~mode /\ call[m].dec -> "down"
                [] OTHER -> "none"
     IN Answer(m, b, b)
  /\ UNCHANGED <<mode, count>>

\* Mutant: the mode is only ever set
MutantThroughputMode(m) ==
  LET dir == IF call[m].inc THEN "up" ELSE "down"
      threshold == IF call[m].inc THEN IncreaseCount ELSE DecreaseCount
      n == IF call[m].load = dir THEN count[dir] + 1 ELSE 0
  IN /\ policy = "throughput"
     /\ call[m].inc \/ call[m].dec
     /\ count' = [count EXCEPT ![dir] = IF n >= threshold THEN 0 ELSE n]
     /\ mode' = (mode \/ (n >= threshold /\ call[m].inc))
     /\ Answer(m, IF n >= threshold THEN dir ELSE "none",
               IF call[m].load = dir THEN dir ELSE "none")

\* Mutant: the count starts again one sample before it is enough
MutantThroughputThreshold(m) ==
  LET dir == IF call[m].inc THEN "up" ELSE "down"
      threshold == IF call[m].inc THEN IncreaseCount ELSE DecreaseCount
      n == IF call[m].load = dir THEN count[dir] + 1 ELSE 0
      enough == IF call[m].inc THEN n >= threshold ELSE n > threshold
  IN /\ policy = "throughput"
     /\ call[m].inc \/ call[m].dec
     /\ count' = [count EXCEPT ![dir] = IF n >= threshold THEN 0 ELSE n]
     /\ mode' = IF enough THEN call[m].inc ELSE mode
     /\ Answer(m, IF enough THEN dir ELSE "none",
               IF call[m].load = dir THEN dir ELSE "none")

\* NMPolicyThroughputAware::decide() counts the samples in a series that speak
\* for the switch that is possible, dir; the other count stays as it is
ThroughputDecide(m) ==
  LET dir == IF call[m].inc THEN "up" ELSE "down"
      threshold == IF call[m].inc THEN IncreaseCount ELSE DecreaseCount
      n == IF call[m].load = dir THEN count[dir] + 1 ELSE 0
  IN /\ policy = "throughput"
     /\ IF ~call[m].inc /\ ~call[m].dec
          THEN Answer(m, "none", "none") /\ UNCHANGED <<mode, count>>
          ELSE /\ count' = [count EXCEPT ![dir] = IF n >= threshold THEN 0 ELSE n]
               /\ mode' = IF n >= threshold THEN call[m].inc ELSE mode
               /\ Answer(m, IF n >= threshold THEN dir ELSE "none",
                         IF call[m].load = dir THEN dir ELSE "none")

\* decide() of the policies that answer in one step
Decide(m) ==
  /\ pc[m] = "decide"
  /\ \/ WfdOnlyDecide(m)
     \/ BtOnlyDecide(m)
     \/ ManualDecide(m)
     \/ ThroughputDecide(m)
  /\ UNCHANGED <<policy, on, switchVars, serial, fgApp, fgType, bgType, recent,
                 event, events, requests, failures, alone>>

\* The counts of decide_internal(), which only matter up to the threshold
SpeedCounts(l) ==
  IF l = "same"
    THEN count
    ELSE [d \in {"up", "down"} |->
            IF d # l THEN 0
            ELSE IF count[d] > SpeedCount THEN count[d] ELSE count[d] + 1]

\* decide_internal() goes on to the prediction with the counts c
SpeedFilter(m, c) ==
  /\ c["up"] >= SpeedCount \/ c["down"] >= SpeedCount
  /\ ~(call[m].inc /\ c["down"] > SpeedCount)
  /\ ~(call[m].dec /\ c["up"] > SpeedCount)

\* There is an entry for the foreground application, or none is needed
AppFound ==
  IF fgApp # NoApp THEN \E t \in Types : <<fgApp, t>> \in Table
  ELSE \E t \in Types : <<BgApp, t>> \in Table

\* Mutant: a verdict for no switch does not end the series
MutantSerialKept(m, b) ==
  LET acts == b # "none" /\ serial[b] >= SerialCount
  IN /\ serial' = [d \in {"up", "down"} |->
                     IF b = "none" \/ (acts /\ d = b) THEN serial[d]
                     ELSE IF d # b THEN 0 ELSE serial[d] + 1]
     /\ mode' = IF acts THEN b = "up" ELSE mode
     /\ Answer(m, IF acts THEN b ELSE "none", b)
     /\ IF acts THEN recent' \in {0, Unset} ELSE UNCHANGED recent

\* NMPolicyHistoryBased::decide() counts a verdict of decide_internal() and
\* acts on it when enough of the same kind came before it
SerialFilter(m, b) ==
  LET acts == b # "none" /\ serial[b] >= SerialCount
  IN /\ serial' = [d \in {"up", "down"} |->
                     IF d # b THEN 0
                     ELSE IF acts THEN serial[d] ELSE serial[d] + 1]
     /\ mode' = IF acts THEN b = "up" ELSE mode
     /\ Answer(m, IF acts THEN b ELSE "none", b)
     /\ IF acts
          THEN \* update_recent_switch_ts(): a time of 0 us reads as not set
               recent' \in {0, Unset}
          ELSE UNCHANGED recent

\* NMPolicyHistoryBased::decide() up to the lookup of the application: nothing
\* within the hold-off, and no verdict but "none" without a trend or an entry
HistoryDecide(m) ==
  /\ pc[m] = "decide"
  /\ policy = "history"
  /\ IF recent # Unset /\ recent < HoldOff
       THEN /\ Return(m)
            /\ UNCHANGED <<mode, count, serial, recent, streak>>
       ELSE LET c == SpeedCounts(call[m].load)
            IN /\ count' = c
               /\ IF SpeedFilter(m, c) /\ AppFound
                    THEN /\ GoWith(m, "predict", [call[m] EXCEPT !.app = fgApp])
                         /\ UNCHANGED <<mode, serial, recent, streak>>
                    ELSE SerialFilter(m, "none")
  /\ UNCHANGED <<policy, on, switchVars, fgApp, fgType, bgType, event, events,
                 requests, failures, alone>>

\* get_predicted_traffic() finds an entry of the application looked up earlier
\* for the present event types, which may be those of another one by now
TrafficFound(m) ==
  /\ call[m].app # NoApp => <<call[m].app, fgType>> \in Table
  /\ (\E t \in Types : <<BgApp, t>> \in Table) => <<BgApp, bgType>> \in Table

\* Steps 3 and 4 of decide_internal(): the comparison of the two predicted
\* energies of EnergyPredictor may turn out either way
HistoryPredict(m) ==
  /\ pc[m] = "predict"
  /\ \E b \in {"none", "up", "down"} :
       /\ b # "none" => /\ TrafficFound(m)
                        /\ b = IF call[m].inc THEN "up" ELSE "down"
                        /\ call[m].inc \/ call[m].dec
       /\ SerialFilter(m, b)
  /\ UNCHANGED <<policy, on, switchVars, count, fgApp, fgType, bgType, event,
                 events, requests, failures, alone>>

\* Time passes
Elapse ==
  /\ recent \in 0..HoldOff - 1
  /\ recent' = recent + 1
  /\ UNCHANGED <<policy, monitorVars, switchVars, mode, count, serial, fgApp,
                 fgType, bgType, event, ghosts>>
-------------------------------------------------------------------------------
(* The application: send_custom_event() *)

\* on_custom_event() of NMPolicyWfdOnly
WfdOnlyEvent(e) == policy = "wfdOnly" /\ mode' = (mode \/ e # "")

\* on_custom_event() of NMPolicyManual
ManualEvent(e) ==
  /\ policy = "manual"
  /\ mode' = CASE e = "wfd" -> TRUE [] e = "bt" -> FALSE [] OTHER -> mode

\* on_custom_event() of NMPolicyAppManual
AppManualEvent(e) ==
  /\ policy = "appManual"
  /\ mode' = CASE e \in {"1-newsbriefing", "3-navermap"} -> TRUE
               [] e \in {"2-remotecamera", "4-webbrowsing"} -> FALSE
               [] OTHER -> mode

\* on_custom_event() of the policies that take events and keep one flag
ModeEvent ==
  /\ MayHappen(events, MaxEvents)
  /\ \E e \in Events : WfdOnlyEvent(e) \/ ManualEvent(e) \/ AppManualEvent(e)
  /\ events' = events + 1
  /\ UNCHANGED <<policy, monitorVars, switchVars, count, serial, fgApp, fgType,
                 bgType, recent, event, requests, failures, alone, streak>>

\* NMPolicyHistoryBased::on_custom_event() writes the name, ...
EventName ==
  /\ policy = "history" /\ event.at = "none"
  /\ MayHappen(events, MaxEvents)
  /\ events' = events + 1
  /\ \E e \in Events :
       /\ event' = [at |-> IF e = <<>> \/ e[2] = NoType THEN "reset" ELSE "type",
                    what |-> e]
       /\ fgApp' = IF e # <<>> /\ e[1] # BgApp THEN e[1] ELSE fgApp
  /\ UNCHANGED <<policy, monitorVars, switchVars, mode, count, serial, fgType,
                 bgType, recent, requests, failures, alone, streak>>

\* ... then the type, ...
EventType ==
  /\ event.at = "type"
  /\ event' = [event EXCEPT !.at = "reset"]
  /\ IF event.what[1] = BgApp
       THEN bgType' = event.what[2] /\ UNCHANGED fgType
       ELSE fgType' = event.what[2] /\ UNCHANGED bgType
  /\ UNCHANGED <<policy, monitorVars, switchVars, mode, count, serial, fgApp,
                 recent, ghosts>>

\* ... and then ends the hold-off: reset_recent_switch_ts()
EventReset ==
  /\ event.at = "reset"
  /\ event' = [at |-> "none", what |-> <<>>]
  /\ recent' = Unset
  /\ UNCHANGED <<policy, monitorVars, switchVars, mode, count, serial, fgApp,
                 fgType, bgType, ghosts>>
-------------------------------------------------------------------------------
(* The switch and the requests of the peer *)

\* SwitchAdapterTransaction::done(): the index first, ...
SwitchEnds(success) ==
  /\ switch.phase = "running"
  /\ switch' = [switch EXCEPT !.phase = "done"]
  /\ active' = IF success THEN switch.next ELSE active
  /\ success \/ MayHappen(failures, MaxFailures)
  /\ failures' = IF success THEN failures ELSE failures + 1
  /\ UNCHANGED <<policy, monitorVars, ns, peer, connecting, policyVars, events,
                 requests, alone, streak>>

\* Mutant: a switch that failed does not end
MutantDoneSwitch ==
  /\ switch.phase = "done"
  /\ switch' = [switch EXCEPT !.phase = "ready"]
  /\ ns' = IF active = switch.next THEN "ready" ELSE ns
  /\ UNCHANGED <<policy, monitorVars, active, peer, connecting, policyVars,
                 ghosts>>

\* ... then the state of the switcher, ...
DoneSwitch ==
  /\ switch.phase = "done"
  /\ switch' = [switch EXCEPT !.phase = "ready"]
  /\ ns' = "ready"
  /\ UNCHANGED <<policy, monitorVars, active, peer, connecting, policyVars,
                 ghosts>>

\* ... and then sOngoing
ClearOngoing ==
  /\ switch.phase = "ready"
  /\ switch' = NoSwitch
  /\ UNCHANGED <<policy, monitorVars, active, ns, peer, connecting, policyVars,
                 ghosts>>

\* A request of the peer passes the test of its handler ...
PeerRequests ==
  /\ MayHappen(requests, MaxRequests)
  /\ peer = "none" /\ ns # "switching"
  /\ peer' \in {"connect", "sleepOrWakeUp", "disconnect"}
  /\ requests' = requests + 1
  /\ alone' = FALSE
  /\ UNCHANGED <<policy, monitorVars, active, ns, switch, connecting,
                 policyVars, events, failures, streak>>

\* ... and sets the state: connect_adapter_by_peer() for a transaction of its
\* own, sleep_ and wake_up_adapter_by_peer() until they return, and
\* disconnect_adapter_by_peer() for good
PeerSets ==
  /\ peer \in {"connect", "sleepOrWakeUp", "disconnect"}
  /\ ns' = IF peer = "connect" /\ connecting THEN "ready" ELSE "switching"
  /\ connecting' = (connecting \/ peer = "connect")
  /\ peer' = IF peer = "sleepOrWakeUp" THEN "ready" ELSE "none"
  /\ UNCHANGED <<policy, monitorVars, active, switch, policyVars, ghosts>>

PeerReturns ==
  /\ peer = "ready"
  /\ ns' = "ready"
  /\ peer' = "none"
  /\ UNCHANGED <<policy, monitorVars, active, switch, connecting, policyVars,
                 ghosts>>

\* ConnectRequestTransaction::done()
ConnectRequestEnds ==
  /\ connecting
  /\ ns' = "ready"
  /\ connecting' = FALSE
  /\ UNCHANGED <<policy, monitorVars, active, switch, peer, policyVars,
                 ghosts>>
-------------------------------------------------------------------------------
MonitorStep(m) ==
  \/ Sample(m) \/ CheckReady(m) \/ CheckIncreaseable(m) \/ CheckDecreaseable(m)
  \/ Decide(m) \/ HistoryDecide(m) \/ HistoryPredict(m)
  \/ Recheck(m) \/ ReadIndex(m) \/ SwitchAdapters(m) \/ RunSwitch(m)

SwitchStep ==
  \/ \E success \in BOOLEAN : SwitchEnds(success)
  \/ DoneSwitch
  \/ ClearOngoing

Next ==
  \/ Start \/ Stop
  \/ \E m \in Monitors : MonitorStep(m)
  \/ Elapse
  \/ ModeEvent \/ EventName \/ EventType \/ EventReset
  \/ SwitchStep
  \/ PeerRequests \/ PeerSets \/ PeerReturns \/ ConnectRequestEnds

Spec == Init /\ [][Next]_vars

\* The threads run, a transaction ends, and its attempts do not fail for ever
\* (MaxFailures)
FairSpec ==
  /\ Spec
  /\ \A m \in Monitors : WF_vars(MonitorStep(m))
  /\ WF_vars(SwitchStep)
-------------------------------------------------------------------------------
(* Properties *)

\* The number of equal verdicts in a row that policy p asks for before it
\* requests a switch in direction d
Series(p, d) ==
  CASE p = "throughput" -> IF d = "up" THEN IncreaseCount ELSE DecreaseCount
    [] p = "history" -> SerialCount + 1
    [] OTHER -> 1

\* A policy asks for a switch only on a sample that ends a series as long as its
\* threshold says, in which every sample spoke for that switch, whatever happened
\* in between (a failed or refused switch, a hold-off, an event).  The
\* history-based policy does so under requests of the peer as well; its series
\* may go on after a request (mSerialIncCount is not reset), that of the
\* throughput-aware policy starts anew.  The latter's count of the other
\* direction survives when a request of the peer, or a second monitor thread,
\* makes it count while a switch is under way: later series are shorter then,
\* so that it is excepted.
SwitchIsJustified ==
  [][\A m \in Monitors :
       /\ pc[m] # "recheck" /\ pc'[m] = "recheck"
       /\ policy = "throughput" => alone
       => LET b == call'[m].behavior
          IN \/ Series(policy, b) = 1
             \/ streak.of = b /\ streak.length + 1 >= Series(policy, b)]_vars

\* The assertion of Core::get_adapter(): the index of the next adapter, computed
\* from an active index that was read twice, is that of an adapter
GetAdapterNeverAborts == \A m \in Monitors : pc[m] # "aborted"

\* The active index stays the same from the test of the switcher's state to the
\* switch, through failed switches and events of the application, so that the
\* assertion of get_adapter() holds, as long as no request of the peer sets the
\* switcher's state back during a switch (GetAdapterNeverAborts is violated then)
\* and no second monitor thread runs.  And types.
AdapterExists == TypeOK /\ (alone => GetAdapterNeverAborts)

\* When nothing is under way and no switch was lost, the mode a policy reports
\* and decides by is the adapter in use
ModeIsActive ==
  (/\ policy \in {"throughput", "history"}
   /\ alone /\ failures = 0
   /\ switch.phase = "none"
   /\ \A m \in Monitors : pc[m] \in {"off", "loop"})
  => (mode <=> active = AdapterCount - 1)

\* An adapter chosen by hand is reached, if the monitor runs and attempts to
\* switch fail only finitely often
ModeIsReached ==
  policy \in {"manual", "appManual"} =>
    /\ <>[](alone /\ on /\ mode) => <>[](active = AdapterCount - 1)
    /\ <>[](alone /\ on /\ ~mode) => <>[](active = 0)

\* When traffic stays low, the throughput-aware policy returns to Bluetooth
IdleReturns ==
  policy = "throughput" =>
    (<>[](alone /\ on /\ \A m \in Monitors : pc[m] \notin {"off", "loop"} => call[m].load = "down")
     => <>[](active = 0))
===============================================================================
