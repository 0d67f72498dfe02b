----------------------------- MODULE PolicyProofs ------------------------------
(***************************************************************************)
(* Proofs about Policy, for any number of adapters, monitor threads,       *)
(* events, requests and failures and any thresholds: a switch is asked for *)
(* on a full series of samples only, and leads to an adapter that exists.  *)
(***************************************************************************)
EXTENDS Policy, TLAPS

\* Where a monitor thread has passed the test of the switcher's state, and
\* where it carries out what the policy has asked for.
Asking == {"recheck", "read", "switch", "run"}
Deciding == {"inc", "dec", "decide", "predict"} \cup Asking

Directions == {"up", "down"}

\* An event whose type is to be written has one.
EventSound ==
  /\ event \in [at : {"none", "name", "type", "reset"}, what : HistoryEvents \cup {<<>>}]
  /\ event.at = "type" => event.what # <<>> /\ event.what[2] \in Types

\* A series that NMPolicyHistoryBased has counted was seen.
SerialSound ==
  \A d \in Directions :
    serial[d] > 0 => policy = "history" /\ streak.of = d /\ streak.length >= serial[d]

\* Nothing but the switch under way holds the state of the switcher.
SwitchSound ==
  /\ peer = "none" /\ ~connecting
  /\ switch.phase \in {"running", "done"} => ns = "switching"

\* A count of NMPolicyThroughputAware is of the direction that is possible, and
\* was seen; there is none while a switch is under way.
CountSound ==
  policy = "throughput" =>
    /\ switch.phase \in {"running", "done"} => count["up"] = 0 /\ count["down"] = 0
    /\ count["up"] > 0 => IsIncreaseable
    /\ count["down"] > 0 => IsDecreaseable /\ ~IsIncreaseable
    /\ \A d \in Directions :
         count[d] > 0 => streak.of = d /\ streak.length >= count[d]

\* What a monitor thread knows, when it is the only one.
MonitorSound(m) ==
  /\ pc[m] # "aborted"
  /\ pc[m] \in Deciding => /\ ns = IF pc[m] = "run" THEN "switching" ELSE "ready"
                           /\ switch.phase \in {"none", "ready"}
  /\ pc[m] \in {"dec", "decide", "predict"} => (call[m].inc <=> IsIncreaseable)
  /\ pc[m] \in {"decide", "predict"} => (call[m].dec <=> IsDecreaseable)
  /\ pc[m] \in Asking =>
       /\ call[m].behavior \in Directions
       /\ policy = "throughput" => count["up"] = 0 /\ count["down"] = 0
  /\ pc[m] \in {"read", "switch", "run"} =>
       IF call[m].behavior = "up" THEN IsIncreaseable ELSE IsDecreaseable
  /\ pc[m] \in {"switch", "run"} => call[m].prev = active

OneMonitor == \A m, n \in Monitors : pc[m] # "off" /\ pc[n] # "off" => m = n

\* Only NMPolicyHistoryBased predicts.
PredictSound == \A m \in Monitors : pc[m] = "predict" => policy = "history"

AloneSound ==
  alone => SwitchSound /\ CountSound /\ OneMonitor /\ \A m \in Monitors : MonitorSound(m)

-----------------------------------------------------------------------------
(* Types *)

\* The longest series is as long as each of them.
LEMMA SeriesLengthBound ==
  /\ SeriesLength \in Nat \ {0}
  /\ SeriesLength >= IncreaseCount /\ SeriesLength >= DecreaseCount
  /\ SeriesLength >= SerialCount + 1
<1>. DEFINE longest == {IncreaseCount, DecreaseCount, SerialCount + 1}
<1>1. IncreaseCount \in Nat \ {0} /\ DecreaseCount \in Nat \ {0} /\ SerialCount \in Nat \ {0}
  BY PolicyAssumption
<1>2. \E n \in longest : \A k \in longest : k <= n
  <2>1. CASE IncreaseCount >= DecreaseCount /\ IncreaseCount >= SerialCount + 1
    BY <1>1, <2>1
  <2>2. CASE DecreaseCount >= IncreaseCount /\ DecreaseCount >= SerialCount + 1
    BY <1>1, <2>2
  <2>3. CASE SerialCount + 1 >= IncreaseCount /\ SerialCount + 1 >= DecreaseCount
    BY <1>1, <2>3
  <2>. QED  BY <1>1, <2>1, <2>2, <2>3
<1>3. SeriesLength \in longest /\ \A k \in longest : k <= SeriesLength
  BY <1>2 DEF SeriesLength
<1>. QED  BY <1>1, <1>3

\* A series a policy asks for is counted.
LEMMA SeriesBound ==
  ASSUME NEW p, NEW d
  PROVE  Series(p, d) \in Nat \ {0} /\ Series(p, d) <= SeriesLength
<1>1. IncreaseCount \in Nat \ {0} /\ DecreaseCount \in Nat \ {0} /\ SerialCount \in Nat \ {0}
  BY PolicyAssumption
<1>2. Series(p, d) \in {IncreaseCount, DecreaseCount, SerialCount + 1, 1}
  BY Zenon DEF Series
<1>. QED  BY <1>1, <1>2, SeriesLengthBound

\* An update of a function keeps its type.
LEMMA Updated ==
  ASSUME NEW S, NEW V, NEW f \in [S -> V], NEW x, NEW v \in V
  PROVE  [f EXCEPT ![x] = v] \in [S -> V]
OBVIOUS

\* The locals of a call.
LEMMA CallTyped ==
  ASSUME NEW c \in Calls
  PROVE  /\ NoCall \in Calls
         /\ \A l \in {"up", "down", "same"} : [NoCall EXCEPT !.load = l] \in Calls
         /\ \A b \in BOOLEAN : [c EXCEPT !.inc = b] \in Calls /\ [c EXCEPT !.dec = b] \in Calls
         /\ \A b \in {"none", "up", "down"} : [c EXCEPT !.behavior = b] \in Calls
         /\ \A i \in 0..AdapterCount - 1 : [c EXCEPT !.prev = i] \in Calls
         /\ \A a \in Apps \cup {NoApp} : [c EXCEPT !.app = a] \in Calls
         /\ c.load \in {"up", "down", "same"} /\ c.inc \in BOOLEAN /\ c.dec \in BOOLEAN
         /\ c.behavior \in {"none", "up", "down"} /\ c.prev \in 0..AdapterCount - 1
<1>1. NoCall \in Calls
  BY PolicyAssumption DEF NoCall, Calls
<1>2. ASSUME NEW d \in Calls, NEW l \in {"up", "down", "same"}
      PROVE  [d EXCEPT !.load = l] \in Calls
  BY DEF Calls
<1>3. \A b \in BOOLEAN : [c EXCEPT !.inc = b] \in Calls /\ [c EXCEPT !.dec = b] \in Calls
  BY DEF Calls
<1>4. \A b \in {"none", "up", "down"} : [c EXCEPT !.behavior = b] \in Calls
  BY DEF Calls
<1>5. \A i \in 0..AdapterCount - 1 : [c EXCEPT !.prev = i] \in Calls
  BY DEF Calls
<1>6. \A a \in Apps \cup {NoApp} : [c EXCEPT !.app = a] \in Calls
  BY DEF Calls
<1>. QED  BY <1>1, <1>2, <1>3, <1>4, <1>5, <1>6 DEF Calls

\* The type invariant, by threads.
PCs == {"off", "loop", "check", "inc", "dec", "decide", "predict", "recheck", "read",
        "switch", "run", "aborted"}
MonitorTyped == on \in BOOLEAN /\ pc \in [Monitors -> PCs] /\ call \in [Monitors -> Calls]
SwitchTyped ==
  /\ active \in 0..AdapterCount - 1
  /\ ns \in {"ready", "switching"}
  /\ switch \in [phase : {"none", "running", "done", "ready"}, next : 0..AdapterCount - 1]
  /\ peer \in {"none", "connect", "sleepOrWakeUp", "disconnect", "ready"}
  /\ connecting \in BOOLEAN
CountTyped ==
  /\ count \in [Directions -> Nat]
  /\ policy = "throughput" => count["up"] < IncreaseCount /\ count["down"] < DecreaseCount
  /\ policy = "history" => count["up"] = 0 \/ count["down"] = 0
SampleTyped ==
  /\ mode \in BOOLEAN
  /\ serial \in [Directions -> 0..SerialCount]
  /\ recent \in {Unset} \cup 0..HoldOff
  /\ streak \in [of : {"up", "down", "none"}, length : 0..SeriesLength]
EventTyped ==
  /\ fgApp \in Apps \cup {NoApp} /\ fgType \in Types /\ bgType \in Types
  /\ EventSound
BoundTyped ==
  /\ events \in 0..MaxEvents /\ requests \in 0..MaxRequests /\ failures \in 0..MaxFailures
  /\ alone \in BOOLEAN

Typed ==
  /\ policy \in Policies
  /\ MonitorTyped /\ SwitchTyped /\ CountTyped /\ SampleTyped /\ EventTyped /\ BoundTyped

\* The parts make up the type invariant.
LEMMA TypeParts == Typed => TypeOK /\ EventSound
<1>1. EventSound => event.at \in {"none", "name", "type", "reset"}
  BY DEF EventSound
<1>. QED  BY <1>1, Zenon
    DEF Typed, MonitorTyped, SwitchTyped, CountTyped, SampleTyped, EventTyped, BoundTyped,
        TypeOK, PCs, Directions

\* Steps that leave a part of the state alone keep its types.
LEMMA TypeFrames ==
  /\ SwitchTyped /\ UNCHANGED switchVars => SwitchTyped'
  /\ CountTyped /\ UNCHANGED <<policy, count>> => CountTyped'
  /\ SampleTyped /\ UNCHANGED <<mode, serial, recent, streak>> => SampleTyped'
  /\ EventTyped /\ UNCHANGED <<fgApp, fgType, bgType, event>> => EventTyped'
  /\ BoundTyped /\ UNCHANGED <<events, requests, failures, alone>> => BoundTyped'
  /\ MonitorTyped /\ UNCHANGED monitorVars => MonitorTyped'
<1>1. SwitchTyped /\ UNCHANGED switchVars => SwitchTyped'
  BY Zenon DEF SwitchTyped, switchVars
<1>2. CountTyped /\ UNCHANGED <<policy, count>> => CountTyped'
  BY Zenon DEF CountTyped
<1>3. SampleTyped /\ UNCHANGED <<mode, serial, recent, streak>> => SampleTyped'
  BY Zenon DEF SampleTyped
<1>4. EventTyped /\ UNCHANGED <<fgApp, fgType, bgType, event>> => EventTyped'
  BY Zenon DEF EventTyped, EventSound
<1>5. BoundTyped /\ UNCHANGED <<events, requests, failures, alone>> => BoundTyped'
  BY Zenon DEF BoundTyped
<1>6. MonitorTyped /\ UNCHANGED monitorVars => MonitorTyped'
  BY Zenon DEF MonitorTyped, monitorVars
<1>. QED  BY <1>1, <1>2, <1>3, <1>4, <1>5, <1>6

\* A monitor thread goes on, with or without new locals.
LEMMA GoTyped ==
  ASSUME MonitorTyped, NEW m \in Monitors, NEW label \in PCs, on' \in BOOLEAN,
         Go(m, label) \/ Return(m) \/ \E c \in Calls : GoWith(m, label, c)
  PROVE  MonitorTyped'
<1>1. pc \in [Monitors -> PCs] /\ call \in [Monitors -> Calls]
  BY DEF MonitorTyped
<1>2. NoCall \in Calls /\ "loop" \in PCs
  BY <1>1, CallTyped DEF PCs
<1>3. \E l \in PCs : pc' = [pc EXCEPT ![m] = l]
  BY <1>2, Zenon DEF Go, Return, GoWith
<1>4. call' = call \/ \E c \in Calls : call' = [call EXCEPT ![m] = c]
  BY <1>2, Zenon DEF Go, Return, GoWith
<1>5. pc' \in [Monitors -> PCs]
  BY <1>1, <1>3, Updated
<1>6. call' \in [Monitors -> Calls]
  BY <1>1, <1>4, Updated
<1>. QED  BY <1>5, <1>6, Zenon DEF MonitorTyped

\* decide() answers.
LEMMA AnswerTyped ==
  ASSUME MonitorTyped, streak \in [of : {"up", "down", "none"}, length : 0..SeriesLength],
         NEW m \in Monitors, NEW b \in {"none", "up", "down"},
         NEW vote \in {"none", "up", "down"}, Answer(m, b, vote), on' = on
  PROVE  /\ MonitorTyped'
         /\ streak' \in [of : {"up", "down", "none"}, length : 0..SeriesLength]
         /\ policy # "throughput" \/ b = "none" =>
              /\ streak'.of = vote /\ streak'.length >= 1
              /\ streak.of = vote =>
                   streak'.length = IF streak.length < SeriesLength THEN streak.length + 1
                                    ELSE SeriesLength
<1>. DEFINE n == IF streak.of # vote THEN 1
                 ELSE IF streak.length < SeriesLength THEN streak.length + 1 ELSE SeriesLength
<1>1. streak' = (IF policy = "throughput" /\ b # "none" THEN [of |-> "none", length |-> 0]
                 ELSE [of |-> vote, length |-> n])
  BY Zenon DEF Answer, NoStreak, Longer
<1>2. n \in 1..SeriesLength
  BY SeriesLengthBound
<1>3. MonitorTyped'
  <2>1. call[m] \in Calls /\ on' \in BOOLEAN /\ "recheck" \in PCs
    BY Zenon DEF MonitorTyped, PCs
  <2>2. [call[m] EXCEPT !.behavior = b] \in Calls
    BY <2>1, CallTyped
  <2>3. Return(m) \/ GoWith(m, "recheck", [call[m] EXCEPT !.behavior = b])
    BY Zenon DEF Answer
  <2>. QED  BY <2>1, <2>2, <2>3, GoTyped, Zenon
<1>. HIDE DEF n
<1>4. CASE policy = "throughput" /\ b # "none"
  <2>1. streak' = [of |-> "none", length |-> 0]
    BY <1>1, <1>4
  <2>. QED  BY <1>3, <1>4, <2>1, SeriesLengthBound
<1>5. CASE policy # "throughput" \/ b = "none"
  <2>1. streak' = [of |-> vote, length |-> n]
    BY <1>1, <1>5, Zenon
  <2>2. /\ streak' \in [of : {"up", "down", "none"}, length : 0..SeriesLength]
        /\ streak'.of = vote /\ streak'.length = n
    BY <1>2, <2>1, SeriesLengthBound
  <2>. QED  BY <1>2, <1>3, <2>2, SeriesLengthBound DEF n
<1>. QED  BY <1>4, <1>5

\* A policy that has answered with a switch has asked for this one.
LEMMA AnswerAsks ==
  ASSUME MonitorTyped, NEW m \in Monitors, NEW b \in {"none", "up", "down"}, NEW vote,
         Answer(m, b, vote), pc'[m] = "recheck"
  PROVE  b # "none" /\ call'[m].behavior = b
<1>1. pc \in [Monitors -> PCs] /\ call \in [Monitors -> Calls] /\ call[m] \in Calls
  BY DEF MonitorTyped
<1>2. b # "none"
  <2>1. ASSUME b = "none"
        PROVE  pc' = [pc EXCEPT ![m] = "loop"]
    BY <2>1, Zenon DEF Answer, Return, GoWith
  <2>. QED  BY <1>1, <2>1
<1>. DEFINE c == [call[m] EXCEPT !.behavior = b]
<1>3. call' = [call EXCEPT ![m] = c]
  BY <1>2, Zenon DEF Answer, GoWith
<1>4. c.behavior = b
  BY <1>1, Zenon DEF Calls
<1>. HIDE DEF c
<1>. QED  BY <1>1, <1>2, <1>3, <1>4

\* The steps of a monitor thread that only read.
LEMMA ReadTyped ==
  ASSUME Typed, NEW m \in Monitors,
         \/ Sample(m) \/ CheckReady(m) \/ CheckIncreaseable(m) \/ CheckDecreaseable(m)
         \/ Recheck(m) \/ ReadIndex(m)
  PROVE  Typed' /\ UNCHANGED <<policy, on, switchVars, policyVars, ghosts>>
<1>1. UNCHANGED <<policy, on, switchVars, policyVars, ghosts>>
  BY Zenon DEF Sample, CheckReady, CheckIncreaseable, CheckDecreaseable, Recheck, ReadIndex
<1>2. /\ MonitorTyped /\ call[m] \in Calls /\ on' \in BOOLEAN
      /\ active \in 0..AdapterCount - 1
      /\ {"off", "check", "inc", "dec", "decide", "read", "switch"} \subseteq PCs
      /\ IsIncreaseable \in BOOLEAN /\ IsDecreaseable \in BOOLEAN
  BY <1>1, Zenon DEF Typed, MonitorTyped, SwitchTyped, PCs, IsIncreaseable, IsDecreaseable
<1>. DEFINE Moves(l) == Go(m, l) \/ Return(m) \/ \E c \in Calls : GoWith(m, l, c)
<1>3. \E l \in PCs : Moves(l)
  <2>1. CASE Sample(m)
    BY <1>2, <2>1, CallTyped, Zenon DEF Sample
  <2>2. CASE CheckReady(m)
    BY <1>2, <2>2, Zenon DEF CheckReady
  <2>3. CASE CheckIncreaseable(m)
    BY <1>2, <2>3, CallTyped, Zenon DEF CheckIncreaseable
  <2>4. CASE CheckDecreaseable(m)
    BY <1>2, <2>4, CallTyped, Zenon DEF CheckDecreaseable
  <2>5. CASE Recheck(m)
    BY <1>2, <2>5, Zenon DEF Recheck
  <2>6. CASE ReadIndex(m)
    BY <1>2, <2>6, CallTyped, Zenon DEF ReadIndex
  <2>. QED  BY <2>1, <2>2, <2>3, <2>4, <2>5, <2>6
<1>4. MonitorTyped'
  BY <1>2, <1>3, GoTyped
<1>. QED  BY <1>1, <1>4, TypeFrames, Zenon DEF Typed, policyVars, ghosts

\* The steps of a monitor thread that begin a switch.
LEMMA RunTyped ==
  ASSUME Typed, NEW m \in Monitors, SwitchAdapters(m) \/ RunSwitch(m)
  PROVE  Typed'
<1>1. /\ UNCHANGED <<policy, on, policyVars, events, requests, alone, streak>>
      /\ UNCHANGED <<active, peer, connecting>>
  BY Zenon DEF SwitchAdapters, RunSwitch, ghosts
<1>2. /\ MonitorTyped /\ on' \in BOOLEAN /\ {"run", "aborted"} \subseteq PCs
  BY <1>1, Zenon DEF Typed, MonitorTyped, PCs
<1>3. Go(m, "run") \/ Go(m, "aborted") \/ Return(m)
  BY Zenon DEF SwitchAdapters, RunSwitch
<1>4. MonitorTyped'
  BY <1>2, <1>3, GoTyped, Zenon
<1>5. failures' \in 0..MaxFailures
  <2>1. \/ failures' = failures
        \/ failures < MaxFailures /\ failures' = failures + 1
    BY Zenon DEF SwitchAdapters, RunSwitch, ghosts, MayHappen
  <2>. QED  BY <2>1, PolicyAssumption DEF Typed, BoundTyped
<1>6. BoundTyped'
  BY <1>1, <1>5, Zenon DEF Typed, BoundTyped
<1>7. ns' \in {"ready", "switching"}
  BY DEF Typed, SwitchTyped, SwitchAdapters, RunSwitch
<1>8. switch' \in [phase : {"none", "running", "done", "ready"}, next : 0..AdapterCount - 1]
  <2>1. \/ switch' = switch
        \/ /\ NextIndex(m) \in 0..AdapterCount - 1
           /\ switch' = [phase |-> "running", next |-> NextIndex(m)]
    BY Zenon DEF SwitchAdapters, RunSwitch
  <2>. QED  BY <2>1 DEF Typed, SwitchTyped
<1>9. SwitchTyped'
  BY <1>1, <1>7, <1>8, Zenon DEF Typed, SwitchTyped
<1>. QED  BY <1>1, <1>4, <1>6, <1>9, TypeFrames, Zenon DEF Typed, policyVars

-----------------------------------------------------------------------------
(* The policies *)

\* decide() of the policies without a series.
LEMMA PlainDecide ==
  ASSUME Typed, NEW m \in Monitors, Decide(m), policy # "throughput"
  PROVE  /\ Typed' /\ UNCHANGED <<mode, count>>
         /\ \E b \in {"none", "up", "down"} : Answer(m, b, b)
         /\ policy \notin {"throughput", "history"}
<1>1. \E b \in {"none", "up", "down"} : Answer(m, b, b)
  BY Zenon DEF Decide, WfdOnlyDecide, BtOnlyDecide, ManualDecide, ThroughputDecide
<1>2. /\ UNCHANGED <<policy, on, switchVars, mode, count>>
      /\ UNCHANGED <<serial, fgApp, fgType, bgType, recent, event>>
      /\ UNCHANGED <<events, requests, failures, alone>>
  BY Zenon DEF Decide, WfdOnlyDecide, BtOnlyDecide, ManualDecide, ThroughputDecide
<1>3. policy \notin {"throughput", "history"}
  BY DEF Decide, WfdOnlyDecide, BtOnlyDecide, ManualDecide, ThroughputDecide
<1>4. /\ MonitorTyped'
      /\ streak' \in [of : {"up", "down", "none"}, length : 0..SeriesLength]
  BY <1>1, <1>2, AnswerTyped, Zenon DEF Typed, SampleTyped
<1>5. SampleTyped'
  BY <1>2, <1>4, Zenon DEF Typed, SampleTyped
<1>. QED  BY <1>1, <1>2, <1>3, <1>4, <1>5, TypeFrames, Zenon DEF Typed

\* What NMPolicyThroughputAware::decide() does to its counts.
ThroughputCounts(m, dir, n) ==
  /\ n \in Nat /\ n <= Series("throughput", dir)
  /\ n = (IF call[m].load = dir THEN count[dir] + 1 ELSE 0)
  /\ count' = [count EXCEPT ![dir] = IF n >= Series("throughput", dir) THEN 0 ELSE n]
  /\ mode' = (IF n >= Series("throughput", dir) THEN dir = "up" ELSE mode)
  /\ Answer(m, IF n >= Series("throughput", dir) THEN dir ELSE "none",
            IF call[m].load = dir THEN dir ELSE "none")

\* decide() of NMPolicyThroughputAware.
LEMMA ThroughputDecideTyped ==
  ASSUME Typed, NEW m \in Monitors, Decide(m), policy = "throughput"
  PROVE  /\ Typed'
         /\ \/ /\ ~call[m].inc /\ ~call[m].dec
               /\ Answer(m, "none", "none") /\ UNCHANGED <<mode, count>>
            \/ /\ call[m].inc \/ call[m].dec
               /\ \E n \in Nat :
                    ThroughputCounts(m, IF call[m].inc THEN "up" ELSE "down", n)
<1>. DEFINE dir == IF call[m].inc THEN "up" ELSE "down"
            threshold == IF call[m].inc THEN IncreaseCount ELSE DecreaseCount
            n == IF call[m].load = dir THEN count[dir] + 1 ELSE 0
<1>1. /\ UNCHANGED <<policy, on, switchVars>>
      /\ UNCHANGED <<serial, fgApp, fgType, bgType, recent, event>>
      /\ UNCHANGED <<events, requests, failures, alone>>
  BY Zenon DEF Decide
<1>2. ThroughputDecide(m)
  BY DEF Decide, WfdOnlyDecide, BtOnlyDecide, ManualDecide
<1>3. /\ count \in [Directions -> Nat] /\ dir \in Directions
      /\ count["up"] < IncreaseCount /\ count["down"] < DecreaseCount
      /\ IncreaseCount \in Nat \ {0} /\ DecreaseCount \in Nat \ {0}
  BY PolicyAssumption DEF Typed, CountTyped, Directions
<1>4. threshold = Series("throughput", dir) /\ (dir = "up" <=> call[m].inc)
  BY DEF Series
<1>5. n \in Nat /\ n <= threshold /\ threshold \in Nat \ {0}
  BY <1>3 DEF Directions
<1>6. call[m].inc \in BOOLEAN /\ call[m].load \in {"up", "down", "same"}
  BY CallTyped DEF Typed, MonitorTyped
<1>7. CASE ~call[m].inc /\ ~call[m].dec
  <2>1. Answer(m, "none", "none") /\ UNCHANGED <<mode, count>>
    BY <1>2, <1>7, Zenon DEF ThroughputDecide
  <2>2. /\ MonitorTyped'
        /\ streak' \in [of : {"up", "down", "none"}, length : 0..SeriesLength]
    BY <1>1, <2>1, AnswerTyped, Zenon DEF Typed, SampleTyped
  <2>3. SampleTyped'
    BY <1>1, <2>1, <2>2, Zenon DEF Typed, SampleTyped
  <2>. QED  BY <1>1, <1>7, <2>1, <2>2, <2>3, TypeFrames, Zenon DEF Typed
<1>8. CASE call[m].inc \/ call[m].dec
  <2>1. /\ count' = [count EXCEPT ![dir] = IF n >= threshold THEN 0 ELSE n]
        /\ mode' = IF n >= threshold THEN call[m].inc ELSE mode
        /\ Answer(m, IF n >= threshold THEN dir ELSE "none",
                  IF call[m].load = dir THEN dir ELSE "none")
    BY <1>2, <1>8, Zenon DEF ThroughputDecide
  <2>2. mode' = (IF n >= threshold THEN dir = "up" ELSE mode) /\ mode' \in BOOLEAN
    BY <1>4, <1>6, <2>1, Zenon DEF Typed, SampleTyped
  <2>3. /\ (IF n >= threshold THEN dir ELSE "none") \in {"none", "up", "down"}
        /\ (IF call[m].load = dir THEN dir ELSE "none") \in {"none", "up", "down"}
    BY Zenon
  <2>. HIDE DEF dir, threshold
  <2>4. ThroughputCounts(m, dir, n)
    BY <1>4, <1>5, <2>1, <2>2, Zenon DEF ThroughputCounts
  <2>5. /\ MonitorTyped'
        /\ streak' \in [of : {"up", "down", "none"}, length : 0..SeriesLength]
    BY <1>1, <2>1, <2>3, AnswerTyped, Zenon DEF Typed, SampleTyped
  <2>6. SampleTyped'
    BY <1>1, <2>2, <2>5, Zenon DEF Typed, SampleTyped
  <2>7. CountTyped'
    <3>. DEFINE v == IF n >= threshold THEN 0 ELSE n
    <3>1. v \in Nat /\ v < threshold
      BY <1>5
    <3>2. count' = [count EXCEPT ![dir] = v]
      BY <2>1
    <3>. HIDE DEF v
    <3>3. count' \in [Directions -> Nat] /\ count'[dir] < threshold
      BY <1>3, <3>1, <3>2
    <3>4. \A d \in Directions : d # dir => count'[d] = count[d]
      BY <1>3, <3>2
    <3>5. count'["up"] < IncreaseCount /\ count'["down"] < DecreaseCount
      BY <1>3, <3>3, <3>4 DEF Directions, dir, threshold
    <3>. QED  BY <1>1, <3>3, <3>5 DEF CountTyped
  <2>. QED  BY <1>1, <1>5, <1>8, <2>4, <2>5, <2>6, <2>7, TypeFrames, Zenon DEF Typed, dir
<1>. QED  BY <1>7, <1>8

\* decide() of NMPolicyHistoryBased, from its verdict on: a verdict that is
\* acted on ends a series.
LEMMA SerialFilterSound ==
  ASSUME MonitorTyped, SampleTyped, SerialSound,
         policy = "history", UNCHANGED <<policy, on>>,
         NEW m \in Monitors, NEW b \in {"none", "up", "down"}, SerialFilter(m, b)
  PROVE  /\ MonitorTyped' /\ SampleTyped' /\ SerialSound'
         /\ \/ /\ b # "none" /\ Answer(m, b, b) /\ mode' = (b = "up")
               /\ streak.of = b /\ streak.length >= SerialCount
            \/ /\ Answer(m, "none", b) /\ mode' = mode
<1>. DEFINE acts == b # "none" /\ serial[b] >= SerialCount
            next(d) == IF d # b THEN 0 ELSE IF acts THEN serial[d] ELSE serial[d] + 1
            out == IF acts THEN b ELSE "none"
<1>1. /\ serial' = [d \in Directions |-> next(d)]
      /\ mode' = (IF acts THEN b = "up" ELSE mode)
      /\ Answer(m, out, b)
      /\ IF acts THEN recent' \in {0, Unset} ELSE UNCHANGED recent
  BY Zenon DEF SerialFilter, Directions
<1>2. /\ serial \in [Directions -> 0..SerialCount] /\ SerialCount \in Nat \ {0}
      /\ streak \in [of : {"up", "down", "none"}, length : 0..SeriesLength]
      /\ mode \in BOOLEAN
      /\ recent \in {Unset} \cup 0..HoldOff /\ HoldOff \in Nat \ {0}
  BY PolicyAssumption DEF SampleTyped
<1>3. out \in {"none", "up", "down"}
  BY Zenon
<1>4. /\ MonitorTyped'
      /\ streak' \in [of : {"up", "down", "none"}, length : 0..SeriesLength]
      /\ streak'.of = b /\ streak'.length >= 1
      /\ streak.of = b => streak'.length = IF streak.length < SeriesLength
                                           THEN streak.length + 1 ELSE SeriesLength
  BY <1>1, <1>2, <1>3, AnswerTyped
<1>5. \A d \in Directions :
        /\ next(d) \in 0..SerialCount
        /\ next(d) > 0 => d = b
        /\ d = b => next(d) = IF acts THEN serial[d] ELSE serial[d] + 1
  BY <1>2 DEF Directions
<1>. HIDE DEF next
<1>6. serial' \in [Directions -> 0..SerialCount]
  BY <1>1, <1>5
<1>7. mode' \in BOOLEAN /\ recent' \in {Unset, 0, recent}
  BY <1>1, <1>2, Zenon
<1>8. recent' \in {Unset} \cup 0..HoldOff
  BY <1>2, <1>7
<1>9. SampleTyped'
  BY <1>4, <1>6, <1>7, <1>8, Zenon DEF SampleTyped
<1>10. ASSUME NEW d \in Directions, serial'[d] > 0
       PROVE  streak'.of = d /\ streak'.length >= serial'[d]
  <2>1. d = b /\ serial'[d] = IF acts THEN serial[d] ELSE serial[d] + 1
    BY <1>1, <1>5, <1>10
  <2>2. CASE serial[d] > 0
    <3>1. streak.of = b /\ streak.length >= serial[d]
      BY <2>1, <2>2 DEF SerialSound
    <3>2. serial'[d] \in 0..SerialCount
      BY <1>6
    <3>. QED  BY <1>2, <1>4, <2>1, <3>1, <3>2, SeriesLengthBound
  <2>3. CASE ~(serial[d] > 0)
    BY <1>2, <1>4, <2>1, <2>3
  <2>. QED  BY <2>2, <2>3
<1>11. SerialSound'
  BY <1>10 DEF SerialSound
<1>12. CASE acts
  <2>1. mode' = (b = "up") /\ out = b /\ Answer(m, b, b) /\ b # "none"
    BY <1>1, <1>12, Zenon
  <2>2. streak.of = b /\ streak.length >= SerialCount
    <3>1. b \in Directions /\ serial[b] >= SerialCount
      BY <1>12 DEF Directions
    <3>. QED  BY <1>2, <3>1 DEF SerialSound
  <2>. QED  BY <1>4, <1>9, <1>11, <2>1, <2>2, Zenon
<1>13. CASE ~acts
  <2>1. out = "none" /\ Answer(m, "none", b) /\ mode' = mode
    BY <1>1, <1>13, Zenon
  <2>. QED  BY <1>4, <1>9, <1>11, <2>1, Zenon
<1>. QED  BY <1>12, <1>13

\* The counts of decide_internal() after a sample.
LEMMA SpeedCountsTyped ==
  ASSUME count \in [Directions -> Nat], count["up"] = 0 \/ count["down"] = 0, NEW l
  PROVE  /\ SpeedCounts(l) \in [Directions -> Nat]
         /\ SpeedCounts(l)["up"] = 0 \/ SpeedCounts(l)["down"] = 0
<1>1. SpeedCount \in Nat
  BY PolicyAssumption
<1>2. CASE l = "same"
  BY <1>2 DEF SpeedCounts
<1>3. CASE l # "same"
  <2>. DEFINE v(d) == IF d # l THEN 0
                      ELSE IF count[d] > SpeedCount THEN count[d] ELSE count[d] + 1
  <2>1. SpeedCounts(l) = [d \in Directions |-> v(d)]
    BY <1>3, Zenon DEF SpeedCounts, Directions
  <2>2. (\A d \in Directions : v(d) \in Nat) /\ (v("up") = 0 \/ v("down") = 0)
    BY <1>1
  <2>. HIDE DEF v
  <2>3. \A d \in Directions : SpeedCounts(l)[d] = v(d)
    BY <2>1
  <2>. QED  BY <2>1, <2>2, <2>3 DEF Directions
<1>. QED  BY <1>2, <1>3

\* decide() of NMPolicyHistoryBased up to the prediction.
LEMMA HistoryDecideSound ==
  ASSUME Typed, SerialSound, NEW m \in Monitors, HistoryDecide(m)
  PROVE  /\ Typed' /\ SerialSound'
         /\ policy = "history" /\ mode' = mode
         /\ Return(m) \/ GoWith(m, "predict", [call[m] EXCEPT !.app = fgApp])
<1>1. /\ policy = "history" /\ UNCHANGED <<policy, on, switchVars>>
      /\ UNCHANGED <<fgApp, fgType, bgType, event>>
      /\ UNCHANGED <<events, requests, failures, alone>>
  BY Zenon DEF HistoryDecide
<1>2. /\ MonitorTyped /\ SampleTyped /\ on' \in BOOLEAN /\ {"loop", "predict"} \subseteq PCs
      /\ CountTyped /\ call[m] \in Calls /\ fgApp \in Apps \cup {NoApp}
  BY <1>1, Zenon DEF Typed, MonitorTyped, EventTyped, PCs
<1>3. CASE recent # Unset /\ recent < HoldOff
  <2>1. Return(m) /\ UNCHANGED <<mode, count, serial, recent, streak>>
    BY <1>3, Zenon DEF HistoryDecide
  <2>2. MonitorTyped'
    BY <1>2, <2>1, GoTyped, Zenon
  <2>3. SerialSound'
    BY <1>1, <2>1, Zenon DEF SerialSound
  <2>. QED  BY <1>1, <2>1, <2>2, <2>3, TypeFrames, Zenon DEF Typed
<1>4. CASE ~(recent # Unset /\ recent < HoldOff)
  <2>. DEFINE c == SpeedCounts(call[m].load)
              looked == [call[m] EXCEPT !.app = fgApp]
  <2>1. /\ count' = c
        /\ \/ /\ GoWith(m, "predict", looked)
              /\ UNCHANGED <<mode, serial, recent, streak>>
           \/ SerialFilter(m, "none")
    BY <1>4, Zenon DEF HistoryDecide
  <2>2. CountTyped'
    <3>1. c \in [Directions -> Nat] /\ (c["up"] = 0 \/ c["down"] = 0)
      BY <1>1, <1>2, SpeedCountsTyped DEF CountTyped
    <3>. QED  BY <1>1, <2>1, <3>1 DEF CountTyped
  <2>3. CASE GoWith(m, "predict", looked) /\ UNCHANGED <<mode, serial, recent, streak>>
    <3>1. looked \in Calls
      BY <1>2, CallTyped
    <3>2. MonitorTyped'
      BY <1>2, <2>3, <3>1, GoTyped, Zenon
    <3>3. SerialSound'
      BY <1>1, <2>3, Zenon DEF SerialSound
    <3>. QED  BY <1>1, <2>2, <2>3, <3>2, <3>3, TypeFrames, Zenon DEF Typed
  <2>4. CASE SerialFilter(m, "none")
    <3>1. /\ MonitorTyped' /\ SampleTyped' /\ SerialSound'
          /\ Answer(m, "none", "none") /\ mode' = mode
      BY <1>1, <1>2, <2>4, SerialFilterSound, Zenon
    <3>2. Return(m)
      BY <3>1 DEF Answer
    <3>. QED  BY <1>1, <2>2, <3>1, <3>2, TypeFrames, Zenon DEF Typed
  <2>. QED  BY <2>1, <2>3, <2>4
<1>. QED  BY <1>3, <1>4

\* decide() of NMPolicyHistoryBased from the prediction on.
LEMMA HistoryPredictSound ==
  ASSUME Typed, SerialSound, policy = "history",
         NEW m \in Monitors, HistoryPredict(m)
  PROVE  /\ Typed' /\ SerialSound'
         /\ \/ /\ \E b \in Directions :
                    /\ Answer(m, b, b) /\ mode' = (b = "up")
                    /\ b = (IF call[m].inc THEN "up" ELSE "down")
                    /\ call[m].inc \/ call[m].dec
                    /\ streak.of = b /\ streak.length >= SerialCount
            \/ Return(m) /\ mode' = mode
<1>1. PICK b \in {"none", "up", "down"} :
        /\ b # "none" => /\ TrafficFound(m)
                         /\ b = IF call[m].inc THEN "up" ELSE "down"
                         /\ call[m].inc \/ call[m].dec
        /\ SerialFilter(m, b)
  BY Zenon DEF HistoryPredict
<1>2. /\ UNCHANGED <<policy, on, switchVars, count, fgApp, fgType, bgType, event>>
      /\ UNCHANGED <<events, requests, failures, alone>>
  BY Zenon DEF HistoryPredict
<1>3. /\ MonitorTyped' /\ SampleTyped' /\ SerialSound'
      /\ \/ /\ b # "none" /\ Answer(m, b, b) /\ mode' = (b = "up")
            /\ streak.of = b /\ streak.length >= SerialCount
         \/ /\ Answer(m, "none", b) /\ mode' = mode
  BY <1>1, <1>2, SerialFilterSound, Zenon DEF Typed
<1>4. Typed'
  BY <1>2, <1>3, TypeFrames, Zenon DEF Typed
<1>5. b # "none" => b \in Directions
  BY DEF Directions
<1>6. Answer(m, "none", b) => Return(m)
  BY Zenon DEF Answer
<1>. QED  BY <1>1, <1>3, <1>4, <1>5, <1>6, Zenon

-----------------------------------------------------------------------------
(* The other threads *)

\* What the policies remember of their samples.
Remembered == Typed /\ SerialSound

\* Steps that leave the samples alone.
LEMMA RememberedFrame ==
  ASSUME Remembered, Typed', UNCHANGED <<policy, serial, streak>>
  PROVE  Remembered'
BY Zenon DEF Remembered, SerialSound

\* start() and stop() of the monitor.
LEMMA StartStopTyped ==
  ASSUME Remembered, Start \/ Stop
  PROVE  Remembered'
<1>1. /\ UNCHANGED <<policy, switchVars, policyVars, events, requests, failures>>
      /\ streak' = streak
  BY Zenon DEF Start, Stop, ghosts
<1>2. MonitorTyped' /\ alone' \in BOOLEAN
  <2>1. CASE Start
    <3>1. PICK m \in Monitors : Go(m, "loop")
      BY <2>1, Zenon DEF Start
    <3>2. on' \in BOOLEAN /\ "loop" \in PCs /\ MonitorTyped
      BY <2>1, Zenon DEF Start, PCs, Remembered, Typed
    <3>3. alone' \in BOOLEAN
      BY <2>1, Zenon DEF Start
    <3>. QED  BY <3>1, <3>2, <3>3, GoTyped, Zenon
  <2>2. CASE Stop
    BY <2>2, Zenon DEF Stop, ghosts, Remembered, Typed, MonitorTyped, BoundTyped
  <2>. QED  BY <2>1, <2>2
<1>3. BoundTyped'
  BY <1>1, <1>2, Zenon DEF Remembered, Typed, BoundTyped
<1>4. Typed'
  BY <1>1, <1>2, <1>3, TypeFrames, Zenon DEF Remembered, Typed, policyVars
<1>. QED  BY <1>1, <1>4, RememberedFrame DEF policyVars

\* Time passes.
LEMMA ElapseSound ==
  ASSUME Remembered, Elapse
  PROVE  Remembered'
<1>1. /\ recent \in 0..HoldOff - 1 /\ recent' = recent + 1
      /\ UNCHANGED <<policy, monitorVars, switchVars, mode, count, serial>>
      /\ UNCHANGED <<fgApp, fgType, bgType, event, events, requests, failures, alone>>
      /\ streak' = streak
  BY Zenon DEF Elapse, ghosts
<1>2. recent' \in {Unset} \cup 0..HoldOff
  BY <1>1, PolicyAssumption
<1>3. SampleTyped'
  BY <1>1, <1>2, Zenon DEF Remembered, Typed, SampleTyped
<1>4. Typed'
  BY <1>1, <1>3, TypeFrames, Zenon DEF Remembered, Typed
<1>. QED  BY <1>1, <1>4, RememberedFrame

\* on_custom_event() of the policies.
LEMMA EventsSound ==
  ASSUME Remembered, ModeEvent \/ EventName \/ EventType \/ EventReset
  PROVE  Remembered'
<1>1. /\ UNCHANGED <<policy, monitorVars, switchVars, count, serial>>
      /\ UNCHANGED <<requests, failures, alone, streak>>
  BY Zenon DEF ModeEvent, EventName, EventType, EventReset, ghosts
<1>2. BoundTyped'
  <2>1. events' = events \/ (events < MaxEvents /\ events' = events + 1)
    BY Zenon DEF ModeEvent, EventName, EventType, EventReset, ghosts, MayHappen
  <2>2. events' \in 0..MaxEvents
    BY <2>1, PolicyAssumption DEF Remembered, Typed, BoundTyped
  <2>. QED  BY <1>1, <2>2, Zenon DEF Remembered, Typed, BoundTyped
<1>3. CASE ModeEvent
  <2>1. UNCHANGED <<fgApp, fgType, bgType, recent, event>>
    BY <1>3, Zenon DEF ModeEvent
  <2>2. mode' \in BOOLEAN
    BY <1>3, Zenon
    DEF ModeEvent, WfdOnlyEvent, ManualEvent, AppManualEvent, Remembered, Typed, SampleTyped
  <2>3. SampleTyped'
    BY <1>1, <2>1, <2>2, Zenon DEF Remembered, Typed, SampleTyped
  <2>4. Typed'
    BY <1>1, <1>2, <2>1, <2>3, TypeFrames, Zenon DEF Remembered, Typed
  <2>. QED  BY <1>1, <2>1, <2>4, RememberedFrame
<1>4. CASE EventName
  <2>1. policy = "history" /\ UNCHANGED <<mode, fgType, bgType, recent>>
    BY <1>4, Zenon DEF EventName
  <2>2. PICK e \in HistoryEvents :
          /\ event' = [at |-> IF e = <<>> \/ e[2] = NoType THEN "reset" ELSE "type",
                       what |-> e]
          /\ fgApp' = IF e # <<>> /\ e[1] # BgApp THEN e[1] ELSE fgApp
    <3>1. Events = HistoryEvents
      BY <2>1 DEF Events
    <3>. QED  BY <1>4, <3>1, Zenon DEF EventName
  <2>3. e # <<>> => e[1] \in Apps \cup {BgApp} /\ e[2] \in Types \cup {NoType}
    BY PolicyAssumption
  <2>4. fgApp' \in Apps \cup {NoApp}
    BY <2>2, <2>3 DEF Remembered, Typed, EventTyped
  <2>5. EventSound'
    <3>. DEFINE at == IF e = <<>> \/ e[2] = NoType THEN "reset" ELSE "type"
    <3>1. event' = [at |-> at, what |-> e]
      BY <2>2
    <3>2. at \in {"none", "name", "type", "reset"}
      OBVIOUS
    <3>3. at = "type" => e # <<>> /\ e[2] \in Types
      BY <2>3
    <3>. HIDE DEF at
    <3>. QED  BY <3>1, <3>2, <3>3 DEF EventSound
  <2>6. EventTyped'
    BY <2>1, <2>4, <2>5, Zenon DEF Remembered, Typed, EventTyped
  <2>7. Typed'
    BY <1>1, <1>2, <2>1, <2>6, TypeFrames, Zenon DEF Remembered, Typed
  <2>. QED  BY <1>1, <2>1, <2>7, RememberedFrame
<1>5. CASE EventType
  <2>1. /\ event.at = "type" /\ event' = [event EXCEPT !.at = "reset"]
        /\ UNCHANGED <<mode, fgApp, recent>>
        /\ fgType' \in {event.what[2], fgType} /\ bgType' \in {event.what[2], bgType}
    BY <1>5, Zenon DEF EventType, ghosts
  <2>2. event.what[2] \in Types /\ fgType \in Types /\ bgType \in Types
    BY <2>1, Zenon DEF Remembered, Typed, EventTyped, EventSound
  <2>3. EventSound'
    BY <2>1 DEF Remembered, Typed, EventTyped, EventSound
  <2>4. fgType' \in Types /\ bgType' \in Types
    BY <2>1, <2>2, Zenon
  <2>5. EventTyped'
    BY <2>1, <2>3, <2>4, Zenon DEF Remembered, Typed, EventTyped
  <2>6. Typed'
    BY <1>1, <1>2, <2>1, <2>5, TypeFrames, Zenon DEF Remembered, Typed
  <2>. QED  BY <1>1, <2>1, <2>6, RememberedFrame
<1>6. CASE EventReset
  <2>1. /\ event' = [at |-> "none", what |-> <<>>]
        /\ recent' = Unset
        /\ UNCHANGED <<mode, fgApp, fgType, bgType>>
    BY <1>6, Zenon DEF EventReset
  <2>2. EventSound'
    BY <2>1 DEF EventSound
  <2>3. EventTyped'
    BY <2>1, <2>2, Zenon DEF Remembered, Typed, EventTyped
  <2>4. SampleTyped'
    BY <1>1, <2>1, Zenon DEF Remembered, Typed, SampleTyped
  <2>5. Typed'
    BY <1>1, <1>2, <2>3, <2>4, TypeFrames, Zenon DEF Remembered, Typed
  <2>. QED  BY <1>1, <2>5, RememberedFrame
<1>. QED  BY <1>3, <1>4, <1>5, <1>6

\* The switch and the peer.
LEMMA SwitchStepTyped ==
  ASSUME Remembered,
         SwitchStep \/ PeerRequests \/ PeerSets \/ PeerReturns \/ ConnectRequestEnds
  PROVE  Remembered'
<1>1. UNCHANGED <<policy, monitorVars, policyVars, events, streak>>
  BY Zenon DEF SwitchStep, SwitchEnds, DoneSwitch, ClearOngoing, PeerRequests, PeerSets,
               PeerReturns, ConnectRequestEnds, ghosts
<1>2. /\ failures' = failures \/ (failures < MaxFailures /\ failures' = failures + 1)
      /\ requests' = requests \/ (requests < MaxRequests /\ requests' = requests + 1)
      /\ alone' = alone \/ alone' = FALSE
  BY Zenon DEF SwitchStep, SwitchEnds, DoneSwitch, ClearOngoing, PeerRequests, PeerSets,
               PeerReturns, ConnectRequestEnds, ghosts, MayHappen
<1>3. failures' \in 0..MaxFailures /\ requests' \in 0..MaxRequests
  <2>1. /\ failures \in 0..MaxFailures /\ requests \in 0..MaxRequests
        /\ MaxFailures \in Nat /\ MaxRequests \in Nat
    BY PolicyAssumption, Zenon DEF Remembered, Typed, BoundTyped
  <2>2. failures' \in 0..MaxFailures
    BY <1>2, <2>1
  <2>. QED  BY <1>2, <2>1, <2>2
<1>4. BoundTyped'
  BY <1>1, <1>2, <1>3, Zenon DEF Remembered, Typed, BoundTyped
<1>5. SwitchTyped'
  <2>1. connecting' \in BOOLEAN
    BY Zenon DEF SwitchStep, SwitchEnds, DoneSwitch, ClearOngoing, PeerRequests, PeerSets,
                 PeerReturns, ConnectRequestEnds, Remembered, Typed, SwitchTyped
  <2>2. \/ switch' = switch \/ switch' = NoSwitch
        \/ switch' = [switch EXCEPT !.phase = "done"]
        \/ switch' = [switch EXCEPT !.phase = "ready"]
    BY Zenon DEF SwitchStep, SwitchEnds, DoneSwitch, ClearOngoing, PeerRequests, PeerSets,
                 PeerReturns, ConnectRequestEnds
  <2>3. switch' \in [phase : {"none", "running", "done", "ready"}, next : 0..AdapterCount - 1]
    BY <2>2, PolicyAssumption DEF NoSwitch, Remembered, Typed, SwitchTyped
  <2>4. active' = active \/ active' = switch.next
    BY Zenon DEF SwitchStep, SwitchEnds, DoneSwitch, ClearOngoing, PeerRequests, PeerSets,
                 PeerReturns, ConnectRequestEnds
  <2>5. active' \in 0..AdapterCount - 1
    BY <2>4 DEF Remembered, Typed, SwitchTyped
  <2>6. ns' \in {"ready", "switching"}
    BY Zenon DEF SwitchStep, SwitchEnds, DoneSwitch, ClearOngoing, PeerRequests, PeerSets,
                 PeerReturns, ConnectRequestEnds, Remembered, Typed, SwitchTyped
  <2>7. peer' \in {"none", "connect", "sleepOrWakeUp", "disconnect", "ready"}
    BY Zenon DEF SwitchStep, SwitchEnds, DoneSwitch, ClearOngoing, PeerRequests, PeerSets,
                 PeerReturns, ConnectRequestEnds, Remembered, Typed, SwitchTyped
  <2>. QED  BY <2>1, <2>3, <2>5, <2>6, <2>7, Zenon DEF SwitchTyped
<1>6. Typed'
  BY <1>1, <1>4, <1>5, TypeFrames, Zenon DEF Remembered, Typed, policyVars
<1>. QED  BY <1>1, <1>6, RememberedFrame DEF policyVars

\* A monitor thread.
LEMMA MonitorStepTyped ==
  ASSUME Remembered, NEW m \in Monitors, MonitorStep(m),
         pc[m] = "predict" => policy = "history"
  PROVE  Remembered'
<1>1. CASE \/ Sample(m) \/ CheckReady(m) \/ CheckIncreaseable(m) \/ CheckDecreaseable(m)
           \/ Recheck(m) \/ ReadIndex(m)
  <2>1. Typed' /\ UNCHANGED <<policy, on, switchVars, policyVars, ghosts>>
    BY <1>1, ReadTyped DEF Remembered
  <2>. QED  BY <2>1, RememberedFrame DEF policyVars, ghosts
<1>2. CASE SwitchAdapters(m) \/ RunSwitch(m)
  <2>1. Typed' /\ UNCHANGED <<policy, policyVars, streak>>
    BY <1>2, RunTyped, Zenon DEF Remembered, SwitchAdapters, RunSwitch, ghosts
  <2>. QED  BY <2>1, RememberedFrame DEF policyVars
<1>3. CASE Decide(m)
  <2>1. Typed'
    BY <1>3, PlainDecide, ThroughputDecideTyped DEF Remembered
  <2>2. policy # "history"
    BY <1>3 DEF Decide, WfdOnlyDecide, BtOnlyDecide, ManualDecide, ThroughputDecide
  <2>3. UNCHANGED <<policy, serial>>
    BY <1>3, Zenon DEF Decide
  <2>4. SerialSound'
    BY <2>2, <2>3, Zenon DEF Remembered, SerialSound
  <2>. QED  BY <2>1, <2>4 DEF Remembered
<1>4. CASE HistoryDecide(m)
  BY <1>4, HistoryDecideSound DEF Remembered
<1>5. CASE HistoryPredict(m)
  <2>1. policy = "history"
    BY <1>5 DEF HistoryPredict
  <2>. QED  BY <1>5, <2>1, HistoryPredictSound DEF Remembered
<1>. QED  BY <1>1, <1>2, <1>3, <1>4, <1>5, Zenon DEF MonitorStep

-----------------------------------------------------------------------------
(* A single monitor thread *)

(***************************************************************************)
(* The inductive invariant.  That the next index is that of an adapter     *)
(* rests on what the thread knows at every step of its turn (the active    *)
(* index does not change from the test of the switcher's state on), that a *)
(* series is complete on the relation of the counts, which survive failed  *)
(* switches, to the samples seen in a row.                                 *)
(***************************************************************************)
PolicyInv == Remembered /\ PredictSound /\ AloneSound

\* In the step of the only monitor thread the others stay off.
LEMMA OthersOff ==
  ASSUME Typed, OneMonitor, NEW m \in Monitors, pc[m] # "off", NEW label,
         pc' = [pc EXCEPT ![m] = label]
  PROVE  /\ OneMonitor' /\ pc'[m] = label
         /\ \A n \in Monitors : n # m => MonitorSound(n)'
<1>1. pc \in [Monitors -> PCs]
  BY DEF Typed, MonitorTyped
<1>2. pc'[m] = label
  BY <1>1
<1>3. ASSUME NEW n \in Monitors, n # m
      PROVE  pc'[n] = "off"
  BY <1>1, <1>3 DEF OneMonitor
<1>4. OneMonitor'
  BY <1>3, Zenon DEF OneMonitor
<1>5. ASSUME NEW n \in Monitors, n # m
      PROVE  MonitorSound(n)'
  <2>1. pc'[n] = "off"
    BY <1>3, <1>5
  <2>. QED  BY <2>1 DEF MonitorSound, Asking, Deciding
<1>. QED  BY <1>2, <1>4, <1>5

\* At the head of its loop a monitor thread knows nothing.
LEMMA LoopSound ==
  ASSUME NEW m \in Monitors, pc'[m] \in {"off", "loop", "check"}
  PROVE  MonitorSound(m)'
BY DEF MonitorSound, Asking, Deciding

\* What a monitor thread knows after it has gone on.
LEMMA GoEffect ==
  ASSUME Typed, NEW m \in Monitors, NEW label
  PROVE  /\ Go(m, label) => pc' = [pc EXCEPT ![m] = label] /\ call' = call
         /\ \A c : GoWith(m, label, c) => pc' = [pc EXCEPT ![m] = label] /\ call'[m] = c
         /\ Return(m) => pc' = [pc EXCEPT ![m] = "loop"]
<1>1. call \in [Monitors -> Calls]
  BY DEF Typed, MonitorTyped
<1>2. Go(m, label) => pc' = [pc EXCEPT ![m] = label] /\ call' = call
  BY DEF Go
<1>3. \A c : GoWith(m, label, c) => pc' = [pc EXCEPT ![m] = label] /\ call'[m] = c
  BY <1>1 DEF GoWith
<1>4. Return(m) => pc' = [pc EXCEPT ![m] = "loop"]
  BY DEF Return, GoWith
<1>. QED  BY <1>2, <1>3, <1>4

\* The steps that only read.
LEMMA ReadAlone ==
  ASSUME PolicyInv, alone, NEW m \in Monitors,
         \/ Sample(m) \/ CheckReady(m) \/ CheckIncreaseable(m) \/ CheckDecreaseable(m)
         \/ Recheck(m) \/ ReadIndex(m)
  PROVE  AloneSound'
<1>1. UNCHANGED <<policy, on, switchVars, policyVars, ghosts>>
  BY ReadTyped DEF PolicyInv, Remembered
<1>2. /\ Typed /\ SwitchSound /\ CountSound /\ OneMonitor /\ MonitorSound(m)
      /\ call[m] \in Calls
  BY Zenon DEF PolicyInv, Remembered, Typed, MonitorTyped, AloneSound
<1>3. pc[m] # "off"
  BY DEF Sample, CheckReady, CheckIncreaseable, CheckDecreaseable, Recheck, ReadIndex
<1>4. SwitchSound' /\ CountSound' /\ (IsIncreaseable' <=> IsIncreaseable)
      /\ (IsDecreaseable' <=> IsDecreaseable)
  BY <1>1, <1>2, Zenon
  DEF SwitchSound, CountSound, IsIncreaseable, IsDecreaseable, switchVars, policyVars, ghosts
<1>5. /\ UNCHANGED <<policy, active, ns, switch, count, streak>>
  BY <1>1, Zenon DEF switchVars, policyVars, ghosts
<1>. SUFFICES \E label : pc' = [pc EXCEPT ![m] = label] /\ MonitorSound(m)'
  BY <1>2, <1>3, <1>4, OthersOff DEF AloneSound
<1>6. CASE Sample(m)
  <2>1. PICK label \in {"check", "off"} : pc' = [pc EXCEPT ![m] = label]
    BY <1>2, <1>6, GoEffect, Zenon DEF Sample
  <2>. QED  BY <1>2, <1>3, <2>1, OthersOff, LoopSound
<1>7. CASE CheckReady(m)
  <2>1. CASE ns = "ready"
    <3>1. pc' = [pc EXCEPT ![m] = "inc"]
      BY <1>2, <1>7, <2>1, GoEffect, Zenon DEF CheckReady
    <3>2. pc'[m] = "inc"
      BY <1>2, <1>3, <3>1, OthersOff
    <3>3. switch.phase \in {"none", "ready"}
      BY <1>2, <2>1 DEF SwitchSound, Typed, SwitchTyped
    <3>4. MonitorSound(m)'
      BY <1>5, <2>1, <3>2, <3>3 DEF MonitorSound, Asking, Deciding
    <3>. QED  BY <3>1, <3>4
  <2>2. CASE ns # "ready"
    <3>1. pc' = [pc EXCEPT ![m] = "loop"]
      BY <1>2, <1>7, <2>2, GoEffect, Zenon DEF CheckReady
    <3>. QED  BY <1>2, <1>3, <3>1, OthersOff, LoopSound
  <2>. QED  BY <2>1, <2>2
<1>8. CASE CheckIncreaseable(m)
  <2>. DEFINE c == [call[m] EXCEPT !.inc = IsIncreaseable]
  <2>0. pc[m] = "inc" /\ GoWith(m, "dec", c)
    BY <1>8, Zenon DEF CheckIncreaseable
  <2>. HIDE DEF c
  <2>1. pc[m] = "inc" /\ pc' = [pc EXCEPT ![m] = "dec"] /\ call'[m] = c
    BY <1>2, <2>0, GoEffect
  <2>2. pc'[m] = "dec" /\ (call'[m].inc <=> IsIncreaseable)
    <3>1. IsIncreaseable \in BOOLEAN
      BY Zenon DEF IsIncreaseable
    <3>2. c.inc = IsIncreaseable
      BY <1>2, Zenon DEF c, Calls
    <3>3. pc'[m] = "dec"
      BY <1>2, <1>3, <2>1, OthersOff
    <3>. QED  BY <2>1, <3>2, <3>3, Zenon
  <2>3. ns = "ready" /\ switch.phase \in {"none", "ready"}
    BY <1>2, <2>1 DEF MonitorSound, Asking, Deciding
  <2>4. MonitorSound(m)'
    BY <1>4, <1>5, <2>2, <2>3 DEF MonitorSound, Asking, Deciding
  <2>. QED  BY <2>1, <2>4
<1>9. CASE CheckDecreaseable(m)
  <2>. DEFINE c == [call[m] EXCEPT !.dec = IsDecreaseable]
  <2>0. pc[m] = "dec" /\ GoWith(m, "decide", c)
    BY <1>9, Zenon DEF CheckDecreaseable
  <2>. HIDE DEF c
  <2>1. pc[m] = "dec" /\ pc' = [pc EXCEPT ![m] = "decide"] /\ call'[m] = c
    BY <1>2, <2>0, GoEffect
  <2>2. ns = "ready" /\ switch.phase \in {"none", "ready"} /\ (call[m].inc <=> IsIncreaseable)
    BY <1>2, <2>1 DEF MonitorSound, Asking, Deciding
  <2>3. /\ pc'[m] = "decide" /\ (call'[m].dec <=> IsDecreaseable)
        /\ (call'[m].inc <=> IsIncreaseable)
    <3>1. IsDecreaseable \in BOOLEAN
      BY Zenon DEF IsDecreaseable
    <3>2. c.dec = IsDecreaseable /\ c.inc = call[m].inc
      BY <1>2, Zenon DEF c, Calls
    <3>3. pc'[m] = "decide"
      BY <1>2, <1>3, <2>1, OthersOff
    <3>. QED  BY <2>1, <2>2, <3>2, <3>3, Zenon
  <2>4. MonitorSound(m)'
    BY <1>4, <1>5, <2>2, <2>3 DEF MonitorSound, Asking, Deciding
  <2>. QED  BY <2>1, <2>4
<1>10. CASE Recheck(m)
  <2>1. CASE IF call[m].behavior = "up" THEN IsIncreaseable ELSE IsDecreaseable
    <3>1. pc[m] = "recheck" /\ pc' = [pc EXCEPT ![m] = "read"] /\ call' = call
      BY <1>2, <1>10, <2>1, GoEffect, Zenon DEF Recheck
    <3>2. pc'[m] = "read"
      BY <1>2, <1>3, <3>1, OthersOff
    <3>3. MonitorSound(m)'
      BY <1>2, <1>4, <1>5, <2>1, <3>1, <3>2 DEF MonitorSound, Asking, Deciding
    <3>. QED  BY <3>1, <3>3
  <2>2. CASE ~IF call[m].behavior = "up" THEN IsIncreaseable ELSE IsDecreaseable
    <3>1. pc' = [pc EXCEPT ![m] = "loop"]
      BY <1>2, <1>10, <2>2, GoEffect, Zenon DEF Recheck
    <3>. QED  BY <1>2, <1>3, <3>1, OthersOff, LoopSound
  <2>. QED  BY <2>1, <2>2
<1>11. CASE ReadIndex(m)
  <2>. DEFINE c == [call[m] EXCEPT !.prev = active]
  <2>0. pc[m] = "read" /\ GoWith(m, "switch", c)
    BY <1>11, Zenon DEF ReadIndex
  <2>. HIDE DEF c
  <2>1. pc[m] = "read" /\ pc' = [pc EXCEPT ![m] = "switch"] /\ call'[m] = c
    BY <1>2, <2>0, GoEffect
  <2>2. /\ pc'[m] = "switch" /\ call'[m].prev = active
        /\ call'[m].behavior = call[m].behavior
    <3>1. c.prev = active /\ c.behavior = call[m].behavior
      BY <1>2, Zenon DEF c, Calls
    <3>. QED  BY <1>2, <1>3, <2>1, <3>1, OthersOff
  <2>3. MonitorSound(m)'
    BY <1>2, <1>4, <1>5, <2>1, <2>2 DEF MonitorSound, Asking, Deciding
  <2>. QED  BY <2>1, <2>3
<1>. QED  BY <1>6, <1>7, <1>8, <1>9, <1>10, <1>11

\* The steps that begin a switch.
LEMMA RunAlone ==
  ASSUME PolicyInv, alone, NEW m \in Monitors, SwitchAdapters(m) \/ RunSwitch(m)
  PROVE  AloneSound'
<1>1. UNCHANGED <<policy, active, peer, connecting, count, streak>>
  BY Zenon DEF SwitchAdapters, RunSwitch, policyVars, ghosts
<1>2. /\ Typed /\ SwitchSound /\ CountSound /\ OneMonitor /\ MonitorSound(m)
      /\ call[m] \in Calls
  BY Zenon DEF PolicyInv, Remembered, Typed, MonitorTyped, AloneSound
<1>3. pc[m] # "off"
  BY DEF SwitchAdapters, RunSwitch
<1>4. (IsIncreaseable' <=> IsIncreaseable) /\ (IsDecreaseable' <=> IsDecreaseable)
  BY <1>1, Zenon DEF IsIncreaseable, IsDecreaseable
<1>. SUFFICES /\ \E label : pc' = [pc EXCEPT ![m] = label]
              /\ MonitorSound(m)' /\ SwitchSound' /\ CountSound'
  BY <1>2, <1>3, OthersOff DEF AloneSound
<1>5. CASE SwitchAdapters(m)
  <2>1. pc[m] = "switch" /\ Go(m, "run") /\ ns' = "switching" /\ switch' = switch
    BY <1>5, Zenon DEF SwitchAdapters
  <2>2. pc' = [pc EXCEPT ![m] = "run"] /\ call' = call /\ pc'[m] = "run"
    BY <1>2, <1>3, <2>1, GoEffect, OthersOff
  <2>3. SwitchSound'
    BY <1>1, <1>2, <2>1, Zenon DEF SwitchSound
  <2>4. CountSound'
    BY <1>1, <1>2, <1>4, <2>1, Zenon DEF CountSound
  <2>5. MonitorSound(m)'
    BY <1>1, <1>2, <1>4, <2>1, <2>2 DEF MonitorSound, Asking, Deciding
  <2>. QED  BY <2>2, <2>3, <2>4, <2>5
<1>6. CASE RunSwitch(m)
  <2>1. /\ pc[m] = "run" /\ ns = "switching" /\ switch.phase \in {"none", "ready"}
        /\ IF call[m].behavior = "up" THEN IsIncreaseable ELSE IsDecreaseable
        /\ call[m].prev = active
        /\ policy = "throughput" => count["up"] = 0 /\ count["down"] = 0
    BY <1>2, <1>6 DEF RunSwitch, MonitorSound, Asking, Deciding
  <2>2. NextIndex(m) \in 0..AdapterCount - 1
    <3>1. active \in 0..AdapterCount - 1 /\ AdapterCount \in Nat \ {0}
      BY <1>2, PolicyAssumption DEF Typed, SwitchTyped
    <3>2. CASE call[m].behavior = "up"
      BY <2>1, <3>1, <3>2 DEF NextIndex, IsIncreaseable
    <3>3. CASE call[m].behavior # "up"
      BY <2>1, <3>1, <3>3 DEF NextIndex, IsDecreaseable
    <3>. QED  BY <3>2, <3>3
  <2>3. Return(m) /\ \/ switch' = switch /\ switch.phase = "ready"
                     \/ switch' = [phase |-> "running", next |-> NextIndex(m)] /\ ns' = ns
    BY <1>6, <2>1, <2>2 DEF RunSwitch
  <2>4. pc' = [pc EXCEPT ![m] = "loop"] /\ pc'[m] = "loop"
    BY <1>2, <1>3, <2>3, GoEffect, OthersOff
  <2>5. SwitchSound'
    BY <1>1, <1>2, <2>1, <2>3 DEF SwitchSound
  <2>6. CountSound'
    <3>1. CASE switch' = switch
      BY <1>1, <1>2, <1>4, <3>1, Zenon DEF CountSound
    <3>2. CASE switch' # switch
      <4>1. policy = "throughput" => ~(count["up"] > 0) /\ ~(count["down"] > 0)
        BY <2>1
      <4>. QED  BY <1>1, <2>1, <4>1 DEF CountSound, Directions
    <3>. QED  BY <3>1, <3>2
  <2>. QED  BY <2>4, <2>5, <2>6, LoopSound
<1>. QED  BY <1>5, <1>6

\* A policy has answered the only monitor thread.
LEMMA AnswerAlone ==
  ASSUME Typed, alone, OneMonitor, NEW m \in Monitors, MonitorSound(m),
         pc[m] \in {"decide", "predict"},
         UNCHANGED <<policy, switchVars>>,
         NEW b \in {"none", "up", "down"}, NEW vote, Answer(m, b, vote),
         b # "none" /\ policy = "throughput" => count'["up"] = 0 /\ count'["down"] = 0
  PROVE  OneMonitor' /\ \A n \in Monitors : MonitorSound(n)'
<1>1. pc[m] # "off" /\ call[m] \in Calls
  BY DEF Typed, MonitorTyped
<1>. SUFFICES \E label : pc' = [pc EXCEPT ![m] = label] /\ MonitorSound(m)'
  BY <1>1, OthersOff
<1>2. CASE b = "none"
  <2>1. pc' = [pc EXCEPT ![m] = "loop"]
    BY <1>2, GoEffect DEF Answer
  <2>. QED  BY <1>1, <2>1, OthersOff, LoopSound
<1>3. CASE b # "none"
  <2>. DEFINE c == [call[m] EXCEPT !.behavior = b]
  <2>1. GoWith(m, "recheck", c)
    BY <1>3, Zenon DEF Answer
  <2>2. c.behavior = b
    BY <1>1, Zenon DEF Calls
  <2>. HIDE DEF c
  <2>3. pc' = [pc EXCEPT ![m] = "recheck"] /\ call'[m] = c /\ pc'[m] = "recheck"
    BY <1>1, <2>1, GoEffect, OthersOff
  <2>4. ns' = "ready" /\ switch'.phase \in {"none", "ready"}
    BY DEF MonitorSound, Asking, Deciding, switchVars
  <2>5. b \in Directions
    BY <1>3 DEF Directions
  <2>6. MonitorSound(m)'
    BY <1>3, <2>2, <2>3, <2>4, <2>5 DEF MonitorSound, Asking, Deciding
  <2>. QED  BY <2>3, <2>6
<1>. QED  BY <1>2, <1>3

\* The policies that answer in one step.
LEMMA DecideAlone ==
  ASSUME PolicyInv, alone, NEW m \in Monitors, Decide(m)
  PROVE  AloneSound'
<1>1. /\ UNCHANGED <<policy, on, switchVars, alone>> /\ pc[m] = "decide"
  BY Zenon DEF Decide
<1>2. /\ Typed /\ SwitchSound /\ CountSound /\ OneMonitor /\ MonitorSound(m) /\ MonitorTyped
      /\ streak \in [of : {"up", "down", "none"}, length : 0..SeriesLength]
  BY Zenon DEF PolicyInv, Remembered, Typed, SampleTyped, AloneSound
<1>3. /\ SwitchSound' /\ (IsIncreaseable' <=> IsIncreaseable)
      /\ (IsDecreaseable' <=> IsDecreaseable)
  BY <1>1, <1>2, Zenon DEF SwitchSound, IsIncreaseable, IsDecreaseable, switchVars
<1>4. CASE policy # "throughput"
  <2>1. /\ policy \notin {"throughput", "history"}
        /\ \E b \in {"none", "up", "down"} : Answer(m, b, b)
    BY <1>2, <1>4, PlainDecide
  <2>2. PICK b \in {"none", "up", "down"} : Answer(m, b, b)
    BY <2>1
  <2>3. OneMonitor' /\ \A n \in Monitors : MonitorSound(n)'
    BY <1>1, <1>2, <1>4, <2>2, AnswerAlone
  <2>4. CountSound'
    BY <1>1, <1>4, Zenon DEF CountSound
  <2>. QED  BY <1>3, <2>3, <2>4 DEF AloneSound
<1>5. CASE policy = "throughput"
  <2>1. /\ call[m].inc <=> IsIncreaseable
        /\ call[m].dec <=> IsDecreaseable
        /\ switch'.phase \in {"none", "ready"}
    BY <1>1, <1>2 DEF MonitorSound, Asking, Deciding, switchVars
  <2>2. /\ count["up"] > 0 => IsIncreaseable
        /\ count["down"] > 0 => IsDecreaseable /\ ~IsIncreaseable
        /\ \A d \in Directions :
             count[d] > 0 => streak.of = d /\ streak.length >= count[d]
        /\ count \in [Directions -> Nat]
    BY <1>2, <1>5 DEF CountSound, Typed, CountTyped
  <2>3. CASE ~call[m].inc /\ ~call[m].dec
    <3>1. Answer(m, "none", "none") /\ UNCHANGED <<mode, count>>
      BY <1>2, <1>5, <2>3, ThroughputDecideTyped
    <3>2. OneMonitor' /\ \A n \in Monitors : MonitorSound(n)'
      BY <1>1, <1>2, <3>1, AnswerAlone
    <3>3. \A d \in Directions : ~(count'[d] > 0)
      BY <2>1, <2>2, <2>3, <3>1 DEF Directions
    <3>4. CountSound'
      BY <2>1, <3>3 DEF CountSound, Directions
    <3>. QED  BY <1>3, <3>2, <3>4 DEF AloneSound
  <2>4. CASE call[m].inc \/ call[m].dec
    <3>. DEFINE dir == IF call[m].inc THEN "up" ELSE "down"
    <3>1. \E n \in Nat : ThroughputCounts(m, dir, n)
      BY <1>2, <1>5, <2>4, ThroughputDecideTyped
    <3>2. PICK n \in Nat : ThroughputCounts(m, dir, n)
      BY <3>1
    <3>3. /\ dir \in Directions
          /\ dir = "up" <=> IsIncreaseable
          /\ dir = "down" => IsDecreaseable
      BY <2>1, <2>4 DEF Directions
    <3>. HIDE DEF dir
    <3>. DEFINE s == Series("throughput", dir)
                b == IF n >= s THEN dir ELSE "none"
                vote == IF call[m].load = dir THEN dir ELSE "none"
    <3>4. /\ n <= s
          /\ n = (IF call[m].load = dir THEN count[dir] + 1 ELSE 0)
          /\ count' = [count EXCEPT ![dir] = IF n >= s THEN 0 ELSE n]
          /\ Answer(m, b, vote)
      BY <3>2, Zenon DEF ThroughputCounts
    <3>5. s \in Nat \ {0} /\ s <= SeriesLength
      BY SeriesBound
    <3>6. b \in {"none", "up", "down"} /\ vote \in {"none", "up", "down"}
      BY <3>3 DEF Directions
    <3>. HIDE DEF s, b, vote
    <3>7. /\ streak' \in [of : {"up", "down", "none"}, length : 0..SeriesLength]
          /\ b = "none" =>
               /\ streak'.of = vote /\ streak'.length >= 1
               /\ streak.of = vote =>
                    streak'.length = IF streak.length < SeriesLength THEN streak.length + 1
                                     ELSE SeriesLength
      BY <1>1, <1>2, <3>4, <3>6, AnswerTyped
    <3>8. ASSUME n > 0, b = "none"
          PROVE  streak'.of = dir /\ streak'.length >= n
      <4>1. call[m].load = dir /\ n = count[dir] + 1 /\ vote = dir
        BY <3>4, <3>8 DEF vote
      <4>2. CASE count[dir] > 0
        <5>1. streak.of = dir /\ streak.length >= count[dir] /\ count[dir] \in Nat
          BY <2>2, <3>3, <4>2
        <5>2. streak.length \in Nat
          BY <1>2, SeriesLengthBound
        <5>. QED  BY <3>4, <3>5, <3>7, <3>8, <4>1, <5>1, <5>2, SeriesLengthBound
      <4>3. CASE ~(count[dir] > 0)
        <5>1. count[dir] = 0
          BY <2>2, <3>3, <4>3
        <5>. QED  BY <3>7, <3>8, <4>1, <5>1
      <4>. QED  BY <4>2, <4>3
    <3>9. \A d \in Directions : d # dir => count[d] = 0 /\ count'[d] = 0
      <4>1. \A d \in Directions : d # dir => count[d] = 0
        BY <2>2, <3>3 DEF Directions
      <4>2. \A d \in Directions : d # dir => count'[d] = count[d]
        BY <2>2, <3>4
      <4>. QED  BY <4>1, <4>2
    <3>10. count'[dir] = IF n >= s THEN 0 ELSE n
      BY <2>2, <3>3, <3>4
    <3>11. ASSUME b # "none"
           PROVE  count'["up"] = 0 /\ count'["down"] = 0
      <4>1. n >= s
        BY <3>11 DEF b
      <4>2. \A d \in Directions : count'[d] = 0
        BY <3>9, <3>10, <4>1
      <4>. QED  BY <4>2 DEF Directions
    <3>12. OneMonitor' /\ \A k \in Monitors : MonitorSound(k)'
      BY <1>1, <1>2, <3>4, <3>6, <3>11, AnswerAlone
    <3>13. CountSound'
      <4>1. ASSUME NEW d \in Directions, count'[d] > 0
            PROVE  d = dir /\ streak'.of = d /\ streak'.length >= count'[d]
        <5>1. d = dir /\ count'[d] = n /\ n > 0 /\ b = "none"
          BY <3>9, <3>10, <4>1 DEF b
        <5>. QED  BY <3>8, <5>1
      <4>2. count'["up"] > 0 => IsIncreaseable'
        BY <1>3, <3>3, <4>1 DEF Directions
      <4>3. count'["down"] > 0 => IsDecreaseable' /\ ~IsIncreaseable'
        BY <1>3, <3>3, <4>1 DEF Directions
      <4>. QED  BY <2>1, <4>1, <4>2, <4>3 DEF CountSound
    <3>. QED  BY <1>3, <3>12, <3>13 DEF AloneSound
  <2>. QED  BY <2>3, <2>4
<1>. QED  BY <1>4, <1>5

\* NMPolicyHistoryBased, from the hold-off to its answer.
LEMMA HistoryAlone ==
  ASSUME PolicyInv, alone, NEW m \in Monitors, HistoryDecide(m) \/ HistoryPredict(m)
  PROVE  AloneSound'
<1>1. /\ UNCHANGED <<policy, on, switchVars, alone>> /\ pc[m] \in {"decide", "predict"}
  BY Zenon DEF HistoryDecide, HistoryPredict
<1>2. /\ Typed /\ SwitchSound /\ CountSound /\ OneMonitor /\ MonitorSound(m) /\ MonitorTyped
      /\ SerialSound /\ call[m] \in Calls
  BY Zenon DEF PolicyInv, Remembered, Typed, MonitorTyped, AloneSound
<1>3. /\ SwitchSound' /\ (IsIncreaseable' <=> IsIncreaseable)
      /\ (IsDecreaseable' <=> IsDecreaseable)
  BY <1>1, <1>2, Zenon DEF SwitchSound, IsIncreaseable, IsDecreaseable, switchVars
<1>4. policy = "history"
  BY <1>2 DEF HistoryDecide, HistoryPredict, PolicyInv, PredictSound
<1>5. CountSound'
  BY <1>1, <1>4 DEF CountSound
<1>6. pc[m] # "off"
  BY <1>1
<1>7. CASE Return(m)
  <2>1. pc' = [pc EXCEPT ![m] = "loop"]
    BY <1>2, <1>7, GoEffect
  <2>. QED  BY <1>2, <1>3, <1>5, <1>6, <2>1, OthersOff, LoopSound DEF AloneSound
<1>8. CASE HistoryDecide(m) /\ ~Return(m)
  <2>. DEFINE c == [call[m] EXCEPT !.app = fgApp]
  <2>1. pc[m] = "decide" /\ GoWith(m, "predict", c)
    BY <1>2, <1>8, HistoryDecideSound, Zenon DEF HistoryDecide
  <2>2. c.inc = call[m].inc /\ c.dec = call[m].dec
    BY <1>2, Zenon DEF Calls
  <2>. HIDE DEF c
  <2>3. pc' = [pc EXCEPT ![m] = "predict"] /\ pc'[m] = "predict" /\ call'[m] = c
    BY <1>2, <1>6, <2>1, GoEffect, OthersOff
  <2>4. MonitorSound(m)'
    BY <1>1, <1>2, <1>3, <2>1, <2>2, <2>3 DEF MonitorSound, Asking, Deciding, switchVars
  <2>. QED  BY <1>2, <1>3, <1>5, <1>6, <2>3, <2>4, OthersOff DEF AloneSound
<1>9. CASE HistoryPredict(m) /\ ~Return(m)
  <2>1. PICK b \in Directions : Answer(m, b, b)
    BY <1>2, <1>4, <1>9, HistoryPredictSound, Zenon
  <2>2. b \in {"none", "up", "down"}
    BY DEF Directions
  <2>3. OneMonitor' /\ \A n \in Monitors : MonitorSound(n)'
    BY <1>1, <1>2, <1>4, <2>1, <2>2, AnswerAlone
  <2>. QED  BY <1>3, <1>5, <2>3 DEF AloneSound
<1>. QED  BY <1>7, <1>8, <1>9

\* Steps that the monitor thread does not notice.
LEMMA AloneFrame ==
  ASSUME AloneSound, UNCHANGED <<policy, pc, call, switchVars, count, streak, alone>>
  PROVE  AloneSound'
<1>1. SwitchSound /\ CountSound /\ OneMonitor => SwitchSound' /\ CountSound' /\ OneMonitor'
  BY Zenon DEF SwitchSound, CountSound, OneMonitor, IsIncreaseable, IsDecreaseable, switchVars
<1>2. ASSUME NEW m \in Monitors, MonitorSound(m)
      PROVE  MonitorSound(m)'
  BY <1>2, Zenon DEF MonitorSound, Series, IsIncreaseable, IsDecreaseable, switchVars
<1>. QED  BY <1>1, <1>2, Zenon DEF AloneSound

\* start(), stop(), time and the application.
LEMMA OutsideAlone ==
  ASSUME PolicyInv,
         \/ Start \/ Stop \/ Elapse
         \/ ModeEvent \/ EventName \/ EventType \/ EventReset
  PROVE  AloneSound'
<1>1. CASE Start
  <2>. SUFFICES ASSUME alone'
                PROVE  AloneSound'
    BY DEF AloneSound
  <2>1. alone /\ \A m \in Monitors : pc[m] = "off"
    BY <1>1, Zenon DEF Start
  <2>2. PICK m \in Monitors : pc' = [pc EXCEPT ![m] = "loop"]
    BY <1>1, Zenon DEF Start, Go
  <2>3. UNCHANGED <<policy, switchVars, count, streak>>
    BY <1>1, Zenon DEF Start, policyVars
  <2>4. SwitchSound' /\ CountSound'
    BY <2>1, <2>3, Zenon
    DEF PolicyInv, AloneSound, SwitchSound, CountSound, IsIncreaseable, IsDecreaseable,
        switchVars
  <2>5. \A n \in Monitors : pc'[n] = IF n = m THEN "loop" ELSE "off"
    BY <2>1, <2>2 DEF PolicyInv, Remembered, Typed, MonitorTyped
  <2>6. OneMonitor'
    BY <2>5 DEF OneMonitor
  <2>7. \A n \in Monitors : MonitorSound(n)'
    BY <2>5, LoopSound
  <2>. QED  BY <2>4, <2>6, <2>7 DEF AloneSound
<1>2. CASE Stop \/ Elapse \/ ModeEvent \/ EventName \/ EventType \/ EventReset
  <2>1. UNCHANGED <<policy, pc, call, switchVars, count, streak, alone>>
    BY <1>2, Zenon
    DEF Stop, Elapse, ModeEvent, EventName, EventType, EventReset, monitorVars, policyVars,
        ghosts
  <2>. QED  BY <2>1, AloneFrame DEF PolicyInv
<1>. QED  BY <1>1, <1>2

\* The switch, and the peer, which is not there.
LEMMA SwitchAlone ==
  ASSUME PolicyInv, alone',
         SwitchStep \/ PeerRequests \/ PeerSets \/ PeerReturns \/ ConnectRequestEnds
  PROVE  AloneSound'
<1>1. alone /\ ~PeerRequests
  BY Zenon DEF SwitchStep, SwitchEnds, DoneSwitch, ClearOngoing, PeerRequests, PeerSets,
               PeerReturns, ConnectRequestEnds, ghosts
<1>2. /\ Typed /\ SwitchSound /\ CountSound /\ OneMonitor
      /\ \A m \in Monitors : MonitorSound(m)
  BY <1>1, Zenon DEF PolicyInv, Remembered, AloneSound
<1>3. ~PeerSets /\ ~PeerReturns /\ ~ConnectRequestEnds
  BY <1>2 DEF SwitchSound, PeerSets, PeerReturns, ConnectRequestEnds
<1>4. SwitchStep
  BY <1>1, <1>3
<1>5. UNCHANGED <<policy, pc, call, peer, connecting, count, streak>>
  BY <1>4, Zenon DEF SwitchStep, SwitchEnds, DoneSwitch, ClearOngoing, monitorVars, policyVars,
                     ghosts
<1>6. OneMonitor'
  BY <1>2, <1>5, Zenon DEF OneMonitor
<1>7. CASE switch.phase \in {"running", "done"}
  <2>1. \/ switch' = [switch EXCEPT !.phase = "done"] /\ ns' = ns
        \/ switch' = [switch EXCEPT !.phase = "ready"] /\ ns' = "ready"
    BY <1>4, <1>7 DEF SwitchStep, SwitchEnds, DoneSwitch, ClearOngoing
  <2>2. switch'.phase \in {"done", "ready"} /\ (switch'.phase = "done" => ns' = ns)
    BY <1>2, <2>1 DEF Typed, SwitchTyped
  <2>3. SwitchSound'
    BY <1>2, <1>5, <1>7, <2>2 DEF SwitchSound
  <2>4. CountSound'
    BY <1>2, <1>5, <1>7, <2>2 DEF CountSound, Directions
  <2>5. ASSUME NEW m \in Monitors
        PROVE  MonitorSound(m)'
    <3>1. MonitorSound(m)
      BY <1>2
    <3>2. pc[m] \notin Deciding /\ pc[m] # "aborted"
      BY <1>7, <3>1 DEF MonitorSound
    <3>3. pc'[m] \notin Deciding /\ pc'[m] # "aborted"
      BY <1>5, <3>2
    <3>. QED  BY <3>3 DEF MonitorSound, Asking, Deciding
  <2>. QED  BY <1>6, <2>3, <2>4, <2>5 DEF AloneSound
<1>8. CASE switch.phase \notin {"running", "done"}
  <2>1. switch' = NoSwitch /\ ns' = ns /\ active' = active
    BY <1>4, <1>8 DEF SwitchStep, SwitchEnds, DoneSwitch, ClearOngoing
  <2>2. switch'.phase = "none"
    BY <2>1 DEF NoSwitch
  <2>3. (IsIncreaseable' <=> IsIncreaseable) /\ (IsDecreaseable' <=> IsDecreaseable)
    BY <2>1, Zenon DEF IsIncreaseable, IsDecreaseable
  <2>4. SwitchSound'
    BY <1>2, <1>5, <2>2 DEF SwitchSound
  <2>5. CountSound'
    BY <1>2, <1>5, <2>2, <2>3 DEF CountSound
  <2>6. ASSUME NEW m \in Monitors
        PROVE  MonitorSound(m)'
    <3>1. MonitorSound(m)
      BY <1>2
    <3>. QED  BY <1>5, <2>1, <2>2, <2>3, <3>1 DEF MonitorSound, Asking, Deciding
  <2>. QED  BY <1>6, <2>4, <2>5, <2>6 DEF AloneSound
<1>. QED  BY <1>7, <1>8

\* Only the policy that predicts comes to the prediction.
LEMMA PredictStep ==
  ASSUME PolicyInv, Next
  PROVE  PredictSound'
<1>1. /\ Typed /\ PredictSound /\ pc \in [Monitors -> PCs] /\ policy' = policy
  BY Zenon DEF PolicyInv, Remembered, Typed, MonitorTyped, Next, Start, Stop, MonitorStep, Sample,
       CheckReady, CheckIncreaseable, CheckDecreaseable, Decide, HistoryDecide, HistoryPredict,
       Recheck, ReadIndex, SwitchAdapters, RunSwitch, Elapse, ModeEvent, EventName, EventType,
       EventReset, SwitchStep, SwitchEnds, DoneSwitch, ClearOngoing, PeerRequests, PeerSets,
       PeerReturns, ConnectRequestEnds
<1>2. CASE \E m \in Monitors : HistoryDecide(m)
  BY <1>1, <1>2 DEF HistoryDecide, PredictSound
<1>3. CASE ~\E m \in Monitors : HistoryDecide(m)
  <2>1. \/ pc' = pc
        \/ \E m \in Monitors, l \in PCs \ {"predict"} : pc' = [pc EXCEPT ![m] = l]
    <3>. DEFINE Moved == \E m \in Monitors, l \in PCs \ {"predict"} : pc' = [pc EXCEPT ![m] = l]
    <3>1. {"off", "loop", "check", "inc", "dec", "decide", "recheck", "read", "switch", "run",
           "aborted"} \subseteq PCs \ {"predict"}
      BY DEF PCs
    <3>2. CASE Start
      BY <3>1, <3>2, Zenon DEF Start, Go
    <3>3. ASSUME NEW m \in Monitors, MonitorStep(m)
          PROVE  Moved
      <4>1. CASE \/ Sample(m) \/ CheckReady(m) \/ CheckIncreaseable(m)
                 \/ CheckDecreaseable(m) \/ Recheck(m) \/ ReadIndex(m)
        BY <3>1, <4>1, Zenon DEF Sample, CheckReady, CheckIncreaseable, CheckDecreaseable,
           Recheck, ReadIndex, Go, GoWith, Return
      <4>2. CASE SwitchAdapters(m) \/ RunSwitch(m)
        BY <3>1, <4>2, Zenon DEF SwitchAdapters, RunSwitch, Go, GoWith, Return
      <4>3. \A b, vote : Answer(m, b, vote) => Moved
        BY <3>1, Zenon DEF Answer, GoWith, Return
      <4>4. CASE Decide(m)
        BY <4>3, <4>4, Zenon
        DEF Decide, WfdOnlyDecide, BtOnlyDecide, ManualDecide, ThroughputDecide
      <4>5. CASE HistoryPredict(m)
        BY <4>3, <4>5, Zenon DEF HistoryPredict, SerialFilter
      <4>. QED  BY <1>3, <3>3, <4>1, <4>2, <4>4, <4>5, Zenon DEF MonitorStep
    <3>4. CASE \/ Stop \/ Elapse \/ ModeEvent \/ EventName \/ EventType \/ EventReset
               \/ SwitchStep \/ PeerRequests \/ PeerSets \/ PeerReturns \/ ConnectRequestEnds
      BY <3>4, Zenon
      DEF Stop, Elapse, ModeEvent, EventName, EventType, EventReset, SwitchStep, SwitchEnds,
          DoneSwitch, ClearOngoing, PeerRequests, PeerSets, PeerReturns, ConnectRequestEnds,
          monitorVars
    <3>. QED  BY <3>2, <3>3, <3>4, Zenon DEF Next
  <2>. QED  BY <1>1, <2>1 DEF PredictSound
<1>. QED  BY <1>2, <1>3

-----------------------------------------------------------------------------
(* The theorems *)

\* The invariant holds at the start.
LEMMA PolicyInit == Init => PolicyInv
<1>. SUFFICES ASSUME Init
              PROVE  PolicyInv
  OBVIOUS
<1>1. MonitorTyped
  <2>1. NoCall \in Calls
    BY PolicyAssumption DEF NoCall, Calls
  <2>2. pc \in [Monitors -> PCs] /\ call \in [Monitors -> Calls]
    BY <2>1 DEF Init, PCs
  <2>. QED  BY <2>2, Zenon DEF Init, MonitorTyped
<1>2. SwitchTyped
  <2>1. active \in 0..AdapterCount - 1
    BY PolicyAssumption DEF Init
  <2>2. switch \in [phase : {"none", "running", "done", "ready"}, next : 0..AdapterCount - 1]
    BY PolicyAssumption DEF Init, NoSwitch
  <2>. QED  BY <2>1, <2>2, Zenon DEF Init, SwitchTyped
<1>3. CountTyped
  BY PolicyAssumption DEF Init, CountTyped, Zero, Directions
<1>4. SampleTyped
  <2>1. serial \in [Directions -> 0..SerialCount]
    BY PolicyAssumption DEF Init, Zero, Directions
  <2>2. streak \in [of : {"up", "down", "none"}, length : 0..SeriesLength]
    BY SeriesLengthBound DEF Init, NoStreak
  <2>. QED  BY <2>1, <2>2, Zenon DEF Init, SampleTyped
<1>5. EventTyped
  BY PolicyAssumption DEF Init, EventTyped, EventSound
<1>6. BoundTyped
  <2>1. events \in 0..MaxEvents /\ requests \in 0..MaxRequests /\ failures \in 0..MaxFailures
    BY PolicyAssumption DEF Init
  <2>. QED  BY <2>1, Zenon DEF Init, BoundTyped
<1>7. SerialSound /\ PredictSound
  BY DEF Init, SerialSound, PredictSound, Zero, Directions
<1>8. SwitchSound /\ CountSound /\ OneMonitor
  BY DEF Init, SwitchSound, CountSound, OneMonitor, Zero, Directions, NoSwitch
<1>9. \A m \in Monitors : MonitorSound(m)
  BY DEF Init, MonitorSound, Asking, Deciding
<1>10. policy \in Policies
  BY DEF Init
<1>. QED  BY <1>1, <1>2, <1>3, <1>4, <1>5, <1>6, <1>7, <1>8, <1>9, <1>10, Zenon
     DEF PolicyInv, Remembered, Typed, AloneSound

\* ... and is kept by every step.
LEMMA PolicyStep == PolicyInv /\ [Next]_vars => PolicyInv'
<1>. SUFFICES ASSUME PolicyInv, [Next]_vars
              PROVE  PolicyInv'
  OBVIOUS
<1>1. CASE UNCHANGED vars
  <2>1. Typed'
    BY <1>1, TypeFrames, Zenon DEF PolicyInv, Remembered, Typed, vars, policyVars, ghosts
  <2>2. Remembered'
    BY <1>1, <2>1, RememberedFrame DEF PolicyInv, vars, policyVars, ghosts
  <2>3. PredictSound'
    BY <1>1, Zenon DEF PolicyInv, PredictSound, vars, monitorVars
  <2>4. AloneSound'
    BY <1>1, AloneFrame DEF PolicyInv, vars, monitorVars, policyVars, ghosts
  <2>. QED  BY <2>2, <2>3, <2>4 DEF PolicyInv
<1>2. CASE Next
  <2>1. PredictSound'
    BY <1>2, PredictStep
  <2>2. Remembered /\ \A m \in Monitors : pc[m] = "predict" => policy = "history"
    BY DEF PolicyInv, PredictSound
  <2>3. Remembered'
    BY <1>2, <2>2, StartStopTyped, ElapseSound, EventsSound, SwitchStepTyped, MonitorStepTyped,
       Zenon DEF Next
  <2>4. AloneSound'
    <3>. SUFFICES ASSUME alone'
                  PROVE  AloneSound'
      BY DEF AloneSound
    <3>1. ASSUME NEW m \in Monitors, MonitorStep(m)
          PROVE  AloneSound'
      <4>1. alone' = alone
        BY <3>1, Zenon DEF MonitorStep, Sample, CheckReady, CheckIncreaseable,
           CheckDecreaseable, Decide, HistoryDecide, HistoryPredict, Recheck, ReadIndex,
           SwitchAdapters, RunSwitch, ghosts
      <4>2. alone
        BY <4>1
      <4>. QED  BY <3>1, <4>2, ReadAlone, RunAlone, DecideAlone, HistoryAlone, Zenon
           DEF MonitorStep
    <3>. QED  BY <1>2, <3>1, OutsideAlone, SwitchAlone, Zenon DEF Next
  <2>. QED  BY <2>1, <2>3, <2>4 DEF PolicyInv
<1>. QED  BY <1>1, <1>2

\* PolicyInv is an invariant of the specification.
THEOREM PolicyInvariant == Spec => []PolicyInv
BY PolicyInit, PolicyStep, PTL DEF Spec

\* Only a policy that answers brings a monitor thread to increase_adapter() or
\* decrease_adapter().
LEMMA OnlyAnswersAsk ==
  ASSUME PolicyInv, Next, NEW m \in Monitors, pc[m] # "recheck", pc'[m] = "recheck"
  PROVE  Decide(m) \/ HistoryPredict(m)
<1>1. pc \in [Monitors -> PCs]
  BY DEF PolicyInv, Remembered, Typed, MonitorTyped
<1>2. ASSUME NEW n \in Monitors, NEW l, pc' = [pc EXCEPT ![n] = l], l # "recheck" \/ n # m
      PROVE  FALSE
  BY <1>1, <1>2
<1>3. CASE Start
  <2>1. \E n \in Monitors : pc' = [pc EXCEPT ![n] = "loop"]
    BY <1>3, Zenon DEF Start, Go
  <2>. QED  BY <1>2, <2>1
<1>4. ASSUME NEW n \in Monitors, MonitorStep(n)
      PROVE  Decide(m) \/ HistoryPredict(m)
  <2>1. CASE \/ Sample(n) \/ CheckReady(n) \/ CheckIncreaseable(n)
             \/ CheckDecreaseable(n) \/ Recheck(n) \/ ReadIndex(n)
    <3>1. \E l \in {"off", "loop", "check", "inc", "dec", "decide", "read", "switch"} :
            pc' = [pc EXCEPT ![n] = l]
      BY <2>1, Zenon DEF Sample, CheckReady, CheckIncreaseable, CheckDecreaseable,
         Recheck, ReadIndex, Go, GoWith, Return
    <3>. QED  BY <1>2, <3>1
  <2>2. CASE SwitchAdapters(n) \/ RunSwitch(n)
    <3>1. \E l \in {"loop", "run", "aborted"} : pc' = [pc EXCEPT ![n] = l]
      BY <2>2, Zenon DEF SwitchAdapters, RunSwitch, Go, GoWith, Return
    <3>. QED  BY <1>2, <3>1
  <2>3. CASE HistoryDecide(n)
    <3>1. \E l \in {"loop", "predict"} : pc' = [pc EXCEPT ![n] = l]
      BY <2>3, HistoryDecideSound, Zenon DEF PolicyInv, Remembered, Return, GoWith
    <3>. QED  BY <1>2, <3>1
  <2>4. CASE Decide(n) \/ HistoryPredict(n)
    <3>1. \E l : pc' = [pc EXCEPT ![n] = l]
      <4>1. \A b, vote : Answer(n, b, vote) => \E l : pc' = [pc EXCEPT ![n] = l]
        BY Zenon DEF Answer, Return, GoWith
      <4>2. CASE Decide(n)
        BY <4>1, <4>2, Zenon
        DEF Decide, WfdOnlyDecide, BtOnlyDecide, ManualDecide, ThroughputDecide
      <4>3. CASE HistoryPredict(n)
        BY <4>1, <4>3, Zenon DEF HistoryPredict, SerialFilter
      <4>. QED  BY <2>4, <4>2, <4>3
    <3>2. n = m
      BY <1>2, <3>1
    <3>. QED  BY <2>4, <3>2
  <2>. QED  BY <1>4, <2>1, <2>2, <2>3, <2>4, Zenon DEF MonitorStep
<1>5. CASE \/ Stop \/ Elapse \/ ModeEvent \/ EventName \/ EventType \/ EventReset
           \/ SwitchStep \/ PeerRequests \/ PeerSets \/ PeerReturns \/ ConnectRequestEnds
  <2>1. pc' = pc
    BY <1>5, Zenon
    DEF Stop, Elapse, ModeEvent, EventName, EventType, EventReset, SwitchStep, SwitchEnds,
        DoneSwitch, ClearOngoing, PeerRequests, PeerSets, PeerReturns, ConnectRequestEnds,
        monitorVars
  <2>. QED  BY <2>1
<1>. QED  BY <1>3, <1>4, <1>5, Zenon DEF Next

\* The series behind a request of NMPolicyThroughputAware.
LEMMA ThroughputJustified ==
  ASSUME PolicyInv, alone, policy = "throughput", NEW m \in Monitors, Decide(m),
         pc'[m] = "recheck"
  PROVE  LET b == call'[m].behavior
         IN Series(policy, b) = 1 \/ (streak.of = b /\ streak.length + 1 >= Series(policy, b))
<1>1. /\ Typed /\ MonitorTyped
      /\ streak \in [of : {"up", "down", "none"}, length : 0..SeriesLength]
      /\ count \in [Directions -> Nat]
      /\ \A d \in Directions : count[d] > 0 => streak.of = d /\ streak.length >= count[d]
  BY DEF PolicyInv, Remembered, Typed, SampleTyped, CountTyped, AloneSound, CountSound
<1>2. call[m].inc \/ call[m].dec
  <2>1. ASSUME Answer(m, "none", "none")
        PROVE  FALSE
    BY <1>1, <2>1, AnswerAsks
  <2>. QED  BY <1>1, <2>1, ThroughputDecideTyped
<1>. DEFINE dir == IF call[m].inc THEN "up" ELSE "down"
            s == Series("throughput", dir)
<1>3. \E n \in Nat : ThroughputCounts(m, dir, n)
  <2>1. ~(~call[m].inc /\ ~call[m].dec)
    BY <1>2
  <2>. QED  BY <1>1, <2>1, ThroughputDecideTyped
<1>4. PICK n \in Nat : ThroughputCounts(m, dir, n)
  BY <1>3
<1>5. dir \in Directions
  BY DEF Directions
<1>. HIDE DEF dir, s
<1>6. /\ n = (IF call[m].load = dir THEN count[dir] + 1 ELSE 0)
      /\ Answer(m, IF n >= s THEN dir ELSE "none", IF call[m].load = dir THEN dir ELSE "none")
  BY <1>4, Zenon DEF ThroughputCounts, s
<1>7. s \in Nat \ {0}
  BY SeriesBound DEF s
<1>8. (IF n >= s THEN dir ELSE "none") \in {"none", "up", "down"}
  BY <1>5 DEF Directions
<1>9. (IF n >= s THEN dir ELSE "none") # "none"
      /\ call'[m].behavior = (IF n >= s THEN dir ELSE "none")
  BY <1>1, <1>6, <1>8, AnswerAsks
<1>10. n >= s /\ call'[m].behavior = dir /\ Series(policy, dir) = s
  BY <1>9, Zenon DEF s
<1>11. n = count[dir] + 1 /\ count[dir] \in Nat
  BY <1>1, <1>5, <1>6, <1>7, <1>10
<1>12. s = 1 \/ (streak.of = dir /\ streak.length + 1 >= s)
  <2>1. CASE count[dir] > 0
    <3>1. streak.of = dir /\ streak.length >= count[dir] /\ streak.length \in Nat
      BY <1>1, <1>5, <2>1, SeriesLengthBound
    <3>. QED  BY <1>7, <1>10, <1>11, <3>1
  <2>2. CASE ~(count[dir] > 0)
    BY <1>7, <1>10, <1>11, <2>2
  <2>. QED  BY <2>1, <2>2
<1>. QED  BY <1>10, <1>12, Zenon

(***************************************************************************)
(* A switch is asked for only on a full series of samples (decide() of all *)
(* policies): for any thresholds, any number of adapters, monitor threads, *)
(* events, failed or refused switches and requests of the peer; of the     *)
(* throughput-aware policy, while no request of the peer and no second     *)
(* monitor thread has made it count during a switch.                       *)
(***************************************************************************)
THEOREM SwitchesAreJustified == Spec => SwitchIsJustified
<1>. DEFINE Justified ==
       \A m \in Monitors :
         /\ pc[m] # "recheck" /\ pc'[m] = "recheck"
         /\ policy = "throughput" => alone
         => LET b == call'[m].behavior
            IN \/ Series(policy, b) = 1
               \/ streak.of = b /\ streak.length + 1 >= Series(policy, b)
<1>1. PolicyInv /\ [Next]_vars => [Justified]_vars
  <2>. SUFFICES ASSUME PolicyInv, Next, NEW m \in Monitors,
                       pc[m] # "recheck", pc'[m] = "recheck", policy = "throughput" => alone
                PROVE  LET b == call'[m].behavior
                       IN \/ Series(policy, b) = 1
                          \/ streak.of = b /\ streak.length + 1 >= Series(policy, b)
    BY Zenon
  <2>1. Typed /\ MonitorTyped /\ SerialSound /\ SerialCount \in Nat \ {0}
        /\ streak \in [of : {"up", "down", "none"}, length : 0..SeriesLength]
    BY PolicyAssumption DEF PolicyInv, Remembered, Typed, SampleTyped
  <2>2. Decide(m) \/ HistoryPredict(m)
    BY OnlyAnswersAsk
  <2>3. CASE Decide(m) /\ policy = "throughput"
    BY <2>3, ThroughputJustified
  <2>4. CASE Decide(m) /\ policy # "throughput"
    <3>1. policy \notin {"throughput", "history"}
      BY <2>1, <2>4, PlainDecide
    <3>2. Series(policy, call'[m].behavior) = 1
      BY <3>1 DEF Series
    <3>. QED  BY <3>2
  <2>5. CASE HistoryPredict(m)
    <3>1. policy = "history"
      BY <2>5 DEF HistoryPredict, PolicyInv, PredictSound
    <3>2. ~Return(m)
      <4>1. ASSUME Return(m)
            PROVE  pc'[m] = "loop"
        BY <2>1, <4>1 DEF Return, GoWith, MonitorTyped
      <4>. QED  BY <4>1
    <3>3. PICK b \in Directions :
            Answer(m, b, b) /\ streak.of = b /\ streak.length >= SerialCount
      BY <2>1, <2>5, <3>1, <3>2, HistoryPredictSound, Zenon
    <3>4. call'[m].behavior = b
      <4>1. b \in {"none", "up", "down"}
        BY DEF Directions
      <4>. QED  BY <2>1, <3>3, <4>1, AnswerAsks
    <3>5. Series(policy, b) = SerialCount + 1
      BY <3>1 DEF Series
    <3>6. streak.length + 1 >= SerialCount + 1
      BY <2>1, <3>3, SeriesLengthBound
    <3>. QED  BY <3>3, <3>4, <3>5, <3>6, Zenon
  <2>. QED  BY <2>2, <2>3, <2>4, <2>5
<1>2. SwitchIsJustified <=> [][Justified]_vars
  BY DEF SwitchIsJustified
<1>. HIDE DEF Justified
<1>3. Spec => [][Justified]_vars
  BY <1>1, PolicyInvariant, PTL DEF Spec
<1>. QED  BY <1>2, <1>3, PTL

(***************************************************************************)
(* The next adapter exists (increase_adapter(), decrease_adapter(),        *)
(* get_adapter()), as long as no request of the peer resets the state of   *)
(* the switcher during a switch and no second monitor thread runs: for any *)
(* number of adapters, policies, thresholds, events and failed switches.   *)
(***************************************************************************)
THEOREM NextAdapterExists == Spec => []AdapterExists
<1>1. PolicyInv => AdapterExists
  <2>. SUFFICES ASSUME PolicyInv
                PROVE  AdapterExists
    OBVIOUS
  <2>1. TypeOK
    BY TypeParts DEF PolicyInv, Remembered
  <2>2. ASSUME alone, NEW m \in Monitors
        PROVE  pc[m] # "aborted"
    BY <2>2, Zenon DEF PolicyInv, AloneSound, MonitorSound
  <2>. QED  BY <2>1, <2>2, Zenon DEF AdapterExists, GetAdapterNeverAborts
<1>. QED  BY <1>1, PolicyInvariant, PTL

-----------------------------------------------------------------------------
(* Two adapters *)

(***************************************************************************)
(* The strengthening of PolicyInv for ModeIsActive, with two adapters: the *)
(* mode follows the request at once, the active adapter follows the mode   *)
(* when the switch has ended, if none has failed.                          *)
(***************************************************************************)
ModeSound ==
  alone /\ failures = 0 /\ policy \in {"throughput", "history"} =>
    /\ \A m \in Monitors : pc[m] \in Asking =>
         /\ mode <=> call[m].behavior = "up"
         /\ call[m].behavior = "up" <=> active = 0
    /\ switch.phase = "running" => (mode <=> switch.next = 1)
    /\ switch.phase # "running" /\ (\A m \in Monitors : pc[m] \notin Asking) =>
         (mode <=> active = 1)

\* Steps that change neither the mode nor the switch.
LEMMA ModeFrame ==
  ASSUME Typed, ModeSound, alone' => alone, failures' = 0 => failures = 0,
         UNCHANGED <<policy, mode, active>>,
         switch' = switch \/ {switch.phase, switch'.phase} \subseteq {"none", "done", "ready"},
         \A m \in Monitors : pc'[m] \in Asking <=> pc[m] \in Asking,
         \A m \in Monitors : pc[m] \in Asking => call'[m].behavior = call[m].behavior
  PROVE  ModeSound'
<1>. SUFFICES ASSUME alone', failures' = 0, policy \in {"throughput", "history"}
              PROVE  /\ \A m \in Monitors : pc'[m] \in Asking =>
                          /\ mode <=> call'[m].behavior = "up"
                          /\ call'[m].behavior = "up" <=> active = 0
                     /\ switch'.phase = "running" => (mode <=> switch'.next = 1)
                     /\ /\ switch'.phase # "running"
                        /\ \A m \in Monitors : pc'[m] \notin Asking
                        => (mode <=> active = 1)
  BY Zenon DEF ModeSound
<1>1. /\ \A m \in Monitors : pc[m] \in Asking =>
           /\ mode <=> call[m].behavior = "up"
           /\ call[m].behavior = "up" <=> active = 0
      /\ switch.phase = "running" => (mode <=> switch.next = 1)
      /\ switch.phase # "running" /\ (\A m \in Monitors : pc[m] \notin Asking) =>
           (mode <=> active = 1)
  BY Zenon DEF ModeSound
<1>2. \A m \in Monitors : pc'[m] \in Asking =>
           /\ mode <=> call'[m].behavior = "up"
           /\ call'[m].behavior = "up" <=> active = 0
  BY <1>1, Zenon
<1>3. CASE switch' = switch
  BY <1>1, <1>2, <1>3, Zenon
<1>4. CASE {switch.phase, switch'.phase} \subseteq {"none", "done", "ready"}
  <2>1. switch.phase # "running" /\ switch'.phase # "running"
    BY <1>4
  <2>. QED  BY <1>1, <1>2, <2>1, Zenon
<1>. QED  BY <1>3, <1>4

\* A policy has asked for the switch that is possible.
LEMMA ModeAsked ==
  ASSUME Typed, OneMonitor, NEW m \in Monitors, pc[m] # "off", NEW b \in Directions,
         mode' = (b = "up"), b = "up" <=> active = 0, UNCHANGED <<active, switch>>,
         switch.phase # "running", Answer(m, b, b)
  PROVE  ModeSound'
<1>. DEFINE c == [call[m] EXCEPT !.behavior = b]
<1>1. b # "none" /\ call[m] \in Calls
  BY DEF Directions, Typed, MonitorTyped
<1>2. GoWith(m, "recheck", c)
  BY <1>1, Zenon DEF Answer
<1>3. c.behavior = b
  BY <1>1, Zenon DEF Calls
<1>. HIDE DEF c
<1>4. pc' = [pc EXCEPT ![m] = "recheck"] /\ call'[m] = c
  BY <1>2, GoEffect
<1>5. \A n \in Monitors : pc'[n] \in Asking <=> n = m
  BY <1>4 DEF OneMonitor, Typed, MonitorTyped, Asking
<1>. QED  BY <1>3, <1>4, <1>5, Zenon DEF ModeSound

\* ModeSound is kept.
LEMMA ModeStep ==
  ASSUME AdapterCount = 2, PolicyInv, ModeSound, [Next]_vars
  PROVE  ModeSound'
<1>. USE DEF Asking
<1>1. /\ Typed /\ pc \in [Monitors -> PCs] /\ call \in [Monitors -> Calls]
      /\ active \in 0..1 /\ failures \in Nat
      /\ switch \in [phase : {"none", "running", "done", "ready"}, next : 0..1]
  BY DEF PolicyInv, Remembered, Typed, MonitorTyped, SwitchTyped, BoundTyped
<1>2. ASSUME alone, NEW m \in Monitors
      PROVE  MonitorSound(m) /\ OneMonitor
  BY <1>2 DEF PolicyInv, AloneSound
<1>3. CASE UNCHANGED vars
  BY <1>1, <1>3, ModeFrame, Zenon DEF vars, policyVars, monitorVars, switchVars, ghosts
<1>4. CASE Stop \/ Elapse \/ EventName \/ EventType \/ EventReset
  <2>1. UNCHANGED <<policy, mode, active, pc, call, switch, alone, failures>>
    BY <1>4, Zenon DEF Stop, Elapse, EventName, EventType, EventReset, policyVars, monitorVars,
                       switchVars, ghosts
  <2>. QED  BY <1>1, <2>1, ModeFrame, Zenon
<1>5. CASE ModeEvent
  <2>1. policy' = policy /\ policy \notin {"throughput", "history"}
    BY <1>5 DEF ModeEvent, WfdOnlyEvent, ManualEvent, AppManualEvent
  <2>. QED  BY <2>1, Zenon DEF ModeSound
<1>6. CASE Start
  <2>1. /\ UNCHANGED <<policy, mode, active, call, switch, failures>> /\ (alone' => alone)
    BY <1>6, Zenon DEF Start, Go, policyVars, switchVars
  <2>2. PICK m \in Monitors : pc[m] = "off" /\ pc' = [pc EXCEPT ![m] = "loop"]
    BY <1>6, Zenon DEF Start, Go
  <2>3. \A n \in Monitors : pc'[n] \in Asking <=> pc[n] \in Asking
    BY <1>1, <2>2
  <2>. QED  BY <1>1, <2>1, <2>3, ModeFrame, Zenon
<1>7. CASE PeerRequests \/ PeerSets \/ PeerReturns \/ ConnectRequestEnds
  <2>1. UNCHANGED <<policy, mode, active, pc, call, switch, failures>>
    BY <1>7, Zenon DEF PeerRequests, PeerSets, PeerReturns, ConnectRequestEnds, policyVars,
                       monitorVars, ghosts
  <2>2. alone' => alone
    <3>1. CASE PeerRequests
      BY <3>1, Zenon DEF PeerRequests
    <3>2. CASE PeerSets \/ PeerReturns \/ ConnectRequestEnds
      BY <3>2, Zenon DEF PeerSets, PeerReturns, ConnectRequestEnds, ghosts
    <3>. QED  BY <1>7, <3>1, <3>2, Zenon
  <2>. QED  BY <1>1, <2>1, <2>2, ModeFrame, Zenon
<1>8. CASE SwitchStep
  <2>1. UNCHANGED <<policy, mode, pc, call, alone>>
    BY <1>8, Zenon DEF SwitchStep, SwitchEnds, DoneSwitch, ClearOngoing, policyVars,
                       monitorVars, ghosts
  <2>2. CASE DoneSwitch \/ ClearOngoing
    <3>1. UNCHANGED <<active, failures>>
      BY <2>2, Zenon DEF DoneSwitch, ClearOngoing, ghosts
    <3>2. {switch.phase, switch'.phase} \subseteq {"none", "done", "ready"}
      BY <1>1, <2>2 DEF DoneSwitch, ClearOngoing, NoSwitch
    <3>. QED  BY <1>1, <2>1, <3>1, <3>2, ModeFrame, Zenon
  <2>3. CASE \E success \in BOOLEAN : SwitchEnds(success)
    <3>1. PICK success \in BOOLEAN : SwitchEnds(success)
      BY <2>3
    <3>2. /\ switch.phase = "running" /\ switch' = [switch EXCEPT !.phase = "done"]
          /\ active' = (IF success THEN switch.next ELSE active)
          /\ failures' = (IF success THEN failures ELSE failures + 1)
      BY <3>1, Zenon DEF SwitchEnds
    <3>. SUFFICES ASSUME alone', failures' = 0, policy \in {"throughput", "history"}
                  PROVE  ModeSound'
      BY <2>1, Zenon DEF ModeSound
    <3>3. success /\ failures = 0 /\ active' = switch.next /\ alone
      <4>1. success
        BY <1>1, <3>2
      <4>. QED  BY <2>1, <3>2, <4>1, Zenon
    <3>4. mode <=> switch.next = 1
      BY <3>2, <3>3, Zenon DEF ModeSound
    <3>5. \A m \in Monitors : pc'[m] \notin Asking
      BY <1>2, <2>1, <3>2, <3>3 DEF MonitorSound, Deciding
    <3>6. switch'.phase = "done"
      BY <1>1, <3>2
    <3>7. switch'.phase # "running"
      BY <3>6
    <3>. QED  BY <2>1, <3>3, <3>4, <3>5, <3>7, Zenon DEF ModeSound
  <2>. QED  BY <1>8, <2>2, <2>3 DEF SwitchStep
<1>9. ASSUME NEW m \in Monitors, MonitorStep(m)
      PROVE  ModeSound'
  <2>1. /\ UNCHANGED <<policy, active, alone>>
        /\ failures' = failures \/ failures' = failures + 1
    BY <1>9, Zenon DEF MonitorStep, Sample, CheckReady, CheckIncreaseable, CheckDecreaseable,
       Decide, HistoryDecide, HistoryPredict, Recheck, ReadIndex, SwitchAdapters, RunSwitch,
       switchVars, ghosts
  <2>. SUFFICES ASSUME alone, failures' = 0, policy \in {"throughput", "history"}
                PROVE  ModeSound'
    BY <2>1, Zenon DEF ModeSound
  <2>2. failures = 0 /\ MonitorSound(m) /\ OneMonitor /\ call[m] \in Calls
    BY <1>1, <1>2, <2>1
  <2>3. /\ pc[m] \in Asking => /\ mode <=> call[m].behavior = "up"
                               /\ call[m].behavior = "up" <=> active = 0
        /\ pc[m] \in Deciding => switch.phase # "running"
    BY <2>2 DEF ModeSound, MonitorSound
  <2>4. CASE \/ Sample(m) \/ CheckReady(m) \/ CheckIncreaseable(m)
             \/ CheckDecreaseable(m) \/ ReadIndex(m) \/ SwitchAdapters(m)
    <3>1. UNCHANGED <<mode, switch, failures>>
      BY <2>4, Zenon DEF Sample, CheckReady, CheckIncreaseable, CheckDecreaseable, ReadIndex,
                         SwitchAdapters, switchVars, policyVars, ghosts
    <3>2. /\ \A n \in Monitors : pc'[n] \in Asking <=> pc[n] \in Asking
          /\ \A n \in Monitors : pc[n] \in Asking => call'[n].behavior = call[n].behavior
      <4>1. CASE Sample(m) \/ CheckReady(m) \/ CheckIncreaseable(m) \/ CheckDecreaseable(m)
        <5>1. /\ pc[m] \notin Asking /\ \E l \in {"off", "loop", "check", "inc", "dec", "decide"} :
                                           pc' = [pc EXCEPT ![m] = l]
          BY <4>1, Zenon DEF Sample, CheckReady, CheckIncreaseable, CheckDecreaseable, Go,
                             GoWith, Return
        <5>2. \A n \in Monitors : n # m => call'[n] = call[n]
          BY <1>1, <4>1 DEF Sample, CheckReady, CheckIncreaseable, CheckDecreaseable, Go,
                             GoWith, Return
        <5>. QED  BY <1>1, <5>1, <5>2
      <4>2. CASE ReadIndex(m)
        <5>. DEFINE c == [call[m] EXCEPT !.prev = active]
        <5>1. pc[m] = "read" /\ pc' = [pc EXCEPT ![m] = "switch"]
              /\ call' = [call EXCEPT ![m] = c]
          BY <4>2, Zenon DEF ReadIndex, GoWith
        <5>2. c.behavior = call[m].behavior
          BY <2>2, Zenon DEF Calls
        <5>. HIDE DEF c
        <5>. QED  BY <1>1, <5>1, <5>2
      <4>3. CASE SwitchAdapters(m)
        BY <1>1, <4>3 DEF SwitchAdapters, Go
      <4>. QED  BY <2>4, <4>1, <4>2, <4>3
    <3>. QED  BY <1>1, <2>1, <3>1, <3>2, ModeFrame, Zenon
  <2>5. CASE Recheck(m)
    <3>1. pc[m] = "recheck" /\ UNCHANGED <<mode, switch, failures>>
      BY <2>5, Zenon DEF Recheck, switchVars, policyVars, ghosts
    <3>2. IF call[m].behavior = "up" THEN IsIncreaseable ELSE IsDecreaseable
      BY <1>1, <2>3, <3>1 DEF IsIncreaseable, IsDecreaseable
    <3>3. Go(m, "read")
      BY <2>5, <3>2 DEF Recheck
    <3>4. /\ call' = call
          /\ \A n \in Monitors : pc'[n] \in Asking <=> pc[n] \in Asking
      BY <1>1, <3>1, <3>3 DEF Go
    <3>. QED  BY <1>1, <2>1, <3>1, <3>4, ModeFrame, Zenon
  <2>6. CASE RunSwitch(m)
    <3>1. pc[m] = "run" /\ mode' = mode
      BY <2>6, Zenon DEF RunSwitch, policyVars
    <3>2. switch.phase = "none"
      BY <1>1, <2>2, <2>6 DEF RunSwitch
    <3>3. call[m].prev = active
      BY <2>2, <3>1 DEF MonitorSound
    <3>4. NextIndex(m) = (IF call[m].behavior = "up" THEN active + 1 ELSE active - 1)
      BY <3>3 DEF NextIndex
    <3>5. NextIndex(m) \in 0..1 /\ (mode <=> NextIndex(m) = 1)
      BY <1>1, <2>3, <3>1, <3>4
    <3>6. switch' = [phase |-> "running", next |-> NextIndex(m)] /\ Return(m)
      BY <2>6, <3>2, <3>5 DEF RunSwitch
    <3>7. switch'.phase = "running" /\ switch'.next = NextIndex(m)
      BY <3>6
    <3>8. pc' = [pc EXCEPT ![m] = "loop"]
      BY <1>1, <3>6, GoEffect
    <3>9. \A n \in Monitors : pc'[n] \notin Asking
      BY <1>1, <2>2, <3>1, <3>8 DEF OneMonitor
    <3>. QED  BY <3>1, <3>5, <3>7, <3>9, Zenon DEF ModeSound
  <2>7. CASE Decide(m) \/ HistoryDecide(m) \/ HistoryPredict(m)
    <3>1. /\ pc[m] \in {"decide", "predict"} /\ UNCHANGED <<switch, failures>>
      BY <2>7, Zenon DEF Decide, HistoryDecide, HistoryPredict, switchVars
    <3>2. /\ call[m].inc <=> active = 0
          /\ call[m].dec <=> active = 1
      BY <1>1, <2>2, <3>1 DEF MonitorSound, IsIncreaseable, IsDecreaseable
    <3>3. switch.phase # "running"
      BY <2>3, <3>1 DEF Deciding
    <3>4. \/ \E b \in Directions :
               /\ Answer(m, b, b) /\ mode' = (b = "up")
               /\ b = (IF call[m].inc THEN "up" ELSE "down")
          \/ (Return(m) \/ \E c : GoWith(m, "predict", c)) /\ mode' = mode
      <4>1. CASE HistoryDecide(m)
        BY <1>1, <4>1, HistoryDecideSound, Zenon DEF PolicyInv, Remembered
      <4>2. CASE HistoryPredict(m)
        <5>1. policy = "history"
          BY <4>2 DEF PolicyInv, PredictSound, HistoryPredict
        <5>. QED  BY <1>1, <4>2, <5>1, HistoryPredictSound, Zenon DEF PolicyInv, Remembered
      <4>3. CASE Decide(m)
        <5>1. policy = "throughput"
          BY <1>1, <4>3, PlainDecide
        <5>2. CASE ~call[m].inc /\ ~call[m].dec
          <6>1. Answer(m, "none", "none") /\ UNCHANGED <<mode, count>>
            BY <1>1, <4>3, <5>1, <5>2, ThroughputDecideTyped
          <6>. QED  BY <6>1 DEF Answer
        <5>3. CASE call[m].inc \/ call[m].dec
          <6>. DEFINE dir == IF call[m].inc THEN "up" ELSE "down"
          <6>1. \E n \in Nat : ThroughputCounts(m, dir, n)
            BY <1>1, <4>3, <5>1, <5>3, ThroughputDecideTyped
          <6>2. PICK n \in Nat : ThroughputCounts(m, dir, n)
            BY <6>1
          <6>3. dir \in Directions
            BY DEF Directions
          <6>. HIDE DEF dir
          <6>4. CASE n >= Series("throughput", dir)
            <7>1. call[m].load = dir
              BY <6>2, <6>4, SeriesBound DEF ThroughputCounts
            <7>2. Answer(m, dir, dir) /\ mode' = (dir = "up")
              BY <6>2, <6>4, <7>1, Zenon DEF ThroughputCounts
            <7>. QED  BY <6>3, <7>2, Zenon DEF dir
          <6>5. CASE ~(n >= Series("throughput", dir))
            <7>1. mode' = mode /\ \E vote : Answer(m, "none", vote)
              BY <6>2, <6>5, Zenon DEF ThroughputCounts
            <7>. QED  BY <7>1, Zenon DEF Answer
          <6>. QED  BY <6>4, <6>5
        <5>. QED  BY <5>2, <5>3
      <4>. QED  BY <2>7, <4>1, <4>2, <4>3
    <3>5. CASE \E b \in Directions :
                 /\ Answer(m, b, b) /\ mode' = (b = "up")
                 /\ b = (IF call[m].inc THEN "up" ELSE "down")
      <4>1. PICK b \in Directions :
                 /\ Answer(m, b, b) /\ mode' = (b = "up")
                 /\ b = (IF call[m].inc THEN "up" ELSE "down")
        BY <3>5
      <4>2. b = "up" <=> active = 0
        BY <3>2, <4>1
      <4>3. pc[m] # "off"
        BY <3>1
      <4>. QED  BY <1>1, <2>1, <2>2, <3>1, <3>3, <4>1, <4>2, <4>3, ModeAsked
    <3>6. CASE (Return(m) \/ \E c : GoWith(m, "predict", c)) /\ mode' = mode
      <4>1. \E l \in {"loop", "predict"} : pc' = [pc EXCEPT ![m] = l]
        BY <3>6, Zenon DEF Return, GoWith
      <4>2. \A n \in Monitors : n # m => call'[n] = call[n]
        BY <1>1, <3>6 DEF Return, GoWith
      <4>3. /\ \A n \in Monitors : pc'[n] \in Asking <=> pc[n] \in Asking
            /\ \A n \in Monitors : pc[n] \in Asking => call'[n].behavior = call[n].behavior
        BY <1>1, <3>1, <4>1, <4>2
      <4>. QED  BY <1>1, <2>1, <3>1, <3>6, <4>3, ModeFrame, Zenon
    <3>. QED  BY <3>4, <3>5, <3>6
  <2>. QED  BY <1>9, <2>4, <2>5, <2>6, <2>7, Zenon DEF MonitorStep
<1>. QED  BY <1>3, <1>4, <1>5, <1>6, <1>7, <1>8, <1>9, Zenon DEF Next

(***************************************************************************)
(* With two adapters the mode that NMPolicyThroughputAware and             *)
(* NMPolicyHistoryBased record when they ask for a switch is the adapter   *)
(* in use when nothing is under way, if no switch failed or was refused.   *)
(***************************************************************************)
THEOREM ModeFollowsActive ==
  ASSUME AdapterCount = 2
  PROVE  Spec => []ModeIsActive
<1>1. Init => ModeSound
  <2>. SUFFICES ASSUME Init
                PROVE  ModeSound
    OBVIOUS
  <2>1. active = 0 /\ mode = FALSE /\ switch = NoSwitch /\ \A m \in Monitors : pc[m] = "off"
    BY DEF Init
  <2>2. ~(active = 1) /\ switch.phase = "none"
    BY <2>1 DEF NoSwitch
  <2>. QED  BY <2>1, <2>2 DEF ModeSound, Asking
<1>2. PolicyInv /\ ModeSound /\ [Next]_vars => ModeSound'
  BY ModeStep
<1>3. PolicyInv /\ ModeSound => ModeIsActive
  <2>. SUFFICES ASSUME ModeSound, policy \in {"throughput", "history"}, alone, failures = 0,
                       switch.phase = "none", \A m \in Monitors : pc[m] \in {"off", "loop"}
                PROVE  mode <=> active = AdapterCount - 1
    BY Zenon DEF ModeIsActive
  <2>1. \A m \in Monitors : pc[m] \notin Asking
    BY DEF Asking
  <2>2. switch.phase # "running"
    OBVIOUS
  <2>3. mode <=> active = 1
    BY <2>1, <2>2, Zenon DEF ModeSound
  <2>4. AdapterCount - 1 = 1
    OBVIOUS
  <2>. QED  BY <2>3, <2>4, Zenon
<1>. QED  BY <1>1, <1>2, <1>3, PolicyInvariant, PTL DEF Spec
=============================================================================
