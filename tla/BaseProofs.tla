------------------------------ MODULE BaseProofs ------------------------------
(***************************************************************************)
(* What the classes other controllers are built on promise, and the types  *)
(* of all their variables, for every choice of the constants: timeouts,    *)
(* options, handlers, calls, subscribers, sites and checks.                *)
(***************************************************************************)
EXTENDS MC_BaseClasses, TLAPS

-----------------------------------------------------------------------------
(* RecurringTimeout.  IInv strengthens its safety properties to an         *)
(* inductive invariant: it ties the timer, the tracked execution and the   *)
(* queued start to one another, none of which any single property          *)
(* mentions.                                                               *)


\* Stale microtasks carry smaller sessions; the current one is last, and it is
\* there exactly while startScheduled holds.
QueueInv ==
    /\ \A i \in 1 .. Len(microtasks) : microtasks[i] <= session
    /\ \A i \in 1 .. Len(microtasks) :
          microtasks[i] = session => startScheduled /\ i = Len(microtasks)
    /\ startScheduled => Len(microtasks) > 0 /\ microtasks[Len(microtasks)] = session

\* The loop of a running instance is carried either by the timer or by the
\* tracked execution, never by both, and by neither while a start is pending.
LoopInv ==
    /\ orphans = 0
    /\ timer => running /\ promise = 0
    /\ promise # 0 => promise = fnExecutionsCount /\ promise \in inFlight
    /\ running => ~startScheduled /\ (timer \/ promise # 0)
    /\ wanted <=> (running \/ startScheduled)

OptionsInv == pendingStart.allowOverlap => pendingStart.runImmediately

IInv == TypeOK /\ QueueInv /\ LoopInv /\ OptionsInv

-----------------------------------------------------------------------------
LEMMA InitIInv == Init => IInv
  <1> SUFFICES ASSUME Init PROVE IInv
    OBVIOUS
  <1>1. NoOptions \in AllOptions /\ ~NoOptions.allowOverlap
    BY DEF NoOptions, AllOptions
  <1>2. TypeOK
    <2>1. microtasks \in Seq(Nat)
      BY DEF Init
    <2>2. promise \in 0 .. fnExecutionsCount /\ inFlight \subseteq 1 .. fnExecutionsCount
      BY DEF Init
    <2> QED  BY <1>1, <2>1, <2>2, TimeoutsAssumption DEF Init, TypeOK
  <1>3. QueueInv
    BY DEF Init, QueueInv
  <1>4. LoopInv
    BY DEF Init, LoopInv
  <1>5. OptionsInv
    BY <1>1 DEF Init, OptionsInv
  <1> QED  BY <1>2, <1>3, <1>4, <1>5 DEF IInv

\* Merging two option records gives an option record; allowOverlap still comes
\* with runImmediately.
LEMMA MergedOptionsType ==
    ASSUME TypeOK, OptionsInv, NEW o \in StartOptions
    PROVE  /\ MergedOptions(o) \in AllOptions
           /\ MergedOptions(o).allowOverlap => MergedOptions(o).runImmediately
  <1>1. o \in AllOptions /\ (o.allowOverlap => o.runImmediately)
    BY StartOptionsAssumption
  <1>2. pendingStart \in AllOptions
    BY DEF TypeOK
  <1> QED  BY <1>1, <1>2 DEF MergedOptions, AllOptions, OptionsInv

\* Taking the first microtask shifts the others.
LEMMA TailOfQueue ==
    ASSUME TypeOK, TakeMicrotask
    PROVE  /\ microtasks' \in Seq(Nat)
           /\ Len(microtasks') = Len(microtasks) - 1
           /\ Len(microtasks) > 0 /\ Head(microtasks) = microtasks[1]
           /\ \A i \in 1 .. Len(microtasks') : microtasks'[i] = microtasks[i + 1]
  BY DEF TypeOK, TakeMicrotask

\* A queued start is the last microtask, and carries the session it is for.
LEMMA AppendToQueue ==
    ASSUME TypeOK, NEW s \in Nat, microtasks' = Append(microtasks, s)
    PROVE  /\ microtasks' \in Seq(Nat)
           /\ Len(microtasks') = Len(microtasks) + 1
           /\ microtasks'[Len(microtasks')] = s
           /\ \A i \in 1 .. Len(microtasks) : microtasks'[i] = microtasks[i]
  BY DEF TypeOK

LEMMA StartIInv ==
    ASSUME IInv, NEW o \in StartOptions, Start(o)
    PROVE  IInv'
  <1> USE DEF IInv
  <1>1. CASE running /\ UNCHANGED startVars
    <2>1. TypeOK' /\ OptionsInv'
      BY <1>1 DEF TypeOK, OptionsInv, Start, Call, startVars
    <2>2. QueueInv' /\ LoopInv'
      BY <1>1 DEF QueueInv, LoopInv, Start, Call, startVars
    <2> QED  BY <2>1, <2>2
  <1>2. CASE ~running /\ ~startScheduled /\ QueueStart(o, session) /\ UNCHANGED session
    <2>1. microtasks' = Append(microtasks, session) /\ session \in Nat
      BY <1>2 DEF QueueStart, TypeOK
    <2>2. microtasks' \in Seq(Nat) /\ pendingStart' \in AllOptions /\ OptionsInv'
      BY <1>2, <2>1, MergedOptionsType, AppendToQueue DEF QueueStart, OptionsInv
    <2>3. TypeOK'
      BY <1>2, <2>2 DEF TypeOK, Start, Call, QueueStart
    <2>4. QueueInv'
      BY <1>2, <2>1, AppendToQueue DEF QueueInv, QueueStart, TypeOK
    <2>5. LoopInv'
      BY <1>2 DEF LoopInv, Start, Call, QueueStart
    <2> QED  BY <2>2, <2>3, <2>4, <2>5
  <1>3. CASE /\ ~running /\ startScheduled
             /\ pendingStart' = MergedOptions(o)
             /\ UNCHANGED <<startScheduled, session, microtasks>>
    <2>1. pendingStart' \in AllOptions /\ OptionsInv'
      BY <1>3, MergedOptionsType DEF OptionsInv
    <2>2. TypeOK'
      BY <1>3, <2>1 DEF TypeOK, Start, Call
    <2>3. QueueInv' /\ LoopInv'
      BY <1>3 DEF QueueInv, LoopInv, Start, Call
    <2> QED  BY <2>1, <2>2, <2>3
  <1> QED  BY <1>1, <1>2, <1>3 DEF Start

LEMMA RestartIInv ==
    ASSUME IInv, NEW o \in StartOptions, Restart(o)
    PROVE  IInv'
  <1> USE DEF IInv
  <1>1. microtasks' = Append(microtasks, session + 1) /\ session + 1 \in Nat
    BY DEF Restart, QueueStart, TypeOK
  <1>2. microtasks' \in Seq(Nat) /\ pendingStart' \in AllOptions /\ OptionsInv'
    BY <1>1, MergedOptionsType, AppendToQueue DEF Restart, QueueStart, OptionsInv
  <1>3. TypeOK'
    <2>1. session' \in Nat /\ calls' \in Nat /\ orphans' \in Nat /\ fnExecutionsCount' \in Nat
      BY DEF TypeOK, Restart, Call, Reset
    <2>2. promise' \in 0 .. fnExecutionsCount' /\ inFlight' \subseteq 1 .. fnExecutionsCount'
      BY DEF TypeOK, Restart, Call, Reset
    <2>3. /\ running' \in BOOLEAN /\ startScheduled' \in BOOLEAN /\ timer' \in BOOLEAN
          /\ wanted' \in BOOLEAN /\ currentTimeout' \in Timeouts
      BY DEF TypeOK, Restart, Reset, QueueStart
    <2> QED  BY <1>2, <2>1, <2>2, <2>3 DEF TypeOK
  <1>4. QueueInv'
    BY <1>1, AppendToQueue DEF QueueInv, Restart, QueueStart, TypeOK
  <1>5. LoopInv'
    BY DEF LoopInv, Restart, Call, Reset, QueueStart
  <1> QED  BY <1>2, <1>3, <1>4, <1>5

\* The microtasks already queued all become stale: the session moves on.
LEMMA StopIInv ==
    ASSUME IInv, Stop
    PROVE  IInv'
  <1> USE DEF IInv
  <1>1. TypeOK'
    <2>1. promise' \in 0 .. fnExecutionsCount' /\ inFlight' \subseteq 1 .. fnExecutionsCount'
      BY DEF TypeOK, Stop, Call, Reset
    <2>2. session' \in Nat /\ calls' \in Nat /\ orphans' \in Nat /\ fnExecutionsCount' \in Nat
      BY DEF TypeOK, Stop, Call, Reset
    <2>3. microtasks' \in Seq(Nat) /\ pendingStart' \in AllOptions /\ currentTimeout' \in Timeouts
      BY DEF TypeOK, Stop
    <2>4. /\ running' \in BOOLEAN /\ startScheduled' \in BOOLEAN /\ timer' \in BOOLEAN
          /\ wanted' \in BOOLEAN
      BY DEF TypeOK, Stop, Reset
    <2> QED  BY <2>1, <2>2, <2>3, <2>4 DEF TypeOK
  <1>2. QueueInv'
    BY DEF QueueInv, Stop, TypeOK
  <1>3. LoopInv' /\ OptionsInv'
    BY DEF LoopInv, OptionsInv, Stop, Call, Reset
  <1> QED  BY <1>1, <1>2, <1>3

LEMMA UpdateTimeoutIInv ==
    ASSUME IInv, NEW t \in Timeouts, UpdateTimeout(t)
    PROVE  IInv'
  <1>1. TypeOK' /\ OptionsInv'
    BY DEF IInv, TypeOK, OptionsInv, UpdateTimeout, Call, startVars
  <1>2. QueueInv' /\ LoopInv'
    BY DEF IInv, QueueInv, LoopInv, UpdateTimeout, Call, startVars
  <1> QED  BY <1>1, <1>2 DEF IInv

LEMMA StaleMicrotaskIInv ==
    ASSUME IInv, RunStaleMicrotask
    PROVE  IInv'
  <1> USE DEF IInv
  <1>1. TakeMicrotask /\ Head(microtasks) # session
    BY DEF RunStaleMicrotask
  <1>2. TypeOK' /\ OptionsInv'
    BY <1>1, TailOfQueue DEF TypeOK, OptionsInv, RunStaleMicrotask, TakeMicrotask, loopVars
  <1>3. QueueInv'
    <2>1. UNCHANGED <<startScheduled, session>> /\ microtasks[1] # session
      BY <1>1, TailOfQueue DEF RunStaleMicrotask
    <2>2. Len(microtasks') \in Nat /\ Len(microtasks) = Len(microtasks') + 1
      BY <1>1, TailOfQueue DEF TypeOK
    <2>3. \A i \in 1 .. Len(microtasks') :
             i + 1 \in 1 .. Len(microtasks) /\ microtasks'[i] = microtasks[i + 1]
      BY <1>1, <2>2, TailOfQueue
    <2>4. startScheduled => Len(microtasks') > 0
      BY <2>1, <2>2 DEF QueueInv
    <2> QED  BY <2>1, <2>2, <2>3, <2>4 DEF QueueInv
  <1>4. LoopInv'
    BY DEF LoopInv, RunStaleMicrotask, loopVars
  <1> QED  BY <1>2, <1>3, <1>4

\* The live microtask is the only one left, so its step empties the queue, and
\* it finds an idle instance that was asked to start.
LEMMA LiveMicrotask ==
    ASSUME IInv, ApplyStart
    PROVE  /\ startScheduled /\ ~running /\ ~timer /\ wanted
           /\ Len(microtasks') = 0 /\ microtasks' \in Seq(Nat)
           /\ pendingStart' \in AllOptions /\ OptionsInv'
           /\ currentTimeout' \in Timeouts
           /\ calls' \in Nat
  <1> USE DEF IInv
  <1>1. TakeMicrotask /\ Head(microtasks) = session
    BY DEF ApplyStart, RunsNow
  <1>2. startScheduled /\ Len(microtasks') = 0 /\ microtasks' \in Seq(Nat)
    BY <1>1, TailOfQueue DEF QueueInv, TypeOK
  <1>3. ~running /\ ~timer /\ wanted
    BY <1>2 DEF LoopInv
  <1>4. NoOptions \in AllOptions /\ ~NoOptions.allowOverlap
    BY DEF NoOptions, AllOptions
  <1>5. pendingStart' \in AllOptions /\ OptionsInv'
    BY <1>4 DEF ApplyStart, OptionsInv
  <1>6. currentTimeout' \in Timeouts
    <2>1. pendingStart.timeout \in Timeouts \cup {NoTimeout}
      BY DEF TypeOK, AllOptions
    <2> QED  BY <2>1 DEF ApplyStart, TypeOK
  <1>7. calls' \in Nat
    BY <1>1 DEF TakeMicrotask, TypeOK
  <1> QED  BY <1>2, <1>3, <1>5, <1>6, <1>7

LEMMA JoinIInv ==
    ASSUME IInv, JoinRunningLoop
    PROVE  IInv'
  <1> USE DEF IInv
  <1>1. ApplyStart
    BY DEF JoinRunningLoop
  <1>2. startScheduled' = FALSE /\ running' = TRUE /\ promise # 0
    BY <1>1 DEF JoinRunningLoop, ApplyStart, BlockedByPrevious
  <1>3. TypeOK'
    BY <1>1, <1>2, LiveMicrotask DEF TypeOK, JoinRunningLoop
  <1>4. QueueInv'
    BY <1>1, <1>2, LiveMicrotask DEF QueueInv
  <1>5. LoopInv'
    BY <1>1, <1>2, LiveMicrotask DEF LoopInv, JoinRunningLoop
  <1> QED  BY <1>1, <1>3, <1>4, <1>5, LiveMicrotask

LEMMA StartDelayedIInv ==
    ASSUME IInv, StartDelayed
    PROVE  IInv'
  <1> USE DEF IInv
  <1>1. ApplyStart
    BY DEF StartDelayed
  <1>2. startScheduled' = FALSE /\ running' = TRUE /\ timer' = TRUE /\ orphans' = 0
    BY <1>1, LiveMicrotask DEF StartDelayed, ApplyStart, Arm, LoopInv
  <1>3. promise = 0
    BY DEF StartDelayed, BlockedByPrevious, OptionsInv
  <1>4. TypeOK'
    BY <1>1, <1>2, LiveMicrotask DEF TypeOK, StartDelayed
  <1>5. QueueInv'
    BY <1>1, <1>2, LiveMicrotask DEF QueueInv
  <1>6. LoopInv'
    BY <1>1, <1>2, <1>3, LiveMicrotask DEF LoopInv, StartDelayed
  <1> QED  BY <1>1, <1>4, <1>5, <1>6, LiveMicrotask

\* The new execution is the latest one, in flight, and tracked by promise.
LEMMA LoopEffect ==
    ASSUME TypeOK, NEW selfStop \in BOOLEAN, Loop(selfStop)
    PROVE  /\ fnExecutionsCount' \in Nat /\ promise' \in 0 .. fnExecutionsCount'
           /\ inFlight' \subseteq 1 .. fnExecutionsCount'
           /\ promise' = fnExecutionsCount' /\ promise' \in inFlight' /\ promise' # 0
           /\ session' \in Nat /\ wanted' \in BOOLEAN
  BY DEF TypeOK, Loop

LEMMA StartImmediatelyIInv ==
    ASSUME IInv, NEW selfStop \in BOOLEAN, StartImmediately(selfStop)
    PROVE  IInv'
  <1> USE DEF IInv
  <1>1. ApplyStart /\ Loop(selfStop)
    BY DEF StartImmediately
  <1>2. /\ startScheduled' = FALSE /\ running' = ~selfStop
        /\ timer' = FALSE /\ orphans' = 0 /\ wanted' = ~selfStop
    BY <1>1, LiveMicrotask DEF StartImmediately, ApplyStart, LoopInv, Loop
  <1>3. TypeOK'
    BY <1>1, <1>2, LiveMicrotask, LoopEffect DEF TypeOK
  <1>4. QueueInv'
    BY <1>1, <1>2, LiveMicrotask DEF QueueInv
  <1>5. LoopInv'
    BY <1>1, <1>2, LoopEffect DEF LoopInv
  <1> QED  BY <1>1, <1>3, <1>4, <1>5, LiveMicrotask

\* A timer that fires belongs to a running loop without a tracked execution.
LEMMA TimerIsCurrent ==
    ASSUME IInv, NEW selfStop \in BOOLEAN, FireTimer(selfStop)
    PROVE  timer /\ running /\ wanted /\ promise = 0 /\ ~startScheduled /\ orphans = 0
  BY DEF IInv, LoopInv, FireTimer

LEMMA FireTimerIInv ==
    ASSUME IInv, NEW selfStop \in BOOLEAN, FireTimer(selfStop)
    PROVE  IInv'
  <1> USE DEF IInv
  <1>1. Loop(selfStop)
    BY DEF FireTimer
  <1>2. /\ startScheduled' = FALSE /\ running' = ~selfStop
        /\ timer' = FALSE /\ orphans' = 0 /\ wanted' = ~selfStop
    <2>1. timer' = FALSE /\ orphans' = 0
      <3>1. ~(orphans > 0)
        BY TimerIsCurrent
      <3> QED  BY <3>1, TimerIsCurrent DEF FireTimer
    <2>2. running' = ~selfStop /\ startScheduled' = FALSE /\ wanted' = ~selfStop
      BY TimerIsCurrent, Zenon DEF FireTimer, Loop
    <2> QED  BY <2>1, <2>2
  <1>3. TypeOK' /\ OptionsInv'
    BY <1>1, <1>2, LoopEffect DEF TypeOK, FireTimer, OptionsInv
  <1>4. QueueInv'
    BY <1>1, <1>2 DEF QueueInv, FireTimer
  <1>5. LoopInv'
    BY <1>1, <1>2, LoopEffect DEF LoopInv
  <1> QED  BY <1>3, <1>4, <1>5

\* Only the tracked execution arms a timer, and then it stops being tracked.
LEMMA SettleIInv ==
    ASSUME IInv, NEW e \in inFlight, Settle(e)
    PROVE  IInv'
  <1> USE DEF IInv
  <1>1. QueueInv' /\ OptionsInv'
    BY DEF QueueInv, OptionsInv, Settle, startVars
  <1>2. CASE promise # 0 /\ fnExecutionsCount = e
    <2>1. ~timer /\ orphans = 0
      BY <1>2 DEF LoopInv
    <2>2. promise' = 0 /\ (timer' <=> running) /\ timer' \in BOOLEAN /\ orphans' = 0
      <3>1. CASE running
        <4>1. promise' = 0 /\ Arm
          BY <1>2, <3>1 DEF Settle
        <4> QED  BY <2>1, <3>1, <4>1 DEF Arm
      <3>2. CASE ~running
        <4>1. promise' = 0 /\ UNCHANGED <<timer, orphans>>
          BY <1>2, <3>2 DEF Settle
        <4> QED  BY <2>1, <3>2, <4>1 DEF TypeOK
      <3> QED  BY <3>1, <3>2
    <2>3. TypeOK'
      BY <2>2 DEF TypeOK, Settle, startVars, history
    <2>4. LoopInv'
      BY <2>2 DEF LoopInv, Settle, startVars, history
    <2> QED  BY <1>1, <2>3, <2>4
  <1>3. CASE ~(promise # 0 /\ fnExecutionsCount = e)
    <2>1. UNCHANGED <<promise, timer, orphans>> /\ inFlight' = inFlight \ {e}
      BY <1>3 DEF Settle
    <2>2. promise # 0 => promise \in inFlight'
      BY <1>3, <2>1 DEF LoopInv
    <2>3. TypeOK'
      BY <2>1 DEF TypeOK, Settle, startVars, history
    <2>4. LoopInv'
      BY <2>1, <2>2 DEF LoopInv, Settle, startVars, history
    <2> QED  BY <1>1, <2>3, <2>4
  <1> QED  BY <1>2, <1>3

LEMMA NextIInv == IInv /\ [Next]_vars => IInv'
  <1> SUFFICES ASSUME IInv, [Next]_vars PROVE IInv'
    OBVIOUS
  <1>1. CASE Callers
    BY <1>1, StartIInv, RestartIInv, StopIInv, UpdateTimeoutIInv DEF Callers
  <1>2. CASE RunMicrotask
    BY <1>2, StaleMicrotaskIInv, JoinIInv, StartImmediatelyIInv, StartDelayedIInv DEF RunMicrotask
  <1>3. CASE \E selfStop \in BOOLEAN : FireTimer(selfStop)
    BY <1>3, FireTimerIInv
  <1>4. CASE \E e \in inFlight : Settle(e)
    BY <1>4, SettleIInv
  <1>5. CASE UNCHANGED vars
    BY <1>5 DEF vars, loopVars, startVars, history, IInv, TypeOK, QueueInv, LoopInv, OptionsInv
  <1> QED  BY <1>1, <1>2, <1>3, <1>4, <1>5 DEF Next, Scheduler

\* The inductive invariant: timer, tracked execution, queued start and history
\* agree, and the state has its type.
THEOREM Invariance == Spec => []IInv
  BY InitIInv, NextIInv, PTL DEF Spec

\* TypeOK holds in every reachable state.
THEOREM TypeCorrect == Spec => []TypeOK
  BY Invariance, PTL DEF IInv

\* At most one timer is armed, and only for a loop that runs.
THEOREM SingleTimerHolds == Spec => []SingleTimer
  <1>1. IInv => SingleTimer
    BY DEF IInv, LoopInv, SingleTimer
  <1> QED  BY <1>1, Invariance, PTL

\* The queued start of the current session agrees with startScheduled.
THEOREM PendingStartQueuedHolds == Spec => []PendingStartQueued
  <1>1. ASSUME IInv PROVE PendingStartQueued
    <2>1. Len(microtasks) \in Nat /\ DOMAIN microtasks = 1 .. Len(microtasks)
      BY <1>1 DEF IInv, TypeOK
    <2> DEFINE live == {i \in DOMAIN microtasks : microtasks[i] = session}
    <2>2. CASE startScheduled
      <3>1. Len(microtasks) \in live
        <4>1. Len(microtasks) > 0 /\ microtasks[Len(microtasks)] = session
          BY <1>1, <2>2 DEF IInv, QueueInv
        <4>2. Len(microtasks) \in DOMAIN microtasks
          BY <2>1, <4>1
        <4> QED  BY <4>1, <4>2
      <3>2. \A i \in live : i = Len(microtasks)
        BY <1>1, <2>1 DEF IInv, QueueInv
      <3> HIDE DEF live
      <3>3. live = {Len(microtasks)}
        BY <3>1, <3>2
      <3> QED  BY <2>2, <3>3 DEF PendingStartQueued, live
    <2>3. CASE ~startScheduled
      <3>1. \A i \in live : FALSE
        BY <1>1, <2>1, <2>3 DEF IInv, QueueInv
      <3> HIDE DEF live
      <3>2. live = {}
        BY <3>1
      <3> QED  BY <2>3, <3>2 DEF PendingStartQueued, live
    <2> QED  BY <2>2, <2>3
  <1> QED  BY <1>1, Invariance, PTL

\* A loop that is wanted has its next execution queued, timed or under way.
THEOREM LoopNotLostHolds == Spec => []LoopNotLost
  <1>1. ASSUME IInv PROVE LoopNotLost
    <2>1. startScheduled => Len(microtasks) \in DOMAIN microtasks
                            /\ microtasks[Len(microtasks)] = session
      BY <1>1 DEF IInv, QueueInv, TypeOK
    <2> QED  BY <1>1, <2>1 DEF IInv, LoopInv, LoopNotLost, WillRearm
  <1> QED  BY <1>1, Invariance, PTL

\* No step begins an execution of fn unless the loop is started.
THEOREM NothingRunsAfterStopHolds == Spec => NothingRunsAfterStop
  <1>1. ASSUME IInv, [Next]_vars
        PROVE  [fnExecutionsCount' # fnExecutionsCount => wanted]_vars
    <2>1. CASE Callers
      BY <2>1 DEF Callers, Start, Restart, Stop, UpdateTimeout, Call
    <2>2. ASSUME NEW selfStop \in BOOLEAN, StartImmediately(selfStop) PROVE wanted
      BY <1>1, <2>2, LiveMicrotask DEF StartImmediately
    <2>3. CASE RunMicrotask
      BY <2>2, <2>3 DEF RunMicrotask, RunStaleMicrotask, JoinRunningLoop, StartDelayed, loopVars
    <2>4. CASE \E selfStop \in BOOLEAN : FireTimer(selfStop)
      BY <1>1, <2>4, TimerIsCurrent
    <2>5. CASE \E e \in inFlight : Settle(e)
      BY <2>5 DEF Settle
    <2> QED  BY <1>1, <2>1, <2>3, <2>4, <2>5 DEF Next, Scheduler
  <1> QED  BY <1>1, Invariance, PTL DEF Spec, NothingRunsAfterStop

\* Within a session, an execution waits for the previous one or was asked to
\* overlap it.
THEOREM NoOverlapUnlessAskedHolds == Spec => NoOverlapUnlessAsked
  <1> DEFINE Waits == promise = 0 \/ (pendingStart.allowOverlap /\ microtasks # <<>>)
  <1>1. ASSUME IInv, [Next]_vars
        PROVE  [fnExecutionsCount' # fnExecutionsCount => Waits]_vars
    <2>1. CASE Callers
      BY <2>1 DEF Callers, Start, Restart, Stop, UpdateTimeout, Call
    <2>2. ASSUME NEW selfStop \in BOOLEAN, StartImmediately(selfStop) PROVE Waits
      BY <2>2 DEF StartImmediately, BlockedByPrevious, ApplyStart, TakeMicrotask
    <2>3. CASE RunMicrotask
      BY <2>2, <2>3 DEF RunMicrotask, RunStaleMicrotask, JoinRunningLoop, StartDelayed, loopVars
    <2>4. CASE \E selfStop \in BOOLEAN : FireTimer(selfStop)
      BY <1>1, <2>4, TimerIsCurrent
    <2>5. CASE \E e \in inFlight : Settle(e)
      BY <2>5 DEF Settle
    <2> QED  BY <1>1, <2>1, <2>3, <2>4, <2>5 DEF Next, Scheduler
  <1> QED  BY <1>1, Invariance, PTL DEF Spec, NoOverlapUnlessAsked

-----------------------------------------------------------------------------
\* What a call of the interface does to the wish to overlap.
LEMMA MergedOverlap ==
    ASSUME NEW o, o.allowOverlap \in BOOLEAN
    PROVE  MergedOptions(o).allowOverlap = (pendingStart.allowOverlap \/ o.allowOverlap)
  BY DEF MergedOptions

\* The beginning of an execution is one of the task, if the task is wanted and
\* waits for nothing it was not asked to overlap.
LEMMA LoopBegins ==
    ASSUME IInv, NEW selfStop \in BOOLEAN, Loop(selfStop), wanted,
           pendingStart'.allowOverlap \in {FALSE, pendingStart.allowOverlap},
           promise # 0 => pendingStart.allowOverlap /\ ~pendingStart'.allowOverlap
    PROVE  Task!Begin
  <1>1. fnExecutionsCount \in Nat
    BY DEF IInv, TypeOK
  <1>2. wanted' \in BOOLEAN
    BY DEF Loop, IInv, TypeOK
  <1> QED  BY <1>1, <1>2 DEF Loop, Task!Begin

\* Every step of the class is one of the periodic task, or leaves it alone.
LEMMA NextImplementsTask ==
    ASSUME IInv, [Next]_vars
    PROVE  [Task!TaskNext]_(Task!taskVars)
  <1> USE DEF Task!taskVars
  <1>1. \A o \in StartOptions : o.allowOverlap \in BOOLEAN
    BY StartOptionsAssumption DEF AllOptions
  <1>2. ASSUME NEW o \in StartOptions, Start(o) PROVE Task!Start(o.allowOverlap)
    BY <1>1, <1>2, MergedOverlap DEF Start, Call, QueueStart, startVars, Task!Start
  <1>3. ASSUME NEW o \in StartOptions, Restart(o) PROVE Task!Restart(o.allowOverlap)
    BY <1>1, <1>3, MergedOverlap DEF Restart, Call, Reset, QueueStart, Task!Restart
  <1>4. ASSUME Stop PROVE Task!Stop
    BY <1>4 DEF Stop, Call, Reset, Task!Stop
  <1>5. ASSUME NEW t, UpdateTimeout(t) PROVE UNCHANGED Task!taskVars
    BY <1>5 DEF UpdateTimeout, Call, startVars
  <1>6. CASE Callers
    <2>1. CASE \E o \in StartOptions : Start(o) \/ Restart(o)
      BY <1>1, <1>2, <1>3, <2>1 DEF Task!TaskNext
    <2> QED  BY <1>4, <1>5, <1>6, <2>1 DEF Callers, Task!TaskNext
  <1>7. CASE RunStaleMicrotask
    BY <1>7 DEF RunStaleMicrotask, loopVars
  <1>8. ASSUME ApplyStart PROVE ~pendingStart'.allowOverlap
    BY <1>8 DEF ApplyStart, NoOptions
  <1>9. CASE JoinRunningLoop
    <2>1. ~pendingStart.allowOverlap /\ pendingStart.allowOverlap \in BOOLEAN
      BY <1>9 DEF JoinRunningLoop, BlockedByPrevious, IInv, TypeOK, AllOptions
    <2>2. pendingStart'.allowOverlap = pendingStart.allowOverlap
      BY <1>8, <1>9, <2>1 DEF JoinRunningLoop, ApplyStart, NoOptions
    <2> QED  BY <1>9, <2>2 DEF JoinRunningLoop
  <1>10. CASE StartDelayed
    <2>1. ~pendingStart.allowOverlap /\ pendingStart.allowOverlap \in BOOLEAN
      BY <1>10 DEF StartDelayed, IInv, OptionsInv, TypeOK, AllOptions
    <2>2. pendingStart'.allowOverlap = pendingStart.allowOverlap
      BY <1>8, <1>10, <2>1 DEF StartDelayed, ApplyStart, NoOptions
    <2> QED  BY <1>10, <2>2 DEF StartDelayed
  <1>11. ASSUME NEW selfStop \in BOOLEAN, StartImmediately(selfStop) PROVE Task!Begin
    <2>1. wanted
      BY <1>11, LiveMicrotask DEF StartImmediately
    <2>2. pendingStart'.allowOverlap = FALSE /\ (promise # 0 => pendingStart.allowOverlap)
      BY <1>11 DEF StartImmediately, ApplyStart, NoOptions, BlockedByPrevious
    <2> QED  BY <1>11, <2>1, <2>2, LoopBegins DEF StartImmediately
  <1>12. ASSUME NEW selfStop \in BOOLEAN, FireTimer(selfStop) PROVE Task!Begin
    <2>1. wanted /\ promise = 0
      BY <1>12, TimerIsCurrent
    <2> QED  BY <1>12, <2>1, LoopBegins DEF FireTimer
  <1>13. ASSUME NEW e \in inFlight, Settle(e) PROVE Task!End(e)
    <2>1. promise # 0 => promise = fnExecutionsCount
      BY DEF IInv, LoopInv
    <2>2. promise' = IF e = promise THEN 0 ELSE promise
      <3>1. e # 0
        BY DEF IInv, TypeOK
      <3> QED  BY <1>13, <2>1, <3>1 DEF Settle
    <2> QED  BY <1>13, <2>2 DEF Settle, startVars, history, Task!End
  <1>14. CASE UNCHANGED vars
    BY <1>14 DEF vars, loopVars, startVars, history
  <1>15. CASE Scheduler
    BY <1>7, <1>9, <1>10, <1>11, <1>12, <1>13, <1>15
       DEF Scheduler, RunMicrotask, Task!TaskNext
  <1> QED  BY <1>6, <1>14, <1>15 DEF Next

\* The class implements the safety part of the periodic task, for every choice
\* of options and bounds: it begins an execution only while the task is wanted
\* and only when the one it waits for has ended or an overlap was asked for.
THEOREM ImplementsTaskSafely == Spec => Task!TaskSpec
  <1>1. Init => Task!TaskInit
    BY DEF Init, Task!TaskInit, NoOptions
  <1>2. IInv /\ [Next]_vars => [Task!TaskNext]_(Task!taskVars)
    BY NextImplementsTask
  <1> QED  BY <1>1, <1>2, Invariance, PTL DEF Spec, Task!TaskSpec

-----------------------------------------------------------------------------
(* EventEmitter: handlers which are not concurrent ones exclude one        *)
(* another, for any handlers, calls and subscribers, with ids that are     *)
(* shared or not.  From its admission until its final update such a        *)
(* handler keeps its own status away from INITIAL, and none of them waits  *)
(* for an earlier call.                                                    *)


Slots == [method : Wrapped, pc : Forcing \cup {"wait", "running"}] \cup {NoHandler}

\* h runs, or its outcome is still shown, and it is not a concurrent handler.
Exclusive(h) ==
    handler[h].method \notin Concurrent /\ handler[h].pc \in {"loading", "running", "ended"}

StatusInv == \A h \in Handlers : Exclusive(h) => statuses[handler[h].method] # "INITIAL"

NoExclusiveWaits ==
    \A h \in Handlers : handler[h].pc = "wait" => handler[h].method \in Concurrent

OneExclusive == \A g, h \in Handlers : Exclusive(g) /\ Exclusive(h) => g = h

EmitterInv == EmitterTypeOK /\ StatusInv /\ NoExclusiveWaits /\ OneExclusive

LEMMA EmitterSlots == EmitterTypeOK <=> /\ EmitterTypeOK
                                        /\ handler \in [Handlers -> Slots]
  BY DEF EmitterTypeOK, Slots

LEMMA InitEmitterInv == EmitterInit => EmitterInv
  <1> SUFFICES ASSUME EmitterInit PROVE EmitterInv
    OBVIOUS
  <1>1. EmitterTypeOK
    BY DEF EmitterInit, EmitterTypeOK
  <1>2. \A h \in Handlers : handler[h].pc = "idle"
    BY DEF EmitterInit, NoHandler
  <1> QED
    BY <1>1, <1>2 DEF EmitterInv, StatusInv, NoExclusiveWaits, OneExclusive, Exclusive

\* Steps that leave the handlers and their statuses alone.
LEMMA UpdatesKeep ==
    ASSUME EmitterInv, UNCHANGED <<statuses, handler>>
    PROVE  StatusInv' /\ NoExclusiveWaits' /\ OneExclusive'
  BY DEF EmitterInv, StatusInv, NoExclusiveWaits, OneExclusive, Exclusive

\* A handler that goes on with its method, and whose status changes with it.
LEMMA SlotMoves ==
    ASSUME EmitterInv, NEW h \in Handlers, NEW m \in Wrapped,
           NEW pc \in Forcing \cup {"wait", "running"},
           GoesTo(h, m, pc),
           NEW status \in {"INITIAL", "LOADING", "SUCCESS", "ERROR"},
           statuses' = [statuses EXCEPT ![m] = status],
           m \in Concurrent \/ pc # "wait",
           \* an exclusive one is the only one, and shows it
           m \notin Concurrent =>
               /\ \A g \in Handlers : g # h => ~Exclusive(g)
               /\ pc # "final" => status # "INITIAL"
    PROVE  StatusInv' /\ NoExclusiveWaits' /\ OneExclusive'
           /\ handler' \in [Handlers -> Slots]
           /\ statuses' \in [Wrapped -> {"INITIAL", "LOADING", "SUCCESS", "ERROR"}]
  <1>1. handler \in [Handlers -> Slots]
    BY EmitterSlots DEF EmitterInv
  <1>2. statuses \in [Wrapped -> {"INITIAL", "LOADING", "SUCCESS", "ERROR"}]
    BY DEF EmitterInv, EmitterTypeOK
  <1>3. handler' = [handler EXCEPT ![h] = [method |-> m, pc |-> pc]]
    BY DEF GoesTo
  <1>4. handler' \in [Handlers -> Slots]
    BY <1>1, <1>3 DEF Slots
  <1>5. statuses' \in [Wrapped -> {"INITIAL", "LOADING", "SUCCESS", "ERROR"}]
    BY <1>2
  <1>6. handler'[h].method = m /\ handler'[h].pc = pc
    BY <1>1, <1>3
  <1>7. \A g \in Handlers : g # h => handler'[g] = handler[g] /\ Exclusive(g)' = Exclusive(g)
    BY <1>1, <1>3 DEF Exclusive
  <1>8. \A g \in Handlers : g # h /\ Exclusive(g) => handler[g].method # m
    BY DEF Exclusive
  <1>9. \A g \in Handlers : Exclusive(g) => handler[g].method \in Wrapped
    BY <1>1 DEF Exclusive, Slots, NoHandler
  <1>10. StatusInv'
    <2> SUFFICES ASSUME NEW g \in Handlers, Exclusive(g)'
           PROVE statuses'[handler'[g].method] # "INITIAL"
      BY DEF StatusInv
    <2>1. CASE g = h
      BY <1>2, <1>6, <2>1 DEF Exclusive
    <2>2. CASE g # h
      BY <1>2, <1>7, <1>8, <1>9, <2>2 DEF EmitterInv, StatusInv
    <2> QED  BY <2>1, <2>2
  <1>11. NoExclusiveWaits'
    BY <1>6, <1>7 DEF EmitterInv, NoExclusiveWaits
  <1>12. OneExclusive'
    <2> SUFFICES ASSUME NEW g \in Handlers, NEW k \in Handlers, Exclusive(g)', Exclusive(k)',
           g # k
                 PROVE FALSE
      BY DEF OneExclusive
    <2>1. CASE g = h
      BY <1>6, <1>7, <2>1 DEF Exclusive
    <2>2. CASE k = h
      BY <1>6, <1>7, <2>2 DEF Exclusive
    <2>3. CASE g # h /\ k # h
      BY <1>7, <2>3 DEF EmitterInv, OneExclusive
    <2> QED  BY <2>1, <2>2, <2>3
  <1> QED  BY <1>4, <1>5, <1>10, <1>11, <1>12

\* A handler that starts, beside no exclusive one.
LEMMA LoadMoves ==
    ASSUME EmitterInv, NEW h \in Handlers, NEW m \in Wrapped, Load(h, m),
           m \notin Concurrent => \A g \in Handlers : g # h => ~Exclusive(g)
    PROVE  StatusInv' /\ NoExclusiveWaits' /\ OneExclusive'
           /\ handler' \in [Handlers -> Slots]
           /\ statuses' \in [Wrapped -> {"INITIAL", "LOADING", "SUCCESS", "ERROR"}]
  <1>1. GoesTo(h, m, "loading") /\ statuses' = [statuses EXCEPT ![m] = "LOADING"]
    BY DEF Load
  <1>2. "loading" \in Forcing \cup {"wait", "running"}
    BY DEF Forcing
  <1>3. m \in Concurrent \/ "loading" # "wait"
    OBVIOUS
  <1>4. m \notin Concurrent =>
            /\ \A g \in Handlers : g # h => ~Exclusive(g)
            /\ "loading" # "final" => "LOADING" # "INITIAL"
    OBVIOUS
  <1> QED  BY <1>1, <1>2, <1>3, <1>4, SlotMoves

\* While an exclusive handler is under way, none is admitted.
LEMMA AdmittedAlone ==
    ASSUME EmitterInv, NEW m \in Wrapped, Admitted(m), m \notin Concurrent
    PROVE  \A g \in Handlers : ~Exclusive(g)
  <1>1. \A g \in Handlers : Exclusive(g) => handler[g].method \in Wrapped
    BY EmitterSlots DEF EmitterInv, Exclusive, Slots, NoHandler
  <1> QED  BY <1>1 DEF Admitted, EmitterInv, StatusInv

LEMMA WithStatusInv ==
    ASSUME EmitterInv, NEW h \in Handlers, NEW m \in Wrapped, WithStatus(h, m)
    PROVE  EmitterInv'
  <1>1. m \notin Concurrent => statuses[m] = "INITIAL" /\ \A g \in Handlers : ~Exclusive(g)
    BY AdmittedAlone DEF WithStatus, Admitted
  <1>2. statuses \in [Wrapped -> {"INITIAL", "LOADING", "SUCCESS", "ERROR"}]
    BY DEF EmitterInv, EmitterTypeOK
  <1>3. CASE statuses[m] = "SUCCESS"
    <2>1. GoesTo(h, m, "wait") /\ UNCHANGED <<statuses, updateVars, subscriptionVars>>
      BY <1>3 DEF WithStatus
    <2>2. statuses' = [statuses EXCEPT ![m] = "SUCCESS"]
      BY <1>2, <1>3, <2>1
    <2>3. StatusInv' /\ NoExclusiveWaits' /\ OneExclusive' /\ handler' \in [Handlers -> Slots]
      BY <1>1, <1>3, <2>1, <2>2, SlotMoves
    <2>4. EmitterTypeOK'
      BY <2>1, <2>3 DEF EmitterInv, EmitterTypeOK, Slots, updateVars, subscriptionVars
    <2> QED  BY <2>3, <2>4 DEF EmitterInv
  <1>4. CASE statuses[m] # "SUCCESS"
    <2>1. Load(h, m) /\ UNCHANGED subscriptionVars
      BY <1>4 DEF WithStatus
    <2>2. /\ StatusInv' /\ NoExclusiveWaits' /\ OneExclusive' /\
           handler' \in [Handlers -> Slots]
          /\ statuses' \in [Wrapped -> {"INITIAL", "LOADING", "SUCCESS", "ERROR"}]
      BY <1>1, <2>1, LoadMoves
    <2>3. EmitterTypeOK'
      BY <2>1, <2>2 DEF EmitterInv, EmitterTypeOK, Slots, Load, ForceEmit, ClearThrottle,
          subscriptionVars
    <2> QED  BY <2>2, <2>3 DEF EmitterInv
  <1> QED  BY <1>3, <1>4

LEMMA WaitedInv ==
    ASSUME EmitterInv, NEW h \in Handlers, Waited(h)
    PROVE  EmitterInv'
  <1> DEFINE m == handler[h].method
  <1>1. m \in Wrapped /\ m \in Concurrent
    BY EmitterSlots DEF Waited, EmitterInv, NoExclusiveWaits, Slots, NoHandler
  <1>2. Load(h, m) /\ UNCHANGED subscriptionVars
    BY DEF Waited
  <1>3. /\ StatusInv' /\ NoExclusiveWaits' /\ OneExclusive' /\ handler' \in [Handlers -> Slots]
        /\ statuses' \in [Wrapped -> {"INITIAL", "LOADING", "SUCCESS", "ERROR"}]
    BY <1>1, <1>2, LoadMoves
  <1>4. EmitterTypeOK'
    BY <1>2, <1>3 DEF EmitterInv, EmitterTypeOK, Slots, Load, ForceEmit, ClearThrottle,
        subscriptionVars
  <1> QED  BY <1>3, <1>4 DEF EmitterInv

\* The other handlers are not exclusive ones beside an exclusive one.
LEMMA OthersNotExclusive ==
    ASSUME EmitterInv, NEW h \in Handlers, handler[h].pc \in {"loading", "running", "ended"},
           handler[h].method \notin Concurrent
    PROVE  \A g \in Handlers : g # h => ~Exclusive(g)
  BY DEF EmitterInv, OneExclusive, Exclusive

LEMMA FnEndsInv ==
    ASSUME EmitterInv, NEW h \in Handlers, NEW outcome \in {"SUCCESS", "ERROR"}, FnEnds(h,
        outcome)
    PROVE  EmitterInv'
  <1> DEFINE m == handler[h].method
  <1>1. m \in Wrapped
    BY EmitterSlots DEF FnEnds, EmitterInv, Slots, NoHandler
  <1>2. m \notin Concurrent => \A g \in Handlers : g # h => ~Exclusive(g)
    BY OthersNotExclusive DEF FnEnds
  <1>3. /\ statuses' = [statuses EXCEPT ![m] = outcome]
        /\ GoesTo(h, m, "ended") /\ ForceEmit /\ UNCHANGED subscriptionVars
    BY DEF FnEnds
  <1>4. /\ StatusInv' /\ NoExclusiveWaits' /\ OneExclusive' /\ handler' \in [Handlers -> Slots]
        /\ statuses' \in [Wrapped -> {"INITIAL", "LOADING", "SUCCESS", "ERROR"}]
    <2>1. "ended" \in Forcing \cup {"wait", "running"}
      BY DEF Forcing
    <2>2. m \notin Concurrent =>
              /\ \A g \in Handlers : g # h => ~Exclusive(g)
              /\ "ended" # "final" => outcome # "INITIAL"
      BY <1>2
    <2>3. m \in Concurrent \/ "ended" # "wait"
      OBVIOUS
    <2> QED  BY <1>1, <1>3, <2>1, <2>2, <2>3, SlotMoves
  <1>5. EmitterTypeOK'
    BY <1>3, <1>4 DEF EmitterInv, EmitterTypeOK, Slots, ForceEmit, ClearThrottle,
        subscriptionVars
  <1> QED  BY <1>4, <1>5 DEF EmitterInv

LEMMA ForcedUpdateInv ==
    ASSUME EmitterInv, NEW h \in Handlers, ForcedUpdate(h)
    PROVE  EmitterInv'
  <1> DEFINE m == handler[h].method
  <1>s. handler \in [Handlers -> Slots]
    BY EmitterSlots DEF EmitterInv
  <1>t. statuses \in [Wrapped -> {"INITIAL", "LOADING", "SUCCESS", "ERROR"}]
    BY DEF EmitterInv, EmitterTypeOK
  <1>1. CASE /\ handler[h].pc = "loading" /\ GoesTo(h, m, "running")
             /\ Told({}) /\ UNCHANGED <<statuses, throttle, trailing>>
    <2>1. m \in Wrapped
      BY <1>s, <1>1 DEF Slots, NoHandler
    <2>2. m \notin Concurrent => /\ statuses[m] # "INITIAL"
                                 /\ \A g \in Handlers : g # h => ~Exclusive(g)
      BY <1>1, OthersNotExclusive DEF EmitterInv, StatusInv, Exclusive
    <2>3. statuses' = [statuses EXCEPT ![m] = statuses[m]] /\
           statuses[m] \in {"INITIAL", "LOADING", "SUCCESS", "ERROR"}
      BY <1>1, <1>t, <2>1
    <2>4. /\ StatusInv' /\ NoExclusiveWaits' /\ OneExclusive' /\
           handler' \in [Handlers -> Slots]
          /\ statuses' \in [Wrapped -> {"INITIAL", "LOADING", "SUCCESS", "ERROR"}]
      <3>1. "running" \in Forcing \cup {"wait", "running"}
        BY DEF Forcing
      <3>2. m \in Concurrent \/ "running" # "wait"
        OBVIOUS
      <3>3. m \notin Concurrent =>
                /\ \A g \in Handlers : g # h => ~Exclusive(g)
                /\ "running" # "final" => statuses[m] # "INITIAL"
        BY <2>2
      <3>4. GoesTo(h, m, "running")
        BY <1>1
      <3> QED  BY <2>1, <2>3, <3>1, <3>2, <3>3, <3>4, SlotMoves
    <2>5. EmitterTypeOK'
      BY <1>1, <2>4 DEF EmitterInv, EmitterTypeOK, Slots, ForcedUpdate, Told, subscriptionVars
    <2> QED  BY <2>4, <2>5 DEF EmitterInv
  <1>2. CASE /\ handler[h].pc = "ended" /\ GoesTo(h, m, "final")
             /\ statuses' = [statuses EXCEPT ![m] = "INITIAL"] /\ ForceEmit
    <2>1. m \in Wrapped
      BY <1>s, <1>2 DEF Slots, NoHandler
    <2>2. m \notin Concurrent => \A g \in Handlers : g # h => ~Exclusive(g)
      BY <1>2, OthersNotExclusive
    <2>3. /\ StatusInv' /\ NoExclusiveWaits' /\ OneExclusive' /\
           handler' \in [Handlers -> Slots]
          /\ statuses' \in [Wrapped -> {"INITIAL", "LOADING", "SUCCESS", "ERROR"}]
      BY <1>2, <2>1, <2>2, SlotMoves DEF Forcing
    <2>4. EmitterTypeOK'
      BY <1>2, <2>3 DEF EmitterInv, EmitterTypeOK, Slots, ForcedUpdate, ForceEmit,
          ClearThrottle, subscriptionVars
    <2> QED  BY <2>3, <2>4 DEF EmitterInv
  <1>3. CASE /\ handler[h].pc = "final" /\ handler' = [handler EXCEPT ![h] = NoHandler]
             /\ Told({}) /\ UNCHANGED <<statuses, throttle, trailing>>
    <2>1. handler' \in [Handlers -> Slots]
      BY <1>s, <1>3 DEF Slots
    <2>2. EmitterTypeOK'
      BY <1>3, <2>1 DEF EmitterInv, EmitterTypeOK, Slots, ForcedUpdate, Told, subscriptionVars
    <2>3. \A g \in Handlers : IF g = h THEN handler'[g].pc = "idle" ELSE handler'[g] = handler[g]
      BY <1>s, <1>3 DEF NoHandler
    <2> QED  BY <1>3, <2>2, <2>3 DEF EmitterInv, StatusInv, NoExclusiveWaits, OneExclusive,
           Exclusive
  <1> QED  BY <1>1, <1>2, <1>3 DEF ForcedUpdate

LEMMA UpdateInv ==
    ASSUME EmitterInv, EmitUpdate \/ EmitThrottled \/ WindowEnds \/ DestroyEmitter
    PROVE  EmitterInv'
  <1>1. UNCHANGED <<statuses, handler>>
    BY DEF EmitUpdate, EmitThrottled, WindowEnds, DestroyEmitter
  <1>2. EmitterTypeOK'
    <2>1. CASE EmitUpdate
      BY <2>1 DEF EmitterInv, EmitterTypeOK, EmitUpdate, ClearThrottle, Told, subscriptionVars
    <2>2. CASE EmitThrottled
      BY <2>2 DEF EmitterInv, EmitterTypeOK, EmitThrottled, Defer, Told, subscriptionVars
    <2>3. CASE WindowEnds
      BY <2>3 DEF EmitterInv, EmitterTypeOK, WindowEnds, Told, subscriptionVars
    <2>4. CASE DestroyEmitter
      BY <2>4 DEF EmitterInv, EmitterTypeOK, DestroyEmitter, ClearThrottle
    <2> QED  BY <2>1, <2>2, <2>3, <2>4
  <1> QED  BY <1>1, <1>2, UpdatesKeep DEF EmitterInv

LEMMA SubscriptionInv ==
    ASSUME EmitterInv, NEW s \in Subscribers, OnUpdate(s) \/ Unsubscribe(s)
    PROVE  EmitterInv'
  <1>1. UNCHANGED <<statuses, handler>>
    BY DEF OnUpdate, Unsubscribe
  <1>2. EmitterTypeOK'
    <2>1. CASE OnUpdate(s)
      BY <2>1 DEF EmitterInv, EmitterTypeOK, OnUpdate
    <2>2. CASE Unsubscribe(s)
      BY <2>2 DEF EmitterInv, EmitterTypeOK, Unsubscribe, updateVars
    <2> QED  BY <2>1, <2>2
  <1> QED  BY <1>1, <1>2, UpdatesKeep DEF EmitterInv

LEMMA NextEmitterInv == EmitterInv /\ [EmitterNext]_emitterVars => EmitterInv'
  <1> SUFFICES ASSUME EmitterInv, [EmitterNext]_emitterVars PROVE EmitterInv'
    OBVIOUS
  <1>1. CASE UNCHANGED emitterVars
    BY <1>1 DEF emitterVars, updateVars, subscriptionVars, EmitterInv, EmitterTypeOK, StatusInv,
                NoExclusiveWaits, OneExclusive, Exclusive
  <1>2. CASE EmitterNext
    BY <1>2, UpdateInv, SubscriptionInv, WaitedInv, ForcedUpdateInv, WithStatusInv, FnEndsInv
       DEF EmitterNext
  <1> QED  BY <1>1, <1>2

\* The inductive invariant holds in every reachable state.
THEOREM EmitterInvariance == EmitterSpec => []EmitterInv
  BY InitEmitterInv, NextEmitterInv, PTL DEF EmitterSpec

\* Statuses, handlers, the throttle and the subscriptions keep their types.
THEOREM EmitterTypeCorrect == EmitterSpec => []EmitterTypeOK
  BY EmitterInvariance, PTL DEF EmitterInv

\* Two handlers that are not concurrent ones never run at the same time,
\* whatever concurrent ones run or wait besides (withStatus).
THEOREM HandlersExclusiveHolds == EmitterSpec => []HandlersExclusive
  <1>1. EmitterInv => HandlersExclusive
    BY DEF EmitterInv, OneExclusive, Exclusive, HandlersExclusive
  <1> QED  BY <1>1, EmitterInvariance, PTL

-----------------------------------------------------------------------------
(* The statuses of apps keep their types: a check that is over has judged  *)
(* every site it was about, so that no app is told of a status "none".     *)

Requested == [at : {"service"}, for : {"apps", "request"}, sites : SUBSET Sites,
              unknown : SUBSET Sites]
CheckStates == {NotBegun, Over} \cup Requested

Judged == \A c \in Checks : checks[c].at = "service" =>
              \A d \in checks[c].sites : checked[d] # "none"

StatusesInv == StatusesTypeOK /\ Judged

LEMMA BoundsMeet ==
    0 \in 0..MAX_VERSION /\ 1 \in 1..MAX_VERSION /\ 0 \in 0..MAX_STARTS
  BY StatusesAssumption

LEMMA AppStatusesAre ==
    \A s : s \in AppStatuses <=> DOMAIN s \subseteq Sites /\ s \in [DOMAIN s -> Statuses]
  BY DEF AppStatuses

LEMMA StatusByTyped ==
    ASSUME NEW list, NEW d, NEW otherwise
    PROVE  StatusBy(list, d, otherwise) \in (Statuses \ {"LOADING", "FAILED_TO_GET"}) \cup {otherwise}
  BY DEF StatusBy, Statuses

LEMMA CheckStateIs ==
    ASSUME StatusesTypeOK, NEW c \in Checks
    PROVE  /\ checks \in [Checks -> CheckStates]
           /\ checks[c].at = "service" => checks[c] \in Requested
           /\ NotBegun \in CheckStates /\ Over \in CheckStates
           /\ NotBegun.at # "service" /\ Over.at # "service"
  BY DEF StatusesTypeOK, CheckStates, Requested, NotBegun, Over

LEMMA TellTyped ==
    ASSUME NEW for, NEW sites \in SUBSET Sites, NEW apps \in AppStatuses,
           NEW requests \in SUBSET [site : Sites, status : Statuses],
           NEW known \in [Sites -> Statuses \cup {"none"}], \A d \in sites : known[d] # "none",
           Tell(for, sites, apps, requests, known)
    PROVE  shown' \in AppStatuses /\ asks' \subseteq [site : Sites, status : Statuses]
  <1>1. shown' \in AppStatuses
    <2> DEFINE f == [d \in DOMAIN apps |-> IF d \in sites THEN known[d] ELSE apps[d]]
    <2>1. DOMAIN apps \subseteq Sites /\ apps \in [DOMAIN apps -> Statuses]
      BY AppStatusesAre
    <2>2. f \in [DOMAIN apps -> Statuses]
      BY <2>1
    <2>3. shown' = f
      BY DEF Tell
    <2>4. DOMAIN f = DOMAIN apps
      OBVIOUS
    <2> HIDE DEF f
    <2> QED  BY <2>1, <2>2, <2>3, <2>4, AppStatusesAre
  <1>2. \A r \in requests : [r EXCEPT !.status = IF r.site \in sites THEN known[r.site] ELSE @]
                              \in [site : Sites, status : Statuses]
    OBVIOUS
  <1>3. asks' \subseteq [site : Sites, status : Statuses]
    BY <1>2 DEF Tell
  <1> QED  BY <1>1, <1>3

\* A check begins: what the list does not say of its sites is asked for.
LEMMA CheckTyped ==
    ASSUME StatusesInv, NEW for \in {"apps", "request"}, NEW sites \in SUBSET Sites,
           NEW apps \in AppStatuses, NEW requests \in SUBSET [site : Sites, status : Statuses],
           Check(for, sites, apps, requests), shownStored' = shownStored,
           catalogueDue' \in BOOLEAN
    PROVE  StatusesInv'
  <1> DEFINE now == [d \in Sites |-> IF d \in Unknown(sites) THEN "LOADING" ELSE ByList(sites)[d]]
  <1>0. StatusesTypeOK /\ checked \in [Sites -> Statuses \cup {"none"}]
    BY DEF StatusesInv, StatusesTypeOK
  <1>1. \A d \in Sites : /\ ByList(sites)[d] \in Statuses \cup {"none"}
                         /\ checked[d] # "none" => ByList(sites)[d] # "none"
                         /\ d \in sites /\ ByList(sites)[d] = "none" => d \in Unknown(sites)
    BY <1>0, StatusByTyped DEF ByList, Unknown, Statuses
  <1>2. /\ checked' = now /\ Tell(for, sites, apps, requests, now)
        /\ UNCHANGED <<listVars, starts>>
    BY DEF Check
  <1>3. /\ now \in [Sites -> Statuses \cup {"none"}]
        /\ \A d \in Sites : checked[d] # "none" \/ d \in sites => now[d] # "none"
    BY <1>1 DEF Statuses
  <1>u. Unknown(sites) \subseteq Sites
    BY DEF Unknown
  <1> HIDE DEF now
  <1>4. shown' \in AppStatuses /\ asks' \subseteq [site : Sites, status : Statuses]
    BY <1>2, <1>3, TellTyped
  <1>5. PICK c \in Checks : /\ checks[c] = NotBegun
                            /\ checks' = [checks EXCEPT ![c] =
                                 IF Unknown(sites) = {} THEN Over
                                 ELSE [at |-> "service", for |-> for, sites |-> sites,
                                       unknown |-> Unknown(sites)]]
    BY DEF Check
  <1> DEFINE new == IF Unknown(sites) = {} THEN Over
                    ELSE [at |-> "service", for |-> for, sites |-> sites, unknown |-> Unknown(sites)]
  <1>6. new \in CheckStates /\ (new.at = "service" => new.sites = sites)
    BY <1>u, CheckStateIs DEF CheckStates, Requested, Over
  <1>7. checks' = [checks EXCEPT ![c] = new]
    BY <1>5
  <1> HIDE DEF new
  <1>8. checks' \in [Checks -> CheckStates]
    BY <1>0, <1>6, <1>7, CheckStateIs
  <1>9. StatusesTypeOK'
    BY <1>0, <1>2, <1>3, <1>4, <1>8
    DEF StatusesTypeOK, listVars, CheckStates, Requested
  <1>10. Judged'
    <2> SUFFICES ASSUME NEW b \in Checks, checks'[b].at = "service", NEW d \in checks'[b].sites
                 PROVE  checked'[d] # "none"
      BY DEF Judged
    <2>1. CASE b = c
      <3>1. checks'[b] = new
        BY <1>0, <1>7, <2>1, CheckStateIs
      <3> QED  BY <1>2, <1>3, <1>6, <3>1
    <2>2. CASE b # c
      <3>1. checks'[b] = checks[b]
        BY <1>0, <1>7, <2>2, CheckStateIs
      <3>2. checks[b].sites \subseteq Sites
        BY <1>0, <3>1, CheckStateIs DEF Requested
      <3> QED  BY <1>2, <1>3, <3>1, <3>2 DEF StatusesInv, Judged
    <2> QED  BY <2>1, <2>2
  <1> QED  BY <1>9, <1>10 DEF StatusesInv

\* The steps of the list.
LEMMA ListTyped ==
    ASSUME StatusesInv,
           LoadList \/ Publish \/ UpdateList \/ UpdateListFails \/ ListArrives \/ ListStored
    PROVE  StatusesInv'
  <1>0. StatusesTypeOK /\ Judged /\ published \in 1..MAX_VERSION /\ MAX_VERSION \in Nat \ {0}
    BY StatusesAssumption DEF StatusesInv, StatusesTypeOK
  <1>1. Judged'
    BY <1>0 DEF Judged, LoadList, Publish, UpdateList, UpdateListFails, ListArrives, ListStored
  <1>2. CASE LoadList
    BY <1>0, <1>1, <1>2 DEF LoadList, StatusesInv, StatusesTypeOK, shownVars
  <1>3. CASE Publish
    <2>1. published' \in 1..MAX_VERSION
      BY <1>0, <1>3 DEF Publish
    <2> QED  BY <1>0, <1>1, <1>3, <2>1 DEF Publish, StatusesInv, StatusesTypeOK, shownVars
  <1>4. CASE UpdateList \/ UpdateListFails
    BY <1>0, <1>1, <1>4 DEF UpdateList, UpdateListFails, StatusesInv, StatusesTypeOK, shownVars
  <1>5. CASE ListArrives
    <2>1. NewList \subseteq Sites
      BY <1>0, StatusesAssumption DEF NewList, StatusesTypeOK
    <2>2. version' \in 0..MAX_VERSION /\ domains' \subseteq Sites /\ listUpdate' = "store"
      BY <1>0, <1>5, <2>1 DEF ListArrives
    <2>3. shown' \in AppStatuses
      <3> DEFINE f == [d \in DOMAIN shown |-> Synced(d, NewList)]
      <3>1. DOMAIN shown \subseteq Sites /\ shown \in [DOMAIN shown -> Statuses]
        BY <1>0, AppStatusesAre DEF StatusesTypeOK
      <3>2. \A d \in DOMAIN shown : Synced(d, NewList) \in Statuses
        BY <3>1, StatusByTyped DEF Synced
      <3>3. f \in [DOMAIN shown -> Statuses] /\ DOMAIN f = DOMAIN shown
        BY <3>2
      <3>4. shown' = f
        BY <1>5 DEF ListArrives
      <3> HIDE DEF f
      <3> QED  BY <3>1, <3>3, <3>4, AppStatusesAre
    <2>4. shownStored' \in AppStatuses
      BY <1>0, <1>5, <2>3 DEF ListArrives, StatusesTypeOK
    <2> QED  BY <1>0, <1>1, <1>5, <2>2, <2>3, <2>4 DEF ListArrives, StatusesInv, StatusesTypeOK
  <1>6. CASE ListStored
    BY <1>0, <1>1, <1>6 DEF ListStored, StatusesInv, StatusesTypeOK, shownVars
  <1> QED  BY <1>2, <1>3, <1>4, <1>5, <1>6

\* The answers of the service.
LEMMA AnswersTyped ==
    ASSUME StatusesInv, NEW c \in Checks, CheckAnswered(c) \/ CheckFails(c)
    PROVE  StatusesInv'
  <1>0. StatusesTypeOK /\ checked \in [Sites -> Statuses \cup {"none"}]
    BY DEF StatusesInv, StatusesTypeOK
  <1>1. /\ checks[c].at = "service" /\ checks' = [checks EXCEPT ![c] = Over]
        /\ UNCHANGED <<listVars, shownStored, catalogueDue, starts>>
    BY DEF CheckAnswered, CheckFails, shownVars
  <1>2. checks[c].sites \subseteq Sites /\ checks[c].unknown \subseteq Sites
    BY <1>0, <1>1, CheckStateIs DEF Requested
  <1>3. /\ checked' \in [Sites -> Statuses \cup {"none"}]
        /\ \A d \in Sites : checked[d] # "none" => checked'[d] # "none"
    BY <1>0 DEF CheckAnswered, CheckFails, Statuses
  <1>4. shown' \in AppStatuses /\ asks' \subseteq [site : Sites, status : Statuses]
    <2>1. CASE CheckAnswered(c)
      <3>1. Tell(checks[c].for, checks[c].sites, shown, asks, checked')
        BY <2>1 DEF CheckAnswered
      <3>2. \A d \in checks[c].sites : checked'[d] # "none"
        BY <1>1, <1>2, <1>3 DEF StatusesInv, Judged
      <3> QED  BY <1>0, <1>2, <1>3, <3>1, <3>2, TellTyped DEF StatusesTypeOK
    <2>2. CASE CheckFails(c)
      BY <1>0, <2>2 DEF CheckFails, shownVars, StatusesTypeOK
    <2> QED  BY <2>1, <2>2
  <1>5. checks' \in [Checks -> CheckStates]
    BY <1>0, <1>1, CheckStateIs
  <1>6. StatusesTypeOK'
    BY <1>0, <1>1, <1>3, <1>4, <1>5 DEF StatusesTypeOK, listVars, CheckStates, Requested
  <1>7. Judged'
    <2> SUFFICES ASSUME NEW b \in Checks, checks'[b].at = "service", NEW d \in checks'[b].sites
                 PROVE  checked'[d] # "none"
      BY DEF Judged
    <2>1. b # c /\ checks'[b] = checks[b]
      BY <1>0, <1>1, CheckStateIs
    <2>2. checks[b].sites \subseteq Sites
      BY <1>0, <2>1, CheckStateIs DEF Requested
    <2> QED  BY <1>3, <2>1, <2>2 DEF StatusesInv, Judged
  <1> QED  BY <1>6, <1>7 DEF StatusesInv

\* The steps of the apps.
LEMMA AppsTyped ==
    ASSUME StatusesInv,
           \/ StoreShown \/ CheckAgain \/ StartAgain
           \/ \E S \in SUBSET Sites : ReplaceCatalogue(S)
           \/ \E d \in Sites : ShowAsking(d)
           \/ \E connect \in BOOLEAN : Answer(connect)
    PROVE  StatusesInv'
  <1>0. /\ StatusesTypeOK /\ Judged /\ shown \in AppStatuses
        /\ DOMAIN shown \subseteq Sites /\ shown \in [DOMAIN shown -> Statuses]
        /\ asks \in SUBSET [site : Sites, status : Statuses] /\ catalogueDue \in BOOLEAN
    BY AppStatusesAre DEF StatusesInv, StatusesTypeOK
  <1>1. CASE StoreShown
    BY <1>0, <1>1 DEF StoreShown, StatusesInv, StatusesTypeOK, Judged, listVars
  <1>2. CASE CheckAgain
    <2> DEFINE again == {d \in DOMAIN shown :
                          \/ shown[d] \in {"LOADING", "FAILED_TO_GET"}
                          \/ shown[d] # "SUSPICIOUS_HOSTING"
                               /\ StatusBy(domains, d, "none") = "SUSPICIOUS_HOSTING"}
    <2>1. again \in SUBSET Sites
      BY <1>0
    <2>2. /\ catalogueDue' = FALSE /\ shownStored' = shownStored
          /\ \/ Check("apps", again, shown, asks)
             \/ UNCHANGED <<listVars, checked, shown, asks, checks, starts>>
      BY <1>2 DEF CheckAgain
    <2> HIDE DEF again
    <2>3. CASE Check("apps", again, shown, asks)
      BY <1>0, <2>1, <2>2, <2>3, CheckTyped
    <2>4. CASE UNCHANGED <<listVars, checked, shown, asks, checks, starts>>
      BY <1>0, <2>2, <2>4 DEF StatusesInv, StatusesTypeOK, Judged, listVars
    <2> QED  BY <2>2, <2>3, <2>4
  <1>3. CASE StartAgain
    <2>1. starts' \in 0..MAX_STARTS
      BY <1>0, <1>3, StatusesAssumption DEF StartAgain, StatusesTypeOK
    <2>2. checks' \in [Checks -> CheckStates] /\ \A c \in Checks : checks'[c].at # "service"
      BY <1>0, <1>3 DEF StartAgain, CheckStates, NotBegun, Over
    <2>3. /\ domains' = {} /\ version' \in 0..MAX_VERSION /\ listLoaded' \in BOOLEAN
          /\ listUpdate' = "idle" /\ checked' \in [Sites -> Statuses \cup {"none"}]
          /\ shown' = shownStored /\ asks' = {} /\ catalogueDue' \in BOOLEAN
          /\ UNCHANGED <<listStored, published, shownStored>>
      BY <1>3, BoundsMeet DEF StartAgain
    <2>4. StatusesTypeOK'
      BY <1>0, <2>1, <2>2, <2>3 DEF StatusesTypeOK, CheckStates, Requested
    <2> QED  BY <2>2, <2>4 DEF StatusesInv, Judged
  <1>4. ASSUME NEW S \in SUBSET Sites, ReplaceCatalogue(S) PROVE StatusesInv'
    <2> DEFINE all == S \cup DOMAIN shown
               apps == [d \in all |-> IF d \in S THEN "LOADING" ELSE shown[d]]
    <2>1. all \in SUBSET Sites /\ DOMAIN apps = all
      BY <1>0
    <2>2. apps \in [all -> Statuses]
      <3>1. "LOADING" \in Statuses /\ \A d \in DOMAIN shown : shown[d] \in Statuses
        BY <1>0 DEF Statuses
      <3>2. \A d \in all : (IF d \in S THEN "LOADING" ELSE shown[d]) \in Statuses
        BY <3>1
      <3> QED  BY <3>2
    <2>3. Check("apps", all, apps, asks) /\ shownStored' = shownStored /\ catalogueDue' = FALSE
      BY <1>4 DEF ReplaceCatalogue
    <2> HIDE DEF all, apps
    <2>4. apps \in AppStatuses
      BY <2>1, <2>2, AppStatusesAre
    <2> QED  BY <1>0, <2>1, <2>3, <2>4, CheckTyped
  <1>5. ASSUME NEW d \in Sites, ShowAsking(d) PROVE StatusesInv'
    <2> DEFINE requests == {[site |-> d, status |-> IF d \in DOMAIN shown THEN shown[d] ELSE "LOADING"]}
    <2>1. requests \in SUBSET [site : Sites, status : Statuses]
      BY <1>0 DEF Statuses
    <2>2. Check("request", {d}, shown, requests) /\ UNCHANGED <<shownStored, catalogueDue>>
      BY <1>5 DEF ShowAsking
    <2> HIDE DEF requests
    <2>3. {d} \in SUBSET Sites
      OBVIOUS
    <2> QED  BY <1>0, <2>1, <2>2, <2>3, CheckTyped
  <1>6. ASSUME NEW connect \in BOOLEAN, Answer(connect) PROVE StatusesInv'
    <2>1. asks' = {} /\ UNCHANGED <<listVars, checked, checks, catalogueDue, starts>>
      BY <1>6 DEF Answer
    <2>2. shown' \in AppStatuses /\ shownStored' \in AppStatuses
      <3>1. PICK r \in asks :
              \/ /\ shown' = [d \in DOMAIN shown \cup {r.site} |->
                               IF d = r.site THEN r.status ELSE shown[d]]
                 /\ shownStored' = shown'
              \/ UNCHANGED <<shown, shownStored>>
        BY <1>6 DEF Answer
      <3>2. r.site \in Sites /\ r.status \in Statuses
        BY <1>0
      <3> DEFINE f == [d \in DOMAIN shown \cup {r.site} |-> IF d = r.site THEN r.status ELSE shown[d]]
      <3>3. f \in [DOMAIN shown \cup {r.site} -> Statuses] /\ DOMAIN f = DOMAIN shown \cup {r.site}
        BY <1>0, <3>2
      <3>4. (shown' = f /\ shownStored' = shown') \/ UNCHANGED <<shown, shownStored>>
        BY <3>1
      <3> HIDE DEF f
      <3>5. f \in AppStatuses
        BY <1>0, <3>2, <3>3, AppStatusesAre
      <3> QED  BY <1>0, <3>4, <3>5 DEF StatusesTypeOK
    <2> QED  BY <1>0, <2>1, <2>2 DEF StatusesInv, StatusesTypeOK, Judged, listVars
  <1> QED  BY <1>1, <1>2, <1>3, <1>4, <1>5, <1>6

LEMMA InitStatusesInv == StatusesInit => StatusesInv
  <1> SUFFICES ASSUME StatusesInit PROVE StatusesInv
    OBVIOUS
  <1>1. PICK S \in SUBSET Sites : shown = [d \in S |-> "LOADING"]
    BY DEF StatusesInit
  <1>2. shown \in AppStatuses /\ shownStored \in AppStatuses
    <2>1. DOMAIN shown = S /\ shown \in [S -> Statuses]
      BY <1>1 DEF Statuses
    <2> QED  BY <2>1, AppStatusesAre DEF StatusesInit
  <1>3. /\ checks \in [Checks -> CheckStates] /\ (\A c \in Checks : checks[c].at # "service")
        /\ checked \in [Sites -> Statuses \cup {"none"}]
    BY DEF StatusesInit, CheckStates, NotBegun
  <1>4. /\ domains \subseteq Sites /\ version \in 0..MAX_VERSION
        /\ listStored \in [version : 0..MAX_VERSION, domains : SUBSET Sites]
        /\ listLoaded \in BOOLEAN /\ listUpdate \in {"idle", "fetch", "store"}
        /\ published \in 1..MAX_VERSION /\ asks = {}
        /\ catalogueDue \in BOOLEAN /\ starts \in 0..MAX_STARTS
    BY BoundsMeet DEF StatusesInit
  <1>5. StatusesTypeOK
    BY <1>2, <1>3, <1>4 DEF StatusesTypeOK, CheckStates, Requested
  <1> QED  BY <1>3, <1>5 DEF StatusesInv, Judged

LEMMA NextStatusesInv == StatusesInv /\ [StatusesNext]_statusVars => StatusesInv'
  <1> SUFFICES ASSUME StatusesInv, [StatusesNext]_statusVars PROVE StatusesInv'
    OBVIOUS
  <1>1. CASE LoadList \/ Publish \/ UpdateList \/ UpdateListFails \/ ListArrives \/ ListStored
    BY <1>1, ListTyped
  <1>2. CASE \E c \in Checks : CheckAnswered(c) \/ CheckFails(c)
    BY <1>2, AnswersTyped
  <1>3. CASE \/ StoreShown \/ CheckAgain \/ StartAgain
             \/ \E S \in SUBSET Sites : ReplaceCatalogue(S)
             \/ \E d \in Sites : ShowAsking(d)
             \/ \E connect \in BOOLEAN : Answer(connect)
    BY <1>3, AppsTyped
  <1>4. CASE UNCHANGED statusVars
    BY <1>4 DEF statusVars, listVars, shownVars, StatusesInv, StatusesTypeOK, Judged
  <1> QED  BY <1>1, <1>2, <1>3, <1>4 DEF StatusesNext

\* The list, the statuses shown and stored, and the checks keep their types: a
\* check never tells an app a status that nobody found out.
THEOREM StatusesTypeCorrect == StatusesSpec => []StatusesTypeOK
  <1>1. StatusesInv => StatusesTypeOK
    BY DEF StatusesInv
  <1> QED  BY <1>1, InitStatusesInv, NextStatusesInv, PTL DEF StatusesSpec

-----------------------------------------------------------------------------
\* The three of them side by side: all variables keep their types, for any
\* options, handlers, subscribers and sites.
THEOREM BaseTypesCorrect == BaseSpec => []BaseTypeOK
  <1> DEFINE Inv == IInv /\ EmitterInv /\ StatusesInv
  <1>1. BaseInit => Inv
    BY InitIInv, InitEmitterInv, InitStatusesInv DEF BaseInit
  <1>2. Inv /\ [BaseNext]_<<focus, vars, emitterVars, statusVars>> => Inv'
    <2> SUFFICES ASSUME Inv, [BaseNext]_<<focus, vars, emitterVars, statusVars>> PROVE Inv'
      OBVIOUS
    <2>1. [Next]_vars /\ [EmitterNext]_emitterVars /\ [StatusesNext]_statusVars
      BY DEF BaseNext
    <2> QED  BY <2>1, NextIInv, NextEmitterInv, NextStatusesInv
  <1>3. Inv => BaseTypeOK
    BY DEF BaseTypeOK, IInv, EmitterInv, StatusesInv
  <1> QED  BY <1>1, <1>2, <1>3, PTL DEF BaseSpec
=============================================================================
