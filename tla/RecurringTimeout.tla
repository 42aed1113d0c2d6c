--------------------------- MODULE RecurringTimeout ---------------------------
(***************************************************************************)
(* The RecurringTimeout class: the scheduler behind every periodic job of  *)
(* the wallet (portfolio refresh, account-op statuses, gas price,          *)
(* re-estimation, quotes, identities).  Any code of the program may call   *)
(* start, restart or stop at any moment; a start only queues a microtask,  *)
(* which later starts the loop; the loop runs the job fn, and its          *)
(* completion arms the timer of the next execution.                        *)
(*                                                                         *)
(* JavaScript runs one callback at a time, so an action is a synchronous   *)
(* stretch of the code.  Microtasks run in the order they were queued and  *)
(* before any timer.  Durations are left out: an armed timer may fire at   *)
(* any later moment.                                                       *)
(***************************************************************************)
EXTENDS Integers, Sequences

CONSTANTS Timeouts,       \* the delays callers ask for
          NoTimeout,      \* an options object without a timeout
          DefaultTimeout, \* the delay given to the constructor
          StartOptions,   \* the options callers pass to start and restart
          MaxCalls,       \* bound: calls of the interface explored
          MaxExecutions   \* bound: executions of fn explored

NoOptions == [timeout |-> NoTimeout, runImmediately |-> FALSE, allowOverlap |-> FALSE]
AllOptions == [timeout : Timeouts \cup {NoTimeout}, runImmediately : BOOLEAN, allowOverlap : BOOLEAN]

ASSUME TimeoutsAssumption == NoTimeout \notin Timeouts /\ DefaultTimeout \in Timeouts
ASSUME BoundsAssumption == MaxCalls \in Nat /\ MaxExecutions \in Nat
\* No caller asks for allowOverlap without runImmediately.
ASSUME StartOptionsAssumption ==
    /\ StartOptions \subseteq AllOptions
    /\ \A o \in StartOptions : o.allowOverlap => o.runImmediately

VARIABLES running, startScheduled, pendingStart, session, currentTimeout,
          promise,            \* the execution this.promise belongs to, 0 for undefined
          fnExecutionsCount,
          inFlight,           \* executions of fn that have not settled
          timer,              \* the timer timeoutId refers to is armed
          orphans,            \* armed timers that timeoutId no longer refers to
          microtasks,         \* the sessions captured by the queued microtasks
          \* history, read by the properties only
          calls,              \* interface calls made
          wanted              \* started or restarted, and not stopped since

loopVars == <<running, promise, fnExecutionsCount, inFlight, timer, orphans>>
startVars == <<startScheduled, pendingStart, session, microtasks>>
history == <<calls, wanted>>
vars == <<loopVars, startVars, currentTimeout, history>>

TypeOK ==
    /\ running \in BOOLEAN /\ startScheduled \in BOOLEAN
    /\ pendingStart \in AllOptions
    /\ session \in Nat
    /\ currentTimeout \in Timeouts
    /\ fnExecutionsCount \in Nat
    /\ promise \in 0 .. fnExecutionsCount
    /\ inFlight \subseteq 1 .. fnExecutionsCount
    /\ timer \in BOOLEAN /\ orphans \in Nat
    /\ microtasks \in Seq(Nat)
    /\ calls \in Nat /\ wanted \in BOOLEAN

Init ==
    /\ running = FALSE /\ startScheduled = FALSE
    /\ pendingStart = NoOptions
    /\ session = 0
    /\ currentTimeout = DefaultTimeout
    /\ promise = 0 /\ fnExecutionsCount = 0 /\ inFlight = {}
    /\ timer = FALSE /\ orphans = 0
    /\ microtasks = <<>>
    /\ calls = 0 /\ wanted = FALSE

-----------------------------------------------------------------------------
\* setTimeout: timeoutId now refers to the new timer, and to no other.
Arm ==
    /\ timer' = TRUE
    /\ orphans' = IF timer THEN orphans + 1 ELSE orphans

\* Mutant: the execution is not counted.
LoopUncounted(selfStop) ==
    /\ fnExecutionsCount < MaxExecutions
    /\ promise' = fnExecutionsCount + 1
    /\ inFlight' = inFlight \cup {fnExecutionsCount + 1}
    /\ session' = IF selfStop THEN session + 1 ELSE session
    /\ wanted' = (wanted /\ ~selfStop)
    /\ UNCHANGED fnExecutionsCount

\* #loop up to the first await of fn, whose synchronous prefix may call stop()
\* (the identity, gas price and estimation jobs do).
Loop(selfStop) ==
    /\ fnExecutionsCount < MaxExecutions
    /\ fnExecutionsCount' = fnExecutionsCount + 1
    /\ promise' = fnExecutionsCount + 1
    /\ inFlight' = inFlight \cup {fnExecutionsCount + 1}
    /\ session' = IF selfStop THEN session + 1 ELSE session
    /\ wanted' = (wanted /\ ~selfStop)

\* #reset; the caller states what becomes of startScheduled.
Reset ==
    /\ running' = FALSE
    /\ promise' = 0
    /\ timer' = FALSE
    /\ UNCHANGED orphans

MergedOptions(o) ==
    [timeout |-> IF o.timeout # NoTimeout THEN o.timeout ELSE pendingStart.timeout,
     runImmediately |-> o.runImmediately \/ pendingStart.runImmediately,
     allowOverlap |-> o.allowOverlap \/ pendingStart.allowOverlap]

\* The part of #scheduleStart after its first guard, in the session s.
QueueStart(o, s) ==
    /\ pendingStart' = MergedOptions(o)
    /\ startScheduled' = TRUE
    /\ microtasks' = Append(microtasks, s)

Call ==
    /\ calls < MaxCalls
    /\ calls' = calls + 1
    /\ UNCHANGED <<fnExecutionsCount, inFlight>>

Start(o) ==
    /\ Call
    /\ wanted' = TRUE
    /\ \/ running /\ UNCHANGED startVars
       \/ ~running /\ ~startScheduled /\ QueueStart(o, session) /\ UNCHANGED session
       \/ /\ ~running /\ startScheduled
          /\ pendingStart' = MergedOptions(o)
          /\ UNCHANGED <<startScheduled, session, microtasks>>
    /\ UNCHANGED <<running, promise, timer, orphans, currentTimeout>>

Restart(o) ==
    /\ Call
    /\ wanted' = TRUE
    /\ session' = session + 1
    /\ Reset
    /\ QueueStart(o, session + 1)
    /\ UNCHANGED currentTimeout

Stop ==
    /\ Call
    /\ wanted' = FALSE
    /\ session' = session + 1
    /\ startScheduled' = FALSE
    /\ Reset
    /\ UNCHANGED <<pendingStart, microtasks, currentTimeout>>

UpdateTimeout(t) ==
    /\ Call
    /\ currentTimeout' = t
    /\ UNCHANGED <<running, promise, timer, orphans, startVars, wanted>>

-----------------------------------------------------------------------------
\* A microtask is taken from the queue.
TakeMicrotask ==
    /\ microtasks # <<>>
    /\ microtasks' = Tail(microtasks)
    /\ UNCHANGED calls

\* A microtask whose session was stopped or restarted does nothing.
RunStaleMicrotask ==
    /\ TakeMicrotask
    /\ Head(microtasks) # session
    /\ UNCHANGED <<loopVars, startScheduled, pendingStart, session, currentTimeout, wanted>>

RunsNow == Head(microtasks) = session

\* What the microtask of the current session does before it looks at the loop.
ApplyStart ==
    /\ TakeMicrotask
    /\ RunsNow
    /\ startScheduled' = FALSE
    /\ pendingStart' = NoOptions
    /\ currentTimeout' = IF pendingStart.timeout # NoTimeout THEN pendingStart.timeout
                                                             ELSE currentTimeout

BlockedByPrevious == promise # 0 /\ ~pendingStart.allowOverlap

\* Mutant: the loop is not marked as running.
JoinForgettingLoop ==
    /\ ApplyStart
    /\ BlockedByPrevious
    /\ UNCHANGED <<loopVars, session, wanted>>

\* The previous execution is still running: its completion goes on with the loop.
JoinRunningLoop ==
    /\ ApplyStart
    /\ BlockedByPrevious
    /\ running' = TRUE
    /\ UNCHANGED <<promise, fnExecutionsCount, inFlight, timer, orphans, session, wanted>>

StartImmediately(selfStop) ==
    /\ ApplyStart
    /\ ~BlockedByPrevious
    /\ pendingStart.runImmediately
    /\ Loop(selfStop)
    /\ running' = ~selfStop
    /\ timer' = (timer /\ ~selfStop)
    /\ UNCHANGED orphans

StartDelayed ==
    /\ ApplyStart
    /\ ~BlockedByPrevious
    /\ ~pendingStart.runImmediately
    /\ Arm
    /\ running' = TRUE
    /\ UNCHANGED <<promise, fnExecutionsCount, inFlight, session, wanted>>

\* The event loop reaches an armed timer, which calls #loop whatever the
\* state of the instance is.  The timer of timeoutId or an orphan may be due.
FireTimer(selfStop) ==
    /\ microtasks = <<>>
    /\ Loop(selfStop)
    /\ \/ timer /\ timer' = FALSE /\ UNCHANGED orphans
       \/ orphans > 0 /\ orphans' = orphans - 1 /\ timer' = (timer /\ ~selfStop)
    /\ running' = (running /\ ~selfStop)
    /\ startScheduled' = (startScheduled /\ ~selfStop)
    /\ UNCHANGED <<pendingStart, microtasks, currentTimeout, calls>>

\* Execution e settles: the end of #loop.  A failure is reported only while
\* this.promise is set, and then takes the same path as a success.
Settle(e) ==
    /\ inFlight' = inFlight \ {e}
    /\ IF promise # 0 /\ fnExecutionsCount = e
       THEN /\ promise' = 0
            /\ IF running THEN Arm ELSE UNCHANGED <<timer, orphans>>
       ELSE UNCHANGED <<promise, timer, orphans>>
    /\ UNCHANGED <<running, fnExecutionsCount, startVars, currentTimeout, history>>

-----------------------------------------------------------------------------
RunMicrotask ==
    \/ RunStaleMicrotask
    \/ JoinRunningLoop
    \/ \E selfStop \in BOOLEAN : StartImmediately(selfStop)
    \/ StartDelayed

Callers ==
    \/ \E o \in StartOptions : Start(o) \/ Restart(o)
    \/ Stop
    \/ \E t \in Timeouts : UpdateTimeout(t)

Scheduler ==
    \/ RunMicrotask
    \/ \E selfStop \in BOOLEAN : FireTimer(selfStop)
    \/ \E e \in inFlight : Settle(e)

Next == Callers \/ Scheduler

Spec == Init /\ [][Next]_vars

\* The event loop runs every queued microtask and every timer that is due, and
\* every job settles (each awaits requests that time out).
Fairness ==
    /\ WF_vars(RunMicrotask)
    /\ WF_vars(\E selfStop \in BOOLEAN : FireTimer(selfStop))
    /\ \A e \in 1 .. MaxExecutions : WF_vars(e \in inFlight /\ Settle(e))

FairSpec == Spec /\ Fairness

-----------------------------------------------------------------------------
(* Correctness *)

\* At most one execution is scheduled at a time, and only for a loop that runs:
\* overlapping executions and restarts never leave a second timer behind, which
\* would be a loop that stop() cannot reach ("only one interval scheduled at a
\* time" in the interface's comment on allowOverlap).
SingleTimer ==
    /\ orphans = 0
    /\ timer => running

\* The microtask that starts the loop for the current session is queued exactly
\* while startScheduled says so, once, and behind every stale one.
PendingStartQueued ==
    LET live == {i \in DOMAIN microtasks : microtasks[i] = session} IN
    live = IF startScheduled THEN {Len(microtasks)} ELSE {}

\* The latest execution of fn will arm the next timer when it settles.
WillRearm == promise # 0 /\ promise = fnExecutionsCount /\ promise \in inFlight

\* A loop that was started, and not stopped since, is never lost: its start is
\* queued, or its timer is armed, or an execution is under way whose completion
\* arms the timer.
LoopNotLost ==
    wanted => \/ startScheduled /\ \E i \in DOMAIN microtasks : microtasks[i] = session
              \/ running /\ (timer \/ WillRearm)

\* After stop() no execution begins until the next start() or restart(),
\* whatever microtasks, timers and completions were outstanding.
NothingRunsAfterStop == [][fnExecutionsCount' # fnExecutionsCount => wanted]_vars

\* Without a stop or restart in between, an execution begins only when the
\* previous one has settled, unless the start asked for allowOverlap.
NoOverlapUnlessAsked ==
    [][fnExecutionsCount' # fnExecutionsCount =>
          promise = 0 \/ (pendingStart.allowOverlap /\ microtasks # <<>>)]_vars

\* The class keeps its promise to its callers: the task is wanted between a
\* start and the next stop, it waits for the execution this.promise belongs to.
Task == INSTANCE PeriodicTask WITH
          current <- promise, begun <- fnExecutionsCount, active <- inFlight,
          overlapAsked <- pendingStart.allowOverlap

\* start, stop, restart, microtasks, timers and completions implement the
\* periodic task: also, a task that stays wanted is executed again and again.
ImplementsTask == Task!FairTaskSpec
=============================================================================
