---------------------------- MODULE PortfolioQueue ----------------------------
(***************************************************************************)
(* PortfolioController: the updates of the portfolio of one account on one *)
(* network.  Updates and removals of a simulation wait for one another in  *)
(* a queue (#queue), and the operation an update simulates is read when    *)
(* its turn comes.  An operation that got its outcome is discarded from    *)
(* the simulation, and a minute later the portfolio is updated once more   *)
(* (scheduleUpdate).                                                       *)
(*                                                                         *)
(* Left out: tokens, prices, hints and DeFi positions, what is remembered  *)
(* of networks with assets, and verification.                              *)
(***************************************************************************)
EXTENDS Naturals, Sequences, SequencesExt, FiniteSets

CONSTANTS SimOps,        \* operations the user builds, by numbers in their order
          NoSimulation,  \* those whose network or account cannot be simulated
          MAX_HEAD,      \* bound on the height of the chain
          MAX_JOBS       \* bound on the length of the queue

NoOp == 0
ASSUME SimOpsAssumption == SimOps \subseteq Nat \ {NoOp} /\ NoSimulation \subseteq SimOps
ASSUME PortfolioBoundsAssumption == MAX_HEAD \in Nat /\ MAX_JOBS \in Nat

VARIABLES queue,      \* #queue of the account and network
          running,    \* what the first job simulates, once it has begun
          simulated,  \* accountOps of the state: the simulated operation
          shownBlock, \* block of the state's result
          life,       \* what became of an operation
          minedAt,    \* the block of a mined operation
          latest,     \* the operation whose simulation was asked for last
          scheduled,  \* #scheduledUpdates has the network
          portfolioError, \* the last update failed (criticalError)
          chainHead

portfolioVars == <<queue, running, simulated, shownBlock, portfolioError, life, minedAt, latest, scheduled,
                   chainHead>>

Heights == 0..MAX_HEAD
OpOrNone == SimOps \cup {NoOp}
Update(o) == [kind |-> "update", op |-> o]
Refresh == [kind |-> "refresh", op |-> NoOp]    \* an interval's, with a maximal age
Discard(o) == [kind |-> "discard", op |-> o]
Override == [kind |-> "override", op |-> NoOp]
Idle == [on |-> FALSE]

PortfolioTypeOK ==
    /\ queue \in Seq([kind : {"update", "refresh", "discard", "override"}, op : OpOrNone])
    /\ Len(queue) <= MAX_JOBS + 1
    /\ running = Idle \/ running \in [on : {TRUE}, op : OpOrNone]
    /\ simulated \in OpOrNone /\ latest \in OpOrNone
    /\ shownBlock \in Heights /\ chainHead \in Heights
    /\ life \in [SimOps -> {"none", "open", "rejected", "broadcast", "mined", "final"}]
    /\ minedAt \in [SimOps -> Heights] /\ {scheduled, portfolioError} \subseteq BOOLEAN

PortfolioInit ==
    /\ queue = <<>> /\ running = Idle /\ simulated = NoOp /\ shownBlock = 0 /\ portfolioError = FALSE
    /\ life = [o \in SimOps |-> "none"] /\ minedAt = [o \in SimOps |-> 0]
    /\ latest = NoOp /\ scheduled = FALSE /\ chainHead = 0

Room == Len(queue) < MAX_JOBS

-----------------------------------------------------------------------------
(* Asking for updates.                                                     *)

\* simulateAccountOp, when an operation is opened or estimated again.  One that
\* cannot be simulated is a mere update, with what was simulated before.
Simulate(o) ==
    /\ Room /\ life[o] \in {"none", "open"} /\ \A p \in SimOps : p < o => life[p] # "none"
    /\ life' = [life EXCEPT ![o] = "open"]
    /\ queue' = Append(queue, Update(IF o \in NoSimulation THEN NoOp ELSE o))
    /\ latest' = IF o \in NoSimulation THEN latest ELSE o
    /\ UNCHANGED <<running, simulated, shownBlock, portfolioError, minedAt, scheduled, chainHead>>

\* overrideSimulationResults, when the request is rejected or closed.
Reject(o) ==
    /\ Room /\ life[o] = "open" /\ life' = [life EXCEPT ![o] = "rejected"]
    /\ queue' = Append(queue, Override) /\ latest' = NoOp
    /\ UNCHANGED <<running, simulated, shownBlock, portfolioError, minedAt, scheduled, chainHead>>

\* The portfolio interval.
AskRefresh ==
    /\ Room /\ \A i \in DOMAIN queue : queue[i] # Refresh
    /\ queue' = Append(queue, Refresh)
    /\ UNCHANGED <<running, simulated, shownBlock, portfolioError, life, minedAt, latest, scheduled, chainHead>>

Broadcast(o) ==
    /\ life[o] = "open" /\ life' = [life EXCEPT ![o] = "broadcast"]
    /\ UNCHANGED <<queue, running, simulated, shownBlock, portfolioError, minedAt, latest, scheduled, chainHead>>

MineOp(o) ==
    /\ life[o] = "broadcast" /\ chainHead < MAX_HEAD
    /\ life' = [life EXCEPT ![o] = "mined"]
    /\ chainHead' = chainHead + 1 /\ minedAt' = [minedAt EXCEPT ![o] = chainHead']
    /\ UNCHANGED <<queue, running, simulated, shownBlock, portfolioError, latest, scheduled>>

\* updateAccountsOpsStatuses found the receipt: an update is scheduled and the
\* simulation of the operation discarded.
Finalize(o) ==
    /\ Room /\ life[o] = "mined" /\ life' = [life EXCEPT ![o] = "final"]
    /\ scheduled' = TRUE
    /\ queue' = Append(queue, Discard(o))
    /\ UNCHANGED <<running, simulated, shownBlock, portfolioError, minedAt, latest, chainHead>>

\* Mutant: the scheduled update takes the place of no other.
RunScheduledOnlyIfIdle ==
    /\ scheduled /\ scheduled' = FALSE
    /\ queue' = IF queue = <<>> THEN <<Refresh>> ELSE queue
    /\ UNCHANGED <<running, simulated, shownBlock, portfolioError, life, minedAt, latest, chainHead>>

\* #runScheduledUpdates, a minute after the last operation.
RunScheduled ==
    /\ scheduled /\ scheduled' = FALSE
    /\ queue' = Append(queue, Update(NoOp))
    /\ UNCHANGED <<running, simulated, shownBlock, portfolioError, life, minedAt, latest, chainHead>>

-----------------------------------------------------------------------------
(* The queue.                                                              *)

\* Mutant: a discard takes whatever is simulated.
ToSimulateDiscardsAll(job) == IF job.kind = "discard" \/ job.op = NoOp THEN NoOp ELSE job.op

\* accountOpsToSimulate: the job's own operation, or the one that is simulated,
\* without the one that is discarded.
ToSimulate(job) == CASE job.kind = "discard" -> NoOp
                     [] job.op # NoOp -> job.op
                     [] OTHER -> simulated

\* The next job in the queue ends at once: it discards an operation that is not
\* simulated, it is a refresh of fresh data, or it only removes the simulation.
EndsAtOnce ==
    /\ queue # <<>> /\ running = Idle
    /\ \/ Head(queue).kind = "discard" /\ simulated # Head(queue).op /\ UNCHANGED simulated
       \/ Head(queue) = Refresh /\ UNCHANGED simulated
       \/ Head(queue) = Override /\ simulated' = NoOp
    /\ queue' = Tail(queue)
    /\ UNCHANGED <<running, shownBlock, portfolioError, life, minedAt, latest, scheduled, chainHead>>

BeginUpdate ==
    /\ queue # <<>> /\ running = Idle /\ Head(queue) # Override
    /\ Head(queue).kind = "discard" => simulated = Head(queue).op
    /\ running' = [on |-> TRUE, op |-> ToSimulate(Head(queue))]
    /\ latest' = IF Head(queue).kind = "discard" /\ latest = Head(queue).op THEN NoOp ELSE latest
    /\ UNCHANGED <<queue, simulated, shownBlock, portfolioError, life, minedAt, scheduled, chainHead>>

\* updatePortfolioState: it succeeds, with a block of its time, or it fails and
\* the result stays; the simulated operation is taken over in both cases.
EndUpdate ==
    /\ running # Idle /\ running' = Idle
    /\ simulated' = running.op /\ queue' = Tail(queue)
    /\ shownBlock' = chainHead /\ portfolioError' = FALSE
    /\ UNCHANGED <<life, minedAt, latest, scheduled, chainHead>>

FailUpdate ==
    /\ running # Idle /\ running' = Idle
    /\ simulated' = running.op /\ queue' = Tail(queue)
    /\ portfolioError' = TRUE
    /\ UNCHANGED <<shownBlock, life, minedAt, latest, scheduled, chainHead>>

PortfolioNext ==
    \/ \E o \in SimOps : Simulate(o) \/ Reject(o) \/ Broadcast(o) \/ MineOp(o) \/ Finalize(o)
    \/ AskRefresh \/ RunScheduled
    \/ EndsAtOnce \/ BeginUpdate \/ EndUpdate \/ FailUpdate

\* The queue goes on, scheduled updates run, receipts are found.
PortfolioFairness ==
    /\ WF_portfolioVars(EndsAtOnce) /\ WF_portfolioVars(BeginUpdate)
    /\ WF_portfolioVars(EndUpdate \/ FailUpdate)
    /\ WF_portfolioVars(RunScheduled)
    /\ \A o \in SimOps : WF_portfolioVars(Finalize(o))

PortfolioSpec == PortfolioInit /\ [][PortfolioNext]_portfolioVars /\ PortfolioFairness

-----------------------------------------------------------------------------
\* Once the queue is empty the simulation shown is the one asked for last,
\* whatever was discarded, refreshed or removed meanwhile.
LatestSimulationShown == queue = <<>> /\ latest # NoOp => simulated = latest

\* A mined operation is reflected by the portfolio in the end, if its update
\* does not fail.
CatchesUp ==
    []<>(portfolioError \/ \A o \in SimOps : life[o] = "final" => shownBlock >= minedAt[o])

=============================================================================
