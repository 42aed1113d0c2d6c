------------------------------ MODULE OpBalances ------------------------------
(***************************************************************************)
(* ActivityController: the balance changes of an operation that has its    *)
(* outcome.  The pass that found the outcome starts a task that computes   *)
(* them, without waiting for it; every screen that lists an operation      *)
(* without them starts another one (backfill), and the screens share it.   *)
(* Three failures in all and the operation is left without any.            *)
(*                                                                         *)
(* One operation.  What the balance changes are is left out.               *)
(***************************************************************************)
EXTENDS Naturals, FiniteSets

CONSTANTS Screens,             \* the sessions that may list the operation
          BalancesEnvironment

ASSUME ScreensAssumption == IsFiniteSet(Screens)
\* "slow": the task of the pass may still run when a screen lists the operation.
ASSUME BalancesEnvironmentAssumption == BalancesEnvironment \subseteq {"slow"}

VARIABLES outcome,   \* the status of the operation: it has one, with a receipt or without
          changes,   \* balanceChanges
          failures,  \* balanceChangesFetchRetryCount
          passTask,  \* the task of the pass
          backfills, \* backfills that run: one, unless they were not shared
          listing,   \* screens that list the operation
          awaiting   \* screens whose backfill is not over

balancesVars == <<outcome, changes, failures, passTask, backfills, listing, awaiting>>

MAX_FAILURES == 3

BalancesTypeOK ==
    /\ outcome \in {"none", "receipt", "noReceipt"}
    /\ changes \in {"undefined", "computed", "empty"} /\ failures \in 0..(MAX_FAILURES + 2)
    /\ passTask \in {"none", "running", "done"} /\ backfills \in 0..Cardinality(Screens)
    /\ listing \subseteq Screens /\ awaiting \subseteq listing

BalancesInit ==
    /\ outcome = "none" /\ changes = "undefined" /\ failures = 0
    /\ passTask = "none" /\ backfills = 0 /\ listing = {} /\ awaiting = {}

\* The pass gives the operation its status.
OutcomeFound(o) ==
    /\ outcome = "none" /\ outcome' = o
    /\ passTask' = IF o = "receipt" THEN "running" ELSE "done"
    /\ UNCHANGED <<changes, failures, backfills, listing, awaiting>>

\* The operation was read from storage with its outcome: no task of a pass.
LoadedWithOutcome(o) ==
    /\ outcome = "none" /\ outcome' = o
    /\ passTask' = "done"
    /\ UNCHANGED <<changes, failures, backfills, listing, awaiting>>

\* Mutant: the screens do not share the backfill that runs.
StartsBackfillAlone == TRUE

\* #backfillAccountOpBalanceChangesPromises has none for the operation.
StartsBackfill == backfills = 0

Backfill(screens) ==
    /\ awaiting' = awaiting \cup screens
    /\ backfills' = IF StartsBackfill THEN backfills + 1 ELSE backfills

\* filterAccountsOps with the operation on the page of the screen.
List(s) ==
    /\ outcome # "none" /\ s \notin awaiting
    /\ s \notin listing \/ changes = "undefined"
    /\ "slow" \in BalancesEnvironment \/ passTask = "done"
    /\ listing' = listing \cup {s}
    /\ IF changes = "undefined" THEN Backfill({s}) ELSE UNCHANGED <<awaiting, backfills>>
    /\ UNCHANGED <<outcome, changes, failures, passTask>>

\* Mutant: the failures are counted, the operation is never given up.
SetChangesForEver(found) ==
    IF found THEN changes' = "computed" /\ UNCHANGED failures
    ELSE failures' = failures + 1 /\ UNCHANGED changes

\* setAccountOpBalanceChanges
SetChanges(found) ==
    IF found THEN changes' = "computed" /\ UNCHANGED failures
    ELSE /\ failures' = failures + 1
         /\ changes' = IF failures' >= MAX_FAILURES THEN "empty" ELSE changes

\* persistAccountsOps lists the operation again on every screen; it is the
\* step List of those that have no backfill left.
PassTaskEnds(found) ==
    /\ passTask = "running" /\ passTask' = "done"
    /\ SetChanges(found)
    /\ UNCHANGED <<outcome, backfills, listing, awaiting>>

BackfillEnds(found) ==
    /\ backfills > 0 /\ backfills' = backfills - 1
    /\ IF outcome = "receipt" THEN SetChanges(found) ELSE changes' = "empty" /\ UNCHANGED failures
    /\ awaiting' = IF backfills' = 0 THEN {} ELSE awaiting
    /\ UNCHANGED <<outcome, passTask, listing>>

BalancesNext ==
    \/ \E o \in {"receipt", "noReceipt"} : OutcomeFound(o) \/ LoadedWithOutcome(o)
    \/ \E s \in Screens : List(s)
    \/ \E found \in BOOLEAN : PassTaskEnds(found) \/ BackfillEnds(found)

BalancesSpec == BalancesInit /\ [][BalancesNext]_balancesVars

-----------------------------------------------------------------------------
\* Balance changes that were computed are not thrown away by the failure of
\* another task for the same operation (setAccountOpBalanceChanges).
BalancesKept == [][changes = "computed" => changes' = "computed"]_balancesVars
=============================================================================
