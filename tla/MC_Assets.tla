------------------------------- MODULE MC_Assets -------------------------------
(***************************************************************************)
(* What the wallet knows of accounts, operations, their fees and balances, *)
(* for TLC.  The modules share no state, so that a behaviour is about one  *)
(* of them, chosen at the start.                                           *)
(***************************************************************************)
EXTENDS Activity, OpBalances, Accounts, AccountDetails, PortfolioQueue, Estimation

VARIABLE focus

mcKinds == <<"batch", "userop">>
mcTxs == <<<<"t1", "t2">>, <<"t3">>>>
mcNonces == <<1, 1>>

Init == /\ focus \in {"activity", "balances", "accounts", "details", "portfolio", "fees"}
        /\ ActivityInit /\ BalancesInit /\ AccountsInit /\ DetailsInit /\ PortfolioInit
        /\ EstimationInit
        /\ focus # "fees" => paused

Next ==
    /\ UNCHANGED focus
    /\ IF focus = "activity" THEN ActivityNext ELSE UNCHANGED activityVars
    /\ IF focus = "balances" THEN BalancesNext ELSE UNCHANGED balancesVars
    /\ IF focus = "accounts" THEN AccountsNext ELSE UNCHANGED accountsVars
    /\ IF focus = "details" THEN DetailsNext ELSE UNCHANGED detailsVars
    /\ IF focus = "portfolio" THEN PortfolioNext ELSE UNCHANGED portfolioVars
    /\ IF focus = "fees" THEN FeesNext ELSE UNCHANGED estimationVars

vars == <<focus, activityVars, balancesVars, accountsVars, detailsVars, portfolioVars,
          estimationVars>>
Spec == /\ Init /\ [][Next]_vars
        /\ ActivityFairness /\ AccountsFairness /\ PortfolioFairness
        /\ FeesFairness

\* All variables of the modules have their types.
TypeOK == /\ ActivityTypeOK /\ BalancesTypeOK /\ AccountsTypeOK
          /\ DetailsTypeOK /\ PortfolioTypeOK /\ EstimationTypeOK
================================================================================
