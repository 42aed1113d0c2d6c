------------------------------- MODULE Estimation -------------------------------
(***************************************************************************)
(* What the fees of an operation are computed from: EstimationController,  *)
(* GasPriceController, and the update and the two intervals of the         *)
(* SignAccountOpController that drives them, while the user changes the    *)
(* calls, leaves and comes back, signs and fails to.                       *)
(*                                                                         *)
(* An estimate waits for the account's state and the portfolio, and then   *)
(* for the estimation itself.  Estimates overlap: an interval that is      *)
(* restarted does not wait for the execution it had.  Updates are emitted  *)
(* at once, so that a change of the estimation is one of the operation.    *)
(*                                                                         *)
(* What is estimated is the operation's calls, by accountOp.id, with or    *)
(* without ERC-4337.  Left out: amounts, fee tokens, payers and speeds     *)
(* (fees are what they were computed for), the simulation and the nonce,   *)
(* Safe and one-click operations, what sign does, and the stop of the      *)
(* intervals after half an hour in which the user did nothing.             *)
(***************************************************************************)
EXTENDS Naturals

CONSTANTS Estimates,    \* identifiers of estimates in flight
          NoEstimate,
          NoFees,
          MAX_CHANGES   \* bound on what the user does

ASSUME EstimationAssumption ==
    /\ NoEstimate \notin Estimates /\ MAX_CHANGES \in Nat

VARIABLES accountOp,     \* its id, and the feature flag erc4337 it is estimated under
          feesOf,        \* what gasFeePayment was computed for
          signStatus,    \* status, null as "none"
          hasPrices,     \* gasPrices are known
          customPrices,  \* hasCustomGasPrices
          pricesLoop,    \* #gasPriceInterval is on
          pricesFetch,   \* calls of gasPrice.fetch that wait: the interval's and the silent one
          estimation,    \* status and error; what estimation and availableFeeOptions
                         \* are of, and whether it brought the prices of a bundler
          lastAccountOpId,
          estimates,     \* calls of estimate that wait
          estimateLoop,  \* #simulateAndEstimateOrSimulateInterval is on
          tracked,       \* the execution it waits for
          stopRefetching,
          paused,        \* the user looks at something else
          acted

feeVars == <<feesOf, signStatus, hasPrices, pricesLoop>>
loopVars == <<estimateLoop, tracked, stopRefetching>>
userVars == <<accountOp, customPrices, paused, acted>>
estimationVars == <<userVars, feeVars, pricesFetch, estimation, lastAccountOpId,
                    estimates, loopVars>>

OpIdsUsed == 1..MAX_CHANGES + 1
Estimated4337 == [id : OpIdsUsed, erc4337 : BOOLEAN]
PriceFetches == {"interval", "silent"}
NoCall == [at |-> "idle"]
Results == [status : {"initial", "loading", "success", "error"}, error : BOOLEAN,
            of : Estimated4337 \cup {NoFees}, bundler : BOOLEAN]
InSigningState == signStatus \in {"inProgress", "done"}  \* noStateUpdateStatuses

EstimationTypeOK ==
    /\ accountOp \in Estimated4337 /\ feesOf \in Estimated4337 \cup {NoFees}
    /\ signStatus \in {"none", "error", "ready", "inProgress", "done"}
    /\ {hasPrices, customPrices, pricesLoop} \subseteq BOOLEAN
    /\ pricesFetch \subseteq PriceFetches
    /\ estimation \in Results /\ lastAccountOpId \in OpIdsUsed \cup {0}
    /\ estimates \in [Estimates -> {NoCall} \cup
         [at : {"state", "estimate"}, of : Estimated4337]]
    /\ {estimateLoop, stopRefetching, paused} \subseteq BOOLEAN
    /\ tracked \in Estimates \cup {NoEstimate}
    /\ acted \in 0..MAX_CHANGES

\* A new operation is shown, or paused until it is.
EstimationInit ==
    /\ accountOp = [id |-> 1, erc4337 |-> FALSE] /\ feesOf = NoFees /\ signStatus = "none"
    /\ hasPrices = FALSE /\ customPrices = FALSE /\ pricesFetch = {}
    /\ estimation = [status |-> "initial", error |-> FALSE, of |-> NoFees, bundler |-> FALSE]
    /\ lastAccountOpId = 0 /\ estimates = [e \in Estimates |-> NoCall]
    /\ tracked = NoEstimate /\ acted = 0
    /\ paused \in BOOLEAN /\ stopRefetching = paused
    /\ estimateLoop = ~paused /\ pricesLoop = ~paused

-----------------------------------------------------------------------------
(* The operation. *)

\* update, once the estimation is "result", and gas prices came if "prices".
UpdateFees(result, prices, fees) ==
    IF InSigningState THEN UNCHANGED <<feesOf, signStatus, hasPrices>>
    ELSE /\ hasPrices' = (hasPrices \/ prices \/ result.bundler)
         /\ feesOf' = IF result.of = NoFees THEN NoFees
                      ELSE IF result.status = "success" /\ hasPrices' THEN result.of ELSE fees
         /\ signStatus' = IF result.error THEN "error"
                          ELSE IF feesOf' = NoFees THEN "none" ELSE "ready"

\* What update makes of the interval of gas prices: it is on if they have no
\* other source, off after an error, and left alone with nothing estimated.
PricesLoopFor(result) ==
    IF InSigningState THEN pricesLoop
    ELSE IF result.of # NoFees THEN ~customPrices /\ ~result.bundler
    ELSE pricesLoop /\ result.status # "error"

\* restart of the interval of estimates: an execution is due, whether or not
\* the last one is over.
RestartEstimates == estimateLoop' = TRUE /\ tracked' = NoEstimate

Acts == acted < MAX_CHANGES /\ acted' = acted + 1

\* Mutant: new calls are left to the interval, which may be off.
ChangeCallsQuietly ==
    /\ Acts /\ ~InSigningState /\ accountOp' = [accountOp EXCEPT !.id = @ + 1]
    /\ UpdateFees(estimation, FALSE, feesOf) /\ pricesLoop' = PricesLoopFor(estimation)
    /\ paused' \in {paused, FALSE}
    /\ UNCHANGED <<customPrices, pricesFetch, estimation, lastAccountOpId, estimates, loopVars>>

\* Calls are added or taken away, also while another request is shown.
ChangeCalls ==
    /\ Acts /\ ~InSigningState /\ accountOp' = [accountOp EXCEPT !.id = @ + 1]
    /\ UpdateFees(estimation, FALSE, feesOf)
    /\ RestartEstimates /\ stopRefetching' = FALSE /\ pricesLoop' = TRUE
    /\ paused' \in {paused, FALSE}
    /\ UNCHANGED <<customPrices, pricesFetch, estimation, lastAccountOpId, estimates>>

\* Another request is shown, and the window closes, with what is under way.
PauseOp ==
    /\ ~paused /\ paused' = TRUE
    /\ stopRefetching' = TRUE /\ pricesLoop' = FALSE
    /\ estimateLoop' = FALSE /\ tracked' = NoEstimate
    /\ UNCHANGED <<accountOp, customPrices, acted, feesOf, signStatus, hasPrices, pricesFetch,
                   estimation, lastAccountOpId, estimates>>

ResumeOp ==
    /\ Acts /\ paused /\ paused' = FALSE
    /\ stopRefetching' = FALSE /\ estimateLoop' = TRUE /\ pricesLoop' = TRUE
    /\ UNCHANGED <<accountOp, customPrices, feesOf, signStatus, hasPrices, pricesFetch,
                   estimation, lastAccountOpId, estimates, tracked>>

Retry ==
    /\ Acts /\ ~InSigningState /\ RestartEstimates
    /\ UNCHANGED <<accountOp, customPrices, paused, feeVars, pricesFetch, estimation,
                   lastAccountOpId, estimates, stopRefetching>>

\* update with custom gas prices.
SetCustomPrices ==
    /\ ~customPrices /\ ~InSigningState /\ customPrices' = TRUE
    /\ UpdateFees(estimation, TRUE, feesOf) /\ pricesLoop' = FALSE
    /\ UNCHANGED <<accountOp, paused, acted, pricesFetch, estimation, lastAccountOpId,
                   estimates, loopVars>>

\* sign asks for the status, not for an estimation that is over.
StartSigning ==
    /\ Acts /\ signStatus = "ready" /\ signStatus' = "inProgress"
    /\ UNCHANGED <<accountOp, customPrices, paused, feesOf, hasPrices, pricesLoop, pricesFetch,
                   estimation, lastAccountOpId, estimates, loopVars>>

\* After some errors the estimation, or the gas prices too, are asked for anew.
SignFails ==
    /\ signStatus = "inProgress" /\ signStatus' = "ready"
    /\ RestartEstimates \/ UNCHANGED <<estimateLoop, tracked>>
    /\ \/ ~customPrices /\ pricesLoop' = FALSE /\ pricesFetch' = pricesFetch \cup {"silent"}
       \/ UNCHANGED <<pricesLoop, pricesFetch>>
    /\ UNCHANGED <<userVars, feesOf, hasPrices, estimation, lastAccountOpId, estimates,
                   stopRefetching>>

\* Broadcast, and destroyed.
SignSucceeds ==
    /\ signStatus = "inProgress" /\ signStatus' = "done"
    /\ stopRefetching' = TRUE /\ pricesLoop' = FALSE
    /\ estimateLoop' = FALSE /\ tracked' = NoEstimate
    /\ UNCHANGED <<userVars, feesOf, hasPrices, pricesFetch, estimation, lastAccountOpId,
                   estimates>>

-----------------------------------------------------------------------------
(* Estimates. *)

\* estimate, up to its first await.  Which identifier it takes is no matter.
Begin(e, op, fees) ==
    /\ estimates[e] = NoCall /\ e = CHOOSE f \in Estimates : estimates[f] = NoCall
    /\ estimates' = [estimates EXCEPT ![e] = [at |-> "state", of |-> op]]
    /\ estimation' = [estimation EXCEPT !.status = "loading"]
    /\ UpdateFees(estimation', FALSE, fees) /\ pricesLoop' = PricesLoopFor(estimation')

\* enableErc4337AndReestimate, not in the interval.
EnableErc4337(e) ==
    LET op == [accountOp EXCEPT !.erc4337 = TRUE]
    IN  /\ ~accountOp.erc4337 /\ ~InSigningState
        /\ accountOp' = op /\ Begin(e, op, NoFees)
        /\ UNCHANGED <<customPrices, paused, acted, pricesFetch, lastAccountOpId, loopVars>>

\* An execution of the interval: it stops itself, skips an operation that is
\* signed, or estimates.
EstimateTick ==
    /\ estimateLoop /\ tracked = NoEstimate
    /\ \/ /\ stopRefetching /\ estimateLoop' = FALSE
          /\ UNCHANGED <<feeVars, estimation, estimates, tracked>>
       \/ /\ ~stopRefetching /\ ~InSigningState
          /\ \E e \in Estimates : Begin(e, accountOp, feesOf) /\ tracked' = e
          /\ UNCHANGED estimateLoop
    /\ UNCHANGED <<userVars, pricesFetch, lastAccountOpId, stopRefetching>>

\* The account's state is there, and the portfolio, or the state is missing.
StateArrives(e) ==
    /\ estimates[e].at = "state"
    /\ lastAccountOpId' = estimates[e].of.id
    /\ estimates' = [estimates EXCEPT ![e] =
         [@ EXCEPT !.at = "estimate", !.of.erc4337 = accountOp.erc4337]]
    /\ UNCHANGED <<userVars, feeVars, pricesFetch, estimation, loopVars>>

\* Estimate e is over, with what becomes of the estimation and the operation.
Ends(e, result) ==
    /\ estimates' = [estimates EXCEPT ![e] = NoCall] /\ estimation' = result
    /\ IF result = estimation THEN UNCHANGED feeVars
       ELSE UpdateFees(result, FALSE, feesOf) /\ pricesLoop' = PricesLoopFor(result)
    /\ tracked' = IF tracked = e THEN NoEstimate ELSE tracked
    /\ UNCHANGED <<userVars, pricesFetch, lastAccountOpId, estimateLoop, stopRefetching>>

StateIsMissing(e) ==
    /\ estimates[e].at = "state"
    /\ Ends(e, [estimation EXCEPT !.status = "error", !.error = TRUE])

EstimationSucceeds(e) ==
    /\ estimates[e].at = "estimate" /\ estimates[e].of.id = lastAccountOpId
    /\ \E bundler \in BOOLEAN :
         /\ bundler => estimates[e].of.erc4337
         /\ Ends(e, [status |-> "success", error |-> FALSE, of |-> estimates[e].of,
                     bundler |-> bundler])

EstimationFails(e) ==
    /\ estimates[e].at = "estimate" /\ estimates[e].of.id = lastAccountOpId
    /\ Ends(e, [status |-> "error", error |-> TRUE, of |-> NoFees, bundler |-> FALSE])

\* "Estimation race condition prevented".
Obsolete(e) ==
    /\ estimates[e].at = "estimate" /\ estimates[e].of.id # lastAccountOpId
    /\ Ends(e, estimation)

-----------------------------------------------------------------------------
(* Gas prices. *)

\* The interval stops itself when refetching has stopped, and goes on to fetch.
PricesTick ==
    /\ pricesLoop /\ "interval" \notin pricesFetch
    /\ pricesFetch' = pricesFetch \cup {"interval"}
    /\ pricesLoop' = ~stopRefetching
    /\ UNCHANGED <<userVars, feesOf, signStatus, hasPrices, estimation, lastAccountOpId,
                   estimates, loopVars>>

\* They come or do not; the operation is updated in any case, except when it
\* has those of the bundler.  The interval goes on after the silent call.
PricesArrive(f) ==
    /\ f \in pricesFetch /\ pricesFetch' = pricesFetch \ {f}
    /\ \E come \in BOOLEAN :
         IF hasPrices /\ estimation.bundler THEN UNCHANGED <<feesOf, signStatus, hasPrices>>
         ELSE UpdateFees(estimation, come, feesOf)
    /\ pricesLoop' = IF f = "silent" THEN TRUE
                     ELSE IF hasPrices /\ estimation.bundler THEN pricesLoop
                     ELSE PricesLoopFor(estimation)
    /\ UNCHANGED <<userVars, estimation, lastAccountOpId, estimates, loopVars>>

-----------------------------------------------------------------------------
FeesUser ==
    \/ ChangeCalls \/ PauseOp \/ ResumeOp \/ Retry \/ SetCustomPrices \/ StartSigning
    \/ \E e \in Estimates : EnableErc4337(e)

FeesNext ==
    \/ FeesUser \/ SignFails \/ SignSucceeds
    \/ EstimateTick \/ PricesTick
    \/ \E f \in PriceFetches : PricesArrive(f)
    \/ \E e \in Estimates : \/ StateArrives(e) \/ StateIsMissing(e)
                            \/ EstimationSucceeds(e) \/ EstimationFails(e) \/ Obsolete(e)

\* Intervals go on, requests are answered, and a signing is over some time.
FeesFairness ==
    /\ WF_estimationVars(SignFails \/ SignSucceeds)
    /\ WF_estimationVars(EstimateTick)
    /\ WF_estimationVars(PricesTick)
    /\ \A f \in PriceFetches : WF_estimationVars(PricesArrive(f))
    /\ \A e \in Estimates :
         WF_estimationVars(\/ StateArrives(e) \/ StateIsMissing(e)
                           \/ EstimationSucceeds(e) \/ EstimationFails(e) \/ Obsolete(e))

FeesSpec == EstimationInit /\ [][FeesNext]_estimationVars /\ FeesFairness

-----------------------------------------------------------------------------
\* An operation that is shown has the fees of its calls in the end, and their
\* prices are renewed, whatever calls were added, estimates came late and
\* updates were ignored during a signing, unless they cannot be estimated
\* (estimate, update, and the intervals with their stops and starts).
FeesCatchUp ==
    []<>(\/ paused \/ signStatus = "done" \/ estimation.error \/ ~hasPrices
         \/ /\ feesOf = accountOp
            /\ pricesLoop \/ pricesFetch # {} \/ customPrices \/ estimation.bundler)
=============================================================================
