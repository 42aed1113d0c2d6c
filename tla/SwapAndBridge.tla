---------------------------- MODULE SwapAndBridge ----------------------------
(***************************************************************************)
(* The form of SwapAndBridgeController, the quote fetched for it and the   *)
(* one-click SignAccountOp built from the selected route of the quote:     *)
(*                                                                         *)
(*     form  ->  quote fetch  ->  route start  ->  calls  ->  estimation   *)
(*                                                                         *)
(* Every arrow is an await during which the form, the quote or the         *)
(* selected route may change; #updateQuoteId is what a step that comes     *)
(* back late is recognised by.                                             *)
(*                                                                         *)
(* The form is a member of Forms (its tokens, chains and amount), or Empty *)
(* when it cannot be quoted.  Left out: amounts and prices, the order of   *)
(* routes, the token lists (module SwapTokens) and what happens to a route *)
(* once it is submitted (module ActiveRoutes).                             *)
(***************************************************************************)
EXTENDS Naturals, FiniteSets

CONSTANTS Forms,      \* the forms the user may fill in
          ChainOf,    \* the chain a form's swap starts on
          Empty,      \* a form that cannot be quoted
          Routes,     \* the routes the providers offer
          Nothing,    \* no quote, no op, no init in flight
          MaxQuotes,  \* bound on the quotes asked for
          Inits,      \* slots for initSignAccountOpIfNeeded calls in flight
          SwapEnvironment  \* what may happen while something else is going on

ASSUME FormsAssumption == Empty \notin Forms /\ ChainOf \in [Forms -> Nat]
ASSUME RoutesAssumption == Nothing \notin Routes \cup Inits
ASSUME BoundsAssumption == MaxQuotes \in Nat
\* "reselect": another route is selected, by the user or after a failed
\* estimation, while one is being started; "edit": the user changes the form
\* while the pending batch has an error.
ASSUME SwapEnvironmentAssumption == SwapEnvironment \subseteq {"reselect", "edit"}

VARIABLES form,        \* the fields of the form
          sessions,    \* whether a screen has the form open (sessionIds)
          onRoute,     \* #isOnSwapAndBridgeRoute
          interval,    \* updateQuoteInterval is running
          quote,       \* the quote: its form, routes that failed, selected one
          quoteStatus, \* updateQuoteStatus
          quoteId,     \* #updateQuoteId, 0 for undefined
          issued,      \* the last quote id given out
          fetches,     \* updateQuote calls in flight
          inits,       \* initSignAccountOpIfNeeded calls in flight
          swapOp,      \* #signAccountOpController
          hasProceeded,
          batchError,  \* swapSignErrors: the pending batch stands in the way
          routesError  \* errors has "all-routes-failed"

swapVars == <<form, sessions, onRoute, interval, quote, quoteStatus, quoteId, issued, fetches,
              inits, swapOp, hasProceeded, batchError, routesError>>

Quotes == [form : Forms, selected : Routes, failed : SUBSET Routes, manual : BOOLEAN]
Fetches == [id : 1..MaxQuotes, step : {"debounce", "fetching"}, form : Forms,
            keep : BOOLEAN,    \* skipPreviousQuoteRemoval
            reuse : BOOLEAN]   \* skipQuoteUpdateOnSameValues
InitCalls == [id : 0..MaxQuotes, step : {"state", "start", "calls"},
              form : Forms, route : Routes, name : Routes]
SwapOps == [id : 0..MaxQuotes,     \* meta.fromQuoteId
            form : Forms,
            route : Routes,        \* the route whose transaction it holds
            name : Routes,         \* swapTxn.activeRouteId
            estimation : {"loading", "success", "error"}]

SwapInit == /\ form = Empty /\ sessions = FALSE /\ onRoute = FALSE /\ interval = FALSE
            /\ quote = Nothing /\ quoteStatus = "INITIAL"
            /\ quoteId = 0 /\ issued = 0
            /\ fetches = {}
            /\ inits = [i \in Inits |-> Nothing]
            /\ swapOp = Nothing
            /\ hasProceeded = FALSE /\ batchError = FALSE /\ routesError = FALSE

-----------------------------------------------------------------------------
\* signAccountOpController, the getter: an op of an earlier quote is hidden.
CurrentOp == IF swapOp # Nothing /\ swapOp.id = quoteId THEN swapOp ELSE Nothing

\* Mutant: a form the user proceeded from is still one to change.
StatusOfProceeding(f, q, status, op) ==
    CASE f = Empty -> "Empty"
      [] f # Empty /\ status = "LOADING" -> "FetchingRoutes"
      [] f # Empty /\ status # "LOADING" /\ q = Nothing -> "NoRoutesFound"
      [] OTHER -> IF op # Nothing /\ op.estimation = "success"
                  THEN "ReadyToSubmit" ELSE "ReadyToEstimate"

\* formStatus, with the quote, its status, its id and the op as parameters.
StatusOf(f, q, status, op) ==
    CASE hasProceeded -> "Proceeded"
      [] ~hasProceeded /\ f = Empty -> "Empty"
      [] ~hasProceeded /\ f # Empty /\ batchError -> "Invalid"
      [] OTHER -> CASE status = "LOADING" -> "FetchingRoutes"
                    [] status # "LOADING" /\ q = Nothing -> "NoRoutesFound"
                    [] status # "LOADING" /\ q # Nothing ->
                         IF q.selected \in q.failed THEN "InvalidRouteSelected"
                         ELSE IF op # Nothing /\ op.estimation = "success"
                              THEN "ReadyToSubmit" ELSE "ReadyToEstimate"

formStatus == StatusOf(form, quote, quoteStatus, CurrentOp)

\* initSignAccountOpIfNeeded up to its first await, with the quote q.
Starts(q, status, id) ==
    IF StatusOf(form, q, status, CurrentOp) \in {"ReadyToEstimate", "ReadyToSubmit"}
    THEN \E i \in Inits :
           /\ inits[i] = Nothing
           /\ inits' = [inits EXCEPT ![i] = [id |-> id, step |-> "state", form |-> q.form,
                                             route |-> q.selected, name |-> q.selected]]
    ELSE UNCHANGED inits

Destroyed == /\ swapOp' = Nothing
             /\ hasProceeded' = (hasProceeded /\ swapOp = Nothing)

\* resetForm: the op goes with the quote.
ResetForm == /\ form' = Empty
             /\ quote' = Nothing /\ quoteStatus' = "INITIAL" /\ quoteId' = 0
             /\ swapOp' = Nothing /\ hasProceeded' = FALSE

-----------------------------------------------------------------------------
(* The user, the screens and the portfolio.                                *)

OpenScreen ==
    /\ ~sessions
    /\ sessions' = TRUE /\ onRoute' = TRUE /\ interval' = TRUE
    /\ ResetForm /\ routesError' = FALSE
    /\ UNCHANGED <<issued, fetches, inits, batchError>>

\* unloadScreen: a dirty form in the popup is kept for the next time.
CloseScreen ==
    /\ sessions
    /\ onRoute' = FALSE /\ interval' = FALSE
    /\ \/ form # Empty /\ UNCHANGED <<form, sessions, quote, quoteStatus, quoteId,
                                     swapOp, hasProceeded, routesError>>
       \/ sessions' = FALSE /\ ResetForm /\ routesError' = FALSE
    /\ UNCHANGED <<issued, fetches, inits, batchError>>

ReturnToScreen ==
    /\ sessions /\ ~onRoute
    /\ onRoute' = TRUE /\ interval' = TRUE
    /\ UNCHANGED <<form, sessions, quote, quoteStatus, quoteId, issued, fetches, inits, swapOp,
                   hasProceeded, batchError, routesError>>

\* Mutant: the id is not renewed, so that the earlier op and quote stay good.
AsksQuoteSameId(f, keep, reuse, debounced) ==
    IF hasProceeded \/ batchError
    THEN UNCHANGED <<quoteStatus, quoteId, issued, fetches, routesError>>
    ELSE /\ issued < MaxQuotes
         /\ routesError' = FALSE
         /\ issued' = issued + 1 /\ quoteId' = IF quoteId = 0 THEN issued + 1 ELSE quoteId
         /\ IF f = Empty
            THEN quoteStatus' = "INITIAL" /\ UNCHANGED fetches
            ELSE /\ quoteStatus' = "LOADING"
                 /\ fetches' = fetches \cup
                      {[id |-> quoteId', step |-> IF debounced THEN "debounce" ELSE "fetching",
                        form |-> f, keep |-> keep, reuse |-> reuse]}

\* updateQuote up to its first await, for the form f.
AsksQuote(f, keep, reuse, debounced) ==
    IF hasProceeded \/ batchError
    THEN UNCHANGED <<quoteStatus, quoteId, issued, fetches, routesError>>
    ELSE /\ issued < MaxQuotes
         /\ routesError' = FALSE
         /\ issued' = issued + 1 /\ quoteId' = issued + 1
         /\ IF f = Empty
            THEN quoteStatus' = "INITIAL" /\ UNCHANGED fetches
            ELSE /\ quoteStatus' = "LOADING"
                 /\ fetches' = fetches \cup
                      {[id |-> issued + 1, step |-> IF debounced THEN "debounce" ELSE "fetching",
                        form |-> f, keep |-> keep, reuse |-> reuse]}

\* updateForm: the fields, then the quote.  Choosing the routes' priority
\* drops the quote at once; an invalid form drops it too.
UpdateForm ==
    /\ sessions /\ ~hasProceeded
    /\ batchError => "edit" \in SwapEnvironment
    /\ \E f \in Forms \cup {Empty}, reuse, newPriority \in BOOLEAN :
         /\ form' = f
         /\ AsksQuote(f, FALSE, reuse, TRUE)
         /\ quote' = IF newPriority \/ (f = Empty /\ ~batchError) THEN Nothing ELSE quote
    /\ UNCHANGED <<sessions, onRoute, interval, inits, swapOp, hasProceeded, batchError>>

\* switchFromAndToTokens changes the tokens without asking for a quote: the
\* receive token is taken again from the list of the swapped chains.
SwitchTokens ==
    /\ sessions /\ ~hasProceeded /\ form # Empty
    /\ form' = Empty
    /\ UNCHANGED <<sessions, onRoute, interval, quote, quoteStatus, quoteId, issued, fetches,
                   inits, swapOp, hasProceeded, batchError, routesError>>

\* The pending batch of the account gets an estimation error, or loses it.
BatchChanges ==
    /\ batchError' = ~batchError
    /\ UNCHANGED <<form, sessions, onRoute, interval, quote, quoteStatus, quoteId, issued,
                   fetches, inits, swapOp, hasProceeded, routesError>>

Quiescent == \A i \in Inits : inits[i] = Nothing
MayReselect == "reselect" \in SwapEnvironment \/ Quiescent

\* selectRoute by the user: the quote keeps its id.
SelectRoute ==
    /\ quote # Nothing
    /\ formStatus \in {"ReadyToSubmit", "ReadyToEstimate", "InvalidRouteSelected"}
    /\ MayReselect
    /\ \E r \in Routes \ quote.failed :
         LET q == [quote EXCEPT !.selected = r, !.manual = TRUE] IN
           quote' = q /\ Starts(q, quoteStatus, quoteId)
    /\ UNCHANGED <<form, sessions, onRoute, interval, quoteStatus, quoteId, issued, fetches,
                   swapOp, hasProceeded, batchError, routesError>>

\* setUserProceeded: the user goes from the form to signing, or back.
Proceed ==
    /\ \/ formStatus = "ReadyToSubmit" /\ MayReselect /\ hasProceeded' = TRUE
       \/ hasProceeded /\ hasProceeded' = FALSE
    /\ UNCHANGED <<form, sessions, onRoute, interval, quote, quoteStatus, quoteId, issued,
                   fetches, inits, swapOp, batchError, routesError>>

\* The op is broadcast: its last update resets the form.
Broadcast ==
    /\ hasProceeded /\ CurrentOp # Nothing
    /\ ResetForm
    /\ UNCHANGED <<sessions, onRoute, interval, issued, fetches, inits, batchError, routesError>>

-----------------------------------------------------------------------------
(* The quote.                                                              *)

\* continuouslyUpdateQuote.
RefreshQuote ==
    /\ interval
    /\ IF onRoute /\ formStatus = "ReadyToSubmit" /\ ~quote.manual
       THEN AsksQuote(form, TRUE, FALSE, FALSE) /\ UNCHANGED interval
       ELSE interval' = FALSE /\ UNCHANGED <<quoteStatus, quoteId, issued, fetches,
                                              routesError>>
    /\ UNCHANGED <<form, sessions, onRoute, quote, inits, swapOp, hasProceeded, batchError>>

\* updateQuote after the debounce: obsolete, reusing the quote, or fetching.
StopObsolete(u) ==
    /\ u.id # quoteId
    /\ fetches' = fetches \ {u}
    /\ UNCHANGED <<form, sessions, onRoute, interval, quote, quoteStatus, quoteId, issued,
                   inits, swapOp, hasProceeded, batchError, routesError>>

\* Mutant: a quote that failed leaves the loading state on.
FailedQuietly(u) ==
    /\ fetches' = fetches \ {u}
    /\ quote' = Nothing /\ interval' = TRUE
    /\ Destroyed /\ routesError' = FALSE
    /\ UNCHANGED <<form, sessions, onRoute, quoteStatus, quoteId, issued, inits, batchError>>

Failed(u) ==
    /\ fetches' = fetches \ {u}
    /\ quote' = Nothing /\ quoteStatus' = "INITIAL" /\ interval' = TRUE
    /\ Destroyed /\ routesError' = FALSE
    /\ UNCHANGED <<form, sessions, onRoute, quoteId, issued, inits, batchError>>

Succeeded(u, q) ==
    /\ fetches' = fetches \ {u}
    /\ quote' = q /\ quoteStatus' = "INITIAL" /\ interval' = TRUE
    /\ Starts(q, "INITIAL", u.id)
    /\ UNCHANGED <<form, sessions, onRoute, quoteId, issued, swapOp, hasProceeded, batchError,
                   routesError>>

BeginFetch(u) ==
    /\ u.step = "debounce" /\ u.id = quoteId
    /\ CASE form = Empty -> Failed(u)
         [] form # Empty /\ u.reuse /\ quote # Nothing /\ quote.form = form -> Succeeded(u, quote)
         [] OTHER -> /\ fetches' = (fetches \ {u}) \cup
                                     {[u EXCEPT !.step = "fetching", !.form = form]}
                     /\ quote' = IF u.keep THEN quote ELSE Nothing
                     /\ quoteStatus' = IF u.keep \/ quote = Nothing THEN quoteStatus ELSE "LOADING"
                     /\ UNCHANGED <<form, sessions, onRoute, interval, quoteId, issued, inits,
                                    swapOp, hasProceeded, batchError, routesError>>

\* The providers answer: no route, an error, or routes.  The answer to
\* another form than the present one leaves the quote as it is.
QuoteAnswered(u) ==
    /\ u.step = "fetching" /\ u.id = quoteId
    /\ \/ Failed(u)
       \/ /\ ~hasProceeded
          /\ IF form = u.form
             THEN \E r \in Routes : Succeeded(u, [form |-> form, selected |-> r,
                                                  failed |-> {}, manual |-> FALSE])
             ELSE Succeeded(u, quote)

UpdateQuote(u) == StopObsolete(u) \/ BeginFetch(u) \/ QuoteAnswered(u)

-----------------------------------------------------------------------------
(* The op.                                                                 *)

\* markSelectedRouteAsFailed and onEstimationFailure: the next route that has
\* not failed, unless the user selected the one that did.
FailsRoute(left, manualStatus) ==
    IF quote = Nothing THEN inits' = left /\ UNCHANGED <<quote, quoteStatus>>
    ELSE LET q == [quote EXCEPT !.failed = @ \cup {quote.selected}]
             others == Routes \ q.failed IN
         IF q.manual \/ others = {}
         THEN /\ quote' = q /\ inits' = left
              /\ quoteStatus' = IF q.manual THEN manualStatus ELSE "INITIAL"
         ELSE \E r \in others :
                /\ UNCHANGED quoteStatus
                /\ IF StatusOf(form, q, quoteStatus, CurrentOp) = "InvalidRouteSelected"
                   THEN /\ quote' = [q EXCEPT !.selected = r]
                        /\ IF quoteId = 0 THEN inits' = left
                           ELSE \E i \in Inits :
                                  /\ left[i] = Nothing
                                  /\ inits' = [left EXCEPT ![i] =
                                       [id |-> quoteId, step |-> "state", form |-> q.form,
                                        route |-> r, name |-> r]]
                   ELSE quote' = q /\ inits' = left

Dropped(i) == [inits EXCEPT ![i] = Nothing]
KeepsForm == UNCHANGED <<form, sessions, onRoute, interval, quoteId, issued, fetches, batchError>>

\* A step of the building that comes back for an earlier quote.
InitObsolete(i) ==
    /\ inits[i] # Nothing /\ inits[i].id # quoteId
    /\ inits' = Dropped(i)
    /\ UNCHANGED <<quote, quoteStatus, swapOp, hasProceeded, routesError>>
    /\ KeepsForm

\* The account's state is there, or cannot be had; getRouteStartUserTx gives
\* no transaction unless the form is still ready.
InitState(i) ==
    /\ inits[i] # Nothing /\ inits[i].step = "state" /\ inits[i].id = quoteId
    /\ \/ /\ inits' = Dropped(i) /\ quoteStatus' = "INITIAL" /\ routesError' = TRUE
          /\ UNCHANGED quote
       \/ /\ UNCHANGED routesError
          /\ IF formStatus \in {"ReadyToEstimate", "ReadyToSubmit"}
             THEN /\ inits' = [inits EXCEPT ![i].step = "start", ![i].form = quote.form,
                                            ![i].route = quote.selected]
                  /\ UNCHANGED <<quote, quoteStatus>>
             ELSE FailsRoute(Dropped(i), "INITIAL")
    /\ UNCHANGED <<swapOp, hasProceeded>>
    /\ KeepsForm

\* The provider starts the route, or refuses it.  The transaction gets the
\* name of the route that is selected by now.
RouteStarted(i) ==
    /\ inits[i] # Nothing /\ inits[i].step = "start" /\ inits[i].id = quoteId
    /\ \/ FailsRoute(Dropped(i), "INITIAL")
       \/ /\ quote # Nothing
          /\ inits' = [inits EXCEPT ![i].step = "calls", ![i].name = quote.selected]
          /\ UNCHANGED <<quote, quoteStatus>>
    /\ UNCHANGED <<swapOp, hasProceeded, routesError>>
    /\ KeepsForm

\* The calls are there: the op takes them, or a new one is made when there is
\* none or it is on another chain.
OpBuilt(i) ==
    /\ inits[i] # Nothing /\ inits[i].step = "calls" /\ inits[i].id = quoteId
    /\ inits' = Dropped(i)
    /\ swapOp' = [id |-> inits[i].id, form |-> inits[i].form, route |-> inits[i].route,
                  name |-> inits[i].name, estimation |-> "loading"]
    /\ hasProceeded' = (hasProceeded /\ (swapOp = Nothing
                                           \/ ChainOf[swapOp.form] = ChainOf[inits[i].form]))
    /\ UNCHANGED <<quote, quoteStatus, routesError>>
    /\ KeepsForm

\* The estimation of the op ends.  Its failure is taken as a failure of the
\* route that is selected.
Estimated ==
    /\ swapOp # Nothing /\ swapOp.estimation = "loading"
    /\ \/ /\ swapOp' = [swapOp EXCEPT !.estimation = "success"]
          /\ UNCHANGED <<quote, quoteStatus, inits>>
       \/ /\ MayReselect
          /\ swapOp' = [swapOp EXCEPT !.estimation = "error"]
          /\ FailsRoute(inits, quoteStatus)
    /\ UNCHANGED <<hasProceeded, routesError>>
    /\ KeepsForm

BuildOp(i) == InitObsolete(i) \/ InitState(i) \/ RouteStarted(i) \/ OpBuilt(i)

-----------------------------------------------------------------------------
SwapUser == \/ OpenScreen \/ CloseScreen \/ ReturnToScreen \/ UpdateForm \/ SwitchTokens
            \/ BatchChanges \/ SelectRoute \/ Proceed \/ Broadcast

SwapNext == \/ SwapUser \/ RefreshQuote \/ Estimated
            \/ \E u \in fetches : UpdateQuote(u)
            \/ \E i \in Inits : BuildOp(i)

SwapSpec == SwapInit /\ [][SwapNext]_swapVars

\* Debounces end and providers answer or time out.
SwapFairness == /\ WF_swapVars(\E u \in fetches : UpdateQuote(u))
                /\ \A i \in Inits : WF_swapVars(BuildOp(i))
                /\ WF_swapVars(Estimated)

-----------------------------------------------------------------------------
SwapTypeOK == /\ form \in Forms \cup {Empty}
              /\ {sessions, onRoute, interval, hasProceeded, batchError, routesError} \subseteq BOOLEAN
              /\ quote \in Quotes \cup {Nothing}
              /\ quoteStatus \in {"INITIAL", "LOADING"}
              /\ issued \in 0..MaxQuotes /\ quoteId \in 0..issued
              /\ fetches \subseteq Fetches
              /\ inits \in [Inits -> InitCalls \cup {Nothing}]
              /\ swapOp \in SwapOps \cup {Nothing}

\* What the form offers to sign is the swap it shows, for the tokens, chains
\* and amount in its fields (the getter signAccountOpController hides an op of
\* an earlier quote).
SubmitMatchesForm ==
    formStatus = "ReadyToSubmit" => quote.form = form /\ CurrentOp.form = form

\* An op the user went on to sign stays what it was: no quote and no building
\* that was under way changes it ("no updates if the user has commited").
CommittedOpKept ==
    [][hasProceeded /\ hasProceeded' /\ CurrentOp # Nothing => swapOp'.route = swapOp.route
                                                           /\ swapOp'.form = swapOp.form]_swapVars

\* The form does not stay in the loading state, whatever was changed while a
\* quote was fetched.
LoadingEnds == quoteStatus = "LOADING" ~> quoteStatus = "INITIAL"
=============================================================================
