----------------------------- MODULE ActiveRoutes -----------------------------
(***************************************************************************)
(* The submitted routes of SwapAndBridgeController and the loop that asks  *)
(* the providers what became of them.                                      *)
(*                                                                         *)
(* A route is driven by two sources that do not wait for one another: the  *)
(* status of its account op, which ActivityController finds out, and the   *)
(* answers of its provider, which a poll asks for.  The loop is a          *)
(* RecurringTimeout: starting it again while a poll is in flight makes a   *)
(* second one, and the session id (the routes that were in progress when   *)
(* the last poll began) decides whose answers count.                       *)
(*                                                                         *)
(* Left out: the error texts, the approval status (it is set and replaced  *)
(* within one callback), and the intervals' lengths.                       *)
(***************************************************************************)
EXTENDS Naturals, FiniteSets

CONSTANTS RouteIds,    \* the routes the user submits
          BridgeRoutes, \* those that end on another chain
          HashedRoutes, \* those whose transaction hash is known on broadcast
          Window,      \* the ops of an account a poll looks through
          MaxOthers,   \* bound on the account's later ops
          PollSlots    \* bound: the polls in flight at a time

ASSUME RouteIdsAssumption == BridgeRoutes \cup HashedRoutes \subseteq RouteIds
ASSUME WindowAssumption == {Window, MaxOthers} \subseteq Nat /\ PollSlots \subseteq Nat \ {0}

VARIABLES status,       \* routeStatus, "none" for a route not in activeRoutes
          hash,         \* userTxHash is known
          opStatus,     \* the status of the account op that holds the route
          newer,        \* the ops of the account submitted since
          truth,        \* what the provider will say
          loop,         \* #updateActiveRoutesInterval
          polls,        \* #continuouslyUpdateActiveRoutes calls in flight
          pollPromise,  \* the poll #continuouslyUpdateActiveRoutesPromise is
          pollSession   \* #continuouslyUpdateActiveRoutesSessionId

routeVars == <<status, hash, opStatus, newer, truth, loop, polls, pollPromise, pollSession>>

Settled == {"completed", "failed", "refunded"}
NoPoll == [asked |-> {}, live |-> FALSE, busy |-> FALSE]

RoutesTypeOK ==
    /\ status \in [RouteIds -> {"none", "ready", "in-progress"} \cup Settled]
    /\ hash \in [RouteIds -> BOOLEAN]
    /\ opStatus \in [RouteIds -> {"none", "broadcast", "success", "failure", "unknown"}]
    /\ newer \in [RouteIds -> 0..(MaxOthers + Cardinality(RouteIds))]
    /\ truth \in [RouteIds -> {"pending"} \cup Settled]
    /\ loop \in {"off", "armed", "running"}
    /\ polls \in [PollSlots -> [asked : SUBSET RouteIds, live : BOOLEAN, busy : BOOLEAN]]
    /\ pollPromise \in PollSlots \cup {0}
    /\ pollSession \subseteq RouteIds

RoutesInit ==
    /\ status = [r \in RouteIds |-> "none"] /\ hash = [r \in RouteIds |-> FALSE]
    /\ opStatus = [r \in RouteIds |-> "none"] /\ newer = [r \in RouteIds |-> 0]
    /\ truth = [r \in RouteIds |-> "pending"]
    /\ loop = "off" /\ polls = [p \in PollSlots |-> NoPoll]
    /\ pollPromise = 0 /\ pollSession = {}

-----------------------------------------------------------------------------
\* activeRoutesInProgress
Pollable(s, h) == {r \in RouteIds : s[r] = "in-progress" /\ h[r]}
activeRoutesInProgress == Pollable(status, hash)

Orphaned(ps) == [p \in PollSlots |-> [ps[p] EXCEPT !.live = FALSE]]

\* The setter of activeRoutes; a shorter service time restarts the interval.
SetRoutes(s, h, ps) ==
    /\ status' = s /\ hash' = h
    /\ IF Pollable(s, h) = {} THEN loop' = "off" /\ polls' = Orphaned(ps)
       ELSE IF loop = "off" THEN loop' = "armed" /\ polls' = ps
       ELSE \/ UNCHANGED loop /\ polls' = ps
            \/ loop' = "armed" /\ polls' = Orphaned(ps)

updateActiveRoute(r, s, h) ==
    IF status[r] = "none" THEN UNCHANGED <<status, hash, loop, polls>>
    ELSE SetRoutes([status EXCEPT ![r] = s], [hash EXCEPT ![r] = h], polls)

-----------------------------------------------------------------------------
\* buildSwapAndBridgeUserRequest: the route waits in a batch.
QueueRoute(r) ==
    /\ status[r] = "none" /\ opStatus[r] = "none"
    /\ SetRoutes([status EXCEPT ![r] = "ready"], hash, polls)
    /\ UNCHANGED <<opStatus, newer, truth, pollPromise, pollSession>>

\* commonHandlerForBroadcastSuccess: the route is (again) active and in
\* progress before the activity learns of its op.
SubmitRoute(r) ==
    /\ opStatus[r] = "none"
    /\ SetRoutes([status EXCEPT ![r] = "in-progress"],
                 [hash EXCEPT ![r] = r \in HashedRoutes], polls)
    /\ opStatus' = [opStatus EXCEPT ![r] = "broadcast"]
    /\ newer' = [q \in RouteIds |-> IF q # r /\ opStatus[q] # "none"
                                    THEN newer[q] + 1 ELSE newer[q]]
    /\ UNCHANGED <<truth, pollPromise, pollSession>>

\* #handleBroadcastFailed, removeActiveRoute, removeFailedRouteAndHideBanner
RemoveRoute(r) ==
    /\ status[r] # "none"
    /\ SetRoutes([status EXCEPT ![r] = "none"], [hash EXCEPT ![r] = FALSE], polls)
    /\ UNCHANGED <<opStatus, newer, truth, pollPromise, pollSession>>

\* Another account op of the sender is submitted.
SubmitOther ==
    /\ \E r \in RouteIds : opStatus[r] # "none"
    /\ \A r \in RouteIds : newer[r] < MaxOthers
    /\ newer' = [r \in RouteIds |-> IF opStatus[r] # "none" THEN newer[r] + 1 ELSE newer[r]]
    /\ UNCHANGED <<status, hash, opStatus, truth, loop, polls, pollPromise, pollSession>>

\* handleUpdateActiveRouteOnSubmittedAccountOpStatusUpdate for an op whose
\* status the activity found out; "unknown" also stands for a stuck one.
OpSettles(r, found) ==
    /\ opStatus[r] = "broadcast"
    /\ opStatus' = [opStatus EXCEPT ![r] = found]
    /\ updateActiveRoute(r, CASE found = "failure" -> "failed"
                              [] found = "success" /\ r \notin BridgeRoutes -> "completed"
                              [] OTHER -> status[r],
                         hash[r] \/ found \in {"success", "failure"})
    /\ UNCHANGED <<newer, truth, pollPromise, pollSession>>

\* The provider learns the outcome of a transaction that was mined.
ProviderLearns(r) ==
    /\ opStatus[r] = "success" /\ truth[r] = "pending"
    /\ \E outcome \in IF r \in BridgeRoutes THEN Settled ELSE {"completed"} :
         truth' = [truth EXCEPT ![r] = outcome]
    /\ UNCHANGED <<status, hash, opStatus, newer, loop, polls, pollPromise, pollSession>>

-----------------------------------------------------------------------------
\* continuouslyUpdateActiveRoutes, called by the interval: it joins the poll
\* in flight when that one is about the same routes.
BeginPoll(p) ==
    /\ loop = "armed"
    /\ IF pollPromise # 0 /\ pollSession = activeRoutesInProgress
       THEN /\ p = pollPromise
            /\ polls' = [polls EXCEPT ![p].live = TRUE]
            /\ UNCHANGED <<pollPromise, pollSession>>
       ELSE /\ ~polls[p].busy
            /\ pollPromise' = p /\ pollSession' = activeRoutesInProgress
            /\ polls' = [polls EXCEPT ![p] =
                 [asked |-> {r \in activeRoutesInProgress : newer[r] < Window},
                  live |-> TRUE, busy |-> TRUE]]
    /\ loop' = "running"
    /\ UNCHANGED <<status, hash, opStatus, newer, truth>>

\* getRouteStatus answers; an answer given while other routes are in
\* progress than when the last poll began is dropped.
RouteAnswered(p, r) ==
    /\ r \in polls[p].asked
    /\ LET answered == [polls EXCEPT ![p].asked = polls[p].asked \ {r}]
       IN IF \/ pollSession # activeRoutesInProgress
             \/ truth[r] = "pending" \/ status[r] = "none"
          THEN polls' = answered /\ UNCHANGED <<status, hash, loop>>
          ELSE SetRoutes([status EXCEPT ![r] = truth[r]], hash, answered)
    /\ UNCHANGED <<opStatus, newer, truth, pollPromise, pollSession>>

\* getRouteStatus throws: only the error of the route is set.
RouteNotAnswered(p, r) ==
    /\ r \in polls[p].asked
    /\ SetRoutes(status, hash, [polls EXCEPT ![p].asked = polls[p].asked \ {r}])
    /\ UNCHANGED <<opStatus, newer, truth, pollPromise, pollSession>>

\* Mutant: the poll stops the interval when an answer of its was dropped.
EndPollForGood(p) ==
    /\ polls[p].busy /\ polls[p].asked = {}
    /\ pollPromise' = 0
    /\ loop' = IF pollSession # activeRoutesInProgress THEN "off"
               ELSE IF polls[p].live THEN "armed" ELSE loop
    /\ polls' = [polls EXCEPT ![p] = NoPoll]
    /\ UNCHANGED <<status, hash, opStatus, newer, truth, pollSession>>

\* The rest of #continuouslyUpdateActiveRoutes, and of the interval's loop.
EndPoll(p) ==
    /\ polls[p].busy /\ polls[p].asked = {}
    /\ pollPromise' = 0
    /\ loop' = IF activeRoutesInProgress = {} THEN "off"
               ELSE IF polls[p].live THEN "armed" ELSE loop
    /\ polls' = [polls EXCEPT ![p] = NoPoll]
    /\ UNCHANGED <<status, hash, opStatus, newer, truth, pollSession>>

RoutesNext ==
    \/ SubmitOther
    \/ \E r \in RouteIds : \/ QueueRoute(r) \/ SubmitRoute(r) \/ RemoveRoute(r)
                           \/ ProviderLearns(r)
                           \/ \E found \in {"success", "failure", "unknown"} : OpSettles(r, found)
    \/ \E p \in PollSlots : \/ BeginPoll(p) \/ EndPoll(p)
                            \/ \E r \in RouteIds : RouteAnswered(p, r) \/ RouteNotAnswered(p, r)

\* Timers fire and requests end; a provider that is asked again and again
\* does not fail for ever.
RoutesFairness ==
    /\ WF_routeVars(\E p \in PollSlots : BeginPoll(p))
    /\ \A p \in PollSlots :
         /\ WF_routeVars(EndPoll(p))
         /\ \A r \in RouteIds : /\ SF_routeVars(RouteAnswered(p, r))
                                /\ WF_routeVars(RouteAnswered(p, r) \/ RouteNotAnswered(p, r))

RoutesSpec == RoutesInit /\ [][RoutesNext]_routeVars /\ RoutesFairness

-----------------------------------------------------------------------------
\* A route in progress whose provider knows the outcome is settled in the
\* end, whatever starts, stops and restarts of the loop and answers dropped
\* in between, as long as its op is among the latest ones of the account.
RouteSettles ==
    \A r \in RouteIds :
        (r \in activeRoutesInProgress /\ truth[r] # "pending")
          ~> (status[r] # "in-progress" \/ newer[r] >= Window)
=============================================================================
