---------------------------- MODULE CallsRequests ----------------------------
(***************************************************************************)
(* The life of a dapp's transaction in the wallet, on one account and      *)
(* chain: RequestsController batches the calls that dapps send into one    *)
(* calls request, whose SignAccountOpController signs and broadcasts them, *)
(* and MainController settles the promises the dapps hold.                 *)
(*                                                                         *)
(* Handlers run up to an await and go on when it ends, others in between;  *)
(* each such stretch is an action.  An await is left out when nothing it   *)
(* separates can be told apart.  A dapp request is one call and one        *)
(* promise, and the SignAccountOp built for it takes its name.             *)
(*                                                                         *)
(* Left out: the other kinds of request, except the receipt ("benzin") a   *)
(* broadcast opens; Safe accounts, whose batches are queued by nonce; the  *)
(* one-click swap and transfer; swap routes; speeding up; removing the     *)
(* account.  Estimation is "ready" from the start.                         *)
(***************************************************************************)
EXTENDS Naturals, FiniteSets

CONSTANTS Calls,         \* the calls dapps send
          SendCalls,     \* those sent by wallet_sendCalls (ERC-5792)
          SmartAccount,  \* whether the account is a smart one
          Options,       \* broadcast options: the bundler, the relayer, or an
                         \* EOA that sends each call in a transaction of its own
          Environment,   \* what may happen while something else is going on
          None,          \* no request, no op
          Receipt        \* the receipt as current request

ASSUME SendCallsAssumption == SendCalls \subseteq Calls
ASSUME AccountAssumption == SmartAccount \in BOOLEAN
ASSUME OptionsAssumption == Options \subseteq {"bundler", "relayer", "eoa"}
\* "overlap": dapps and users call a handler while another one awaits (signing
\* apart); "reject": the user rejects what is being signed; "close": the user
\* closes the request window; "change": calls come to or leave an op whose
\* updates are ignored though it is not being signed (a window that closes
\* during the paymaster's answer leaves it so).
ASSUME EnvironmentAssumption ==
    Environment \subseteq {"overlap", "reject", "close", "change"}

ASSUME NamesAssumption == None # Receipt /\ {None, Receipt} \cap Calls = {}

VARIABLES promise,    \* what each dapp was told
          build,      \* how far the building of each dapp's request is
          request,    \* the calls request in userRequests; its op is None if none
          receipt,    \* whether the receipt is in userRequests
          current,    \* currentUserRequest: a SignAccountOp, Receipt or None
          window,     \* requestWindow.windowProps and openWindowPromise
          op,         \* the SignAccountOpControllers
          viewed,     \* what the request window last showed the user
          removing,   \* a rejection waits for the portfolio queue
          sent        \* the calls submitted to the network

vars == <<promise, build, request, receipt, current, window, op, viewed, removing, sent>>

Phases == {"idle", "preparing", "paymaster", "signing", "submitting", "recording"}
Ops == [calls : SUBSET Calls,     \* accountOp.calls
        id : Nat,                 \* accountOp.id, new whenever calls change
        status : {"none", "ready", "inProgress", "done"},
        phase : Phases,           \* where signAndBroadcast is
        option : Options \cup {None},
        stopped : BOOLEAN,        \* #stopRefetching
        reviewed : SUBSET Calls,  \* what the user saw before this attempt
        sent : SUBSET Calls,      \* what this attempt submitted
        resolving : {"no", "opening", "confirming"},  \* resolveAccountOpRequest
        handlers : SUBSET Calls]  \* the dappPromises it took
Requests == [op : Calls \cup {None}, promises : SUBSET Calls]
Views == [op : Calls \cup {None}, id : Nat, calls : SUBSET Calls]

NoRequest == [op |-> None, promises |-> {}]
NoOp == [calls |-> {}, id |-> 0, status |-> "none", phase |-> "idle", option |-> None,
         stopped |-> FALSE, reviewed |-> {}, sent |-> {}, resolving |-> "no", handlers |-> {}]

Init == /\ promise = [p \in Calls |-> "unsent"]
        /\ build = [p \in Calls |-> "no"]
        /\ request = NoRequest
        /\ receipt = FALSE
        /\ current = None
        /\ window = "closed"
        /\ op = [o \in Calls |-> NoOp]
        /\ viewed = [op |-> None, id |-> 0, calls |-> {}]
        /\ removing = FALSE
        /\ sent = {}

\* signAndBroadcastPromise: set from the click to the end of the broadcast.
Signing(o) == op[o].phase # "idle"

\* The status update() ignores changes at (noStateUpdateStatuses).
Frozen(o) == op[o].status \in {"inProgress", "done"}

Listed == request.op # None
TakesChanges == "change" \in Environment \/ ~Frozen(request.op) \/ Signing(request.op)
BlockedBySigning == Listed /\ Signing(request.op)

\* Nothing but signing is suspended at an await.
Quiet == /\ \A p \in Calls : build[p] = "no" /\ op[p].resolving # "opening"
         /\ ~removing
MayStart == "overlap" \in Environment \/ Quiet

\* A promise settles once; later calls of resolve and reject do nothing.
Told(ps, answer) ==
    [p \in Calls |-> IF p \in ps /\ promise[p] = "pending" THEN answer ELSE promise[p]]

-----------------------------------------------------------------------------
(* The request window.                                                     *)

\* pause the op that was current, resume the next one
Switched(ops, next) ==
    [o \in Calls |-> [ops[o] EXCEPT !.stopped = IF o = next THEN FALSE
                                                 ELSE @ \/ o = current]]

\* #setCurrentUserRequest opens the window for a request and closes it for
\* none; a window that closes rejects what is not a calls request.
SetCurrent(ops, next, rec) ==
    /\ op' = Switched(ops, next)
    /\ current' = next
    /\ receipt' = (rec /\ next # None)
    /\ window' = CASE next = None -> "closed"
                   [] next # None /\ window = "open" /\ (current = Receipt => rec) -> "open"
                   [] OTHER -> "opening"

\* Mutant: a window that could not be opened is not reset.
WindowStuckOnError ==
    /\ window = "opening"
    /\ window' \in {"open", "failed"}
    /\ UNCHANGED <<promise, build, request, receipt, current, op, viewed, removing, sent>>

WindowOpens ==
    /\ window = "opening"
    /\ window' \in {"open", "closed"}  \* ui.window.open may fail
    /\ UNCHANGED <<promise, build, request, receipt, current, op, viewed, removing, sent>>

CloseWindow ==
    /\ "close" \in Environment
    /\ window = "open"
    /\ SetCurrent(op, None, receipt)
    /\ UNCHANGED <<promise, build, request, viewed, removing, sent>>

\* The user opens the request from the dashboard.
SelectRequest ==
    /\ MayStart
    /\ Listed
    /\ current # request.op \/ window = "closed"
    /\ SetCurrent(op, request.op, receipt)
    /\ UNCHANGED <<promise, build, request, viewed, removing, sent>>

\* The window shows the current op.
Look == /\ window = "open"
        /\ current \in Calls
        /\ viewed' = [op |-> current, id |-> op[current].id, calls |-> op[current].calls]
        /\ viewed' # viewed
        /\ UNCHANGED <<promise, build, request, receipt, current, window, op, removing, sent>>

-----------------------------------------------------------------------------
(* A dapp sends a call.                                                    *)

\* SignAccountOpController.update with other calls
Changed(r, calls) == [r EXCEPT !.calls = calls, !.id = r.id + 1, !.stopped = FALSE]
Updated(o, calls) == IF Frozen(o) THEN op ELSE [op EXCEPT ![o] = Changed(@, calls)]

CanSend(p) == MayStart /\ promise[p] = "unsent"

\* #createOrUpdateCallsUserRequest refuses to touch what is being signed,
RefuseWhileSigning(p) ==
    /\ CanSend(p)
    /\ BlockedBySigning
    /\ promise' = [promise EXCEPT ![p] = "rejected"]
    /\ SetCurrent(op, request.op, receipt)
    /\ UNCHANGED <<build, request, viewed, removing, sent>>

\* Mutant: a call is added to what is being signed.
AddToRequestAlways(p) ==
    /\ CanSend(p)
    /\ Listed
    /\ promise' = [promise EXCEPT ![p] = "pending"]
    /\ request' = [request EXCEPT !.promises = @ \cup {p}]
    /\ SetCurrent(Updated(request.op, op[request.op].calls \cup {p}), request.op, receipt)
    /\ UNCHANGED <<build, viewed, removing, sent>>

\* adds the call to the request there is,
AddToRequest(p) ==
    /\ CanSend(p)
    /\ Listed /\ ~BlockedBySigning /\ TakesChanges
    /\ promise' = [promise EXCEPT ![p] = "pending"]
    /\ request' = [request EXCEPT !.promises = @ \cup {p}]
    /\ SetCurrent(Updated(request.op, op[request.op].calls \cup {p}), request.op, receipt)
    /\ UNCHANGED <<build, viewed, removing, sent>>

\* or awaits the account's state to create one.
StartRequest(p) ==
    /\ CanSend(p)
    /\ ~Listed
    /\ promise' = [promise EXCEPT ![p] = "pending"]
    /\ build' = [build EXCEPT ![p] = "creating"]
    /\ UNCHANGED <<request, receipt, current, window, op, viewed, removing, sent>>

\* addUserRequests checks for a signing in progress and awaits the state again.
CheckRequest(p) ==
    /\ build[p] = "creating"
    /\ promise' = IF BlockedBySigning THEN Told({p}, "rejected") ELSE promise
    /\ build' = [build EXCEPT ![p] = IF BlockedBySigning THEN "no" ELSE "adding"]
    /\ UNCHANGED <<request, receipt, current, window, op, viewed, removing, sent>>

\* The request replaces the one with the same id, if there is one, and the
\* receipt leaves.  A request of an EOA does not take another one's place.
NextCurrent(p) ==
    IF ~SmartAccount /\ current \in Calls THEN current ELSE p

AddUserRequest(p) ==
    /\ build[p] = "adding"
    /\ build' = [build EXCEPT ![p] = "no"]
    /\ request' = [op |-> p, promises |-> {p}]
    /\ SetCurrent([op EXCEPT ![p] = [NoOp EXCEPT !.calls = {p}, !.status = "ready"]],
                  NextCurrent(p), FALSE)
    /\ UNCHANGED <<promise, viewed, removing, sent>>

\* The account's state could not be fetched.
BuildFails(p) ==
    /\ build[p] # "no"
    /\ promise' = Told({p}, "rejected")
    /\ build' = [build EXCEPT ![p] = "no"]
    /\ UNCHANGED <<request, receipt, current, window, op, viewed, removing, sent>>

-----------------------------------------------------------------------------
(* The user rejects.                                                       *)

MayReject == /\ MayStart
             /\ Listed
             /\ ~removing
             /\ "reject" \in Environment \/ ~BlockedBySigning

\* rejectUserRequests tells the dapps and waits for the portfolio's queue;
RejectRequest ==
    /\ MayReject
    /\ promise' = Told(request.promises, "rejected")
    /\ removing' = TRUE
    /\ UNCHANGED <<build, request, receipt, current, window, op, viewed, sent>>

\* Mutant: a rejected call stays in the batch.
RejectCallStillBatched(c) ==
    /\ MayReject
    /\ c \in op[request.op].calls
    /\ promise' = Told({c} \cap request.promises, "rejected")
    /\ request' = [request EXCEPT !.promises = @ \ {c}]
    /\ UNCHANGED <<build, receipt, current, window, op, viewed, removing, sent>>

\* Mutant: the promise of a rejected call is only dropped.
RejectCallSilently(c) ==
    /\ MayReject
    /\ c \in op[request.op].calls
    /\ request' = [request EXCEPT !.promises = @ \ {c}]
    /\ op' = Updated(request.op, op[request.op].calls \ {c})
    /\ removing' = (op'[request.op].calls = {})
    /\ UNCHANGED <<promise, build, receipt, current, window, viewed, sent>>

\* rejectCalls does so for one call, and for the request if it was the last.
RejectCall(c) ==
    /\ MayReject
    /\ c \in op[request.op].calls
    /\ TakesChanges
    /\ promise' = Told({c} \cap request.promises, "rejected")
    /\ request' = [request EXCEPT !.promises = @ \ {c}]
    /\ op' = Updated(request.op, op[request.op].calls \ {c})
    /\ removing' = (op'[request.op].calls = {})
    /\ UNCHANGED <<build, receipt, current, window, viewed, sent>>

\* destroy() of the op of a request that leaves
Destroyed(ops) ==
    [o \in Calls |-> IF o = request.op THEN [ops[o] EXCEPT !.stopped = TRUE, !.status = "none"]
                     ELSE ops[o]]

\* removeUserRequests, by the request's id: whatever request has it now leaves,
\* and the receipt, if there is one, comes next.
RemoveRequest(ops, rec) ==
    /\ request' = NoRequest
    /\ SetCurrent(Destroyed(ops), IF rec THEN Receipt ELSE None, rec)

FinishRejection ==
    /\ removing
    /\ removing' = FALSE
    /\ RemoveRequest(op, receipt)
    /\ UNCHANGED <<promise, build, viewed, sent>>

-----------------------------------------------------------------------------
(* Signing and broadcasting.                                               *)

\* Mutant: the op's id is not compared with the reviewed one.
MaySignUnreviewed == /\ MayStart
                     /\ current \in Calls /\ window = "open"
                     /\ viewed.op = current
                     /\ ~BlockedBySigning
                     /\ ~Signing(current)

\* handleSignAndBroadcastAccountOp: the current op is the one the user saw,
\* and nothing is being signed on this account and chain.
MaySign == /\ MayStart
           /\ current \in Calls /\ window = "open"
           /\ viewed.op = current /\ viewed.id = op[current].id
           /\ ~BlockedBySigning
           /\ ~Signing(current)

Sign(option) ==
    /\ MaySign
    /\ op[current].status = "ready"
    /\ op' = [op EXCEPT ![current] =
                [@ EXCEPT !.status = "inProgress", !.phase = "preparing", !.option = option,
                          !.reviewed = viewed.calls, !.sent = {}]]
    /\ UNCHANGED <<promise, build, request, receipt, current, window, viewed, removing, sent>>

\* sign() of what is not ready resets the status and fails.
SignNotReady ==
    /\ MaySign
    /\ op[current].status # "ready"
    /\ op' = [op EXCEPT ![current].status = "ready"]
    /\ UNCHANGED <<promise, build, request, receipt, current, window, viewed, removing, sent>>

Moves(o, from, to, status) ==
    /\ op[o].phase = from
    /\ op' = [op EXCEPT ![o] = [@ EXCEPT !.phase = to, !.status = status]]
    /\ UNCHANGED <<promise, build, request, receipt, current, window, viewed, removing, sent>>

\* The account's state is there.  A plain EOA only signs as it broadcasts.
Prepared(o) ==
    \/ op[o].option = "bundler" /\ Moves(o, "preparing", "paymaster", op[o].status)
    \/ op[o].option = "relayer" /\ Moves(o, "preparing", "signing", op[o].status)
    \/ op[o].option = "eoa" /\ Moves(o, "preparing", "submitting", "done")

\* After the paymaster's answer, if one is needed, the signing stops if
\* refetching was stopped.
StopsAtPaymaster(o) == op[o].stopped

PaymasterAnswers(o) == \E status \in {op[o].status, "inProgress"} :
    \/ StopsAtPaymaster(o) /\ Moves(o, "paymaster", "idle", status)
    \/ ~StopsAtPaymaster(o) /\ Moves(o, "paymaster", "signing", status)

\* The key or the device signed; whatever the status was, it is done.
Signed(o) == Moves(o, "signing", "submitting", "done")

\* Mutant: an EOA's broadcast that fails half way starts again.
FailsHalfWay(o) == \E phase \in {"preparing", "paymaster", "signing", "submitting"} :
    Moves(o, phase, "idle", "ready")

\* An error before anything was submitted makes the op ready again.
Fails(o) == \E phase \in {"preparing", "paymaster", "signing", "submitting"} :
    /\ op[o].sent = {}
    /\ Moves(o, phase, "idle", "ready")

Submitted(o, calls, phase) ==
    /\ op[o].phase = "submitting"
    /\ op' = [op EXCEPT ![o] = [@ EXCEPT !.phase = phase, !.sent = op[o].sent \cup calls]]
    /\ sent' = sent \cup calls
    /\ UNCHANGED <<promise, build, request, receipt, current, window, viewed, removing>>

SubmitBatch(o) == op[o].option # "eoa" /\ Submitted(o, op[o].calls, "recording")

SubmitOne(o) ==
    /\ op[o].option = "eoa"
    /\ \E c \in op[o].calls \ op[o].sent :
         Submitted(o, {c}, IF op[o].calls \subseteq op[o].sent \cup {c} THEN "recording"
                           ELSE "submitting")

\* An EOA's broadcast that fails half way goes on with what was submitted.
PartlySubmitted(o) == /\ op[o].sent # {}
                      /\ Moves(o, "submitting", "recording", op[o].status)

-----------------------------------------------------------------------------
(* onBroadcastSuccess: the activity is recorded, the dapps are answered.   *)

\* resolveAccountOpRequest took the promises of the request.
Taken(o, ops, resolving, handlers) ==
    [ops EXCEPT ![o] = [@ EXCEPT !.resolving = resolving, !.handlers = handlers]]

\* Mutant: only wallet_sendCalls is answered.
LeavesUnanswered(o, ops, handlers, rec) ==
    /\ promise' = Told(handlers \cap SendCalls, "resolved")
    /\ RemoveRequest(ops, rec)

\* wallet_sendCalls is answered as the request leaves, the rest once the
\* transaction is confirmed.
Leaves(o, ops, handlers, rec) ==
    /\ promise' = Told(handlers \cap SendCalls, "resolved")
    /\ RemoveRequest(Taken(o, ops, "confirming", handlers \ SendCalls), rec)

\* Mutant: signAndBroadcastPromise is not reset.
StillSigning(o) == op

\* resolveAccountOpRequest opens the receipt and removes the request.
\* signAndBroadcast ends without waiting for it: the two forced updates it
\* waits for are no step.
Ended(o) == [op EXCEPT ![o].phase = "idle"]

RecordedWithoutRequest(o) ==
    /\ op[o].phase = "recording"
    /\ ~Listed
    /\ op' = Ended(o)
    /\ UNCHANGED <<promise, build, request, receipt, current, window, viewed, removing, sent>>

RecordedInWindow(o) ==
    /\ op[o].phase = "recording"
    /\ Listed
    /\ window = "open"
    /\ Leaves(o, Ended(o), request.promises, TRUE)
    /\ UNCHANGED <<build, viewed, removing, sent>>

\* The receipt needs the window: it has taken the request's promises, and it
\* removes the request once the window is there.
RecordedOutsideWindow(o) ==
    /\ op[o].phase = "recording"
    /\ Listed
    /\ window # "open"
    /\ SetCurrent(Taken(o, Ended(o), "opening", request.promises), Receipt, TRUE)
    /\ UNCHANGED <<promise, build, request, viewed, removing, sent>>

ReceiptOpened(o) ==
    /\ op[o].resolving = "opening"
    /\ window # "opening"
    /\ Leaves(o, op, op[o].handlers, receipt)
    /\ UNCHANGED <<build, viewed, removing, sent>>

\* resolveDappBroadcast: a transaction the bundler or relayer dropped has no id.
Answers(o) == IF op[o].option = "eoa" THEN {"resolved"} ELSE {"resolved", "dropped"}

Confirmed(o) ==
    /\ op[o].resolving = "confirming"
    /\ \E answer \in Answers(o) : promise' = Told(op[o].handlers, answer)
    /\ op' = Taken(o, op, "no", {})
    /\ UNCHANGED <<build, request, receipt, current, window, viewed, removing, sent>>

-----------------------------------------------------------------------------
Dapp(p) == RefuseWhileSigning(p) \/ AddToRequest(p) \/ StartRequest(p)

Build(p) == CheckRequest(p) \/ AddUserRequest(p) \/ BuildFails(p)

User == \/ CloseWindow \/ SelectRequest \/ Look
        \/ RejectRequest \/ \E c \in Calls : RejectCall(c)
        \/ SignNotReady \/ \E option \in Options : Sign(option)

Attempt(o) == \/ Prepared(o) \/ PaymasterAnswers(o) \/ Signed(o) \/ Fails(o)
              \/ SubmitBatch(o) \/ SubmitOne(o) \/ PartlySubmitted(o)

Resolve(o) == \/ RecordedWithoutRequest(o) \/ RecordedInWindow(o) \/ RecordedOutsideWindow(o)
              \/ ReceiptOpened(o) \/ Confirmed(o)

Next == \/ \E p \in Calls : Dapp(p) \/ Build(p) \/ Attempt(p) \/ Resolve(p)
        \/ User \/ WindowOpens \/ FinishRejection

Spec == Init /\ [][Next]_vars

\* The wallet's own steps happen: timeouts bound every fetch, and a user
\* answers the device.  A user who does not sign in the end rejects.
FairSpec == /\ Spec
            /\ WF_vars(WindowOpens) /\ WF_vars(FinishRejection)
            /\ \A p \in Calls : WF_vars(Build(p)) /\ WF_vars(Attempt(p)) /\ WF_vars(Resolve(p))
            /\ SF_vars(RejectRequest)

-----------------------------------------------------------------------------
\* The state of the controllers.
TypeOK == /\ promise \in [Calls -> {"unsent", "pending", "resolved", "dropped", "rejected"}]
          /\ build \in [Calls -> {"no", "creating", "adding"}]
          /\ request \in Requests
          /\ receipt \in BOOLEAN
          /\ current \in Calls \cup {None, Receipt}
          /\ window \in {"closed", "opening", "open"}
          /\ op \in [Calls -> Ops]
          /\ viewed \in Views
          /\ removing \in BOOLEAN
          /\ sent \subseteq Calls

\* What an attempt submits is what the user saw when it started, all of it
\* unless each call is a transaction of its own: the id of the reviewed op is
\* checked (handleSignAndBroadcastAccountOp) and update() ignores changes
\* from then on.
SentAsReviewed ==
    \A o \in Calls : /\ op[o].sent \subseteq op[o].reviewed
                     /\ op[o].option # "eoa" /\ op[o].sent # {} => op[o].sent = op[o].reviewed

\* The promise of a dapp that waits for an answer is held by something that
\* will give one: the building of its request, the request, or the resolution
\* of a broadcast (dappPromises, through every handler).
NoPromiseLost ==
    \A p \in Calls : promise[p] = "pending" =>
        \/ build[p] # "no"
        \/ p \in request.promises
        \/ \E o \in Calls : p \in op[o].handlers

\* A dapp is told that its call is a transaction only if it was submitted
\* (resolveAccountOpRequest, and the calls of a batch that were not signed).
ResolvedWasSent == \A p \in Calls : promise[p] = "resolved" => p \in sent

\* A dapp that is told the user rejected its call can rely on it
\* (rejectUserRequests and rejectCalls against a signing that goes on).
RejectedNeverSent == \A p \in sent : promise[p] # "rejected"

\* One attempt at a time on an account and chain (the check in
\* handleSignAndBroadcastAccountOp): two would use the same nonce.
OneAttemptAtATime == \A o1, o2 \in Calls : Signing(o1) /\ Signing(o2) => o1 = o2

\* A call is not submitted a second time, in whatever op it ends up.
SubmittedOnce ==
    [][\A o \in Calls : (op'[o].sent \ op[o].sent) \cap sent = {}]_vars

\* A promise is not added to a request whose calls were already broadcast
\* (the order of onBroadcastSuccess and the end of signAndBroadcast).
NotAddedAfterBroadcast ==
    [][\A o \in Calls : request.op = o /\ request'.op = o /\ op[o].sent # {} =>
          request'.promises \subseteq request.promises]_vars

\* Every dapp gets an answer.
EveryDappAnswered == \A p \in Calls : promise[p] = "pending" ~> promise[p] # "pending"
=============================================================================
