----------------------------- MODULE SignRequests -----------------------------
(***************************************************************************)
(* RequestsController for messages: dapps ask to sign them, one for        *)
(* another account waits behind a request to switch accounts, and the      *)
(* window that closes rejects what is left.                                *)
(*                                                                         *)
(* Handlers are suspended while the window opens or is removed, while a    *)
(* request they replace leaves, and, as the window closes, while the user  *)
(* is told of queued transactions.  A dapp makes one request; the request, *)
(* its promise and the request to switch accounts are named after it.      *)
(*                                                                         *)
(* Left out: transactions (module CallsRequests) and their receipts as the *)
(* current request, requests that sign nothing, Safe accounts, removing an *)
(* account, auto-login, and requests of the same millisecond, which get    *)
(* the same id.                                                            *)
(***************************************************************************)
EXTENDS Naturals, Sequences, SequencesExt

CONSTANTS Dapps,
          Addresses,
          AddressOf, \* the account whose signature a dapp asks for
          NoOne,     \* no request, no account
          RequestsEnvironment

ASSUME AddressesAssumption == NoOne \notin Addresses /\ AddressOf \in [Dapps -> Addresses]
\* "overtaken switch": a request is added after the user switched and before
\* the request to switch is resolved; "closing": a dapp asks for another
\* account while the window closes.
ASSUME RequestsEnvironmentAssumption ==
    RequestsEnvironment \subseteq {"overtaken switch", "closing"}

VARIABLES promise,    \* what became of each dapp's promise
          userRequests,
          waiting,   \* userRequestsWaitingAccountSwitch
          current,   \* currentUserRequest
          selected,  \* the selected account
          selecting, \* the one selectAccount goes on to select
          window,    \* requestWindow.windowProps and its promises
          windowOps, \* openRequestWindow and closeRequestWindow that wait for these
          closings,  \* the snapshots of handleRequestWindowClose under way
          joining     \* addUserRequests under way

requestVars == <<promise, userRequests, waiting, current, selected, selecting, window,
                 windowOps, closings, joining>>

Requests == [kind : {"own", "switch"}, dapp : Dapps]
Own(d) == [kind |-> "own", dapp |-> d]
SwitchFor(d) == [kind |-> "switch", dapp |-> d]
NoRequest == [kind |-> "none", dapp |-> NoOne]

RequestsTypeOK ==
    /\ promise \in [Dapps -> {"unsent", "pending", "resolved", "rejected"}]
    /\ userRequests \in Seq(Requests) /\ waiting \in Seq(Dapps)
    /\ current \in Requests \cup {NoRequest}
    /\ selected \in Addresses /\ selecting \in Addresses \cup {NoOne}
    /\ window \in {"closed", "opening", "open", "removing"}
    /\ windowOps \in Seq({"show", "hide"})
    /\ closings \in Seq(SUBSET Requests)
    /\ \A t \in joining : /\ t.requests \in Seq(Requests) /\ t.next \in BOOLEAN
                         /\ t.place \in {"first", "last", "queued"}
                         /\ t.pc \in {"fresh", "replacing", "clearing"}

RequestsInit ==
    /\ promise = [d \in Dapps |-> "unsent"]
    /\ userRequests = <<>> /\ waiting = <<>> /\ current = NoRequest
    /\ selected \in Addresses /\ selecting = NoOne
    /\ window = "closed" /\ windowOps = <<>> /\ closings = <<>>
    /\ joining = {}

\* What a filter of s leaves: its elements that are in S.  It is not written
\* with SelectSeq, which the provers know nothing of.
Only(s, S) ==
    LET left[i \in 0..Len(s)] ==
          IF i = 0 THEN <<>> ELSE IF s[i] \in S THEN Append(left[i - 1], s[i]) ELSE left[i - 1]
    IN  left[Len(s)]

\* visibleUserRequests, of the requests rs
Visible(r) == (r.kind = "own") <=> (AddressOf[r.dapp] = selected)
FirstVisible(rs) ==
    LET seen == Only(rs, {r \in Requests : Visible(r)})
    IN  IF seen = <<>> THEN NoRequest ELSE Head(seen)

Reject(ds) ==
    [d \in Dapps |-> IF d \in ds /\ promise[d] = "pending" THEN "rejected" ELSE promise[d]]

\* A handler that was called goes on to its first wait before anything else.
Fresh == \E t \in joining : t.pc = "fresh"

-----------------------------------------------------------------------------
(* The window.                                                             *)

\* What is asked of the window once more changes nothing.
Enqueue(op) == IF windowOps # <<>> /\ Last(windowOps) = op THEN windowOps ELSE Append(windowOps, op)

\* #setCurrentUserRequest
SetCurrent(r) ==
    /\ current' = r
    /\ windowOps' = Enqueue(IF r = NoRequest THEN "hide" ELSE "show")

\* openRequestWindow and closeRequestWindow, once the window is at rest.
ServeWindow ==
    /\ ~Fresh /\ windowOps # <<>> /\ window \in {"closed", "open"}
    /\ windowOps' = Tail(windowOps)
    /\ window' = CASE Head(windowOps) = "show" /\ window = "closed" -> "opening"
                   [] Head(windowOps) = "hide" /\ window = "open" -> "removing"
                   [] OTHER -> window
    /\ UNCHANGED <<promise, userRequests, waiting, current, selected, selecting, closings, joining>>

WindowOpened ==
    /\ ~Fresh /\ window = "opening" /\ window' \in {"open", "closed"}
    /\ UNCHANGED <<promise, userRequests, waiting, current, selected, selecting, windowOps,
                   closings, joining>>

\* #handleRequestWindowClose, to its first wait; the user may close the window.
WindowRemoved ==
    /\ ~Fresh /\ window \in {"open", "removing"}
    /\ window' = "closed" /\ SetCurrent(NoRequest)
    /\ closings' = Append(closings, ToSet(userRequests))
    /\ UNCHANGED <<promise, userRequests, waiting, selected, selecting, joining>>

-----------------------------------------------------------------------------
(* Adding requests.                                                        *)

\* Requests to switch to the selected account go when others are added. If the
\* current request goes, or is gone, the window closes first.
Kept == Only(userRequests, {r \in Requests : r.kind = "switch" => AddressOf[r.dapp] # selected})
CurrentGoes == current # NoRequest /\ current \notin ToSet(Kept)

Task(rs, place, next) == [requests |-> rs, place |-> place, next |-> next, pc |-> "fresh"]

WillClose == CurrentGoes \/ closings # <<>> \/ window = "removing" \/ "hide" \in ToSet(windowOps)
SwitchPending == \E d \in ToSet(waiting) : AddressOf[d] = selected

\* #buildUserRequestFromDAppRequest and #addSwitchAccountUserRequest
BuildUserRequest(d, place) ==
    LET other == AddressOf[d] # selected IN
    /\ ~Fresh /\ promise[d] = "unsent"
    /\ "closing" \in RequestsEnvironment \/ ~(other /\ WillClose)
    /\ "overtaken switch" \in RequestsEnvironment \/ ~SwitchPending
    /\ promise' = [promise EXCEPT ![d] = "pending"]
    /\ waiting' = IF other THEN Append(waiting, d) ELSE waiting
    /\ joining' = joining \cup {IF other THEN Task(<<SwitchFor(d)>>, "last", FALSE)
                              ELSE Task(<<Own(d)>>, place, FALSE)}
    /\ UNCHANGED <<userRequests, current, selected, selecting, window, windowOps, closings>>

\* The request with the same kind and account as one of rs.
Replaced(rs) ==
    Only(userRequests, {q \in Requests : q.kind = "own" /\ \E i \in DOMAIN rs :
                           rs[i].kind = "own" /\ AddressOf[rs[i].dapp] = AddressOf[q.dapp]})

\* A replaced request is rejected and leaves, and the next one is shown.
AddRejects(t) ==
    LET old == Replaced(t.requests)
        rest == IF old = <<>> THEN userRequests
                ELSE Only(userRequests, Requests \ {Head(old)})
    IN /\ t.pc # "clearing" /\ old # <<>>
       /\ promise' = Reject({Head(old).dapp})
       /\ userRequests' = rest /\ SetCurrent(FirstVisible(rest))
       /\ joining' = (joining \ {t}) \cup {[t EXCEPT !.pc = "replacing"]}
       /\ UNCHANGED <<waiting, selected, selecting, window, closings>>

AddCloses(t) ==
    /\ t.pc # "clearing" /\ Replaced(t.requests) = <<>> /\ CurrentGoes
    /\ userRequests' = Kept /\ SetCurrent(NoRequest)
    /\ joining' = (joining \ {t}) \cup {[t EXCEPT !.pc = "clearing"]}
    /\ UNCHANGED <<promise, waiting, selected, selecting, window, closings>>

\* The requests join the queue. Those that waited for the account come up
\* once the removal of the request to switch goes on.
AddPushes(t) ==
    LET base == IF t.pc = "clearing" THEN userRequests ELSE Kept
        all == IF t.place = "first" THEN t.requests \o base ELSE base \o t.requests
        shown == IF Visible(Head(t.requests)) THEN Head(t.requests) ELSE NoRequest
    IN /\ t.pc = "clearing" \/ (Replaced(t.requests) = <<>> /\ ~CurrentGoes)
       /\ userRequests' = all /\ joining' = joining \ {t}
       /\ SetCurrent(IF t.next \/ (t.place = "queued" /\ current = NoRequest) THEN FirstVisible(all)
                     ELSE IF t.place = "queued" THEN current ELSE shown)
       /\ UNCHANGED <<promise, waiting, selected, selecting, window, closings>>

-----------------------------------------------------------------------------
(* Removing requests.                                                      *)

\* Mutant: only the request that waits behind the one removed comes back.
OwnWaiting(rs, ws) == Only(ws, {d \in Dapps : SwitchFor(d) \in rs})

\* Who waits for the selected account, when a request to switch leaves.
Returning(rs, ws) ==
    IF \E r \in rs : r.kind = "switch" THEN Only(ws, {d \in Dapps : AddressOf[d] = selected})
    ELSE <<>>

ReAdded(ds, next) ==
    IF ds = <<>> THEN joining
    ELSE joining \cup {Task([i \in DOMAIN ds |-> Own(ds[i])], "last", next)}

\* removeUserRequests: what waited for the account is added again, and then
\* the next request is shown.
RemoveRequests(rs, ws) ==
    LET rest == Only(userRequests, Requests \ rs)
        back == Returning(rs \cap ToSet(userRequests), ws)
    IN /\ userRequests' = rest
       /\ waiting' = Only(ws, Dapps \ ToSet(back))
       /\ joining' = ReAdded(back, TRUE)
       /\ IF back = <<>> THEN SetCurrent(FirstVisible(rest))
          ELSE UNCHANGED <<current, windowOps>>

\* Who waits behind the requests to switch in rs.
NotBehind(rs) == Only(waiting, {d \in Dapps : SwitchFor(d) \notin rs})

\* rejectUserRequests; a request to switch holds the promise of the other one.
RejectUserRequest ==
    /\ ~Fresh /\ window = "open" /\ current \in ToSet(userRequests)
    /\ promise' = Reject({current.dapp})
    /\ RemoveRequests({current}, NotBehind({current}))
    /\ UNCHANGED <<selected, selecting, window, closings>>

\* The user signed.
ResolveSigned ==
    /\ ~Fresh /\ window = "open" /\ current \in ToSet(userRequests) /\ current.kind = "own"
    /\ promise' = [promise EXCEPT ![current.dapp] = IF @ = "pending" THEN "resolved" ELSE @]
    /\ RemoveRequests({current}, waiting)
    /\ UNCHANGED <<selected, selecting, window, closings>>

\* The user switched: the promise is not touched.
ResolveSwitch ==
    /\ ~Fresh /\ current \in ToSet(userRequests)
    /\ current.kind = "switch" /\ AddressOf[current.dapp] = selected
    /\ RemoveRequests({current}, waiting)
    /\ UNCHANGED <<promise, selected, selecting, window, closings>>

\* The rest of #handleRequestWindowClose: what was there is rejected, and
\* nothing waits for a switch any more.
CloseEnds(i) ==
    LET rs == closings[i] \cap ToSet(userRequests)
        rest == Only(userRequests, Requests \ rs)
        back == Returning(rs, NotBehind(rs))
    IN /\ ~Fresh
       /\ closings' = RemoveAt(closings, i) /\ waiting' = <<>>
       /\ promise' = Reject({r.dapp : r \in rs}) /\ userRequests' = rest
       /\ joining' = ReAdded(back, FALSE)
       /\ IF back = <<>> /\ FirstVisible(rest) = NoRequest THEN SetCurrent(NoRequest)
          ELSE UNCHANGED <<current, windowOps>>
       /\ UNCHANGED <<selected, selecting, window>>

-----------------------------------------------------------------------------
(* MainController.selectAccount.                                           *)

\* The window closes first, unless it shows a request to switch.
SelectAccount(a) ==
    /\ ~Fresh /\ selecting = NoOne /\ a # selected
    /\ "overtaken switch" \in RequestsEnvironment \/ joining = {}
    /\ IF current.kind = "switch" THEN selected' = a /\ UNCHANGED <<selecting, windowOps>>
       ELSE selecting' = a /\ windowOps' = Enqueue("hide") /\ UNCHANGED selected
    /\ UNCHANGED <<promise, userRequests, waiting, current, window, closings, joining>>

AccountSelected ==
    /\ ~Fresh /\ selecting # NoOne /\ windowOps = <<>> /\ window \in {"closed", "opening"}
    /\ "overtaken switch" \in RequestsEnvironment \/ joining = {}
    /\ selected' = selecting /\ selecting' = NoOne
    /\ UNCHANGED <<promise, userRequests, waiting, current, window, windowOps, closings, joining>>

RequestsNext ==
    \/ ServeWindow \/ WindowOpened \/ WindowRemoved
    \/ \E d \in Dapps, place \in {"first", "last", "queued"} : BuildUserRequest(d, place)
    \/ \E t \in joining : AddRejects(t) \/ AddCloses(t) \/ AddPushes(t)
    \/ RejectUserRequest \/ ResolveSigned \/ ResolveSwitch
    \/ \E i \in DOMAIN closings : CloseEnds(i)
    \/ \E a \in Addresses : SelectAccount(a)
    \/ AccountSelected

RequestsSpec == RequestsInit /\ [][RequestsNext]_requestVars

-----------------------------------------------------------------------------
Queued == ToSet(userRequests) \cup UNION {ToSet(t.requests) : t \in joining}

\* A dapp that waits for its answer can get one: its request is in the queue
\* or on its way there, or it waits behind a request to switch accounts that
\* is (dappPromises, through every handler and the window that closes).
PromiseHeld ==
    \A d \in Dapps : promise[d] = "pending" =>
        \/ Own(d) \in Queued
        \/ d \in ToSet(waiting) /\ SwitchFor(d) \in Queued
=============================================================================
