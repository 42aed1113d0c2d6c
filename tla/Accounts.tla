------------------------------- MODULE Accounts -------------------------------
(***************************************************************************)
(* The accounts of the wallet and what it knows of them on each network:   *)
(* AccountsController (updateAccountStates), the selection and removal of  *)
(* an account in MainController, and the intervals of                      *)
(* ContinuousUpdatesController that fetch the state of the selected        *)
(* account, among them the one that tries failed networks again.           *)
(*                                                                         *)
(* There is one fetch per network at a time, and a call that finds one     *)
(* waits for it instead of starting its own, whatever it fetches.          *)
(*                                                                         *)
(* Left out: identities and preferences of accounts (AccountDetails),      *)
(* portfolios (PortfolioQueue), and what a state holds but its block.      *)
(***************************************************************************)
EXTENDS Naturals, FiniteSets

CONSTANTS Accts, Chains,
          NoAcct, NoState,
          MAX_BLOCK,            \* bound on the height of a chain
          FAST_RETRIES,         \* tries of a failed network by the fast interval
          AccountsEnvironment

ASSUME AccountsBoundsAssumption == MAX_BLOCK \in Nat /\ FAST_RETRIES \in Nat \ {0}
ASSUME NoAcctAssumption == NoAcct \notin Accts /\ NoState \notin Nat
\* "quick": an account is removed while the selection of a new one is under way.
ASSUME AccountsEnvironmentAssumption == AccountsEnvironment \subseteq {"quick"}

VARIABLES accounts,  \* accounts of the wallet
          states,    \* accountStates: the block of the state of an account on a network
          fetch,     \* accountStatesLoadingState
          calls,     \* calls of updateAccountStates that wait, one record per network
          failed,    \* networks whose provider is not working (isWorking)
          fast,      \* the fast interval is on
          retries,   \* accountStateRetriesByNetwork
          selected,  \* selectedAccount.account
          selecting, \* selections under way: asked for by the user, or by the code
          removing,  \* the account that is being removed
          head, up   \* the chains and their providers

stateVars == <<states, fetch, calls, failed>>
retryVars == <<fast, retries>>
selectVars == <<accounts, selected, selecting, removing>>
headVars == <<head, up>>
accountsVars == <<stateVars, retryVars, selectVars, headVars>>

Blocks == 0..MAX_BLOCK
NoFetch == [accts |-> {}]
Tags == {"latest", "pending"}
Kinds == {"interval", "fast", "other"}

AccountsTypeOK ==
    /\ accounts \subseteq Accts
    /\ states \in [Accts -> [Chains -> Blocks \cup {NoState}]]
    /\ \A c \in Chains : fetch[c] = NoFetch
         \/ fetch[c] \in [accts : (SUBSET Accts) \ {{}}, tag : Tags, begun : Blocks]
    /\ calls \subseteq [kind : Kinds, accts : SUBSET Accts, chain : Chains]
    /\ failed \subseteq Chains /\ fast \in BOOLEAN
    /\ retries \in [Chains -> 0..FAST_RETRIES]
    /\ selected \in Accts \cup {NoAcct} /\ removing \in Accts \cup {NoAcct}
    /\ selecting \subseteq Accts \X {"user", "code"}
    /\ head \in [Chains -> Blocks] /\ up \in [Chains -> BOOLEAN]

AccountsInit ==
    /\ accounts = {} /\ selected = NoAcct
    /\ states = [a \in Accts |-> [c \in Chains |-> NoState]]
    /\ fetch = [c \in Chains |-> NoFetch] /\ calls = {}
    /\ failed = {} /\ fast = FALSE /\ retries = [c \in Chains |-> 0]
    /\ selecting = {} /\ removing = NoAcct
    /\ head = [c \in Chains |-> 0] /\ up = [c \in Chains |-> TRUE]

-----------------------------------------------------------------------------
(* Fetching.                                                               *)

\* updateAccountStates: a network that is being fetched is not fetched again.
UpdateStates(kind, accts, tag, chains) ==
    /\ fetch' = [c \in Chains |->
         IF c \in chains /\ fetch[c] = NoFetch
         THEN [accts |-> accts, tag |-> tag, begun |-> head[c]] ELSE fetch[c]]
    /\ calls' = calls \cup {[kind |-> kind, accts |-> accts, chain |-> c] :
                              c \in chains}
    /\ UNCHANGED <<states, failed>>

Calling(kind) == \E call \in calls : call.kind = kind

\* #updateAccountStateLatest: the selected account on the networks that work.
LatestTick ==
    /\ selected # NoAcct /\ ~Calling("interval") /\ Chains \ failed # {}
    /\ selected \in accounts
    /\ UpdateStates("interval", {selected}, "latest", Chains \ failed)
    /\ UNCHANGED <<retryVars, selectVars, headVars>>

\* forceFetchPendingState before an op is signed, reloadSelectedAccount.
ForceFetch(c) ==
    /\ selected \in accounts /\ ~Calling("other")
    /\ UpdateStates("other", {selected}, "pending", {c})
    /\ UNCHANGED <<retryVars, selectVars, headVars>>

\* A pending state of an earlier block than the one that is known is not taken.
Newer(current, b) == IF current # NoState /\ current >= b THEN current ELSE b

\* What becomes of the states of the accounts that were fetched at block b.
Taken(c, b) ==
    [a \in Accts |-> IF a \notin fetch[c].accts THEN states[a]
                     ELSE [states[a] EXCEPT ![c] =
                            IF fetch[c].tag = "pending" THEN Newer(states[a][c], b) ELSE b]]

\* Every call that waited for the network goes on, its own fetch or not.
Resume(c) ==
    /\ fetch' = [fetch EXCEPT ![c] = NoFetch]
    /\ calls' = {call \in calls : call.chain # c}

\* The provider's update restarts the fast interval (providers.onUpdate).
Working(c, isWorking) ==
    /\ failed' = IF isWorking THEN failed \ {c} ELSE failed \cup {c}
    /\ fast' = (fast \/ failed' # failed)

\* A fast tick is over when its last network was fetched: it counts the tries
\* and forgets the networks that work again.
CountTries ==
    LET tried == {call.chain : call \in {k \in calls : k.kind = "fast"}}
        over == tried # {} /\ \A call \in calls' : call.kind # "fast"
    IN retries' = [c \in Chains |->
         IF c \notin failed' /\ over THEN 0
         ELSE IF c \in tried \ {k.chain : k \in calls'} /\ retries[c] < FAST_RETRIES
              THEN retries[c] + 1 ELSE retries[c]]

\* The provider answers; a pending state may be that of the block before.
FetchAnswered(c) ==
    /\ fetch[c] # NoFetch /\ up[c]
    /\ \E b \in fetch[c].begun..head[c] \cup
              (IF fetch[c].tag = "pending" /\ fetch[c].begun > 0
               THEN {fetch[c].begun - 1} ELSE {}) : states' = Taken(c, b)
    /\ Resume(c) /\ Working(c, TRUE) /\ CountTries
    /\ UNCHANGED <<selectVars, headVars>>

FetchFailed(c) ==
    /\ fetch[c] # NoFetch /\ ~up[c]
    /\ Resume(c) /\ Working(c, FALSE) /\ CountTries
    /\ UNCHANGED <<states, selectVars, headVars>>

-----------------------------------------------------------------------------
(* The fast interval: #fastAccountStateReFetch.                            *)

ToRetry == {c \in failed : retries[c] < FAST_RETRIES}

FastTick ==
    /\ fast /\ ~Calling("fast") /\ ToRetry # {} /\ selected \in accounts
    /\ UpdateStates("fast", {selected}, "latest", ToRetry)
    /\ UNCHANGED <<retryVars, selectVars, headVars>>

\* Mutant: the tries are not forgotten.
FastStopsKeepingTries ==
    /\ fast /\ ~Calling("fast") /\ (ToRetry = {} \/ selected \notin accounts)
    /\ fast' = FALSE
    /\ UNCHANGED <<retries, stateVars, selectVars, headVars>>

\* Nothing failed, or everything was tried often enough.
FastStops ==
    /\ fast /\ ~Calling("fast") /\ (ToRetry = {} \/ selected \notin accounts)
    /\ fast' = FALSE /\ retries' = [c \in Chains |-> 0]
    /\ UNCHANGED <<stateVars, selectVars, headVars>>

\* The wallet is opened: the interval starts if it does not run.
OpenWallet ==
    /\ ~fast /\ failed # {} /\ fast' = TRUE
    /\ UNCHANGED <<retries, stateVars, selectVars, headVars>>

-----------------------------------------------------------------------------
(* Adding, selecting and removing accounts.                                *)

\* addAccounts: the new account is selected, its states are fetched.
AddAccount(a) ==
    /\ a \notin accounts /\ removing = NoAcct
    /\ accounts' = accounts \cup {a}
    /\ selecting' = selecting \cup {<<a, "code">>}
    /\ UpdateStates("other", {a}, "latest", Chains)
    /\ UNCHANGED <<selected, removing, retryVars, headVars>>

\* selectAccount, up to the end of closeRequestWindow.
SelectAccount(a) ==
    /\ a \in accounts
    /\ selecting' = selecting \cup {<<a, "user">>}
    /\ UNCHANGED <<accounts, selected, removing, stateVars, retryVars, headVars>>

\* setAccount, and the reload unless something loads already.
EndSelect(a, by) ==
    /\ <<a, by>> \in selecting
    /\ selecting' = selecting \ {<<a, by>>}
    /\ selected' = a
    /\ removing' = IF by = "code" THEN NoAcct ELSE removing
    /\ IF a \in accounts /\ \A c \in Chains : fetch[c] = NoFetch
       THEN UpdateStates("other", {a}, "pending", Chains) ELSE UNCHANGED stateVars
    /\ UNCHANGED <<accounts, retryVars, headVars>>

\* Mutant: removals do not wait for selections.
MayRemoveAnytime == TRUE

\* withStatus: a removal is refused while the user's selection is under way,
\* and one removal at a time.
MayRemove ==
    /\ \A s \in selecting : s[2] # "user"
    /\ "quick" \in AccountsEnvironment \/ selecting = {}

\* removeAccount up to the removal of the account's activity.
RemoveAccount(a) ==
    /\ a \in accounts /\ removing = NoAcct /\ MayRemove
    /\ accounts' = accounts \ {a} /\ removing' = a
    /\ states' = [states EXCEPT ![a] = [c \in Chains |-> NoState]]
    /\ UNCHANGED <<selected, selecting, fetch, calls, failed, retryVars, headVars>>

\* The rest of it: another account is selected in the place of a selected one.
EndRemove ==
    /\ removing # NoAcct /\ \A s \in selecting : s[2] # "code"
    /\ IF selected # removing THEN removing' = NoAcct /\ UNCHANGED <<selected, selecting>>
       ELSE IF accounts = {} THEN removing' = NoAcct /\ selected' = NoAcct /\ UNCHANGED selecting
       ELSE /\ \E a \in accounts : selecting' = selecting \cup {<<a, "code">>}
            /\ UNCHANGED <<selected, removing>>
    /\ UNCHANGED <<accounts, stateVars, retryVars, headVars>>

-----------------------------------------------------------------------------
\* The chains go on; a provider may be down for a while.
NewBlock(c, isUp) ==
    /\ head[c] < MAX_BLOCK
    /\ head' = [head EXCEPT ![c] = @ + 1] /\ up' = [up EXCEPT ![c] = isUp]
    /\ UNCHANGED <<stateVars, retryVars, selectVars>>

ProviderUp(c) ==
    /\ ~up[c] /\ up' = [up EXCEPT ![c] = TRUE]
    /\ UNCHANGED <<head, stateVars, retryVars, selectVars>>

AccountsNext ==
    \/ LatestTick \/ FastTick \/ FastStops \/ OpenWallet
    \/ \E c \in Chains : \/ ForceFetch(c) \/ FetchAnswered(c) \/ FetchFailed(c) \/ ProviderUp(c)
                         \/ \E isUp \in BOOLEAN : NewBlock(c, isUp)
    \/ \E a \in Accts : \/ AddAccount(a) \/ SelectAccount(a) \/ RemoveAccount(a)
                        \/ \E by \in {"user", "code"} : EndSelect(a, by)
    \/ EndRemove

\* Providers come back and answer, the intervals tick, and the wallet is opened
\* again and again; the promises of selections and removals resolve.
AccountsFairness ==
    /\ \A c \in Chains : WF_accountsVars(FetchAnswered(c) \/ FetchFailed(c))
                         /\ WF_accountsVars(ProviderUp(c))
    /\ WF_accountsVars(LatestTick) /\ WF_accountsVars(FastTick)
    /\ WF_accountsVars(FastStops) /\ WF_accountsVars(OpenWallet)
    /\ WF_accountsVars(EndRemove)
    /\ \A a \in Accts, by \in {"user", "code"} : WF_accountsVars(EndSelect(a, by))

AccountsSpec == AccountsInit /\ [][AccountsNext]_accountsVars /\ AccountsFairness

-----------------------------------------------------------------------------
\* When nothing is under way the selected account is one of the accounts, and
\* there is one if there are accounts (removeAccount, selectAccount).
SelectedExists ==
    selecting = {} /\ removing = NoAcct => IF accounts = {} THEN selected = NoAcct
                                           ELSE selected \in accounts

\* A network whose provider failed is marked as working again in the end, also
\* after the fast interval gave up on it.
NetworkRecovers == []<>(failed = {} \/ selected = NoAcct)
=============================================================================
