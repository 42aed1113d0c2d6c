---------------------------- MODULE AccountDetails ----------------------------
(***************************************************************************)
(* AccountsController: the identities of view-only accounts, fetched from  *)
(* the relayer by an interval that stops once every account has one.       *)
(* Adding an account starts the interval anew, with a fetch of its own     *)
(* beside one that still runs.                                             *)
(*                                                                         *)
(* Left out: what an identity is, and that the copies of the accounts a    *)
(* fetch took replace the accounts when it ends.                           *)
(***************************************************************************)
EXTENDS Naturals

CONSTANTS ViewAccts,           \* view-only accounts
          IdentityRuns,        \* identifiers of fetches
          DetailsEnvironment

\* "add": accounts are added while a fetch runs.
ASSUME DetailsEnvironmentAssumption == DetailsEnvironment \subseteq {"add"}

VARIABLES listed,       \* accounts of the wallet
          identified,   \* accounts with identityFetchedAt
          identityLoop, \* #viewOnlyAccountGetIdentityInterval is on
          identityRuns  \* running fetches: the copies of their accounts

detailsVars == <<listed, identified, identityLoop, identityRuns>>

NotRunning == [on |-> FALSE]

DetailsTypeOK ==
    /\ listed \subseteq ViewAccts /\ identified \subseteq listed
    /\ identityLoop \in BOOLEAN
    /\ identityRuns \in [IdentityRuns ->
         {NotRunning} \cup [on : {TRUE}, accts : (SUBSET ViewAccts) \ {{}}]]

DetailsInit ==
    /\ listed = {} /\ identified = {} /\ identityLoop = FALSE
    /\ identityRuns = [r \in IdentityRuns |-> NotRunning]

Fetching == \E r \in IdentityRuns : identityRuns[r] # NotRunning
ToIdentify == listed \ identified
Run == [on |-> TRUE, accts |-> ToIdentify]

\* The setter of accounts: restart({ runImmediately: true }).
AddViewAccount(a) ==
    /\ a \notin listed
    /\ "add" \in DetailsEnvironment \/ ~Fetching
    /\ listed' = listed \cup {a} /\ identityLoop' = TRUE
    /\ \E r \in IdentityRuns :
         /\ identityRuns[r] = NotRunning
         /\ identityRuns' = [identityRuns EXCEPT
              ![r] = [on |-> TRUE, accts |-> (listed \cup {a}) \ identified]]
    /\ UNCHANGED identified

\* removeAccountData: a copy of the account finds no account to replace.
RemoveViewAccount(a) ==
    /\ a \in listed
    /\ listed' = listed \ {a} /\ identified' = identified \ {a}
    /\ UNCHANGED <<identityLoop, identityRuns>>

\* The interval: setViewOnlyAccountIdentitiesIfNeeded.
IdentityTick ==
    /\ identityLoop /\ ~Fetching
    /\ IF ToIdentify = {} THEN identityLoop' = FALSE /\ UNCHANGED identityRuns
       ELSE /\ UNCHANGED identityLoop
            /\ \E r \in IdentityRuns : identityRuns' = [identityRuns EXCEPT ![r] = Run]
    /\ UNCHANGED <<listed, identified>>

\* The interval stops at once when every request was fulfilled.
Stops(run, fulfilled) == fulfilled = run.accts

\* The relayer answered for some of the accounts.
IdentitiesFetched(r, fulfilled) ==
    LET run == identityRuns[r] IN
    /\ run # NotRunning /\ fulfilled \subseteq run.accts
    /\ identified' = identified \cup (fulfilled \cap listed)
    /\ identityLoop' = IF Stops(run, fulfilled) THEN FALSE ELSE identityLoop
    /\ identityRuns' = [identityRuns EXCEPT ![r] = NotRunning]
    /\ UNCHANGED listed

DetailsNext ==
    \/ \E a \in ViewAccts : AddViewAccount(a) \/ RemoveViewAccount(a)
    \/ IdentityTick
    \/ \E r \in IdentityRuns, fulfilled \in SUBSET ViewAccts : IdentitiesFetched(r, fulfilled)

DetailsSpec == DetailsInit /\ [][DetailsNext]_detailsVars

-----------------------------------------------------------------------------
\* When the interval is off no account waits for its identity: stopping it at
\* once only saves the round that would find none.
NoIdentityForgotten == ~identityLoop /\ ~Fetching => ToIdentify = {}
=============================================================================
