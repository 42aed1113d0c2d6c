---------------------------- MODULE DappConnections ----------------------------
(***************************************************************************)
(* DappsController: which apps are connected, over which channels and with *)
(* which accounts, while the catalogue of apps is fetched and replaced,    *)
(* accounts are removed and the wallet restarts.                           *)
(*                                                                         *)
(* Left out: what is shown of an app (names, networks, favourites, the     *)
(* order and the filters of the list, apps that share a domain), sessions  *)
(* and the events they are sent, preferences that are not enabled and the  *)
(* account selected within them; DappStatuses has the verification.  The   *)
(* two awaits of a disconnect separate nothing: they wait for a load that  *)
(* is over.                                                                *)
(***************************************************************************)
EXTENDS Naturals

CONSTANTS AppIds,
          Predefined,      \* predefinedDapps
          AppAccounts,     \* accounts of the wallet, at first
          RETRIES,         \* #retryFetchAndUpdateMaxAttempts
          MAX_RELOADS,     \* bound: restarts of the wallet
          ConnectionsEnvironment

\* "drift": an account is removed that is the only one an app may see, or one
\* that a disconnected app was limited to.  "unsaved": a restart between the
\* removal of an account an app may see and the next time the apps are stored.
ASSUME ConnectionsEnvironmentAssumption ==
    ConnectionsEnvironment \subseteq {"drift", "unsaved"}
ASSUME ConnectionsAssumption ==
    /\ Predefined \subseteq AppIds
    /\ RETRIES \in Nat \ {0} /\ MAX_RELOADS \in Nat

VARIABLES dapps,           \* #dapps, a function of the apps there are
          dappsStored,     \* dappsV2 in the storage
          upToDate,        \* lastDappsUpdateVersion is the version of the wallet
          toConnect,       \* dappToConnect: none, or the one shown
          fetchAt,         \* where #fetchAndUpdateDapps is
          shouldRetry,     \* #shouldRetryFetchAndUpdate
          attempts,        \* #retryFetchAndUpdateAttempts
          retryRuns,       \* #retryFetchAndUpdateInterval.running
          popup,           \* a popup is open
          inWallet,        \* accounts of the wallet
          granted,         \* what the user granted to each app, and did not take back
          reloads

appVars == <<dapps, dappsStored, toConnect, inWallet, granted>>
catalogueVars == <<upToDate, fetchAt, shouldRetry, attempts, retryRuns>>
connectionVars == <<appVars, catalogueVars, popup, reloads>>

Channels == {"injected", "wc"}

\* connectedSources, isConnected, isCustom, and the accounts of the preferences,
\* which are empty if there are none: then an app sees the selected account.
Apps == [sources : SUBSET Channels, connected : BOOLEAN, custom : BOOLEAN,
         accounts : SUBSET AppAccounts]
AppMaps == UNION {[S -> Apps] : S \in SUBSET AppIds}
Grants == [sources : SUBSET Channels, accounts : SUBSET AppAccounts]
NoGrant == [sources |-> {}, accounts |-> {}]

App(sources, custom, accounts) ==
    [sources |-> sources, connected |-> sources # {}, custom |-> custom,
     accounts |-> accounts]

ConnectionsTypeOK ==
    /\ dapps \in AppMaps /\ dappsStored \in AppMaps /\ upToDate \in BOOLEAN
    /\ toConnect \subseteq [id : AppIds, custom : BOOLEAN]
    /\ fetchAt \in {"over", "version", "lists", "statuses", "mark"}
    /\ shouldRetry \in BOOLEAN /\ attempts \in 0..RETRIES
    /\ retryRuns \in BOOLEAN /\ popup \in BOOLEAN
    /\ inWallet \subseteq AppAccounts /\ granted \in [AppIds -> Grants]
    /\ reloads \in 0..MAX_RELOADS

\* A wallet that is installed: the storage has no apps but the predefined.
ConnectionsInit ==
    /\ dapps = [d \in Predefined |-> App({}, FALSE, {})] /\ dappsStored = dapps
    /\ upToDate = FALSE /\ toConnect = {} /\ fetchAt = "version"
    /\ shouldRetry = FALSE /\ attempts = 0 /\ retryRuns = FALSE /\ popup = FALSE
    /\ inWallet = AppAccounts /\ granted = [d \in AppIds |-> NoGrant]
    /\ reloads = 0

-----------------------------------------------------------------------------
(* The catalogue: fetchAndUpdateDapps. *)

\* Up to date: only the statuses are updated, beside.
CatalogueCurrent ==
    /\ fetchAt = "version" /\ upToDate
    /\ fetchAt' = "over"
    /\ UNCHANGED <<appVars, upToDate, shouldRetry, attempts, retryRuns, popup, reloads>>

AskLists ==
    /\ fetchAt = "version" /\ ~upToDate
    /\ fetchAt' = "lists"
    /\ attempts' = IF shouldRetry THEN attempts + 1 ELSE attempts
    /\ UNCHANGED <<appVars, upToDate, shouldRetry, retryRuns, popup, reloads>>

\* The catch: the interval starts unless this was a retry, or the wallet is used.
ListsFail ==
    /\ fetchAt = "lists"
    /\ fetchAt' = "over" /\ shouldRetry' = TRUE
    /\ retryRuns' = (attempts = 0 /\ ~popup)
    /\ UNCHANGED <<appVars, upToDate, attempts, popup, reloads>>

RetryTicks ==
    /\ retryRuns /\ fetchAt = "over"
    /\ fetchAt' = "version"
    /\ UNCHANGED <<appVars, upToDate, shouldRetry, attempts, retryRuns, popup, reloads>>

Before(d) == IF d \in DOMAIN dapps THEN dapps[d] ELSE App({}, FALSE, {})

\* Mutant: the preferences are forgotten, as grantedPermissionId is.
PredefinedAnew(d) == App(Before(d).sources, FALSE, {})

\* An app of the fetched list, and a predefined one that is not on it.
FromList(d) == App(Before(d).sources, Before(d).custom, Before(d).accounts)
FromPredefined(d) == App(Before(d).sources, FALSE, Before(d).accounts)

\* Connected apps and those the user added stay beside those of the catalogue.
Stays(d) == dapps[d].sources # {} \/ dapps[d].custom

\* The lists came: the apps are replaced at once, from what they are by now.
ReplaceApps(listed) ==
    /\ fetchAt = "lists"
    /\ dapps' = [d \in listed \cup Predefined \cup {e \in DOMAIN dapps : Stays(e)} |->
                  IF d \in listed THEN FromList(d)
                  ELSE IF d \in Predefined THEN FromPredefined(d) ELSE dapps[d]]
    /\ shouldRetry' = FALSE /\ retryRuns' = FALSE /\ fetchAt' = "statuses"
    /\ UNCHANGED <<dappsStored, toConnect, inWallet, granted, upToDate, attempts, popup, reloads>>

\* After the statuses: the apps are stored as they are by now,
StoreApps ==
    /\ fetchAt = "statuses"
    /\ dappsStored' = dapps /\ fetchAt' = "mark"
    /\ UNCHANGED <<dapps, toConnect, inWallet, granted, upToDate, shouldRetry, attempts,
                   retryRuns, popup, reloads>>

\* and then the version.
MarkCurrent ==
    /\ fetchAt = "mark"
    /\ upToDate' = TRUE /\ fetchAt' = "over"
    /\ UNCHANGED <<appVars, shouldRetry, attempts, retryRuns, popup, reloads>>

OpenView ==
    /\ ~popup /\ popup' = TRUE /\ retryRuns' = FALSE
    /\ UNCHANGED <<appVars, upToDate, fetchAt, shouldRetry, attempts, reloads>>

CloseView ==
    /\ popup /\ popup' = FALSE
    /\ retryRuns' = (retryRuns \/ (shouldRetry /\ attempts < RETRIES))
    /\ UNCHANGED <<appVars, upToDate, fetchAt, shouldRetry, attempts, reloads>>

-----------------------------------------------------------------------------
(* Connections. *)

\* Set of #dapps, and storage.set of all of them.
SetApp(d, a) ==
    /\ dapps' = [e \in DOMAIN dapps \cup {d} |-> IF e = d THEN a ELSE dapps[e]]
    /\ dappsStored' = dapps'
DeleteApp(d) ==
    /\ dapps' = [e \in DOMAIN dapps \ {d} |-> dapps[e]]
    /\ dappsStored' = dapps'

Grant(d, sources, accounts) ==
    granted' = [granted EXCEPT ![d] = [sources |-> sources, accounts |-> accounts]]

\* updateDapp with sources and accounts.  One the user added goes with its last
\* channel.
UpdateApp(d, sources, accounts) ==
    IF dapps[d].custom /\ dapps[d].sources # {} /\ sources = {} THEN DeleteApp(d)
    ELSE SetApp(d, App(sources, dapps[d].custom, accounts))

\* addDapp: the channel is merged into those of an app there is.
AddApp(d, custom, channel, accounts) ==
    IF d \in DOMAIN dapps THEN UpdateApp(d, dapps[d].sources \cup {channel}, accounts)
    ELSE SetApp(d, App({channel}, custom, accounts))

\* setDappToConnectIfNeeded: an app asks, and the request is shown.
ShowRequest(d) ==
    /\ toConnect = {}
    /\ toConnect' = {[id |-> d, custom |-> d \in DOMAIN dapps => dapps[d].custom]}
    /\ UNCHANGED <<dapps, dappsStored, inWallet, granted, catalogueVars, popup, reloads>>

\* The user connects it, limited to some accounts or to none in particular.
ConnectApp(accounts) ==
    /\ \E r \in toConnect :
         /\ AddApp(r.id, r.custom, "injected", accounts)
         /\ Grant(r.id, granted[r.id].sources \cup {"injected"}, accounts)
    /\ toConnect' = {}
    /\ UNCHANGED <<inWallet, catalogueVars, popup, reloads>>

DismissRequest ==
    /\ toConnect # {} /\ toConnect' = {}
    /\ UNCHANGED <<dapps, dappsStored, inWallet, granted, catalogueVars, popup, reloads>>

\* addDappFromIdentity: a session of WalletConnect.  Limits there are stay, also
\* those an app had before it was disconnected.
ConnectByWc(d) ==
    /\ AddApp(d, TRUE, "wc", Before(d).accounts)
    /\ Grant(d, granted[d].sources \cup {"wc"},
             IF granted[d].sources # {} THEN granted[d].accounts ELSE Before(d).accounts)
    /\ UNCHANGED <<toConnect, inWallet, catalogueVars, popup, reloads>>

\* updateDapp from the settings of a connected app.
LimitApp(d, accounts) ==
    /\ d \in DOMAIN dapps /\ dapps[d].sources # {}
    /\ UpdateApp(d, dapps[d].sources, accounts)
    /\ Grant(d, granted[d].sources, accounts)
    /\ UNCHANGED <<toConnect, inWallet, catalogueVars, popup, reloads>>

\* disconnectDappSource.
DisconnectSource(d, channel) ==
    /\ d \in DOMAIN dapps /\ channel \in dapps[d].sources
    /\ UpdateApp(d, dapps[d].sources \ {channel}, dapps[d].accounts)
    /\ Grant(d, granted[d].sources \ {channel}, granted[d].accounts)
    /\ UNCHANGED <<toConnect, inWallet, catalogueVars, popup, reloads>>

\* disconnectAllDapps, over one channel or all.
DisconnectAll(over) ==
    LET Left(d) == dapps[d].sources \ over
        touched == {d \in DOMAIN dapps :
                      dapps[d].connected /\ (over = Channels \/ dapps[d].sources \cap over # {})}
        gone == {d \in touched : dapps[d].custom /\ Left(d) = {}}
    IN /\ \E d \in DOMAIN dapps : dapps[d].connected
       /\ dapps' = [d \in DOMAIN dapps \ gone |->
                     IF d \in touched THEN App(Left(d), dapps[d].custom, dapps[d].accounts)
                     ELSE dapps[d]]
       /\ dappsStored' = dapps'
       /\ granted' = [d \in AppIds |-> [granted[d] EXCEPT !.sources = @ \ over]]
       /\ UNCHANGED <<toConnect, inWallet, catalogueVars, popup, reloads>>

\* removeDapp.
RemoveApp(d) ==
    /\ d \in DOMAIN dapps /\ dapps[d].custom
    /\ DeleteApp(d) /\ Grant(d, {}, {})
    /\ UNCHANGED <<toConnect, inWallet, catalogueVars, popup, reloads>>

-----------------------------------------------------------------------------
(* Accounts and restarts. *)

\* removeAccountData: what an app may see without the account.  isConnected
\* says whether anything is left; connectedSources stay.
WithoutAccount(app, a) ==
    IF a \notin app.accounts THEN app
    ELSE [app EXCEPT !.accounts = @ \ {a}, !.connected = app.accounts # {a}]

\* The apps are not stored.
RemoveAccountData(a) ==
    /\ a \in inWallet /\ inWallet # {a}
    /\ "drift" \in ConnectionsEnvironment
         \/ \A d \in DOMAIN dapps : a \in dapps[d].accounts =>
                                     dapps[d].accounts # {a} /\ dapps[d].sources # {}
    /\ inWallet' = inWallet \ {a}
    /\ dapps' = [d \in DOMAIN dapps |-> WithoutAccount(dapps[d], a)]
    /\ granted' = [d \in AppIds |->
                     IF granted[d].accounts = {a} THEN NoGrant
                     ELSE [granted[d] EXCEPT !.accounts = @ \ {a}]]
    /\ UNCHANGED <<dappsStored, toConnect, catalogueVars, popup, reloads>>

\* A new process, possibly of a new version, loads what is stored: isConnected
\* is made to agree with connectedSources again.
Reload(updated) ==
    /\ reloads < MAX_RELOADS /\ reloads' = reloads + 1
    /\ "unsaved" \in ConnectionsEnvironment
         \/ \A d \in DOMAIN dappsStored : dappsStored[d].accounts \subseteq inWallet
    /\ dapps' = [d \in DOMAIN dappsStored |->
                  [dappsStored[d] EXCEPT !.connected = dappsStored[d].sources # {}]]
    /\ upToDate' = (upToDate /\ ~updated)
    /\ toConnect' = {} /\ fetchAt' = "version" /\ popup' = FALSE
    /\ shouldRetry' = FALSE /\ attempts' = 0 /\ retryRuns' = FALSE
    /\ UNCHANGED <<dappsStored, inWallet, granted>>

ConnectionsNext ==
    \/ CatalogueCurrent \/ AskLists \/ ListsFail \/ RetryTicks
    \/ \E listed \in SUBSET AppIds : ReplaceApps(listed)
    \/ StoreApps \/ MarkCurrent \/ OpenView \/ CloseView
    \/ \E d \in AppIds : ShowRequest(d) \/ ConnectByWc(d) \/ RemoveApp(d)
    \/ \E S \in SUBSET inWallet : ConnectApp(S) \/ (\E d \in AppIds : LimitApp(d, S))
    \/ DismissRequest
    \/ \E d \in AppIds, c \in Channels : DisconnectSource(d, c)
    \/ \E over \in {{"injected"}, {"wc"}, Channels} : DisconnectAll(over)
    \/ \E a \in AppAccounts : RemoveAccountData(a)
    \/ \E updated \in BOOLEAN : Reload(updated)

ConnectionsSpec == ConnectionsInit /\ [][ConnectionsNext]_connectionVars

-----------------------------------------------------------------------------
\* hasPermission, over some channel.
HasPermission(d) == d \in DOMAIN dapps /\ dapps[d].sources # {}

\* An app has permission over exactly the channels the user connected and did not
\* disconnect, and is limited to exactly the accounts the user chose: also after a
\* new catalogue, which is fetched while the user connects and disconnects, after the
\* removal of accounts, and after a restart at any point.  isConnected says so
\* ("always derived from it", helpers.ts:182-184).
ConnectedAsGranted ==
    \A d \in AppIds :
        /\ d \in DOMAIN dapps => (dapps[d].connected <=> HasPermission(d))
        /\ HasPermission(d) <=> granted[d].sources # {}
        /\ HasPermission(d) => /\ dapps[d].sources = granted[d].sources
                               /\ dapps[d].accounts = granted[d].accounts
================================================================================
