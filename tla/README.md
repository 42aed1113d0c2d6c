# Verification of ambire-common

`ambire-common` is the core of the Ambire wallet: the controllers that run in a
browser extension's background worker, hold the keys, batch what dapps ask for,
sign and broadcast it, and keep balances and prices fresh. It is one JavaScript
process. Nothing runs in parallel, but every controller is full of asynchronous
handlers that stop at an `await` (a network answer, scrypt, a hardware device, a
window) while dapps, the user, timers and other handlers go on; and the browser
may end the worker at any moment. These specifications are about what goes wrong
between two awaits, which the Jest tests of the repository hardly reach.

All source paths below are relative to `src/src/`. `PROJECT.json` has the lines
each definition models, the bugs (mutants) every property is known to notice, the
status of every component and every hazard at its line.

## 1. Inventory

| Component | State | Operations and interactions | What is hard | What makes it correct | Module |
|---|---|---|---|---|---|
| `classes/recurringTimeout` | running, queued start, timer, tracked execution, session | `start`, `stop`, `restart`, `updateTimeout` by any controller; the microtask; the loop | calls during an execution, stale microtasks, an execution that stops its own loop | a job that was started runs again and again, one execution at a time, not after `stop` | `RecurringTimeout` |
| `controllers/eventEmitter` | statuses, callbacks, throttled emit | `withStatus`, `emitUpdate`, subscriptions; base of every controller | the check and the start of a handler apart by a wait; a forced emit that drops a throttled one | exclusive handlers exclude one another, updates arrive | `EventEmitter` |
| `controllers/keystore` (+ `libs/keystore`) | secrets, keys, seeds in memory and in storage; the main key; keys waiting for the first secret | unlock and migration, secrets, password change, keys and seeds, lock; called by Main, AccountPicker, EmailVault, Storage | scrypt and WebCrypto between a read and a write, a restart between two writes, two handlers over one list | one main key, always recoverable, no stored key lost, migration completes | `Keystore` |
| `controllers/storage` | key-value store, write queue, passed migrations | `get`, `set`, `remove`, migrations at boot | migrations cut short, reads called among writes | nothing is lost, reads see earlier writes | `Storage` |
| `controllers/emailVault` | magic link and session keys, vault states | uploads, removes and uses the recovery secret, resets the password through Keystore | minutes of waiting for an email; keystore calls that are refused silently | nothing stored after a cancellation; a reset ends with a usable password | `EmailVault` |
| `controllers/accountPicker` | key iterator, path, page, derived and chosen accounts, what is to be added | init, reset, pages, path, choice, `addAccounts`; imports through Main into Keystore and Accounts | derivations and network look-ups that come back late; an import that waits for the keystore | no account without its key | `AccountPicker` |
| `controllers/accounts` | accounts, states per account and chain, identities | fetches shared per chain, identities by an interval | removal during a fetch, joining another's fetch, intervals that stop themselves | the selected account exists, failed networks recover, identities are found | `Accounts`, `AccountDetails` |
| `controllers/continuousUpdates` | its intervals | starts and restarts them on events | the counted tries of the fast interval | jobs go on | actions of `Accounts`, `Activity`, `PortfolioQueue` |
| `controllers/requests` | user requests, the current one, the window, waiting requests | dapps' requests, selection, rejection, account switch, the window's life | checks before an await and writes after it, batching by request id, two lists of promises | no dapp's promise lost or answered wrongly | `CallsRequests`, `SignRequests` |
| `controllers/signAccountOp` | the op, its status, the signing promise, the paused flag | `update`, `sign`, broadcast by bundler, relayer or as EOA, pause, resume, destroy, retry | updates and rejections during a signing, half-sent batches | what is sent was reviewed, once, one attempt at a time; fees are those of its calls | `CallsRequests`, `Estimation` |
| `controllers/main` | wiring; the selected account's dependants | broadcasts and answers to dapps, account selection and removal, answers to messages, imports | an account switched or removed half way | dapps learn the outcome | `CallsRequests`, `Accounts`, `SignMessage`, `AccountPicker` |
| `controllers/signMessage` | one message, its signatures, the signing generation | init, sign with a key or a device, reset, unbrick | a message replaced while its signing is suspended | an answer is the signature the user approved | `SignMessage` |
| `controllers/activity` | submitted operations and messages | statuses by polling, receipts and nonces; external transactions; balance changes | replaced and dropped transactions, passes beside additions and reads | every operation gets one outcome and is listed once | `Activity`, `OpBalances` |
| `controllers/portfolio` | balances per account and chain | a queue of updates and simulation overrides | simulations that were asked for, rejected or mined in between | the last simulation wins, the portfolio catches up | `PortfolioQueue` |
| `controllers/swapAndBridge` | form, quote, one-click op; token lists; submitted routes | quote fetches, route start, estimation; list fetches; route polling | answers that come after the form, the network or the route changed | what is signed is what the form shows; routes settle | `SwapAndBridge`, `SwapTokens`, `ActiveRoutes` |
| `controllers/dapps` | catalogue of apps, their permissions, the app that asks, retries | connections of the user and of WalletConnect, a catalogue that replaces all apps, disconnecting, removal of accounts; statuses from `phishing` | a catalogue fetched for seconds while users connect and disconnect; what is in memory and what is stored; statuses from three sources | an app has the permissions the user granted, and the status of the newest list | `DappConnections`, `DappStatuses` |
| `controllers/phishing` | list of dangerous sites with its version, statuses of sites | the list by an interval, whole or as differences; checks of single sites; the callbacks of `dapps` | answers in any order, no list yet, restarts | what an app shows becomes what the list says | `DappStatuses` |
| `controllers/estimation`, `controllers/gasPrice` | the last estimation with its status and error; gas prices | `estimate` and `fetch`, called by two intervals of `signAccountOp`, whose `update` takes what they bring | estimates that overlap and come late, updates ignored during a signing, intervals stopped and started from many places | an operation gets the fees of its calls | `Estimation` |
| `transfer`, `transaction`, `networks`, `providers`, `autoLogin`, `domains`, `addressBook`, `safe`, `hintsController`, `transfersScanner`, and the small ones (all under `controllers`) | caches, forms, configuration, derived views | fetch and store | late answers | mostly data | none |
| `libs`, `services`, `contracts`, `dist`, `scripts` | none | pure functions, clients of services, Solidity, build output | | | none, but for what the modules above use |

In one sentence: a dapp's request enters `requests`, becomes a `signAccountOp`
(or a message of `signMessage`) over the states of `accounts`, is signed with keys
of `keystore` and sent; `main` records it in `activity`, answers the dapp and
removes the request; `portfolio` simulates it before and reflects it afterwards;
`continuousUpdates` (through `recurringTimeout`) keeps everything fresh;
`storage` and `eventEmitter` are under all of them.

## 2. The modules

| Module | Role | Checked by | Theorems |
|---|---|---|---|
| `PeriodicTask` | abstract: a job that runs again and again until stopped | refined by the next one | |
| `RecurringTimeout` | the scheduler class, every operation of it; `ImplementsTask` is the refinement | `base_classes` | `BaseProofs` |
| `EventEmitter` | handlers with statuses, updates and subscriptions | `base_classes` | `BaseProofs` |
| `Keystore` | `KeystoreController` and the GCM migration of `libs/keystore` | `infrastructure`, `keystore_change_crash` | `KeystoreProofs` |
| `EmailVault` | the recovery of the keystore by email | `infrastructure`, `vault_recovery` | `InfraProofs` |
| `Storage` | migrations at boot and the write queue | `infrastructure` | `StorageProofs` |
| `AccountPicker` | pages of derived accounts and their import | `infrastructure` | `InfraProofs` |
| `DappConnections` | the catalogue of apps and their permissions | `infrastructure` | `InfraProofs` |
| `DappStatuses` | the list of dangerous sites and the statuses of apps | `base_classes` | `BaseProofs` |
| `SignMessage` | the signing of a message and the answer to its dapp | `infrastructure`, `message_signature` | `InfraProofs` |
| `SignRequests` | the queue of messages, the account switch and the window | `infrastructure` | `InfraProofs` |
| `CallsRequests` | a dapp's call through requests, signAccountOp and main: the composition of the three | `calls_serial`, `calls_window`, `calls_partial` | `CallsRequestsProofs`, `CallsAnswersProofs` |
| `Estimation` | the estimates and gas prices of an operation, its intervals and update | `assets` | `AssetsProofs` |
| `SwapAndBridge`, `SwapTokens`, `ActiveRoutes` | the swap form and its op; the token to receive; submitted routes | `swap`, `swap_stale` | `SwapProofs` |
| `Activity`, `OpBalances` | outcomes of operations; their balance changes | `assets`, `activity_batch` | `AssetsProofs` |
| `Accounts`, `AccountDetails` | states, selection and removal of accounts; identities | `assets` | `AssetsProofs` |
| `PortfolioQueue` | updates and simulations of a portfolio | `assets` | `AssetsProofs` |
| `MC_BaseClasses`, `MC_Keystore`, `MC_Infra`, `MC_CallsRequests`, `MC_Swap`, `MC_Assets` | instances for TLC | | |

Conventions. An action is a synchronous stretch of the code: from the start of a
handler, or the end of an await, to the next await or the end. An await that
separates nothing observable is left out. An MC module that brings several
components together lets a behaviour be about one of them (`focus`): they share
no state there, so one run asks its questions of each. Definitions named
`Mutant` in their comment are variants with a plausible bug, used to check that
the properties notice it; no specification uses them. A constant
`...Environment` names what a run leaves out: its members, each explained where
it is declared, allow what the code allows too but under which a property fails;
the properties are checked with the set empty or as the .cfg
says, and section 3 says what happens otherwise.

**RecurringTimeout, PeriodicTask.** The variables are the class's fields plus
`promise` (which execution `this.promise` belongs to), `inFlight`, `timer` and
`orphans` (armed timers `timeoutId` does and does not refer to), `microtasks`
(the queue, each with the session it captured), and the history `calls` and
`wanted`. The queued microtask is `RunStaleMicrotask`, `JoinRunningLoop`,
`StartImmediately` or `StartDelayed`, one for each way through it; `FireTimer` is
`#loop` from a timer, `Settle` its end. `selfStop` stands for an `fn` that calls
`stop()` before its first await, as several jobs do. `PeriodicTask` keeps only
whether the job is wanted, whether an overlap was asked for, and the executions.

**EventEmitter.** `WithStatus`, `Waited`, `FnEnds` and `ForcedUpdate` are the
stretches of `withStatus`, with the wait for a status that shows SUCCESS;
`EmitUpdate`, `Defer`, `EmitThrottled`, `WindowEnds` and `ForceEmit` the throttle.

**Keystore.** `mem` and `disk` are the three lists in memory and in storage. A
ciphertext is the number of the main key that opens it, and its cipher;
`generated` numbers the main keys. `proc` holds the handlers in flight with what
they read before an await; `adding` the `#addKeys` calls in flight. A write is
applied when it is issued: the storage queue keeps the order, and a crash that
loses its tail is the same as an earlier crash. `UnlockStep` is
`#unlockWithSecret` with its migration, one action per list it persists;
`changeKeystorePassword` runs the same steps, then `RemoveOldPassword`,
`AddNewPassword`, `PushSecret`. `Crash` is the end of the worker and the `#load`
that follows. `scenario` chooses the storage, the methods called and the bounds.

**EmailVault.** One handler at a time (`withStatus`), its program counter through
the magic link, the polling, the relayer and the keystore calls; the keystore is
here its secrets and its lock, and a call it refuses returns as if it had
succeeded, as `withStatus` makes it.

**Storage.** Of a stored value only its format is kept. A migration is a list of
writes computed from one read (`migration`), the last of which marks it as
passed; `Restart` may come between any two. The queue behind `get` and `set`
starts once the migrations have ended.

**AccountPicker.** An account is where it is derived from (iterator, path, page),
so that its key is what is derived there. `SetPage`, `Derived`, `UsedOnNetworks`
are the stretches of `setPage`, told apart by their page as in the code;
`TakeChosen`, `KeysStored`, `AccountsSaved` those of `#addAccounts` and of Main's
`#onAccountPickerSuccess`.

**DappConnections, DappStatuses.** Of an app `DappConnections` keeps its channels
(`connectedSources`), `isConnected`, whether the user added it, and the accounts it
is limited to; `granted` is the history of what the user gave it and did not take
back, with accounts that were removed taken out. `fetchAt` is where
`#fetchAndUpdateDapps` is: `ReplaceApps` is the stretch after the lists came, which
takes what apps there are by then, `StoreApps` and `MarkCurrent` the two writes
after it. `SetApp`, `AddApp`, `UpdateApp` are `#dapps.set` with its write,
`addDapp`, `updateDapp`. `DappStatuses` joins the two controllers where they meet:
`ListArrives` is the end of an update of the list with the synchronisation the
apps do in the same tick; `Check` the stretch up to the request to the service,
`CheckAnswered` and `CheckFails` what follows; `ReplaceCatalogue`, `CheckAgain` and
`ShowAsking` are the three callers.

**SignMessage, SignRequests.** A signing is a record with the generation it
captured and how far it is; installing another message renews the generation. In
SignRequests a dapp's request, its promise and the switch it may need are named
after the dapp; `userRequests` and `waiting` are the two lists that hold promises,
`window` the request window with the awaits of its opening and closing.

**CallsRequests.** One account, one chain. Each dapp sends one call and waits on
one promise. `build` is how far `#buildUserRequestFromDAppRequest` and
`addUserRequests` are for it; `request` is the calls request with its
`dappPromises`; `receipt` the "benzin" request of a broadcast; `op` the
SignAccountOpControllers: calls, id (renewed by every change of calls), status,
where `signAndBroadcast` is, the paused flag, what the user reviewed, what was
sent, and how far `resolveAccountOpRequest` is. `removing` is a rejection that
waits for the portfolio, `sent` all that was submitted.

**Estimation.** One operation, from its construction on (shown, or paused until its
window opens, `requests.ts:2034`). `accountOp` is the id every change of the calls
renews, `estimation.of` and `feesOf` what the estimation and the fees were computed
for. A call of `estimate` has two actions, its awaits before and after
`lastAccountOpId` is set; `UpdateFees` is what an emitted change makes of fees, status
and prices in the same tick, nothing while signing. `estimateLoop` and `pricesLoop`
are the two `RecurringTimeout`s, of which the model keeps whether they are on and
which execution they wait for.

**SwapAndBridge, SwapTokens, ActiveRoutes.** The form is a member of a set, or
empty. The pipeline form, quote, route start, calls, estimation has an action per
await, recognised as late by `quoteId`, as `#updateQuoteId` does. `SwapTokens` has
one list per pair of networks with its fetches. In `ActiveRoutes` polls overlap
as `RecurringTimeout` lets them, with the session id that decides whose answers
count.

**Activity, OpBalances.** A pass over the pending operations advances each of them
(`passStep`) and saves at the end; a batch is settled call by call by receipts.
`OpBalances` is the task of the pass and the shared backfill of the screens.

**Accounts, AccountDetails, PortfolioQueue.** One fetch per network with the calls
that joined it (`calls`); the latest-state and the fast interval with its counted
tries are actions. Identity fetches have the copies of their accounts. The queue
of the portfolio holds updates, discards and overrides; what an update simulates
is read when its turn comes, as in the code.

## 3. What the checks show

| Run | What it shows | Bounds |
|---|---|---|
| `base_classes` (141,173 states) | `ImplementsTask`: `RecurringTimeout` implements `PeriodicTask` with its fairness; emitter: `HandlersExclusive`, `UpdatesReachSubscribers`; apps: `StatusesSettle` | 5 interface calls, 4 executions, the four shapes of options callers use; three handlers (one concurrent), two at a time, three subscribers; 2 sites, one of them hosted, 2 versions of the list, 2 checks, one restart |
| `infrastructure` (1,659,271) | keystore: `OneMainKey`, `RecoverableBetweenChanges`, `MigrationComplete`, `InternalKeysStay`; vault: `CancelledStoresNothing`; storage: `MigrationsKeepData`, `ReadsLatestWrite`; picker: `ImportedWithItsKey`; apps: `ConnectedAsGranted`; messages: `AnsweredWasApproved`, `PromiseHeld` | six keystore scenarios (three legacy storages, a current one with keys, one with password changes, an empty one) of 5 calls, one lock and one restart; 2 uploads; five origins of the storage, 2 restarts, 2 writes; 2 seeds or private keys, 2 paths, 2 pages, 2 page calls, 2 imports; 2 messages of two accounts (one smart), 2 signings, 3 installs; 3 dapps, 2 accounts; 2 apps, one of them predefined, 2 accounts, 3 retries as in the code, one restart |
| `calls_serial` (35,665) | `ResolvedWasSent`, `RejectedNeverSent`, `OneAttemptAtATime`, `NotAddedAfterBroadcast` | 3 calls, one by `wallet_sendCalls`, a smart account, bundler and relayer, `Environment = {}` |
| `calls_window` (79,007) | `NoPromiseLost`, `SentAsReviewed`, `SubmittedOnce`, `EveryDappAnswered` | 2 calls, one by `wallet_sendCalls`; relayer, EOA and bundler; windows that close, rejections while signing |
| `swap` (220,395) | form: `SubmitMatchesForm`, `CommittedOpKept`, `LoadingEnds`; tokens: `ReceivesOnToChain`; routes: `RouteSettles` | 2 forms, 2 routes, 2 quotes; 2 networks, 3 picks of networks, lists that fail; 2 routes, 2 polls at once, a window of 2 operations with one other |
| `assets` (461,934) | `NoDuplicateListed`, `OpSettles`, `BalancesKept`, `SelectedExists`, `NetworkRecovers`, `LatestSimulationShown`, `CatchesUp`, `FeesCatchUp` | a batch of two transactions and a user operation, one decoy; 2 screens; 2 accounts, one network, 2 fast tries; 2 view-only accounts, 2 identity fetches; 2 simulated operations, 3 jobs in the queue; 2 estimates at once, 2 acts of the user, prices of a bundler or not |
| `keystore_change_crash`, `calls_partial`, `swap_stale`, `activity_batch`, `vault_recovery`, `message_signature` | violations, below | as small as the case allows |

A run that composes several modules also checks their types in one invariant.
`SingleTimer` and `NoOverlapUnlessAsked`, which section 4 proves, follow from
`ImplementsTask` and are not checked again; nor are `NoIdentityForgotten` and the
types of `Estimation`, which section 4 proves.
`calls_serial` uses the symmetry of the calls that are alike; no run with a
liveness property uses symmetry.

**Why the bounds are enough to be worth something.** An overlap, a stale
microtask, a cut-off execution and a lost timer need two starts, a stop and two
executions; five and four leave room for one of them to happen twice. A password
change, or two adds that overlap, with an unlock before and a restart after, takes
four calls; two secrets, two values and two keys are the least with which one can
be lost and another stay. In CallsRequests a request, a call that joins it, and a
third that comes while it is signed are the roles there are. A late answer needs
one thing it was asked for and one that replaced it: two forms, quotes, messages,
signings, pages, paths, fetches and polls. A batch of two transactions is the
least that can be settled half way. Two restarts interrupt a migration and its
repetition. Everything that is cut off is a named constant (`MaxCalls`,
`MaxExecutions`, `MAX_...`, `MaxQuotes`, `MaxPicks`, `MaxOthers`, `Window`,
`FAST_RETRIES` and the bounds of a keystore scenario) or a set of identifiers.
Deadlock is not checked: a wallet nobody uses stops.

**What happens outside the environments.** These are facts about the code, seen
with the model when a member is added to the set.

- `CallsRequests`, `"overlap"` (handlers of dapps and users start while others
  are at an await): two requests with one id are built at once and the second
  replaces the first, also while it is signed (`requests.ts:543`), whose promise
  is lost; a closed window and an overlap let a call join a request that is
  already broadcast, against `signAccountOp.ts:3775-3777`. `"reject"`: a call
  rejected during its signing is sent all the same (`signAccountOp.ts:3414`), so
  `RejectedNeverSent` is checked without. `"change"`: with the bundler, a window
  that closes during the paymaster's answer leaves the op in progress without a
  signing; it then ignores every update, so that a call that joins the request
  does not join the op and loses its promise.
- Keystore: a lock during a password change makes `addSecret` generate a second
  main key (`keystore.ts:1271`); the scenarios with password changes have no lock
  and no restart. A seed added on a keystore without secrets while the first one
  is being stored, and a restart, could stay under a main key that is lost; the
  scenarios with an empty storage do not add seeds. Keys added or removed beside
  a migration: `#addKeys` writes back the list it read before, with the legacy
  ciphers, or the migration stores the list it read and loses a key added
  meanwhile; the legacy scenarios do neither.
- `AccountPicker`: `setPage` tells late answers apart by their page only
  (`accountPicker.ts:729, 747, 777`). With `"repath"` the answer of the path before
  replaces the accounts of the new one, with `"reset"` that of a closed picker the
  accounts of the next seed (and `setPage` then returns early, for it finds
  accounts); what is chosen from them is added without its key. With `"twice"` two
  `addAccounts` mix their keys and accounts.
- `EventEmitter`, `"shared ids"`: subscribers with one id (ops use a fixed one,
  `signAccountOp.ts:905`) leave together. Two calls of one concurrent handler also
  run together after the wait of 2 ms, which `HandlersExclusive` does not exclude.
- `Storage`: the migrations of dapps (624-626), token preferences (251-273) and
  network ids (383-393) are not idempotent; `MigrationsKeepData` leaves a restart
  within them out. The migration of account preferences throws on old data
  (131-158), and with it those after it are skipped at every start.
- `EmailVault`: `#uploadKeyStoreSecret` leaves its flag set when the relayer call
  throws; a cancellation or a timeout leaves `#shouldStopConfirmationPolling` set,
  so that the next upload or removal gives up silently (`emailVault.ts:357-377`).
- `DappConnections`, `"drift"`: `removeAccountData` sets `isConnected` by the
  accounts that are left and does not touch `connectedSources`
  (`dapps.ts:1021-1036`). An app whose only account was removed shows as
  disconnected ("Disconnect the dapp if the removed account was the only one with
  access", 1023) but keeps its permission, now without a limit, so that it sees the
  selected account; a disconnected app with preferences shows as connected. The
  comment at `helpers.ts:182-184` says `isConnected` is always derived from
  `connectedSources`; the test (`dapps.test.ts:1448`) looks at `isConnected` only.
  `"unsaved"`: the removal is not stored, and a restart brings the removed account
  back into the preferences. Besides, `disconnectAllDapps` goes by the filtered list
  (1069) and skips a connected app that shares its domain with another.
- `DappStatuses`: late answers and old statuses do get over those of a newer list,
  until its next update. The app that asks to be connected gets no update of the
  list, and its status stays LOADING when its check fails, for `CheckFails` tells
  nobody (`phishing.ts:479-486`).
- `SignMessage`, `"late state"`: an `init` whose account state is late overwrites
  the chosen key with that of the account before.
- `SignRequests`, `"closing"` and `"overtaken switch"`: a request for another
  account loses its promise when it comes while the window closes
  (`requests.ts:765`), and a request that comes between the switch and its
  resolution takes the switch request away (523-531).
- `Estimation`: a change of the calls resumes refetching also for an operation that
  is paused (`signAccountOp.ts:1768`; `requests.ts:2034-2039` means not to refetch in
  the background), a callback of the gas price interval that finds refetching
  stopped fetches once more (513-517), and a failed signing restarts the interval
  after its fetch whatever happened meanwhile (1577-1581). Between a change of the
  calls and the end of their estimate the status stays ready with the fees of the
  calls before, since `updateStatus` does not look at Loading.
- `SwapAndBridge`, `"reselect"`, `"edit"`; `SwapTokens`, `"return"`,
  `"preselect"`: the token to receive may belong to a network that was left, or a
  preselected one be dropped while the list loads (`swapAndBridge.ts:1328, 1124`).
- `Activity`, `"view"`: a read of the list that is late replaces it (462) and can
  undo an addition. `OpBalances`, `"slow"`: the third failure of one task replaces
  what the other computed.
- `Accounts`, `"quick"`: a removal while an added account is being selected
  leaves a removed account selected (`main.ts:1618`). `AccountDetails`, `"add"`: a
  fulfilled fetch stops the interval the addition restarted.

### Where the code disagrees with what it says

1. `keystore_change_crash`: a restart between the removal of the old password and
   the storing of the new one leaves keys that nothing opens
   (`keystore.ts:1270`).
2. `calls_partial`: when an EOA's batch fails half way, the dapps of the unsent
   calls are told it is a transaction (`main.ts:967`).
3. `swap_stale`: a form edited while the pending batch has an error keeps the
   quote and op of the form before (`swapAndBridge.ts:1783`).
4. `activity_batch`: a batch is settled by two passes over the receipt of its
   first transaction (`submittedAccountOp.ts:361`).
5. `vault_recovery`: a reset with a recovery secret that does not open the
   keystore removes the password and leaves the keys behind (`emailVault.ts:541`).
6. `message_signature`: a device's late answer to an aborted signing becomes the
   signature of the message that replaced it (`signMessage.ts:558`).

`PROJECT.json` quotes the comment each of them contradicts.

### Fairness

`RecurringTimeout.Fairness`: the event loop serves every queued microtask and due
timer, and every execution settles, since the jobs await requests that time out;
`PeriodicTask` has the same for its executions. `EmitterFairness`: timers fire;
how long a handler runs is not assumed. `CallsRequests.FairSpec`: the wallet's own
steps happen, each weakly fair because an await that is pending stays pending
until it ends; and a user who keeps being offered a request and never completes a
signing rejects it in the end, which is strong fairness of `RejectRequest` because
a signing that starts and fails again and again disables it every time. No
fairness for dapps, the other acts of users, or for the success of a broadcast.
`SwapFairness`: debounces end and providers answer or time out; `RoutesFairness`
and `ActivityFairness` add that a provider which is asked again and again does not
fail for ever (strong fairness of its answer), without which nothing could be
learned. `AccountsFairness`: intervals tick, fetches end, providers come back and
the wallet is opened again, on which the fast interval's return depends.
`PortfolioFairness`: jobs of the queue and scheduled updates run, outcomes are
found. `FeesFairness`: intervals go on, requests are answered somehow and a signing
ends. `StatusesFairness`: the list is loaded and asked for again and again, and its
fetches do not fail for ever; nothing is assumed of checks, users and restarts
(there are finitely many of each, a bound). The properties with no liveness use no fairness.
Where components share a run, a component a behaviour is not about stands still, and
its fairness asks nothing of that behaviour.

## 4. What is proved

By TLAPS, for every value of the constants that satisfies the named assumptions
of the modules; a theorem that holds only without what an `...Environment` allows
assumes so in its statement.

| Theorem | States | Assumed of the environment |
|---|---|---|
| `ImplementsTaskSafely` | every step of `RecurringTimeout` is a step of `PeriodicTask` or a stutter | |
| `SingleTimerHolds`, `PendingStartQueuedHolds`, `LoopNotLostHolds`, `NothingRunsAfterStopHolds`, `NoOverlapUnlessAskedHolds` | the safety of the scheduler, for any number of calls and executions | |
| `HandlersExclusiveHolds` | exclusive handlers of a controller exclude one another, for any handlers | |
| `BaseTypesCorrect` | the types of scheduler, emitter and apps' statuses; with `StatusesTypeCorrect`, that a check tells an app only a status that was found out | |
| `OneMainKeyHolds`, `RecoverableHolds`, `KeystoreTypeCorrect` | one main key behind everything; stored keys open with a stored secret, also after a restart | scenarios are `Proper`, below |
| `MigrationCompleteHolds`, `InternalKeysStayHolds` | an unlock that is over leaves nothing in the legacy cipher; an internal key leaves the storage only when it is removed | and `Migratable`, below |
| `CancelledStoresNothingHolds` | a cancelled confirmation changes neither secrets nor vault | |
| `ReadsLatestWriteHolds` | a read returns the latest write called before it that was not lost | |
| `MigrationsKeepDataHolds` | restarts do not change what the migrations make of what users cannot get back, nor of the rest unless one came in the middle of `tokens`, `chainIds` or `dapps` | |
| `ImportedWithItsKeyHolds` | no account is added without its key | `PickerEnvironment = {}` |
| `ConnectedAsGrantedHolds` | apps have the permissions the user granted | `ConnectionsEnvironment = {}` |
| `AnsweredWasApprovedHolds`, `MessageTypeCorrect` | no dapp gets a signature the user did not approve | |
| `PromiseHeldHolds`, `RequestsTypeCorrect` | a dapp that waits for the answer to its message can get one | `RequestsEnvironment = {}` |
| `SentAsReviewedHolds`, `TypeCorrect` of `CallsRequests` | what is submitted is what was reviewed | any |
| `SubmittedOnceHolds`, `NotAddedAfterBroadcastHolds` | a call is submitted once; none joins an op that was broadcast | no `"overlap"` |
| `OneAttemptAtATimeHolds` | one attempt to sign and broadcast at a time | no `"overlap"`, `"reject"` |
| `NoPromiseLostHolds` | a dapp that waits has a call that can be answered | no `"overlap"`, `"change"` |
| `RejectedNeverSentHolds` | what a dapp was told is rejected is never submitted | at most `"close"` |
| `ResolvedWasSentHolds` | a dapp is told a transaction only for a call that was submitted | at most `"close"`, accounts that are no EOAs (finding 2 is of these) |
| `SubmitMatchesFormHolds` | what is offered to be signed is the swap the form shows | no `"edit"` |
| `CommittedOpKeptHolds` | the op the user proceeded with is neither replaced nor rebuilt | no `"reselect"` |
| `ReceivesOnToChainHolds` | the token to receive is one of the receive network | `TokensEnvironment \subseteq {"fail"}` |
| `SwapTypesCorrect` | the types of form, routes and tokens, for any finite set of routes | any |
| `BalancesKeptHolds`, `NoIdentityForgottenHolds`, `SelectedExistsHolds`, `NoDuplicateListedHolds` | computed balance changes stay; when the interval is off no account waits for its identity; an account is selected if there are any; no transaction is listed as an external one and as one of an operation with an outcome | their environments are empty |
| `LatestSimulationShownHolds` | the simulation asked for last is shown | any |
| `InfraTypesCorrect` (with `VaultTypeCorrect`, `StorageTypeCorrect`, `PickerTypeCorrect`, `ConnectionsTypeCorrect`) | the types of everything in the run `infrastructure`: what is stored keeps the formats the migrations know wherever a restart came, the lists of apps are asked for as often as the retries allow | `RequestsEnvironment`, `PickerEnvironment`, `ConnectionsEnvironment` are empty |
| `AssetsTypesCorrect` (with `ActivityTypeCorrect`, `AccountsTypeCorrect`, `BalancesTypeCorrect`, `DetailsTypeCorrect`, `PortfolioTypeCorrect`, `EstimationTypeCorrect`) | the types of everything in the run `assets`: each call has a status after any number of receipts and a settled operation a final one, no network is tried more often than allowed, no more than three failures of balance changes | `BalancesEnvironment = {}` |

The assumptions: `OriginsAssumption`, that what is stored at the first start has the
formats of the model, in any combination; `StartOptionsAssumption` (nobody asks for
`allowOverlap` without `runImmediately`, true of every caller); for the keystore
theorems `Proper(s)` for every scenario `s`: what is on disk at the start is under
one main key, an empty storage has no ciphertexts and no seeds are added or
passwords changed on it, and where the password is changed there is no lock or
restart, the case finding 1 is about. `MigrationCompleteHolds` and
`InternalKeysStayHolds` add `Migratable(s)`: keys are added and removed only where
no payload is in the legacy cipher at the start (section 3 says what happens
otherwise). `KindsAssumption` is that no name is of an internal and of an external
key. The bounds are numbers, and where the code has a positive constant
(`RETRIES`, `FAST_RETRIES`, `MAX_OPS`) at least one; operations have calls
(`TxsOfAssumption`), and the screens are finitely many (`ScreensAssumption`).

**RecurringTimeout.** None of the properties is inductive. A timer that fires
starts an execution, so `SingleTimer` needs that a timer excludes a tracked
execution; that an execution's end arms at most one timer needs that the tracked
execution is the latest; that a microtask starts the loop only once needs that at
most one queued microtask carries the current session, and that it is the last.
`QueueInv` and `LoopInv` say these: the loop of a running instance is carried
either by its timer or by the tracked execution, by neither while a start is
queued. The refinement follows step by step from the same invariant.

**SentAsReviewed.** What is sent is the op's calls at the moment of the broadcast,
what was reviewed is what the window showed at the click. Between them `update()`
must ignore every change, which it does while the status is frozen; but a
rejection's `destroy` unfreezes the status of an op that is still signed. So the
invariant says that an op which is signed has the reviewed calls
(`ReviewedWhileSigning`) and is frozen as long as it is listed; that what the
window last showed under an op's current id is what the op holds (`ViewedById`);
and that a call whose request is not built has an op nothing names (`FreshUnused`).

**HandlersExclusive.** A status that is checked is not a lock: between the check
and the start of a handler there may be a wait. The invariant follows an
exclusive handler from its admission to its final update: its status is away from
INITIAL all along, and none of them waits behind an earlier call.

**Keystore.** `OneKeyInv` binds everything to the main key generated last: what is
in memory and on disk, what handlers in flight carry, what `#addKeys` is about to
write (`UnderTheLast`); a second main key is generated only when no secret is
stored, so there must always be one (`SecretsStay`): the handlers that remove a
secret see another one, and before the first secret nothing is stored
(`Untouched`). `RecoverableHolds` adds that nothing is stored before its secret.

That a migration completes needs more than its end: a lock and another unlock may
come between any two of its writes. `MigrationInv` says that while the keystore is
unlocked a list with a legacy cipher is one that a handler will still re-encrypt
(`BeingMigrated`), that what is free of them in memory or in a handler that goes on
to the next list is stored so (`StoredFirst`), and that `#addKeys` and a
migration are never about the same list (`KeysAside`). Keys stay because the lists
in memory, in the storage and in the handlers have the same names (`ListsAgree`)
and because at most one `#addKeys` is in flight, which knows every stored internal
key (`OneAdding`): of that `withStatus` alone is the reason.

**Promises and attempts of calls.** Without `"overlap"` a handler of a dapp or a user
starts only when no other is at an await. `SerialInv` says what belongs together
at each wait: one request is built at a time and only when there is none
(`OneBuild`), a call is of one op and was submitted by that op's attempt if at all
(`CallsOfOneOp`, `SentByItsOp`), what was submitted leaves the list before another
attempt can begin (`SentOnce`), and the promises that were taken wait for the
receipt or for the confirmation (`Resolution`). `SubmittedOnce` and
`NotAddedAfterBroadcast` follow. `PromiseInv` adds that the promises of the request
are those of its op's calls and that a rejection has told them; `SignedIsListed` that
what is signed is the request and nothing waits meanwhile; `TruthInv` that a
call that was rejected is in no op that is or may still be signed.

**SubmitMatchesForm, CommittedOpKept.** Ids of quotes and fetches only grow, so
that a fetch with the current id is the last one. `FormInv` says that it, the
quote that is shown and what is being built from it are of the form they were
asked for, and that nothing is built for an id while a quote is fetched under it.
Who proceeded did so when nothing was being built (`ProceededQuietly`). The types
need that counters are bounded by what they count: the operations submitted after
a route's are other routes' or others, which is where the finite set of routes is
used.

**ReadsLatestWrite.** Every write has a number. The writes that wait in the queue,
the one stored last and those a restart lost are in the order of their numbers, and
a read stands behind the writes that were called before it.

**MigrationsKeepData.** For any stored formats, not only the five origins TLC
begins with, and any number of restarts. `Same` compares two stores: in what users
cannot get back, and in the rest if nothing cut an unrepeatable migration short.
Three lemmas carry it: a migration makes the same of what is the same
(`MigratesTheSame`), it changes nothing that matters when it runs again after
its last write (`MigratesTwice`), and of what it left between two writes it
makes what it would have made at once (`Resumes`; the keys get their labels before
the preferences go, the networks are written before the chain ids). The old
network preferences count in `Same` only while there are no networks, since
nothing reads them later. The invariant (`Reached`) has one migration that is next;
what is stored makes it throw or do what it would do to the outcome of the ones
before it, and while it runs there is a store of which that holds and of which
the first writes of its plan are done (`Running`). Which outcomes there are is
a recursive function (`Uninterrupted`); migrations that had passed before the
first start are skipped in it (`SkipsPassed`), and one that throws is the last
(`ThrownSticks`).

**PromiseHeld.** A dapp that waits is in the hands of a handler that will add it,
in the queue, among those that wait for a switch whose request is in the queue,
or in a closing that will reject it. Three parts of `HeldInv` carry this: no
promise is missing from all places (`NoneMissed`), one that waits for an account
has its switch (`SwitchJoins`), and a closing of the window rejects what it
saw when it began (`ClosingsSaw`). Taking requests out of a queue is a
recursive function here (`Only`), and what it keeps is shown by a least
counterexample (`Least`), since the well-founded order of the naturals can be
cited where an induction rule cannot.

**AnsweredWasApproved.** A signing of the current generation was approved for the
message that is installed; one of an earlier generation stops at its next check.
The invariant says it for every place a signing can be suspended at.

**Types of the statuses.** That a failed check never tells an app a status that no
one set needs that a check marks each of its sites before it asks the service
(`Judged`).

**Types of what is stored, of apps, receipts and balance changes.** Most types say
only that a step writes what it should; these need an invariant. That `db` stays in
the formats needs that what a migration has left to write fits them (`TypesInv`),
so that a restart may come anywhere. That the lists of apps are asked for at most
`RETRIES` times needs that an update under way has a try left (`RetriesInv`). A
backfill of balance changes has a screen that waits for it (`FailuresInv`), which
is why the screens must be finitely many. What the receipts of an operation come
to is a recursive function of their number (`AfterReceipts`): that it exists
(`AfterExists`) and that each of its values is a status per call (`AfterTyped`) is
shown by the least number for which it would not be so. An operation has calls
(`TxsOfAssumption`), so that there is a last one whose status it gets.

**The rest.** `CancelledStoresNothing`: a poll's answer counts only if nothing
stopped it, at the moment it is used. `ImportedWithItsKey`: everything derived,
chosen or being derived is of the iterator and the path of the moment, one import
is under way, and its keys are stored before its accounts. `ReceivesOnToChain`:
every list being fetched will select for the networks it was fetched for, or be
recognised as late. `BalancesKept`: one task at a time, none once there are
changes. `ConnectedAsGranted`: the apps in memory and those in the storage both have
the granted channels, the stored ones with accounts that may be gone, which the
first never have. `NoIdentityForgotten`: one fetch at a time, of all accounts without an
identity, and the interval is on until it ends. `SelectedExists`: every selection
under way is of an account there is. `LatestSimulationShown`: the simulation asked
for last is set by the last job that sets one, or it is there and none does.
`NoDuplicateListed`: no known transaction of an operation with an outcome is in the
list of external ones, unless the pass that found the outcome has yet to remove it,
and the list in memory is the one that is stored.

**Only model-checked.** Liveness (fairness and ENABLED are beyond the prover): the
fairness of `ImplementsTask`, `UpdatesReachSubscribers`, `EveryDappAnswered`,
`OpSettles`, `NetworkRecovers`, `CatchesUp`, `LoadingEnds`, `RouteSettles`,
`StatusesSettle`, `FeesCatchUp`. Every invariant and every action property that a
passing run checks is proved, for the environments the table names. The modules use
no `RECURSIVE` operators.

## 5. Not modelled

Cryptography, encodings, parsing, humanized texts, prices, fees and the contents of
portfolios are data the properties do not tell apart; they are most of the lines
of the repository (`libs/humanizer`, `libs/portfolio`, `libs/swapAndBridge`,
`services`, the forms and caches among the controllers), which is why the map
covers about a tenth of the implementation though it covers most of its
concurrent control.

In the modelled components: `keyStoreUid`, `updateKeyPreferences`, the temporary
seed and exports of the keystore; the association of keys with the legacy seed
(`storage.ts:545`), which writes a list of keys it read before it derived ten
pages; the syncing of keys through the vault; linked and smart accounts, the
automatic choice and the email flow of the picker; Safe accounts everywhere;
the computation of fees, fee tokens and payers, the bundlers that are tried, the
stop of refetching after half an hour, hardware prompts and the "hang" escape hatch of a
signing; transfers and swaps as requests; removing an account while it has
requests (`requests.ts:2189-2219`, which drops their promises); requests of the
same millisecond, which share an id; the views SelectedAccountController derives;
recipients, pages and filters of the activity; sessions of apps and the events
they are sent, recent apps, trending tokens and the filters of the catalogue;
addresses in the list of dangerous sites.

The rest of the inventory, with reasons, is in `PROJECT.json`.

## 6. Plan

The core (scheduler, keystore, the path of a transaction), the services under it
(emitter, storage, vault), messages, swaps, accounts, activity, portfolio and the
picker, and the apps with their statuses, are done as above. What is left, in order
of what it would add:

1. `RequestsController`: removing an account, transfers and swaps as requests,
   and one queue for calls and messages, composing `CallsRequests` with
   `SignRequests`.
2. The picker's linked accounts with their abort controllers, and the automatic
   choice of the next account.
3. `NetworksController` with `ProvidersController`; the sessions of apps.
4. Theorems for more of what the code allows: the invariants of the answers when
   handlers overlap, the picker when its path changes.

Runs stay few: the components that share no state are focuses of one run, the
scenarios of one component initial states of one run.
