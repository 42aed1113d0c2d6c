----------------------------- MODULE AssetsProofs -----------------------------
(***************************************************************************)
(* What the wallet shows of accounts, operations and balances, for any     *)
(* accounts, screens, operations and lengths of the queue.                 *)
(*                                                                         *)
(* OpBalances: one task at a time works on an operation, and none once it  *)
(* has its changes.  AccountDetails: one fetch at a time, of all accounts  *)
(* without an identity, and the interval stays on until it ends.           *)
(* Accounts: selections go to accounts there are.  PortfolioQueue: the     *)
(* simulation asked for last is the last one the queue sets, or it is      *)
(* there and the queue sets none.  Activity: what is listed as external is *)
(* not the transaction of a settled operation.  And the types of all that  *)
(* MC_Assets composes.                                                     *)
(*                                                                         *)
(* LatestSimulationShown and the types hold of the code as it is, but for  *)
(* those of OpBalances; the others without what the Environment of their   *)
(* module allows, which they assume.                                       *)
(***************************************************************************)
EXTENDS MC_Assets, FiniteSetTheorems, WellFoundedInduction, TLAPS

-----------------------------------------------------------------------------
(* Balance changes of an operation.                                        *)

\* One task at a time works on the operation, and none once it has its changes.
BalancesInv ==
    /\ failures \in Nat /\ backfills \in 0..1
    /\ outcome \in {"none", "receipt", "noReceipt"}
    /\ changes \in {"undefined", "computed", "empty"}
    /\ passTask \in {"none", "running", "done"}
    /\ outcome = "none" => passTask = "none"
    /\ passTask # "done" => backfills = 0 /\ changes = "undefined"
    /\ backfills = 1 => changes = "undefined"

LEMMA ChangesSet ==
    ASSUME BalancesInv, NEW found \in BOOLEAN, SetChanges(found)
    PROVE  failures' \in Nat /\ changes' \in {"undefined", "computed", "empty"}
  <1>1. CASE found
    BY <1>1 DEF BalancesInv, SetChanges
  <1>2. CASE ~found
    <2>1. failures' = failures + 1 /\ changes' \in {"empty", changes}
      BY <1>2 DEF SetChanges
    <2>2. failures \in Nat /\ changes \in {"undefined", "computed", "empty"}
      BY DEF BalancesInv
    <2>3. failures' \in Nat
      BY <2>1, <2>2
    <2>4. changes' \in {"undefined", "computed", "empty"}
      BY <2>1, <2>2
    <2> QED  BY <2>3, <2>4
  <1> QED  BY <1>1, <1>2

LEMMA NextBalancesInv ==
    ASSUME BalancesEnvironment = {}, BalancesInv, [BalancesNext]_balancesVars
    PROVE  BalancesInv' /\ (changes = "computed" => changes' = "computed")
  <1>1. CASE \E o \in {"receipt", "noReceipt"} : OutcomeFound(o) \/ LoadedWithOutcome(o)
    BY <1>1 DEF BalancesInv, OutcomeFound, LoadedWithOutcome
  <1>2. CASE \E s \in Screens : List(s)
    <2>1. PICK s \in Screens : List(s)
      BY <1>2
    <2>2. passTask = "done" /\ outcome # "none"
          /\ UNCHANGED <<outcome, changes, failures, passTask>>
      BY <2>1 DEF List
    <2>3. CASE changes = "undefined"
      BY <2>1, <2>2, <2>3 DEF BalancesInv, List, Backfill, StartsBackfill
    <2>4. CASE changes # "undefined"
      BY <2>1, <2>2, <2>4 DEF BalancesInv, List
    <2> QED  BY <2>3, <2>4
  <1>3. CASE \E found \in BOOLEAN : PassTaskEnds(found)
    <2>1. PICK found \in BOOLEAN : PassTaskEnds(found)
      BY <1>3
    <2> QED  BY <2>1, ChangesSet DEF BalancesInv, PassTaskEnds
  <1>4. CASE \E found \in BOOLEAN : BackfillEnds(found)
    <2>1. PICK found \in BOOLEAN : BackfillEnds(found)
      BY <1>4
    <2>2. backfills = 1 /\ backfills' = 0 /\ UNCHANGED <<outcome, passTask>>
      BY <2>1 DEF BackfillEnds, BalancesInv
    <2>3. failures' \in Nat /\ changes' \in {"undefined", "computed", "empty"}
      BY <2>1, ChangesSet DEF BackfillEnds, BalancesInv
    <2>4. changes = "undefined" /\ passTask = "done"
      BY <2>2 DEF BalancesInv
    <2> QED  BY <2>2, <2>3, <2>4 DEF BalancesInv
  <1>5. CASE UNCHANGED balancesVars
    BY <1>5 DEF BalancesInv, balancesVars
  <1> QED  BY <1>1, <1>2, <1>3, <1>4, <1>5 DEF BalancesNext

\* Computed balance changes are not thrown away, for any screens, if none of
\* them lists the operation before the task of the pass is over
\* (setAccountOpBalanceChanges).
THEOREM BalancesKeptHolds ==
    ASSUME BalancesEnvironment = {} PROVE BalancesSpec => BalancesKept
  <1>1. BalancesInit => BalancesInv
    BY DEF BalancesInit, BalancesInv
  <1>2. BalancesInv /\ [BalancesNext]_balancesVars => BalancesInv'
    BY NextBalancesInv
  <1>3. BalancesInv /\ [BalancesNext]_balancesVars =>
            [changes = "computed" => changes' = "computed"]_balancesVars
    BY NextBalancesInv
  <1> QED  BY <1>1, <1>2, <1>3, PTL DEF BalancesSpec, BalancesKept

\* A screen waits while a backfill runs, and three failures are enough.
FailuresInv ==
    /\ listing \subseteq Screens /\ awaiting \subseteq listing
    /\ backfills = 1 => awaiting # {}
    /\ failures <= MAX_FAILURES /\ (changes = "undefined" => failures < MAX_FAILURES)

LEMMA NextFailuresInv ==
    ASSUME BalancesEnvironment = {}, BalancesInv, FailuresInv, [BalancesNext]_balancesVars
    PROVE  FailuresInv'
  <1>0. /\ failures \in Nat /\ MAX_FAILURES = 3
        /\ changes \in {"undefined", "computed", "empty"}
    BY DEF BalancesInv, MAX_FAILURES
  <1>1. CASE \E o \in {"receipt", "noReceipt"} : OutcomeFound(o) \/ LoadedWithOutcome(o)
    BY <1>1 DEF FailuresInv, OutcomeFound, LoadedWithOutcome
  <1>2. ASSUME NEW s \in Screens, List(s) PROVE FailuresInv'
    BY <1>2 DEF FailuresInv, List, Backfill, StartsBackfill
  <1>3. ASSUME NEW found \in BOOLEAN, SetChanges(found), changes = "undefined"
        PROVE  /\ failures' <= MAX_FAILURES
               /\ changes' = "undefined" => failures' < MAX_FAILURES
    <2>1. failures < 3
      BY <1>0, <1>3 DEF FailuresInv
    <2>2. CASE found
      BY <1>0, <1>3, <2>1, <2>2 DEF SetChanges
    <2>3. CASE ~found
      BY <1>0, <1>3, <2>1, <2>3 DEF SetChanges
    <2> QED  BY <2>2, <2>3
  <1>4. ASSUME NEW found \in BOOLEAN, PassTaskEnds(found) PROVE FailuresInv'
    <2>1. changes = "undefined" /\ SetChanges(found) /\ UNCHANGED <<backfills, listing, awaiting>>
      BY <1>4 DEF PassTaskEnds, BalancesInv
    <2> QED  BY <1>3, <2>1 DEF FailuresInv
  <1>5. ASSUME NEW found \in BOOLEAN, BackfillEnds(found) PROVE FailuresInv'
    <2>1. backfills = 1 /\ backfills' = 0 /\ changes = "undefined" /\ listing' = listing
          /\ awaiting' = {}
      BY <1>5 DEF BackfillEnds, BalancesInv
    <2>2. \/ SetChanges(found)
          \/ changes' = "empty" /\ failures' = failures
      BY <1>5 DEF BackfillEnds
    <2>3. /\ failures' <= MAX_FAILURES
          /\ changes' = "undefined" => failures' < MAX_FAILURES
      BY <1>3, <2>1, <2>2 DEF FailuresInv
    <2> QED  BY <2>1, <2>3 DEF FailuresInv
  <1>6. CASE UNCHANGED balancesVars
    BY <1>6 DEF FailuresInv, balancesVars
  <1> QED  BY <1>1, <1>2, <1>4, <1>5, <1>6 DEF BalancesNext

\* The variables have their types: the failures are no more than three, and one
\* backfill runs at a time, for any finite set of screens, if none of them lists
\* the operation before the task of the pass is over.
THEOREM BalancesTypeCorrect ==
    ASSUME BalancesEnvironment = {} PROVE BalancesSpec => []BalancesTypeOK
  <1>1. BalancesInit => BalancesInv /\ FailuresInv
    BY DEF BalancesInit, BalancesInv, FailuresInv, MAX_FAILURES
  <1>2. BalancesInv /\ FailuresInv /\ [BalancesNext]_balancesVars => BalancesInv' /\ FailuresInv'
    BY NextBalancesInv, NextFailuresInv
  <1>3. BalancesInv /\ FailuresInv => BalancesTypeOK
    <2> SUFFICES ASSUME BalancesInv, FailuresInv PROVE BalancesTypeOK
      OBVIOUS
    <2>1. failures \in 0..(MAX_FAILURES + 2)
      BY DEF BalancesInv, FailuresInv, MAX_FAILURES
    <2>2. backfills \in 0..Cardinality(Screens)
      <3>1. Cardinality(Screens) \in Nat
        BY ScreensAssumption, FS_CardinalityType
      <3>2. backfills = 1 => Screens # {}
        BY DEF FailuresInv
      <3>3. backfills = 1 => Cardinality(Screens) # 0
        BY <3>2, ScreensAssumption, FS_EmptySet
      <3> QED  BY <3>1, <3>3 DEF BalancesInv
    <2> QED  BY <2>1, <2>2 DEF BalancesInv, FailuresInv, BalancesTypeOK
  <1> QED  BY <1>1, <1>2, <1>3, PTL DEF BalancesSpec

-----------------------------------------------------------------------------
(* Identities of view-only accounts.                                       *)

Runs == {NotRunning} \cup [on : {TRUE}, accts : SUBSET ViewAccts]

\* One fetch at a time, with all accounts without an identity, and the
\* interval is on until it ends.
DetailsInv ==
    /\ identityRuns \in [IdentityRuns -> Runs]
    /\ listed \subseteq ViewAccts
    /\ \A r, s \in IdentityRuns :
         identityRuns[r] # NotRunning /\ identityRuns[s] # NotRunning => r = s
    /\ \A r \in IdentityRuns : identityRuns[r] # NotRunning =>
         identityLoop /\ ToIdentify \subseteq identityRuns[r].accts
    /\ NoIdentityForgotten

LEMMA NextDetailsInv ==
    ASSUME DetailsEnvironment = {}, DetailsInv, [DetailsNext]_detailsVars
    PROVE  DetailsInv'
  <1>1. CASE \E a \in ViewAccts : AddViewAccount(a)
    <2>1. PICK a \in ViewAccts : AddViewAccount(a)
      BY <1>1
    <2>2. \A s \in IdentityRuns : identityRuns[s] = NotRunning
      BY <2>1 DEF AddViewAccount, Fetching
    <2> DEFINE run == [on |-> TRUE, accts |-> (listed \cup {a}) \ identified]
    <2>3. PICK r \in IdentityRuns : identityRuns' = [identityRuns EXCEPT ![r] = run]
      BY <2>1 DEF AddViewAccount
    <2>4. run \in Runs
      BY DEF DetailsInv, Runs
    <2>5. identityRuns'[r] = run /\
           \A s \in IdentityRuns : s # r => identityRuns'[s] = NotRunning
      BY <2>2, <2>3 DEF DetailsInv
    <2>6. listed' = listed \cup {a} /\ identified' = identified /\ identityLoop' = TRUE
      BY <2>1 DEF AddViewAccount
    <2>7. identityRuns' \in [IdentityRuns -> Runs]
      BY <2>3, <2>4 DEF DetailsInv
    <2> QED
      BY <2>5, <2>6, <2>7 DEF DetailsInv, NoIdentityForgotten, ToIdentify
  <1>2. CASE \E a \in ViewAccts : RemoveViewAccount(a)
    <2>1. ToIdentify' \subseteq ToIdentify /\ listed' \subseteq listed
          /\ UNCHANGED <<identityLoop, identityRuns>>
      BY <1>2 DEF RemoveViewAccount, ToIdentify
    <2> QED  BY <2>1 DEF DetailsInv, NoIdentityForgotten, Fetching
  <1>3. CASE IdentityTick
    <2>1. \A s \in IdentityRuns : identityRuns[s] = NotRunning
      BY <1>3 DEF IdentityTick, Fetching
    <2>2. ToIdentify' = ToIdentify /\ listed' = listed
      BY <1>3 DEF IdentityTick, ToIdentify
    <2>3. CASE ToIdentify = {}
      BY <1>3, <2>1, <2>2, <2>3 DEF IdentityTick, DetailsInv, NoIdentityForgotten
    <2>4. CASE ToIdentify # {}
      <3>1. PICK r \in IdentityRuns : identityRuns' = [identityRuns EXCEPT ![r] = Run]
        BY <1>3, <2>4 DEF IdentityTick
      <3>2. Run \in Runs
        BY DEF DetailsInv, Runs, Run, ToIdentify
      <3>3. identityRuns'[r] = Run /\
             \A s \in IdentityRuns : s # r => identityRuns'[s] = NotRunning
        BY <2>1, <3>1 DEF DetailsInv
      <3>4. identityLoop' /\ identityRuns' \in [IdentityRuns -> Runs]
        BY <1>3, <2>4, <3>1, <3>2 DEF IdentityTick, DetailsInv
      <3> QED
        BY <2>2, <3>3, <3>4 DEF DetailsInv, NoIdentityForgotten, Run
    <2> QED  BY <2>3, <2>4
  <1>4. CASE \E r \in IdentityRuns, fulfilled \in SUBSET ViewAccts : IdentitiesFetched(r,
         fulfilled)
    <2>1. PICK r \in IdentityRuns, fulfilled \in SUBSET ViewAccts : IdentitiesFetched(r,
           fulfilled)
      BY <1>4
    <2>2. identityRuns[r] # NotRunning /\ fulfilled \subseteq identityRuns[r].accts
          /\ listed' = listed /\ identified' = identified \cup (fulfilled \cap listed)
          /\ identityRuns' = [identityRuns EXCEPT ![r] = NotRunning]
      BY <2>1 DEF IdentitiesFetched
    <2>3. identityRuns \in [IdentityRuns -> Runs]
          /\ \A s \in IdentityRuns : identityRuns[s] # NotRunning => s = r
      BY <2>2 DEF DetailsInv
    <2>4. NotRunning \in Runs
      BY DEF Runs
    <2>5. \A s \in IdentityRuns : identityRuns'[s] = NotRunning
      BY <2>2, <2>3
    <2>6. identityRuns' \in [IdentityRuns -> Runs]
      BY <2>2, <2>3, <2>4
    <2>7. identityLoop /\ ToIdentify \subseteq identityRuns[r].accts
      BY <2>2 DEF DetailsInv
    <2>8. CASE fulfilled = identityRuns[r].accts
      <3>1. ToIdentify' = {}
        BY <2>2, <2>7, <2>8 DEF ToIdentify
      <3> QED  BY <2>2, <2>5, <2>6, <3>1 DEF DetailsInv, NoIdentityForgotten
    <2>9. CASE fulfilled # identityRuns[r].accts
      <3>1. identityLoop' = identityLoop
        BY <2>1, <2>9 DEF IdentitiesFetched, Stops
      <3> QED  BY <2>2, <2>5, <2>6, <2>7, <3>1 DEF DetailsInv, NoIdentityForgotten
    <2> QED  BY <2>8, <2>9
  <1>5. CASE UNCHANGED detailsVars
    BY <1>5 DEF DetailsInv, detailsVars, NoIdentityForgotten, Fetching, ToIdentify
  <1> QED  BY <1>1, <1>2, <1>3, <1>4, <1>5 DEF DetailsNext

\* No account is left without its identity by an interval that is off, for any
\* view-only accounts, if none is added while a fetch runs.
THEOREM NoIdentityForgottenHolds ==
    ASSUME DetailsEnvironment = {} PROVE DetailsSpec => []NoIdentityForgotten
  <1>1. DetailsInit => DetailsInv
    BY DEF DetailsInit, DetailsInv, Runs, NoIdentityForgotten, ToIdentify
  <1>2. DetailsInv /\ [DetailsNext]_detailsVars => DetailsInv'
    BY NextDetailsInv
  <1>3. DetailsInv => NoIdentityForgotten
    BY DEF DetailsInv
  <1> QED  BY <1>1, <1>2, <1>3, PTL DEF DetailsSpec

\* The variables have their types, for any view-only accounts and fetches: a
\* fetch has accounts to ask for, and only accounts there are have identities.
THEOREM DetailsTypeCorrect == DetailsSpec => []DetailsTypeOK
  <1>1. DetailsInit => DetailsTypeOK
    BY DEF DetailsInit, DetailsTypeOK
  <1>2. DetailsTypeOK /\ [DetailsNext]_detailsVars => DetailsTypeOK'
    <2> SUFFICES ASSUME DetailsTypeOK, [DetailsNext]_detailsVars PROVE DetailsTypeOK'
      OBVIOUS
    <2> DEFINE Fetches == {NotRunning} \cup [on : {TRUE}, accts : (SUBSET ViewAccts) \ {{}}]
    <2>1. ASSUME NEW a \in ViewAccts, AddViewAccount(a) PROVE DetailsTypeOK'
      <3>1. PICK r \in IdentityRuns : identityRuns' = [identityRuns EXCEPT
              ![r] = [on |-> TRUE, accts |-> (listed \cup {a}) \ identified]]
        BY <2>1 DEF AddViewAccount
      <3>2. [on |-> TRUE, accts |-> (listed \cup {a}) \ identified] \in Fetches
        <4>1. a \notin identified
          BY <2>1 DEF AddViewAccount, DetailsTypeOK
        <4> QED  BY <4>1 DEF DetailsTypeOK
      <3>3. identityRuns' \in [IdentityRuns -> Fetches]
        BY <3>1, <3>2 DEF DetailsTypeOK
      <3> QED  BY <2>1, <3>3 DEF AddViewAccount, DetailsTypeOK
    <2>2. ASSUME NEW a \in ViewAccts, RemoveViewAccount(a) PROVE DetailsTypeOK'
      BY <2>2 DEF RemoveViewAccount, DetailsTypeOK
    <2>3. CASE IdentityTick
      <3>1. CASE ToIdentify = {}
        BY <2>3, <3>1 DEF IdentityTick, DetailsTypeOK
      <3>2. CASE ToIdentify # {}
        <4>1. Run \in Fetches
          BY <3>2 DEF Run, ToIdentify, DetailsTypeOK
        <4>2. identityRuns' \in [IdentityRuns -> Fetches]
          BY <2>3, <3>2, <4>1 DEF IdentityTick, DetailsTypeOK
        <4> QED  BY <2>3, <3>2, <4>2 DEF IdentityTick, DetailsTypeOK
      <3> QED  BY <3>1, <3>2
    <2>4. ASSUME NEW r \in IdentityRuns, NEW fulfilled \in SUBSET ViewAccts,
                 IdentitiesFetched(r, fulfilled)
          PROVE  DetailsTypeOK'
      BY <2>4 DEF IdentitiesFetched, DetailsTypeOK
    <2>5. CASE UNCHANGED detailsVars
      BY <2>5 DEF detailsVars, DetailsTypeOK
    <2> QED  BY <2>1, <2>2, <2>3, <2>4, <2>5 DEF DetailsNext
  <1> QED  BY <1>1, <1>2, PTL DEF DetailsSpec

-----------------------------------------------------------------------------
(* The selected account.                                                   *)

\* Selections go to accounts there are; while an account is removed the
\* selected one is another one or itself; otherwise it is one of the accounts
\* or a selection is under way.
SelectionInv ==
    /\ accounts \subseteq Accts
    /\ \A s \in selecting : s[1] \in accounts
    /\ removing # NoAcct => removing \notin accounts /\ selected \in accounts \cup {removing}
    /\ removing = NoAcct => \/ selected \in accounts \/ selecting # {}
                            \/ accounts = {} /\ selected = NoAcct

LEMMA NextSelectionInv ==
    ASSUME AccountsEnvironment = {}, SelectionInv, [AccountsNext]_accountsVars
    PROVE  SelectionInv'
  <1> USE NoAcctAssumption
  <1>1. CASE UNCHANGED selectVars
    BY <1>1 DEF selectVars, SelectionInv
  <1>2. ASSUME NEW a \in Accts, AddAccount(a) PROVE SelectionInv'
    <2>1. accounts' = accounts \cup {a} /\ selecting' = selecting \cup {<<a, "code">>}
          /\ removing = NoAcct /\ removing' = NoAcct
      BY <1>2 DEF AddAccount
    <2>2. <<a, "code">>[1] = a
      OBVIOUS
    <2> QED  BY <2>1, <2>2 DEF SelectionInv
  <1>3. ASSUME NEW a \in Accts, SelectAccount(a) PROVE SelectionInv'
    <2>1. a \in accounts /\ selecting' = selecting \cup {<<a, "user">>}
          /\ UNCHANGED <<accounts, selected, removing>>
      BY <1>3 DEF SelectAccount
    <2>2. <<a, "user">>[1] = a
      OBVIOUS
    <2> QED  BY <2>1, <2>2 DEF SelectionInv
  <1>4. ASSUME NEW a \in Accts, NEW by \in {"user", "code"}, EndSelect(a, by)
         PROVE SelectionInv'
    <2>1. <<a, by>> \in selecting /\ selecting' \subseteq selecting
          /\ selected' = a /\ removing' \in {NoAcct, removing} /\ accounts' = accounts
      BY <1>4 DEF EndSelect
    <2>2. <<a, by>>[1] = a
      OBVIOUS
    <2>3. a \in accounts
      BY <2>1, <2>2 DEF SelectionInv
    <2> QED  BY <2>1, <2>3 DEF SelectionInv
  <1>5. ASSUME NEW a \in Accts, RemoveAccount(a) PROVE SelectionInv'
    <2>1. a \in accounts /\ removing = NoAcct /\ selecting = {}
          /\ accounts' = accounts \ {a} /\ removing' = a /\ UNCHANGED <<selected, selecting>>
      BY <1>5 DEF RemoveAccount, MayRemove
    <2>2. selected \in accounts
      BY <2>1 DEF SelectionInv
    <2> QED  BY <2>1, <2>2 DEF SelectionInv
  <1>6. CASE EndRemove
    <2>1. removing # NoAcct /\ accounts' = accounts
      BY <1>6 DEF EndRemove
    <2>2. CASE selected # removing
      <3>1. removing' = NoAcct /\ UNCHANGED <<selected, selecting>>
        BY <1>6, <2>2 DEF EndRemove
      <3> QED  BY <2>1, <2>2, <3>1 DEF SelectionInv
    <2>3. CASE selected = removing /\ accounts = {}
      <3>1. removing' = NoAcct /\ selected' = NoAcct /\ selecting' = selecting
        BY <1>6, <2>3 DEF EndRemove
      <3> QED  BY <2>1, <2>3, <3>1 DEF SelectionInv
    <2>4. CASE selected = removing /\ accounts # {}
      <3>1. PICK a \in accounts : selecting' = selecting \cup {<<a, "code">>}
        BY <1>6, <2>4 DEF EndRemove
      <3>2. UNCHANGED <<selected, removing>>
        BY <1>6, <2>4 DEF EndRemove
      <3>3. <<a, "code">>[1] = a
        OBVIOUS
      <3> QED  BY <2>1, <3>1, <3>2, <3>3 DEF SelectionInv
    <2> QED  BY <2>2, <2>3, <2>4
  <1> QED
    BY <1>1, <1>2, <1>3, <1>4, <1>5, <1>6
       DEF AccountsNext, LatestTick, FastTick, FastStops, OpenWallet, ForceFetch, FetchAnswered,
           FetchFailed, ProviderUp, NewBlock, accountsVars

\* When nothing is under way an account is selected if there are any, for any
\* accounts and networks, if an account is not removed while the selection of
\* a new one is under way (removeAccount, selectAccount).
THEOREM SelectedExistsHolds ==
    ASSUME AccountsEnvironment = {} PROVE AccountsSpec => []SelectedExists
  <1>1. AccountsInit => SelectionInv
    BY DEF AccountsInit, SelectionInv
  <1>2. SelectionInv /\ [AccountsNext]_accountsVars => SelectionInv'
    BY NextSelectionInv
  <1>3. SelectionInv => SelectedExists
    BY NoAcctAssumption DEF SelectionInv, SelectedExists
  <1> QED  BY <1>1, <1>2, <1>3, PTL DEF AccountsSpec

\* The variables of Accounts have their types, and every network its fetch.
FetchInv == AccountsTypeOK /\ DOMAIN fetch = Chains

\* The fetches there may be on a network.
FetchesOfAccounts ==
    {NoFetch} \cup [accts : (SUBSET Accts) \ {{}}, tag : Tags, begun : Blocks]

LEMMA FetchTyped ==
    FetchInv => \A c \in Chains : fetch[c] \in FetchesOfAccounts
  BY DEF FetchInv, AccountsTypeOK, FetchesOfAccounts

\* The types of what a call of updateAccountStates changes.
LEMMA UpdateStatesTyped ==
    ASSUME FetchInv, NEW kind \in Kinds, NEW accts \in (SUBSET Accts) \ {{}}, NEW tag \in Tags,
           NEW chains \in SUBSET Chains, UpdateStates(kind, accts, tag, chains)
    PROVE  /\ DOMAIN fetch' = Chains /\ \A c \in Chains : fetch'[c] \in FetchesOfAccounts
           /\ calls' \subseteq [kind : Kinds, accts : SUBSET Accts, chain : Chains]
           /\ UNCHANGED <<states, failed>>
  <1>1. fetch' = [c \in Chains |->
          IF c \in chains /\ fetch[c] = NoFetch
          THEN [accts |-> accts, tag |-> tag, begun |-> head[c]] ELSE fetch[c]]
    BY DEF UpdateStates
  <1>2. ASSUME NEW c \in Chains
        PROVE  [accts |-> accts, tag |-> tag, begun |-> head[c]] \in FetchesOfAccounts
    <2>1. head[c] \in Blocks
      BY DEF FetchInv, AccountsTypeOK
    <2> QED  BY <2>1 DEF FetchesOfAccounts
  <1>3. \A c \in Chains : fetch'[c] \in FetchesOfAccounts
    BY <1>1, <1>2, FetchTyped
  <1>4. calls' = calls \cup {[kind |-> kind, accts |-> accts, chain |-> c] : c \in chains}
    BY DEF UpdateStates
  <1>5. calls' \subseteq [kind : Kinds, accts : SUBSET Accts, chain : Chains]
    BY <1>4 DEF FetchInv, AccountsTypeOK
  <1> QED  BY <1>1, <1>3, <1>5 DEF UpdateStates

\* What the types of fetch and calls come to in the next state.
LEMMA FetchInvFrom ==
    ASSUME DOMAIN fetch' = Chains, \A c \in Chains : fetch'[c] \in FetchesOfAccounts,
           calls' \subseteq [kind : Kinds, accts : SUBSET Accts, chain : Chains],
           FetchInv, UNCHANGED <<states, failed, retryVars, headVars>>,
           UNCHANGED selectVars
             \/ /\ accounts' \subseteq Accts /\ selected' \in Accts \cup {NoAcct}
                /\ removing' \in Accts \cup {NoAcct} /\ selecting' \subseteq Accts \X {"user", "code"}
    PROVE  FetchInv'
  <1>1. /\ accounts' \subseteq Accts /\ selected' \in Accts \cup {NoAcct}
        /\ removing' \in Accts \cup {NoAcct} /\ selecting' \subseteq Accts \X {"user", "code"}
    BY DEF FetchInv, AccountsTypeOK, selectVars
  <1>2. \A c \in Chains : fetch'[c] = NoFetch
          \/ fetch'[c] \in [accts : (SUBSET Accts) \ {{}}, tag : Tags, begun : Blocks]
    BY DEF FetchesOfAccounts
  <1> QED  BY <1>1, <1>2 DEF FetchInv, AccountsTypeOK, retryVars, headVars

\* The tries of a network are FAST_RETRIES at most.
LEMMA CountTriesTyped ==
    ASSUME FetchInv, CountTries PROVE retries' \in [Chains -> 0..FAST_RETRIES]
  <1> DEFINE tried == {call.chain : call \in {k \in calls : k.kind = "fast"}}
             over == tried # {} /\ \A call \in calls' : call.kind # "fast"
             left == {k.chain : k \in calls'}
  <1>1. retries' = [c \in Chains |->
          IF c \notin failed' /\ over THEN 0
          ELSE IF c \in tried \ left /\ retries[c] < FAST_RETRIES
               THEN retries[c] + 1 ELSE retries[c]]
    BY DEF CountTries
  <1>2. \A c \in Chains : retries[c] \in 0..FAST_RETRIES
    BY DEF FetchInv, AccountsTypeOK
  <1> HIDE DEF tried, over, left
  <1>3. ASSUME NEW c \in Chains PROVE retries'[c] \in 0..FAST_RETRIES
    <2>1. retries'[c] \in {0, retries[c]} \/ (retries[c] < FAST_RETRIES /\ retries'[c] = retries[c] + 1)
      BY <1>1
    <2> QED  BY <1>2, <2>1, AccountsBoundsAssumption
  <1> QED  BY <1>1, <1>3

\* The types after a fetch is over.
LEMMA FetchOverTyped ==
    ASSUME FetchInv, NEW c \in Chains, NEW isWorking, Resume(c), Working(c, isWorking), CountTries,
           states' \in [Accts -> [Chains -> Blocks \cup {NoState}]],
           UNCHANGED <<selectVars, headVars>>
    PROVE  FetchInv'
  <1>1. DOMAIN fetch' = Chains /\ \A d \in Chains : fetch'[d] \in {NoFetch, fetch[d]}
    BY DEF Resume, FetchInv
  <1>2. \A d \in Chains : fetch'[d] = NoFetch
          \/ fetch'[d] \in [accts : (SUBSET Accts) \ {{}}, tag : Tags, begun : Blocks]
    BY <1>1 DEF FetchInv, AccountsTypeOK
  <1>3. calls' \subseteq calls
    BY DEF Resume
  <1>4. failed' \subseteq Chains
    BY DEF Working, FetchInv, AccountsTypeOK
  <1>5. fast' \in BOOLEAN
    <2>1. fast' = (fast \/ failed' # failed)
      BY DEF Working
    <2> QED  BY <2>1
  <1>6. retries' \in [Chains -> 0..FAST_RETRIES]
    BY CountTriesTyped
  <1> QED
    BY <1>1, <1>2, <1>3, <1>4, <1>5, <1>6 DEF FetchInv, AccountsTypeOK, selectVars, headVars

\* The answer of a provider is of a block there is.
LEMMA TakenTyped ==
    ASSUME FetchInv, NEW c \in Chains, FetchAnswered(c)
    PROVE  states' \in [Accts -> [Chains -> Blocks \cup {NoState}]]
  <1>1. fetch[c] # NoFetch
    BY DEF FetchAnswered
  <1>2. fetch[c] \in [accts : (SUBSET Accts) \ {{}}, tag : Tags, begun : Blocks]
    BY <1>1 DEF FetchInv, AccountsTypeOK
  <1>3. fetch[c].begun \in Nat /\ head[c] \in Nat /\ head[c] <= MAX_BLOCK
    BY <1>2, AccountsBoundsAssumption DEF FetchInv, AccountsTypeOK, Blocks
  <1>4. PICK b \in fetch[c].begun..head[c] \cup
                     (IF fetch[c].tag = "pending" /\ fetch[c].begun > 0
                      THEN {fetch[c].begun - 1} ELSE {}) : states' = Taken(c, b)
    BY DEF FetchAnswered
  <1>5. b \in Blocks
    <2>1. fetch[c].begun <= MAX_BLOCK
      BY <1>2, AccountsBoundsAssumption DEF Blocks
    <2>2. b \in fetch[c].begun..head[c] \/ (fetch[c].begun > 0 /\ b = fetch[c].begun - 1)
      BY <1>4
    <2> QED  BY <1>3, <2>1, <2>2, AccountsBoundsAssumption DEF Blocks
  <1>6. ASSUME NEW a \in Accts
        PROVE  Newer(states[a][c], b) \in Blocks \cup {NoState}
    BY <1>5 DEF Newer, FetchInv, AccountsTypeOK
  <1>7. ASSUME NEW a \in Accts, NEW s \in Blocks \cup {NoState}
        PROVE  [states[a] EXCEPT ![c] = s] \in [Chains -> Blocks \cup {NoState}]
    BY <1>7 DEF FetchInv, AccountsTypeOK
  <1>8. ASSUME NEW a \in Accts
        PROVE  (IF a \notin fetch[c].accts THEN states[a]
                ELSE [states[a] EXCEPT ![c] =
                       IF fetch[c].tag = "pending" THEN Newer(states[a][c], b) ELSE b])
                 \in [Chains -> Blocks \cup {NoState}]
    <2> DEFINE s == IF fetch[c].tag = "pending" THEN Newer(states[a][c], b) ELSE b
    <2>1. s \in Blocks \cup {NoState}
      BY <1>5, <1>6
    <2>2. [states[a] EXCEPT ![c] = s] \in [Chains -> Blocks \cup {NoState}]
      BY <1>7, <2>1
    <2>3. states[a] \in [Chains -> Blocks \cup {NoState}]
      BY DEF FetchInv, AccountsTypeOK
    <2> QED  BY <2>2, <2>3
  <1> QED  BY <1>4, <1>8 DEF Taken

LEMMA NextFetchInv == FetchInv /\ [AccountsNext]_accountsVars => FetchInv'
  <1> SUFFICES ASSUME FetchInv, [AccountsNext]_accountsVars PROVE FetchInv'
    OBVIOUS
  <1>1. accounts \subseteq Accts /\ selecting \subseteq Accts \X {"user", "code"}
        /\ selected \in Accts \cup {NoAcct} /\ removing \in Accts \cup {NoAcct}
    BY DEF FetchInv, AccountsTypeOK
  <1>0. {"interval", "fast", "other"} \subseteq Kinds /\ {"latest", "pending"} \subseteq Tags
    BY DEF Kinds, Tags
  <1>2. CASE LatestTick
    <2>1. UpdateStates("interval", {selected}, "latest", Chains \ failed)
          /\ UNCHANGED <<retryVars, selectVars, headVars>> /\ selected \in Accts
      BY <1>1, <1>2 DEF LatestTick
    <2>2. /\ DOMAIN fetch' = Chains /\ \A c \in Chains : fetch'[c] \in FetchesOfAccounts
          /\ calls' \subseteq [kind : Kinds, accts : SUBSET Accts, chain : Chains]
          /\ UNCHANGED <<states, failed>>
      <3>1. {selected} \in (SUBSET Accts) \ {{}} /\ Chains \ failed \in SUBSET Chains
        BY <2>1
      <3> QED  BY <1>0, <2>1, <3>1, UpdateStatesTyped
    <2> QED  BY <2>1, <2>2, FetchInvFrom
  <1>3. CASE FastTick
    <2>1. UpdateStates("fast", {selected}, "latest", ToRetry)
          /\ UNCHANGED <<retryVars, selectVars, headVars>> /\ selected \in Accts
      BY <1>1, <1>3 DEF FastTick
    <2>2. ToRetry \subseteq Chains
      BY DEF ToRetry, FetchInv, AccountsTypeOK
    <2>3. /\ DOMAIN fetch' = Chains /\ \A c \in Chains : fetch'[c] \in FetchesOfAccounts
          /\ calls' \subseteq [kind : Kinds, accts : SUBSET Accts, chain : Chains]
          /\ UNCHANGED <<states, failed>>
      <3>1. {selected} \in (SUBSET Accts) \ {{}}
        BY <2>1
      <3> QED  BY <1>0, <2>1, <2>2, <3>1, UpdateStatesTyped
    <2> QED  BY <2>1, <2>3, FetchInvFrom
  <1>4. CASE FastStops \/ OpenWallet
    <2>1. /\ fast' \in BOOLEAN /\ retries' \in {retries, [c \in Chains |-> 0]}
          /\ UNCHANGED <<stateVars, selectVars, headVars>>
      BY <1>4 DEF FastStops, OpenWallet
    <2>2. retries' \in [Chains -> 0..FAST_RETRIES]
      BY <2>1, AccountsBoundsAssumption DEF FetchInv, AccountsTypeOK
    <2> QED  BY <2>1, <2>2 DEF FetchInv, AccountsTypeOK, stateVars, selectVars, headVars
  <1>5. ASSUME NEW c \in Chains, ForceFetch(c) PROVE FetchInv'
    <2>1. UpdateStates("other", {selected}, "pending", {c})
          /\ UNCHANGED <<retryVars, selectVars, headVars>> /\ selected \in Accts
      BY <1>1, <1>5 DEF ForceFetch
    <2>2. /\ DOMAIN fetch' = Chains /\ \A d \in Chains : fetch'[d] \in FetchesOfAccounts
          /\ calls' \subseteq [kind : Kinds, accts : SUBSET Accts, chain : Chains]
          /\ UNCHANGED <<states, failed>>
      <3>1. {selected} \in (SUBSET Accts) \ {{}} /\ {c} \in SUBSET Chains
        BY <2>1
      <3> QED  BY <1>0, <2>1, <3>1, UpdateStatesTyped
    <2> QED  BY <2>1, <2>2, FetchInvFrom
  <1>6. ASSUME NEW c \in Chains, FetchAnswered(c) PROVE FetchInv'
    BY <1>6, TakenTyped, FetchOverTyped DEF FetchAnswered
  <1>7. ASSUME NEW c \in Chains, FetchFailed(c) PROVE FetchInv'
    <2>1. states' \in [Accts -> [Chains -> Blocks \cup {NoState}]]
      BY <1>7 DEF FetchFailed, FetchInv, AccountsTypeOK
    <2> QED  BY <1>7, <2>1, FetchOverTyped DEF FetchFailed
  <1>8. ASSUME NEW c \in Chains, NEW isUp \in BOOLEAN, NewBlock(c, isUp) \/ ProviderUp(c)
        PROVE  FetchInv'
    <2>1. /\ up' \in {[up EXCEPT ![c] = isUp], [up EXCEPT ![c] = TRUE]}
          /\ head' = head \/ (head[c] < MAX_BLOCK /\ head' = [head EXCEPT ![c] = head[c] + 1])
          /\ UNCHANGED <<stateVars, retryVars, selectVars>>
      BY <1>8 DEF NewBlock, ProviderUp
    <2>2. head' \in [Chains -> Blocks]
      <3>1. head \in [Chains -> Blocks] /\ head[c] \in Blocks
        BY DEF FetchInv, AccountsTypeOK
      <3>2. head[c] < MAX_BLOCK => head[c] + 1 \in Blocks
        BY <3>1, AccountsBoundsAssumption DEF Blocks
      <3> QED  BY <2>1, <3>1, <3>2
    <2>3. up' \in [Chains -> BOOLEAN]
      BY <2>1 DEF FetchInv, AccountsTypeOK
    <2> QED  BY <2>1, <2>2, <2>3 DEF FetchInv, AccountsTypeOK, stateVars, retryVars, selectVars
  <1>9. ASSUME NEW a \in Accts, AddAccount(a) PROVE FetchInv'
    <2>1. /\ UpdateStates("other", {a}, "latest", Chains)
          /\ accounts' = accounts \cup {a} /\ selecting' = selecting \cup {<<a, "code">>}
          /\ UNCHANGED <<selected, removing, retryVars, headVars>>
      BY <1>9 DEF AddAccount
    <2>2. accounts' \subseteq Accts /\ selecting' \subseteq Accts \X {"user", "code"}
      BY <1>1, <2>1
    <2>3. /\ DOMAIN fetch' = Chains /\ \A c \in Chains : fetch'[c] \in FetchesOfAccounts
          /\ calls' \subseteq [kind : Kinds, accts : SUBSET Accts, chain : Chains]
          /\ UNCHANGED <<states, failed>>
      <3>1. {a} \in (SUBSET Accts) \ {{}}
        OBVIOUS
      <3> QED  BY <1>0, <2>1, <3>1, UpdateStatesTyped
    <2> QED  BY <1>1, <2>1, <2>2, <2>3, FetchInvFrom
  <1>10. ASSUME NEW a \in Accts, NEW by \in {"user", "code"}, EndSelect(a, by) PROVE FetchInv'
    <2>1. /\ selecting' \subseteq selecting /\ selected' = a /\ removing' \in {NoAcct, removing}
          /\ UNCHANGED <<accounts, retryVars, headVars>>
      BY <1>10 DEF EndSelect
    <2>2. /\ DOMAIN fetch' = Chains /\ \A c \in Chains : fetch'[c] \in FetchesOfAccounts
          /\ calls' \subseteq [kind : Kinds, accts : SUBSET Accts, chain : Chains]
          /\ UNCHANGED <<states, failed>>
      <3>1. CASE UpdateStates("other", {a}, "pending", Chains)
        <4>1. {a} \in (SUBSET Accts) \ {{}}
          OBVIOUS
        <4> QED  BY <1>0, <3>1, <4>1, UpdateStatesTyped
      <3>2. CASE UNCHANGED stateVars
        BY <3>2, FetchTyped DEF stateVars, FetchInv, AccountsTypeOK
      <3> QED  BY <1>10, <3>1, <3>2 DEF EndSelect
    <2> QED  BY <1>1, <2>1, <2>2, FetchInvFrom
  <1>11. ASSUME NEW a \in Accts, SelectAccount(a) \/ RemoveAccount(a) PROVE FetchInv'
    <2>1. /\ accounts' \subseteq accounts /\ removing' \in {a, removing}
          /\ selecting' \in {selecting, selecting \cup {<<a, "user">>}}
          /\ states' \in {states, [states EXCEPT ![a] = [c \in Chains |-> NoState]]}
          /\ UNCHANGED <<selected, fetch, calls, failed, retryVars, headVars>>
      BY <1>11 DEF SelectAccount, RemoveAccount, stateVars
    <2>2. states' \in [Accts -> [Chains -> Blocks \cup {NoState}]]
      BY <2>1 DEF FetchInv, AccountsTypeOK
    <2>3. selecting' \subseteq Accts \X {"user", "code"}
      BY <1>1, <2>1
    <2> QED  BY <1>1, <2>1, <2>2, <2>3 DEF FetchInv, AccountsTypeOK, retryVars, headVars
  <1>12. CASE EndRemove
    <2>1. /\ removing' \in {NoAcct, removing} /\ selected' \in {NoAcct, selected}
          /\ selecting' = selecting \/ \E a \in accounts : selecting' = selecting \cup {<<a, "code">>}
          /\ UNCHANGED <<accounts, stateVars, retryVars, headVars>>
      BY <1>12 DEF EndRemove
    <2>2. selecting' \subseteq Accts \X {"user", "code"}
      BY <1>1, <2>1
    <2> QED  BY <1>1, <2>1, <2>2 DEF FetchInv, AccountsTypeOK, stateVars, retryVars, headVars
  <1>13. CASE UNCHANGED accountsVars
    BY <1>13 DEF accountsVars, stateVars, retryVars, selectVars, headVars, FetchInv, AccountsTypeOK
  <1> QED
    BY <1>2, <1>3, <1>4, <1>5, <1>6, <1>7, <1>8, <1>9, <1>10, <1>11, <1>12, <1>13
       DEF AccountsNext

\* The variables have their types, for any accounts, networks, bounds and
\* Environment: the block of a fetched state is one of its chain, and no network
\* is tried more often than the fast interval may.
THEOREM AccountsTypeCorrect == AccountsSpec => []AccountsTypeOK
  <1>1. ASSUME AccountsInit PROVE FetchInv
    <2>1. 0 \in Blocks /\ 0 \in 0..FAST_RETRIES
      BY AccountsBoundsAssumption DEF Blocks
    <2>2. /\ states \in [Accts -> [Chains -> Blocks \cup {NoState}]]
          /\ retries \in [Chains -> 0..FAST_RETRIES]
          /\ head \in [Chains -> Blocks] /\ up \in [Chains -> BOOLEAN]
      BY <1>1, <2>1 DEF AccountsInit
    <2>3. DOMAIN fetch = Chains /\ \A c \in Chains : fetch[c] = NoFetch
      BY <1>1 DEF AccountsInit
    <2> QED  BY <1>1, <2>2, <2>3 DEF AccountsInit, FetchInv, AccountsTypeOK
  <1>2. FetchInv /\ [AccountsNext]_accountsVars => FetchInv'
    BY NextFetchInv
  <1>3. FetchInv => AccountsTypeOK
    BY DEF FetchInv
  <1> QED  BY <1>1, <1>2, <1>3, PTL DEF AccountsSpec

-----------------------------------------------------------------------------
(* The portfolio's queue.                                                  *)

Jobs == {job \in [kind : {"update", "refresh", "discard", "override"}, op : OpOrNone] :
           job.kind = "refresh" => job.op = NoOp}
Lives == {"none", "open", "rejected", "broadcast", "mined", "final"}

\* A job that sets the simulation, whatever it was.
Sets(job) == job.kind = "override" \/ (job.kind = "update" /\ job.op # NoOp)

\* The simulation asked for last is the last one the queue sets, or it is
\* there and the queue sets none.
LastSet ==
    \/ \E i \in DOMAIN queue : /\ queue[i] = Update(latest)
                               /\ \A k \in DOMAIN queue : k > i => ~Sets(queue[k])
    \/ /\ \A k \in DOMAIN queue : ~Sets(queue[k])
       /\ simulated = latest
LatestInv == latest # NoOp => LastSet

\* What runs is the first job, with the operation it had when it began.
RunningInv ==
    running # Idle =>
        /\ queue # <<>> /\ Head(queue) # Override
        /\ running.op = ToSimulate(Head(queue))
        /\ Head(queue).kind = "discard" => simulated = Head(queue).op /\ latest # Head(queue).op

\* Operations are discarded once they have their outcome.
DiscardInv ==
    \A i \in DOMAIN queue : queue[i].kind = "discard" =>
        queue[i].op \in SimOps /\ life[queue[i].op] = "final"

PortfolioInv ==
    /\ queue \in Seq(Jobs) /\ life \in [SimOps -> Lives]
    /\ LatestInv /\ RunningInv /\ DiscardInv

LEMMA KindsOfJobs ==
    /\ \A o \in OpOrNone : Update(o) \in Jobs /\ Discard(o) \in Jobs
    /\ Refresh \in Jobs /\ Override \in Jobs
    /\ \A o \in SimOps : o \in OpOrNone /\ o # NoOp
    /\ NoOp \in OpOrNone
  BY SimOpsAssumption DEF Jobs, OpOrNone, Update, Discard, Refresh, Override, NoOp

\* A job at the end of the queue.
LEMMA Appended ==
    ASSUME queue \in Seq(Jobs), NEW job \in Jobs, queue' = Append(queue, job)
    PROVE  /\ queue' \in Seq(Jobs) /\ queue' # <<>>
           /\ DOMAIN queue = 1..Len(queue) /\ DOMAIN queue' = 1..(Len(queue) + 1)
           /\ Len(queue) \in Nat
           /\ \A i \in DOMAIN queue : queue'[i] = queue[i]
           /\ queue'[Len(queue) + 1] = job
           /\ queue # <<>> => Head(queue') = Head(queue)
  OBVIOUS

LEMMA AppendedLatest ==
    ASSUME queue \in Seq(Jobs), LatestInv, NEW job \in Jobs, queue' = Append(queue, job),
           ~Sets(job), UNCHANGED <<latest, simulated>>
    PROVE  LatestInv'
  <1> SUFFICES ASSUME latest # NoOp PROVE LastSet'
    BY DEF LatestInv
  <1>1. /\ DOMAIN queue = 1..Len(queue) /\ DOMAIN queue' = 1..(Len(queue) + 1)
        /\ \A i \in DOMAIN queue : queue'[i] = queue[i]
        /\ queue'[Len(queue) + 1] = job /\ Len(queue) \in Nat
    BY Appended
  <1>2. \A k \in DOMAIN queue' : k \in DOMAIN queue \/ queue'[k] = job
    BY <1>1
  <1>3. CASE \A k \in DOMAIN queue : ~Sets(queue[k])
    <2>1. CASE simulated = latest
      BY <1>1, <1>2, <1>3, <2>1 DEF LastSet
    <2>2. CASE simulated # latest
      BY <2>2, <1>1, <1>2, <1>3 DEF LatestInv, LastSet
    <2> QED  BY <2>1, <2>2
  <1>4. ASSUME NEW i \in DOMAIN queue, queue[i] = Update(latest),
               \A k \in DOMAIN queue : k > i => ~Sets(queue[k])
        PROVE  LastSet'
    <2>1. queue'[i] = Update(latest)' /\ i \in DOMAIN queue'
      BY <1>1, <1>4 DEF Update
    <2>2. \A k \in DOMAIN queue' : k > i => ~Sets(queue'[k])
      BY <1>1, <1>2, <1>4
    <2> QED  BY <2>1, <2>2 DEF LastSet
  <1> QED  BY <1>3, <1>4 DEF LatestInv, LastSet

LEMMA AppendedRest ==
    ASSUME PortfolioInv, NEW job \in Jobs, queue' = Append(queue, job),
           UNCHANGED <<running, simulated>>,
           life' \in [SimOps -> Lives],
               \A o \in SimOps : life[o] = "final" => life'[o] = "final",
           job.kind = "discard" => job.op \in SimOps /\ life'[job.op] = "final",
           latest' \notin {latest, NoOp} => latest' \in SimOps /\ life[latest'] # "final"
    PROVE  queue' \in Seq(Jobs) /\ RunningInv' /\ DiscardInv'
  <1>1. /\ queue' \in Seq(Jobs) /\ queue' # <<>>
        /\ DOMAIN queue = 1..Len(queue) /\ DOMAIN queue' = 1..(Len(queue) + 1)
        /\ \A i \in DOMAIN queue : queue'[i] = queue[i]
        /\ queue'[Len(queue) + 1] = job /\ Len(queue) \in Nat
        /\ queue # <<>> => Head(queue') = Head(queue)
    BY Appended DEF PortfolioInv
  <1>2. DiscardInv'
    BY <1>1 DEF PortfolioInv, DiscardInv
  <1>3. RunningInv'
    <2> SUFFICES ASSUME running # Idle
                 PROVE  /\ Head(queue') # Override
                        /\ running.op = ToSimulate(Head(queue))'
                        /\ Head(queue').kind = "discard" =>
                             simulated = Head(queue').op /\ latest' # Head(queue').op
      <3>1. running' = running /\ simulated' = simulated
        OBVIOUS
      <3> QED  BY <1>1, <3>1 DEF RunningInv, Idle, Override
    <2>1. /\ queue # <<>> /\ Head(queue) # Override
          /\ running.op = ToSimulate(Head(queue))
          /\ Head(queue).kind = "discard" => simulated = Head(queue).op /\
              latest # Head(queue).op
      BY DEF PortfolioInv, RunningInv
    <2>2. Head(queue') = Head(queue)
      BY <1>1, <2>1
    <2>3. running.op = ToSimulate(Head(queue))'
      <3>1. simulated' = simulated
        OBVIOUS
      <3> QED  BY <2>1, <2>2, <3>1 DEF ToSimulate
    <2>4. ASSUME Head(queue).kind = "discard" PROVE latest' # Head(queue).op
      <3>1. Head(queue) = queue[1] /\ 1 \in DOMAIN queue
        BY <2>1 DEF PortfolioInv
      <3>2. Head(queue).op \in SimOps /\ life[Head(queue).op] = "final"
        BY <3>1, <2>4 DEF PortfolioInv, DiscardInv
      <3> QED  BY <2>1, <2>4, <3>2, KindsOfJobs
    <2> QED  BY <2>1, <2>2, <2>3, <2>4
  <1> QED  BY <1>1, <1>2, <1>3

\* The first job leaves: it set the simulation asked for last, or another one
\* does, or nothing changes.
LEMMA Dequeued ==
    ASSUME queue \in Seq(Jobs), queue # <<>>, LatestInv, queue' = Tail(queue), latest' = latest,
           latest # NoOp =>
               IF Head(queue) = Update(latest) THEN simulated' = latest
               ELSE \/ simulated' = simulated \/ simulated # latest \/ Sets(Head(queue))
    PROVE  LatestInv'
  <1> SUFFICES ASSUME latest # NoOp PROVE LastSet'
    BY DEF LatestInv
  <1>1. /\ DOMAIN queue = 1..Len(queue) /\ DOMAIN queue' = 1..(Len(queue) - 1)
        /\ Len(queue) \in Nat \ {0} /\ Head(queue) = queue[1]
        /\ \A i \in 1..(Len(queue) - 1) : queue'[i] = queue[i + 1]
    OBVIOUS
  <1>2. ASSUME NEW i \in DOMAIN queue, queue[i] = Update(latest),
               \A k \in DOMAIN queue : k > i => ~Sets(queue[k])
        PROVE  LastSet'
    <2>1. CASE i = 1
      <3>1. simulated' = latest
        BY <1>1, <1>2, <2>1
      <3>2. \A k \in DOMAIN queue' : ~Sets(queue'[k])
        BY <1>1, <1>2, <2>1
      <3> QED  BY <3>1, <3>2 DEF LastSet
    <2>2. CASE i # 1
      <3>1. i - 1 \in DOMAIN queue' /\ queue'[i - 1] = Update(latest)'
        BY <1>1, <1>2, <2>2 DEF Update
      <3>2. \A k \in DOMAIN queue' : k > i - 1 => ~Sets(queue'[k])
        BY <1>1, <1>2
      <3> QED  BY <3>1, <3>2 DEF LastSet
    <2> QED  BY <2>1, <2>2
  <1>3. ASSUME \A k \in DOMAIN queue : ~Sets(queue[k]), simulated = latest
        PROVE  LastSet'
    <2>1. ~Sets(Head(queue)) /\ Head(queue) # Update(latest)
      BY <1>1, <1>3 DEF Sets, Update
    <2>2. simulated' = latest
      BY <1>3, <2>1
    <2>3. \A k \in DOMAIN queue' : ~Sets(queue'[k])
      BY <1>1, <1>3
    <2> QED  BY <2>2, <2>3 DEF LastSet
  <1> QED  BY <1>2, <1>3 DEF LatestInv, LastSet

LEMMA DequeuedDiscards ==
    ASSUME queue \in Seq(Jobs), queue # <<>>, DiscardInv, queue' = Tail(queue), life' = life
    PROVE  queue' \in Seq(Jobs) /\ DiscardInv'
  <1>1. /\ DOMAIN queue = 1..Len(queue) /\ DOMAIN queue' = 1..(Len(queue) - 1)
        /\ Len(queue) \in Nat \ {0}
        /\ \A i \in 1..(Len(queue) - 1) : queue'[i] = queue[i + 1]
    OBVIOUS
  <1> QED  BY <1>1 DEF DiscardInv

\* The update that ran had read what it simulates when it began.
LEMMA UpdateOver ==
    ASSUME PortfolioInv, running # Idle, running' = Idle, simulated' = running.op,
           queue' = Tail(queue), UNCHANGED <<life, latest>>
    PROVE  PortfolioInv'
  <1>1. /\ queue # <<>> /\ Head(queue) # Override
        /\ running.op = ToSimulate(Head(queue))
        /\ Head(queue).kind = "discard" => simulated = Head(queue).op /\ latest # Head(queue).op
    BY DEF PortfolioInv, RunningInv
  <1>2. ASSUME latest # NoOp
        PROVE  IF Head(queue) = Update(latest) THEN simulated' = latest
               ELSE \/ simulated' = simulated \/ simulated # latest \/ Sets(Head(queue))
    <2>1. CASE Head(queue).kind = "discard"
      BY <1>1, <2>1 DEF Update
    <2>2. CASE Head(queue).kind # "discard" /\ Head(queue).op = NoOp
      BY <1>1, <1>2, <2>2 DEF Update, ToSimulate
    <2>3. CASE Head(queue).kind # "discard" /\ Head(queue).op # NoOp
      <3>1. simulated' = Head(queue).op
        BY <1>1, <2>3 DEF ToSimulate
      <3>2. CASE Head(queue).kind = "update"
        BY <2>3, <3>1, <3>2 DEF Update, Sets
      <3>3. CASE Head(queue).kind = "override"
        BY <3>3 DEF Update, Sets
      <3>4. CASE Head(queue).kind = "refresh"
        <4>1. Head(queue) \in Jobs
          BY <1>1 DEF PortfolioInv
        <4> QED  BY <2>3, <3>4, <4>1 DEF Jobs
      <3> QED  BY <1>1, <2>3, <3>2, <3>3, <3>4 DEF PortfolioInv, Jobs
    <2> QED  BY <2>1, <2>2, <2>3
  <1>3. LatestInv'
    BY <1>1, <1>2, Dequeued DEF PortfolioInv
  <1>4. RunningInv'
    BY DEF RunningInv
  <1> QED  BY <1>1, <1>3, <1>4, DequeuedDiscards DEF PortfolioInv

\* A step that only changes what became of operations.
LEMMA QueueKept ==
    ASSUME PortfolioInv, UNCHANGED <<queue, running, simulated, latest>>,
           life' \in [SimOps -> Lives],
               \A o \in SimOps : life[o] = "final" => life'[o] = "final"
    PROVE  PortfolioInv'
  <1>1. LatestInv' /\ RunningInv'
    BY DEF PortfolioInv, LatestInv, LastSet, RunningInv, ToSimulate
  <1>2. DiscardInv'
    BY DEF PortfolioInv, DiscardInv
  <1> QED  BY <1>1, <1>2 DEF PortfolioInv

\* An operation that was not final gets another stage of its life.
LEMMA LifeGoesOn ==
    ASSUME life \in [SimOps -> Lives], NEW o \in SimOps, NEW stage \in Lives,
           life[o] # "final", life' = [life EXCEPT ![o] = stage]
    PROVE  /\ life' \in [SimOps -> Lives] /\ life'[o] = stage
           /\ \A p \in SimOps : life[p] = "final" => life'[p] = "final"
  OBVIOUS

LEMMA SimulateInv ==
    ASSUME PortfolioInv, NEW o \in SimOps, Simulate(o)
    PROVE  PortfolioInv'
  <1>1. life[o] # "final" /\ life' = [life EXCEPT ![o] = "open"] /\
         UNCHANGED <<running, simulated>>
    BY DEF Simulate
  <1>2. /\ life' \in [SimOps -> Lives]
        /\ \A p \in SimOps : life[p] = "final" => life'[p] = "final"
    BY <1>1, LifeGoesOn DEF PortfolioInv, Lives
  <1>3. CASE o \in NoSimulation
    <2>1. queue' = Append(queue, Update(NoOp)) /\ latest' = latest
      BY <1>3 DEF Simulate
    <2>2. Update(NoOp) \in Jobs /\ ~Sets(Update(NoOp)) /\ Update(NoOp).kind # "discard"
      BY KindsOfJobs DEF Sets, Update
    <2>3. LatestInv'
      BY <1>1, <2>1, <2>2, AppendedLatest DEF PortfolioInv
    <2> QED  BY <1>1, <1>2, <2>1, <2>2, <2>3, AppendedRest DEF PortfolioInv
  <1>4. CASE o \notin NoSimulation
    <2>1. queue' = Append(queue, Update(o)) /\ latest' = o
      BY <1>4 DEF Simulate
    <2>2. Update(o) \in Jobs /\ Update(o).kind # "discard"
      BY KindsOfJobs DEF Update
    <2>3. LatestInv'
      <3>1. DOMAIN queue' = 1..(Len(queue) + 1) /\ queue'[Len(queue) + 1] = Update(o)
            /\ Len(queue) \in Nat
        BY <2>1, <2>2, Appended DEF PortfolioInv
      <3>2. Len(queue) + 1 \in DOMAIN queue'
        BY <3>1
      <3>3. \A k \in DOMAIN queue' : ~(k > Len(queue) + 1)
        BY <3>1
      <3>4. queue'[Len(queue) + 1] = Update(latest')
        BY <2>1, <3>1
      <3> QED  BY <3>2, <3>3, <3>4 DEF LatestInv, LastSet, Update
    <2> QED  BY <1>1, <1>2, <2>1, <2>2, <2>3, AppendedRest DEF PortfolioInv
  <1> QED  BY <1>3, <1>4

LEMMA RejectInv ==
    ASSUME PortfolioInv, NEW o \in SimOps, Reject(o)
    PROVE  PortfolioInv'
  <1>1. /\ life[o] # "final" /\ life' = [life EXCEPT ![o] = "rejected"]
        /\ UNCHANGED <<running, simulated>>
        /\ queue' = Append(queue, Override) /\ latest' = NoOp
    BY DEF Reject
  <1>2. /\ life' \in [SimOps -> Lives]
        /\ \A p \in SimOps : life[p] = "final" => life'[p] = "final"
    BY <1>1, LifeGoesOn DEF PortfolioInv, Lives
  <1>3. Override \in Jobs /\ Override.kind # "discard"
    BY KindsOfJobs DEF Override
  <1>4. LatestInv'
    BY <1>1 DEF LatestInv
  <1> QED  BY <1>1, <1>2, <1>3, <1>4, AppendedRest DEF PortfolioInv

\* An interval's update and a scheduled one.
LEMMA MereUpdateInv ==
    ASSUME PortfolioInv, NEW job \in {Refresh, Update(NoOp)}, queue' = Append(queue, job),
           UNCHANGED <<running, simulated, latest, life>>
    PROVE  PortfolioInv'
  <1>1. job \in Jobs /\ ~Sets(job) /\ job.kind # "discard"
    BY KindsOfJobs DEF Sets, Refresh, Update
  <1>2. LatestInv'
    BY <1>1, AppendedLatest DEF PortfolioInv
  <1>3. life' \in [SimOps -> Lives] /\ \A p \in SimOps : life[p] = "final" => life'[p] = "final"
    BY DEF PortfolioInv
  <1> QED  BY <1>1, <1>2, <1>3, AppendedRest DEF PortfolioInv

LEMMA FinalizeInv ==
    ASSUME PortfolioInv, NEW o \in SimOps, Finalize(o)
    PROVE  PortfolioInv'
  <1>1. /\ life[o] # "final" /\ life' = [life EXCEPT ![o] = "final"]
        /\ UNCHANGED <<running, simulated, latest>> /\ queue' = Append(queue, Discard(o))
    BY DEF Finalize
  <1>2. /\ life' \in [SimOps -> Lives] /\ life'[o] = "final"
        /\ \A p \in SimOps : life[p] = "final" => life'[p] = "final"
    BY <1>1, LifeGoesOn DEF PortfolioInv, Lives
  <1>3. Discard(o) \in Jobs /\ ~Sets(Discard(o)) /\ Discard(o).op = o
    BY KindsOfJobs DEF Sets, Discard
  <1>4. LatestInv'
    BY <1>1, <1>3, AppendedLatest DEF PortfolioInv
  <1> QED  BY <1>1, <1>2, <1>3, <1>4, AppendedRest DEF PortfolioInv

LEMMA EndsAtOnceInv ==
    ASSUME PortfolioInv, EndsAtOnce
    PROVE  PortfolioInv'
  <1>1. queue # <<>> /\ queue' = Tail(queue) /\ UNCHANGED <<life, latest, running>> /\
         running = Idle
    BY DEF EndsAtOnce
  <1>2. ASSUME latest # NoOp
        PROVE  IF Head(queue) = Update(latest) THEN simulated' = latest
               ELSE \/ simulated' = simulated \/ simulated # latest \/ Sets(Head(queue))
    BY DEF EndsAtOnce, Update, Refresh, Override, Sets
  <1>3. LatestInv'
    BY <1>1, <1>2, Dequeued DEF PortfolioInv
  <1>4. RunningInv'
    BY <1>1 DEF RunningInv
  <1> QED  BY <1>1, <1>3, <1>4, DequeuedDiscards DEF PortfolioInv

LEMMA BeginUpdateInv ==
    ASSUME PortfolioInv, BeginUpdate
    PROVE  PortfolioInv'
  <1>1. /\ queue # <<>> /\ Head(queue) # Override
        /\ Head(queue).kind = "discard" => simulated = Head(queue).op
        /\ running' = [on |-> TRUE, op |-> ToSimulate(Head(queue))]
        /\ latest' = IF Head(queue).kind = "discard" /\
            latest = Head(queue).op THEN NoOp ELSE latest
        /\ UNCHANGED <<queue, simulated, life>>
    BY DEF BeginUpdate
  <1>2. LatestInv'
    BY <1>1 DEF PortfolioInv, LatestInv, LastSet
  <1>3. Head(queue).kind = "discard" => Head(queue).op # NoOp
    <2>1. Head(queue) = queue[1] /\ 1 \in DOMAIN queue
      BY <1>1 DEF PortfolioInv
    <2> QED  BY <2>1, KindsOfJobs DEF PortfolioInv, DiscardInv
  <1>4. RunningInv'
    BY <1>1, <1>3 DEF RunningInv, ToSimulate
  <1> QED  BY <1>1, <1>2, <1>4 DEF PortfolioInv, DiscardInv

LEMMA NextPortfolioInv ==
    ASSUME PortfolioInv, [PortfolioNext]_portfolioVars
    PROVE  PortfolioInv'
  <1>1. ASSUME NEW o \in SimOps, Broadcast(o) PROVE PortfolioInv'
    BY <1>1, LifeGoesOn, QueueKept DEF Broadcast, PortfolioInv, Lives
  <1>2. ASSUME NEW o \in SimOps, MineOp(o) PROVE PortfolioInv'
    BY <1>2, LifeGoesOn, QueueKept DEF MineOp, PortfolioInv, Lives
  <1>3. CASE AskRefresh
    BY <1>3, MereUpdateInv DEF AskRefresh
  <1>4. CASE RunScheduled
    BY <1>4, MereUpdateInv DEF RunScheduled
  <1>5. CASE EndUpdate
    BY <1>5, UpdateOver DEF EndUpdate
  <1>6. CASE FailUpdate
    BY <1>6, UpdateOver DEF FailUpdate
  <1>7. CASE UNCHANGED portfolioVars
    BY <1>7, QueueKept DEF portfolioVars, PortfolioInv
  <1> QED
    BY <1>1, <1>2, <1>3, <1>4, <1>5, <1>6, <1>7, SimulateInv, RejectInv, FinalizeInv,
       EndsAtOnceInv, BeginUpdateInv DEF PortfolioNext

\* Once the queue is empty the portfolio shows the simulation asked for last,
\* for any operations and any length of the queue (#queue, simulateAccountOp,
\* overrideSimulationResults).
THEOREM LatestSimulationShownHolds == PortfolioSpec => []LatestSimulationShown
  <1>1. PortfolioInit => PortfolioInv
    BY DEF PortfolioInit, PortfolioInv, LatestInv, RunningInv, DiscardInv, Lives
  <1>2. PortfolioInv /\ [PortfolioNext]_portfolioVars => PortfolioInv'
    BY NextPortfolioInv
  <1>3. PortfolioInv => LatestSimulationShown
    BY DEF PortfolioInv, LatestInv, LastSet, LatestSimulationShown
  <1> QED  BY <1>1, <1>2, <1>3, PTL DEF PortfolioSpec

\* Only a scheduled update makes the queue longer than the other jobs may, and the
\* next one is scheduled when there is room.
LengthInv ==
    /\ Len(queue) <= MAX_JOBS \/ (Len(queue) = MAX_JOBS + 1 /\ ~scheduled)
    /\ running = Idle \/ (running \in [on : {TRUE}, op : OpOrNone] /\ queue # <<>>)
    /\ simulated \in OpOrNone /\ latest \in OpOrNone
    /\ shownBlock \in Heights /\ chainHead \in Heights
    /\ minedAt \in [SimOps -> Heights] /\ scheduled \in BOOLEAN /\ portfolioError \in BOOLEAN

LEMMA NextLengthInv ==
    ASSUME PortfolioInv, LengthInv, [PortfolioNext]_portfolioVars
    PROVE  LengthInv'
  <1>0. /\ queue \in Seq(Jobs) /\ Len(queue) \in Nat /\ MAX_JOBS \in Nat /\ MAX_HEAD \in Nat
    BY PortfolioBoundsAssumption DEF PortfolioInv
  <1>1. ASSUME NEW job \in Jobs, queue' = Append(queue, job)
        PROVE  Len(queue') = Len(queue) + 1 /\ queue' # <<>>
    BY <1>0, <1>1
  <1>2. ASSUME queue # <<>>, queue' = Tail(queue) PROVE Len(queue') = Len(queue) - 1
    BY <1>0, <1>2
  <1>3. ASSUME NEW o \in SimOps, Simulate(o) \/ Reject(o) PROVE LengthInv'
    <2>1. /\ Len(queue) < MAX_JOBS /\ latest' \in OpOrNone
          /\ UNCHANGED <<running, simulated, shownBlock, portfolioError, minedAt, scheduled, chainHead>>
      BY <1>3, KindsOfJobs DEF Simulate, Reject, Room, LengthInv
    <2>2. \E job \in Jobs : queue' = Append(queue, job)
      BY <1>3, KindsOfJobs DEF Simulate, Reject
    <2>3. Len(queue') <= MAX_JOBS /\ queue' # <<>>
      BY <1>0, <1>1, <2>1, <2>2
    <2> QED  BY <2>1, <2>3 DEF LengthInv
  <1>4. CASE AskRefresh
    <2>1. /\ Len(queue) < MAX_JOBS /\ queue' = Append(queue, Refresh)
          /\ UNCHANGED <<running, simulated, shownBlock, portfolioError, minedAt, latest, scheduled,
                         chainHead>>
      BY <1>4 DEF AskRefresh, Room
    <2>2. Len(queue') <= MAX_JOBS /\ queue' # <<>>
      BY <1>0, <1>1, <2>1, KindsOfJobs
    <2> QED  BY <2>1, <2>2 DEF LengthInv
  <1>5. ASSUME NEW o \in SimOps, Finalize(o) PROVE LengthInv'
    <2>1. /\ Len(queue) < MAX_JOBS /\ queue' = Append(queue, Discard(o)) /\ scheduled' = TRUE
          /\ UNCHANGED <<running, simulated, shownBlock, portfolioError, minedAt, latest, chainHead>>
      BY <1>5 DEF Finalize, Room
    <2>2. Len(queue') <= MAX_JOBS /\ queue' # <<>>
      BY <1>0, <1>1, <2>1, KindsOfJobs
    <2> QED  BY <2>1, <2>2 DEF LengthInv
  <1>6. CASE RunScheduled
    <2>1. /\ scheduled /\ scheduled' = FALSE /\ queue' = Append(queue, Update(NoOp))
          /\ UNCHANGED <<running, simulated, shownBlock, portfolioError, minedAt, latest, chainHead>>
      BY <1>6 DEF RunScheduled
    <2>2. Len(queue) <= MAX_JOBS
      BY <2>1 DEF LengthInv
    <2>3. Len(queue') = Len(queue) + 1 /\ queue' # <<>>
      BY <1>1, <2>1, KindsOfJobs
    <2>4. Len(queue') <= MAX_JOBS \/ Len(queue') = MAX_JOBS + 1
      BY <1>0, <2>2, <2>3
    <2> QED  BY <2>1, <2>3, <2>4 DEF LengthInv
  <1>7. CASE EndsAtOnce
    <2>1. /\ queue # <<>> /\ running = Idle /\ queue' = Tail(queue) /\ simulated' \in {simulated, NoOp}
          /\ UNCHANGED <<running, shownBlock, portfolioError, minedAt, latest, scheduled, chainHead>>
      BY <1>7 DEF EndsAtOnce
    <2>2. Len(queue') <= MAX_JOBS
      BY <1>0, <1>2, <2>1 DEF LengthInv
    <2> QED  BY <2>1, <2>2, KindsOfJobs DEF LengthInv
  <1>8. CASE BeginUpdate
    <2>1. /\ queue # <<>> /\ running' = [on |-> TRUE, op |-> ToSimulate(Head(queue))]
          /\ latest' \in {NoOp, latest}
          /\ UNCHANGED <<queue, simulated, shownBlock, portfolioError, minedAt, scheduled, chainHead>>
      BY <1>8 DEF BeginUpdate
    <2>2. ToSimulate(Head(queue)) \in OpOrNone
      <3>1. Head(queue) \in Jobs
        BY <1>0, <2>1
      <3> QED  BY <3>1, KindsOfJobs DEF ToSimulate, Jobs, LengthInv
    <2> QED  BY <2>1, <2>2, KindsOfJobs DEF LengthInv
  <1>9. CASE EndUpdate \/ FailUpdate
    <2>1. /\ running # Idle /\ running' = Idle /\ simulated' = running.op /\ queue' = Tail(queue)
          /\ shownBlock' \in {shownBlock, chainHead} /\ portfolioError' \in BOOLEAN
          /\ UNCHANGED <<minedAt, latest, scheduled, chainHead>>
      BY <1>9 DEF EndUpdate, FailUpdate
    <2>2. queue # <<>> /\ simulated' \in OpOrNone
      BY <2>1 DEF LengthInv
    <2>3. Len(queue') <= MAX_JOBS
      BY <1>0, <1>2, <2>1, <2>2 DEF LengthInv
    <2> QED  BY <2>1, <2>2, <2>3 DEF LengthInv
  <1>10. ASSUME NEW o \in SimOps, MineOp(o) PROVE LengthInv'
    <2>1. /\ chainHead' = chainHead + 1 /\ chainHead < MAX_HEAD
          /\ minedAt' = [minedAt EXCEPT ![o] = chainHead']
          /\ UNCHANGED <<queue, running, simulated, shownBlock, portfolioError, latest, scheduled>>
      BY <1>10 DEF MineOp
    <2>2. chainHead' \in Heights
      BY <1>0, <2>1 DEF LengthInv, Heights
    <2> QED  BY <2>1, <2>2 DEF LengthInv
  <1>11. ASSUME UNCHANGED <<queue, running, simulated, shownBlock, portfolioError, minedAt, latest,
                            scheduled, chainHead>>
         PROVE  LengthInv'
    BY <1>11 DEF LengthInv
  <1>12. ASSUME NEW o \in SimOps, Broadcast(o) PROVE LengthInv'
    BY <1>11, <1>12 DEF Broadcast
  <1>13. CASE UNCHANGED portfolioVars
    BY <1>11, <1>13 DEF portfolioVars
  <1> QED
    BY <1>3, <1>4, <1>5, <1>6, <1>7, <1>8, <1>9, <1>10, <1>12, <1>13 DEF PortfolioNext

\* The variables have their types, for any operations and bounds: one job at most
\* is in the queue beyond MAX_JOBS, the scheduled update.
THEOREM PortfolioTypeCorrect == PortfolioSpec => []PortfolioTypeOK
  <1>1. PortfolioInit => PortfolioInv /\ LengthInv
    <2>1. PortfolioInit => PortfolioInv
      BY DEF PortfolioInit, PortfolioInv, LatestInv, RunningInv, DiscardInv, Lives
    <2>2. ASSUME PortfolioInit PROVE LengthInv
      <3>1. 0 \in Heights /\ Len(queue) = 0 /\ 0 <= MAX_JOBS
        BY <2>2, PortfolioBoundsAssumption DEF PortfolioInit, Heights
      <3> QED  BY <2>2, <3>1, KindsOfJobs DEF PortfolioInit, LengthInv
    <2> QED  BY <2>1, <2>2
  <1>2. PortfolioInv /\ LengthInv /\ [PortfolioNext]_portfolioVars => PortfolioInv' /\ LengthInv'
    BY NextPortfolioInv, NextLengthInv
  <1>3. PortfolioInv /\ LengthInv => PortfolioTypeOK
    <2> SUFFICES ASSUME PortfolioInv, LengthInv PROVE PortfolioTypeOK
      OBVIOUS
    <2> DEFINE AnyJobs == [kind : {"update", "refresh", "discard", "override"}, op : OpOrNone]
    <2>1. queue \in Seq(AnyJobs)
      <3>1. Jobs \subseteq AnyJobs
        BY DEF Jobs
      <3>2. queue \in Seq(Jobs)
        BY DEF PortfolioInv
      <3> HIDE DEF AnyJobs
      <3> QED  BY <3>1, <3>2
    <2>2. Len(queue) <= MAX_JOBS + 1
      BY <2>1, PortfolioBoundsAssumption DEF LengthInv
    <2> QED  BY <2>1, <2>2 DEF PortfolioInv, LengthInv, PortfolioTypeOK, Lives
  <1> QED  BY <1>1, <1>2, <1>3, PTL DEF PortfolioSpec

-----------------------------------------------------------------------------
(* The statuses of operations.  What the receipts of an operation come to  *)
(* is a recursive function: it exists, and each of its values is typed,    *)
(* for the least place where it were not would have one before it.         *)

\* The variables of Activity have their types, and every operation its calls.
StatusesInv == ActivityTypeOK /\ DOMAIN callState = OpIds

\* The statuses the calls of an operation may have.
StatusesOf(o) == [DOMAIN TxsOf[o] -> {Pending} \cup Final]

LEMMA Least ==
    ASSUME NEW T \in SUBSET Nat, T # {}
    PROVE  \E m \in T : \A k \in T : m <= k
  <1> DEFINE R == OpToRel(<, Nat)
  <1>1. IsWellFoundedOn(R, Nat)
    BY NatLessThanWellFounded
  <1>2. \A x, y \in Nat : <<x, y>> \in R <=> x < y
    BY DEF OpToRel
  <1> HIDE DEF R
  <1>3. PICK m \in T : \A k \in T : ~ (<<k, m>> \in R)
    BY <1>1, WFMin
  <1>4. ASSUME NEW k \in T PROVE m <= k
    <2>1. ~ (k < m) /\ k \in Nat /\ m \in Nat
      BY <1>2, <1>3
    <2> QED  BY <2>1
  <1> QED  BY <1>4

LEMMA UpdatedTyped ==
    ASSUME NEW o \in OpIds, NEW statuses \in StatusesOf(o), NEW status \in Final
    PROVE  updateOpStatus(statuses, status) \in StatusesOf(o)
  BY DEF updateOpStatus, StatusesOf

LEMMA WithReceiptTyped ==
    ASSUME NEW o \in OpIds, NEW statuses \in StatusesOf(o), NEW tx
    PROVE  WithReceipt(o, statuses, tx) \in StatusesOf(o)
  <1>1. {"success", "failure", "broadcast-but-stuck"} \subseteq Final
    BY DEF Final
  <1>2. CASE mined[tx] \in {"success", "failure"}
    <2>1. WithReceipt(o, statuses, tx) = updateOpStatus(statuses, mined[tx])
      BY <1>2 DEF WithReceipt
    <2> QED  BY <1>1, <1>2, <2>1, UpdatedTyped
  <1>3. CASE mined[tx] = "dropped" /\ aged[o]
    <2>1. WithReceipt(o, statuses, tx) = updateOpStatus(statuses, "broadcast-but-stuck")
      BY <1>3 DEF WithReceipt
    <2> QED  BY <1>1, <2>1, UpdatedTyped
  <1>4. CASE mined[tx] \notin {"success", "failure"} /\ ~ (mined[tx] = "dropped" /\ aged[o])
    BY <1>4 DEF WithReceipt
  <1> QED  BY <1>2, <1>3, <1>4

\* f is what the receipts of the first n transactions come to, one by one.
IsAfter(o, n, f) == f = [k \in 0..n |-> IF k = 0 THEN callState[o]
                                        ELSE WithReceipt(o, f[k - 1], TxsOf[o][k])]

LEMMA AfterExists ==
    ASSUME NEW o \in OpIds, NEW n \in Nat
    PROVE  \E f : IsAfter(o, n, f)
  <1> DEFINE Bad == {m \in Nat : ~ \E f : IsAfter(o, m, f)}
  <1>1. Bad \subseteq Nat
    OBVIOUS
  <1>2. ASSUME Bad # {} PROVE FALSE
    <2>1. PICK m \in Bad : \A k \in Bad : m <= k
      <3> HIDE DEF Bad
      <3> QED  BY <1>1, <1>2, Least
    <2>2. CASE m = 0
      <3> DEFINE f == [k \in 0..0 |-> callState[o]]
      <3>1. f = [k \in 0..0 |-> IF k = 0 THEN callState[o]
                               ELSE WithReceipt(o, f[k - 1], TxsOf[o][k])]
        OBVIOUS
      <3>2. IsAfter(o, 0, f)
        BY <3>1 DEF IsAfter
      <3> QED  BY <2>1, <2>2, <3>2
    <2>3. CASE m # 0
      <3>1. m \in Nat /\ m - 1 \in Nat /\ ~ (m <= m - 1)
        BY <2>1, <2>3
      <3>2. PICK f : IsAfter(o, m - 1, f)
        <4>1. m - 1 \notin Bad
          BY <2>1, <3>1
        <4> QED  BY <3>1, <4>1
      <3> DEFINE g == [k \in 0..m |-> IF k = m THEN WithReceipt(o, f[m - 1], TxsOf[o][m]) ELSE f[k]]
      <3>3. ASSUME NEW k \in 0..m
            PROVE  g[k] = IF k = 0 THEN callState[o] ELSE WithReceipt(o, g[k - 1], TxsOf[o][k])
        <4>1. CASE k = m
          <5>1. g[k - 1] = f[m - 1] /\ k # 0
            BY <2>3, <3>1, <4>1
          <5> QED  BY <4>1, <5>1
        <4>2. CASE k # m
          <5>1. k \in 0..(m - 1) /\ g[k] = f[k]
            BY <3>1, <4>2
          <5>2. k # 0 => g[k - 1] = f[k - 1]
            BY <3>1, <4>2
          <5>3. f[k] = IF k = 0 THEN callState[o] ELSE WithReceipt(o, f[k - 1], TxsOf[o][k])
            <6> HIDE DEF g
            <6> QED  BY <3>2, <5>1 DEF IsAfter
          <5> HIDE DEF g
          <5> QED  BY <5>1, <5>2, <5>3
        <4> QED  BY <4>1, <4>2
      <3>4. g = [k \in 0..m |-> g[k]]
        OBVIOUS
      <3>5. IsAfter(o, m, g)
        <4> HIDE DEF g
        <4>1. g = [k \in 0..m |-> IF k = 0 THEN callState[o]
                                  ELSE WithReceipt(o, g[k - 1], TxsOf[o][k])]
          BY <3>3, <3>4
        <4> QED  BY <4>1 DEF IsAfter
      <3> QED  BY <2>1, <3>5
    <2> QED  BY <2>2, <2>3
  <1> QED  BY <1>2

LEMMA AfterTyped ==
    ASSUME StatusesInv, NEW o \in OpIds, NEW n \in Nat, NEW f, IsAfter(o, n, f)
    PROVE  \A k \in 0..n : f[k] \in StatusesOf(o)
  <1> DEFINE Bad == {k \in 0..n : f[k] \notin StatusesOf(o)}
  <1>1. Bad \subseteq Nat
    OBVIOUS
  <1>2. ASSUME Bad # {} PROVE FALSE
    <2>1. PICK m \in Bad : \A k \in Bad : m <= k
      <3> HIDE DEF Bad
      <3> QED  BY <1>1, <1>2, Least
    <2>2. f[m] = IF m = 0 THEN callState[o] ELSE WithReceipt(o, f[m - 1], TxsOf[o][m])
      BY <2>1 DEF IsAfter
    <2>3. callState[o] \in StatusesOf(o)
      BY DEF StatusesInv, ActivityTypeOK, StatusesOf
    <2>4. m # 0
      BY <2>1, <2>2, <2>3
    <2>5. m - 1 \in 0..n /\ ~ (m <= m - 1)
      BY <2>1, <2>4
    <2>6. f[m - 1] \in StatusesOf(o)
      BY <2>1, <2>5
    <2> QED  BY <2>1, <2>2, <2>4, <2>6, WithReceiptTyped
  <1> QED  BY <1>2

LEMMA AfterReceiptsTyped ==
    ASSUME StatusesInv, NEW o \in OpIds, NEW n \in Nat
    PROVE  AfterReceipts(o, n) \in StatusesOf(o)
  <1> DEFINE after == CHOOSE f : IsAfter(o, n, f)
  <1>1. AfterReceipts(o, n) = after[n]
    BY DEF AfterReceipts, IsAfter
  <1>2. IsAfter(o, n, after)
    BY AfterExists
  <1> HIDE DEF after
  <1> QED  BY <1>1, <1>2, AfterTyped

\* An operation's calls are as many as its transactions, and there is a last one.
LEMMA StatusesLength ==
    ASSUME NEW o \in OpIds, NEW statuses \in StatusesOf(o)
    PROVE  Len(statuses) \in DOMAIN statuses
  <1> DEFINE S == ToSet(TxsOf[o])
  <1>1. TxsOf[o] \in Seq(S) /\ TxsOf[o] # <<>>
    BY TxsOfAssumption
  <1> HIDE DEF S
  <1>2. PICK n \in Nat : DOMAIN TxsOf[o] = 1..n /\ n # 0
    BY <1>1
  <1>3. statuses \in [1..n -> {Pending} \cup Final]
    BY <1>2 DEF StatusesOf
  <1>4. Len(statuses) = n
    BY <1>2, <1>3
  <1> QED  BY <1>2, <1>3, <1>4

\* An operation whose calls all have a status gets the one of its last call.
LEMMA JudgedTyped ==
    ASSUME StatusesInv, NEW o \in OpIds, NEW statuses \in StatusesOf(o), Judged(o, statuses),
           learned' \in [OpIds -> {"unknown", "decoy", "known"}]
    PROVE  StatusesInv'
  <1>1. DOMAIN callState' = OpIds /\ \A p \in OpIds : callState'[p] \in StatusesOf(p)
    BY DEF Judged, StatusesInv, ActivityTypeOK, StatusesOf
  <1>2. passStep' \in [OpIds -> {"idle", "txid", "receipts"}]
    BY DEF Judged, StatusesInv, ActivityTypeOK
  <1>3. opState' \in [OpIds -> {"none", Pending} \cup Final] /\ updated' \subseteq OpIds
    <2>1. CASE \E i \in DOMAIN statuses : statuses[i] = Pending
      BY <2>1 DEF Judged, StatusesInv, ActivityTypeOK
    <2>2. CASE ~ \E i \in DOMAIN statuses : statuses[i] = Pending
      <3>1. statuses[Len(statuses)] \in Final
        BY <2>2, StatusesLength DEF StatusesOf
      <3>2. opState' = [opState EXCEPT ![o] = statuses[Len(statuses)]] /\ updated' = updated \cup {o}
        BY <2>2 DEF Judged
      <3> QED  BY <3>1, <3>2 DEF StatusesInv, ActivityTypeOK
    <2> QED  BY <2>1, <2>2
  <1>4. UNCHANGED <<mined, aged, pass, external, stored, adding, reads>>
    BY DEF Judged, minedVars, externalVars
  <1> QED  BY <1>1, <1>2, <1>3, <1>4 DEF StatusesInv, ActivityTypeOK, StatusesOf

LEMMA ReceiptsTyped ==
    ASSUME StatusesInv, NEW o \in OpIds, FindTxn(o) \/ Receipts(o) \/ ReceiptsFail(o)
    PROVE  StatusesInv'
  <1>1. learned \in [OpIds -> {"unknown", "decoy", "known"}] /\ callState[o] \in StatusesOf(o)
    BY DEF StatusesInv, ActivityTypeOK, StatusesOf
  <1>2. {"rejected", "failure", "broadcast-but-stuck"} \subseteq Final
    BY DEF Final
  <1>3. Len(TxsOf[o]) \in Nat
    <2> DEFINE S == ToSet(TxsOf[o])
    <2>1. TxsOf[o] \in Seq(S)
      BY TxsOfAssumption
    <2> HIDE DEF S
    <2> QED  BY <2>1
  <1>4. CASE /\ passStep' = [passStep EXCEPT ![o] = "receipts"]
             /\ learned' \in {[learned EXCEPT ![o] = l] : l \in {"decoy", "known"}}
             /\ UNCHANGED <<minedVars, opState, callState, pass, updated, externalVars>>
    <2>1. learned' \in [OpIds -> {"unknown", "decoy", "known"}]
      BY <1>1, <1>4
    <2> QED  BY <1>4, <2>1 DEF StatusesInv, ActivityTypeOK, minedVars, externalVars
  <1>5. ASSUME NEW statuses \in StatusesOf(o), Judged(o, statuses),
               learned' \in {learned, [learned EXCEPT ![o] = "known"]}
        PROVE  StatusesInv'
    BY <1>1, <1>5, JudgedTyped
  <1>6. CASE FindTxn(o)
    <2>1. ASSUME learned' \in {[learned EXCEPT ![o] = l] :
                               l \in IF KindOf[o] = "userop" THEN {"decoy", "known"} ELSE {"known"}}
          PROVE  learned' \in {[learned EXCEPT ![o] = l] : l \in {"decoy", "known"}}
      BY <2>1
    <2>2. ASSUME NEW statuses, Judged(o, statuses), UNCHANGED learned,
                 statuses \in {callState[o], updateOpStatus(callState[o], "rejected"),
                            updateOpStatus(callState[o], "broadcast-but-stuck")}
          PROVE  StatusesInv'
      BY <1>1, <1>2, <1>5, <2>2, UpdatedTyped
    <2> QED  BY <1>4, <1>6, <2>1, <2>2 DEF FindTxn
  <1>7. CASE Receipts(o)
    <2>1. AfterReceipts(o, Len(TxsOf[o])) \in StatusesOf(o)
      BY <1>3, AfterReceiptsTyped
    <2>2. updateOpStatus(callState[o], "failure") \in StatusesOf(o)
      BY <1>1, <1>2, UpdatedTyped
    <2> QED  BY <1>5, <1>7, <2>1, <2>2 DEF Receipts
  <1>8. CASE ReceiptsFail(o)
    <2>1. PICK n \in 0..(Len(TxsOf[o]) - 1) : Judged(o, AfterReceipts(o, n))
      BY <1>8 DEF ReceiptsFail
    <2>2. n \in Nat
      BY <1>3, <2>1
    <2>3. UNCHANGED learned
      BY <1>8 DEF ReceiptsFail
    <2> QED  BY <1>5, <2>1, <2>2, <2>3, AfterReceiptsTyped
  <1> QED  BY <1>6, <1>7, <1>8

LEMMA NextStatusesInv == StatusesInv /\ [ActivityNext]_activityVars => StatusesInv'
  <1> SUFFICES ASSUME StatusesInv, [ActivityNext]_activityVars PROVE StatusesInv'
    OBVIOUS
  <1> DEFINE All == Txs \cup OtherTxs
  <1>1. ASSUME NEW o \in OpIds, addAccountOp(o) \/ FiveMinutesPass(o) PROVE StatusesInv'
    <2>1. /\ opState' \in {opState, [opState EXCEPT ![o] = Pending]}
          /\ learned' \in {learned, [learned EXCEPT ![o] = "unknown"], [learned EXCEPT ![o] = "known"]}
          /\ aged' \in {aged, [aged EXCEPT ![o] = TRUE]}
          /\ UNCHANGED <<mined, callState, passStep, pass, updated, externalVars>>
      BY <1>1 DEF addAccountOp, FiveMinutesPass, minedVars, opVars
    <2>2. /\ opState' \in [OpIds -> {"none", Pending} \cup Final]
          /\ learned' \in [OpIds -> {"unknown", "decoy", "known"}] /\ aged' \in [OpIds -> BOOLEAN]
      BY <2>1 DEF StatusesInv, ActivityTypeOK
    <2> QED  BY <2>1, <2>2 DEF StatusesInv, ActivityTypeOK, externalVars
  <1>2. ASSUME NEW o \in OpIds, NEW i \in DOMAIN TxsOf[o],
               NEW result \in {"success", "failure", "dropped"}, Mine(o, i, result)
        PROVE  StatusesInv'
    <2>1. mined' = [mined EXCEPT ![TxsOf[o][i]] = result]
          /\ UNCHANGED <<aged, opVars, passStep, pass, updated, externalVars>>
      BY <1>2 DEF Mine
    <2>2. mined' \in [Txs -> {"pending", "success", "failure", "dropped"}]
      BY <2>1 DEF StatusesInv, ActivityTypeOK
    <2> QED  BY <2>1, <2>2 DEF StatusesInv, ActivityTypeOK, opVars, externalVars
  <1>3. CASE BeginPass
    <2>1. /\ pass' = "ops" /\ updated' \subseteq OpIds
          /\ opState' = [o \in OpIds |-> IF o \in updated' THEN "unknown-but-past-nonce"
                                         ELSE opState[o]]
          /\ UNCHANGED <<minedVars, callState, learned, externalVars>>
      BY <1>3 DEF BeginPass, ToUpdate
    <2>2. passStep' \in [OpIds -> {"idle", "txid", "receipts"}]
      BY <1>3 DEF BeginPass
    <2>3. opState' \in [OpIds -> {"none", Pending} \cup Final]
      BY <2>1 DEF StatusesInv, ActivityTypeOK, Final
    <2> QED  BY <2>1, <2>2, <2>3 DEF StatusesInv, ActivityTypeOK, minedVars, externalVars
  <1>4. ASSUME NEW o \in OpIds, FindTxn(o) \/ Receipts(o) \/ ReceiptsFail(o) PROVE StatusesInv'
    BY <1>4, ReceiptsTyped
  <1>5. ASSUME external' \in SUBSET All, stored' \in SUBSET All, reads' \subseteq SUBSET All,
               adding' \in All \cup {NoTx}, pass' \in {"none", "ops", "save"},
               updated' \subseteq OpIds, UNCHANGED <<minedVars, opVars, passStep>>
        PROVE  StatusesInv'
    BY <1>5 DEF StatusesInv, ActivityTypeOK, minedVars, opVars
  <1>6. /\ external \in SUBSET All /\ stored \in SUBSET All /\ reads \subseteq SUBSET All
        /\ adding \in All \cup {NoTx} /\ pass \in {"none", "ops", "save"} /\ updated \subseteq OpIds
    BY DEF StatusesInv, ActivityTypeOK
  <1> HIDE DEF All
  <1>7. CASE EndOps
    <2>1. /\ external' \subseteq external /\ stored' \in {external', stored} /\ pass' = "save"
          /\ UNCHANGED <<minedVars, opVars, passStep, updated, adding, reads>>
      BY <1>7 DEF EndOps
    <2> QED  BY <1>5, <1>6, <2>1
  <1>8. CASE EndPass
    BY <1>5, <1>6, <1>8 DEF EndPass
  <1>9. CASE EndAdd
    <2>1. /\ adding' = NoTx /\ adding # NoTx
          /\ UNCHANGED <<minedVars, opVars, passStep, pass, updated>>
          /\ \/ UNCHANGED <<external, stored, reads>>
             \/ /\ external' = external \cup {adding} /\ stored' = external'
                /\ reads' = reads \cup {stored'}
      BY <1>9 DEF EndAdd
    <2>2. external' \in SUBSET All /\ stored' \in SUBSET All /\ reads' \subseteq SUBSET All
      BY <1>6, <2>1
    <2> QED  BY <1>5, <1>6, <2>1, <2>2
  <1>10. CASE BeginView
    BY <1>5, <1>6, <1>10 DEF BeginView
  <1>11. ASSUME NEW t \in Txs \cup OtherTxs, BeginAdd(t) PROVE StatusesInv'
    <2>1. t \in All
      BY DEF All
    <2> QED  BY <1>5, <1>6, <1>11, <2>1 DEF BeginAdd
  <1>12. ASSUME NEW value \in reads, EndView(value) PROVE StatusesInv'
    BY <1>5, <1>6, <1>12 DEF EndView
  <1>13. CASE UNCHANGED activityVars
    BY <1>5, <1>6, <1>13 DEF activityVars, minedVars, opVars, externalVars
  <1> QED
    BY <1>1, <1>2, <1>3, <1>4, <1>7, <1>8, <1>9, <1>10, <1>11, <1>12, <1>13 DEF ActivityNext

\* The variables have their types, for any operations, transactions and
\* Environment: however many receipts are there, each call has a status, and an
\* operation that gets one when no call is left gets a final one
\* (updateAccountsOpsStatuses).
THEOREM ActivityTypeCorrect == ActivitySpec => []ActivityTypeOK
  <1>1. ActivityInit => StatusesInv
    BY DEF ActivityInit, StatusesInv, ActivityTypeOK
  <1>2. StatusesInv /\ [ActivityNext]_activityVars => StatusesInv'
    BY NextStatusesInv
  <1>3. StatusesInv => ActivityTypeOK
    BY DEF StatusesInv
  <1> QED  BY <1>1, <1>2, <1>3, PTL DEF ActivitySpec

-----------------------------------------------------------------------------
(* Transactions listed once.                                               *)

\* The list of external transactions is the stored one, and so is what is read
\* of it for a screen.
ListStored == external = stored /\ reads \subseteq {stored}

\* A pass asks for pending operations only.
AskedArePending ==
    \A o \in OpIds : passStep[o] # "idle" => pass = "ops" /\ opState[o] = Pending

\* No transaction of an operation with an outcome is an external one, unless
\* the pass that found the outcome has yet to remove it.
RemovedByThePass ==
    \A o \in OpIds : opState[o] \in Final =>
        (pass = "ops" /\ o \in updated) \/ KnownTxs(o) \cap external = {}

ListInv ==
    /\ opState = [o \in OpIds |-> opState[o]] /\ learned = [o \in OpIds |-> learned[o]]
    /\ passStep = [o \in OpIds |-> passStep[o]]
    /\ ListStored /\ AskedArePending /\ RemovedByThePass

LEMMA OneChanged ==
    ASSUME NEW f, f = [o \in OpIds |-> f[o]], NEW o \in OpIds, NEW v
    PROVE  LET g == [f EXCEPT ![o] = v]
           IN  /\ g = [p \in OpIds |-> g[p]] /\ g[o] = v
               /\ \A p \in OpIds : p # o => g[p] = f[p]
  OBVIOUS

\* The pass is done with an operation that was pending.
LEMMA JudgedInv ==
    ASSUME ListInv, NEW o \in OpIds, NEW statuses, Judged(o, statuses), passStep[o] # "idle",
           learned' = [learned EXCEPT ![o] = learned'[o]]
    PROVE  ListInv'
  <1>1. /\ passStep' = [p \in OpIds |-> passStep'[p]] /\ passStep'[o] = "idle"
        /\ \A p \in OpIds : p # o => passStep'[p] = passStep[p]
    BY OneChanged DEF ListInv, Judged
  <1>2. learned' = [p \in OpIds |-> learned'[p]] /\ \A p \in OpIds : p # o => learned'[p] = learned[p]
    <2> DEFINE l == learned'[o]
    <2>1. learned' = [learned EXCEPT ![o] = l]
      OBVIOUS
    <2> HIDE DEF l
    <2> QED  BY <2>1, OneChanged DEF ListInv
  <1>3. pass = "ops" /\ opState[o] = Pending
    BY DEF ListInv, AskedArePending
  <1>4. /\ opState' = [p \in OpIds |-> opState'[p]]
        /\ \A p \in OpIds : p # o => opState'[p] = opState[p]
        /\ opState'[o] = Pending \/ o \in updated'
        /\ updated \subseteq updated'
    <2>1. CASE UNCHANGED <<opState, updated>>
      BY <1>3, <2>1 DEF ListInv
    <2>2. CASE /\ opState' = [opState EXCEPT ![o] = statuses[Len(statuses)]]
               /\ updated' = updated \cup {o}
      BY <2>2, OneChanged DEF ListInv
    <2> QED  BY <2>1, <2>2 DEF Judged
  <1>5. UNCHANGED <<pass, external, stored, reads>>
    BY DEF Judged, externalVars
  <1>6. ListStored'
    BY <1>5 DEF ListInv, ListStored
  <1>7. AskedArePending'
    BY <1>1, <1>4, <1>5 DEF ListInv, AskedArePending
  <1>8. RemovedByThePass'
    <2> SUFFICES ASSUME NEW p \in OpIds, opState'[p] \in Final
                 PROVE  (pass' = "ops" /\ p \in updated') \/ KnownTxs(p)' \cap external' = {}
      BY DEF RemovedByThePass
    <2>1. CASE p = o
      BY <1>3, <1>4, <1>5, <2>1 DEF Final, Pending
    <2>2. CASE p # o
      BY <1>2, <1>4, <1>5, <2>2 DEF ListInv, RemovedByThePass, KnownTxs
    <2> QED  BY <2>1, <2>2
  <1> QED  BY <1>1, <1>2, <1>4, <1>6, <1>7, <1>8 DEF ListInv

LEMMA AskStepInv ==
    ASSUME ListInv, NEW o \in OpIds, FindTxn(o) \/ Receipts(o) \/ ReceiptsFail(o)
    PROVE  ListInv'
  <1>0. learned = [learned EXCEPT ![o] = learned[o]] /\ \A v : [learned EXCEPT ![o] = v][o] = v
    BY DEF ListInv
  <1>1. ASSUME NEW statuses, Judged(o, statuses), passStep[o] # "idle",
               learned' = learned \/ learned' = [learned EXCEPT ![o] = "known"]
        PROVE  ListInv'
    <2>1. learned' = [learned EXCEPT ![o] = learned'[o]]
      BY <1>0, <1>1
    <2> QED  BY <1>1, <2>1, JudgedInv
  <1>2. ASSUME NEW l, learned' = [learned EXCEPT ![o] = l], passStep[o] = "txid",
               passStep' = [passStep EXCEPT ![o] = "receipts"],
               UNCHANGED <<opState, pass, updated, external, stored, reads>>
        PROVE  ListInv'
    <2>1. /\ passStep' = [p \in OpIds |-> passStep'[p]]
          /\ \A p \in OpIds : p # o => passStep'[p] = passStep[p]
      BY <1>2, OneChanged DEF ListInv
    <2>2. /\ learned' = [p \in OpIds |-> learned'[p]]
          /\ \A p \in OpIds : p # o => learned'[p] = learned[p]
      BY <1>2, OneChanged DEF ListInv
    <2>3. opState[o] = Pending /\ pass = "ops"
      BY <1>2 DEF ListInv, AskedArePending
    <2>4. AskedArePending'
      BY <1>2, <2>1, <2>3 DEF ListInv, AskedArePending
    <2>5. RemovedByThePass'
      BY <1>2, <2>2, <2>3 DEF ListInv, RemovedByThePass, KnownTxs, Final, Pending
    <2> QED  BY <1>2, <2>1, <2>2, <2>4, <2>5 DEF ListInv, ListStored
  <1>3. CASE FindTxn(o)
    <2>1. CASE \E l : /\ learned' = [learned EXCEPT ![o] = l]
                      /\ passStep' = [passStep EXCEPT ![o] = "receipts"]
                      /\ UNCHANGED <<minedVars, opState, callState, pass, updated, externalVars>>
      BY <1>2, <1>3, <2>1 DEF FindTxn, externalVars
    <2>2. CASE learned' = learned /\ \E statuses : Judged(o, statuses)
      BY <1>1, <1>3, <2>2 DEF FindTxn
    <2> QED  BY <1>3, <2>1, <2>2 DEF FindTxn
  <1>4. CASE Receipts(o)
    BY <1>1, <1>4 DEF Receipts
  <1>5. CASE ReceiptsFail(o)
    BY <1>1, <1>5 DEF ReceiptsFail
  <1> QED  BY <1>3, <1>4, <1>5

\* The steps of a pass wait until the reads for a screen are over.
LEMMA PassInv ==
    ASSUME ActivityEnvironment = {}, ListInv, BeginPass \/ EndOps \/ EndPass
    PROVE  ListInv'
  <1>1. CASE BeginPass
    <2>1. /\ pass = "none" /\ pass' = "ops" /\ UNCHANGED <<learned, external, stored, reads>>
          /\ updated' = {o \in ToUpdate : PastNonce(o)}
      BY <1>1 DEF BeginPass, externalVars
    <2>2. \A o \in ToUpdate : opState[o] = Pending
      BY DEF ToUpdate
    <2>3. opState' = [o \in OpIds |-> IF o \in updated' THEN "unknown-but-past-nonce" ELSE opState[o]]
      BY <1>1 DEF BeginPass
    <2>4. passStep' = [o \in OpIds |-> IF o \notin ToUpdate \ updated' THEN "idle"
                                       ELSE IF KindOf[o] = "batch" THEN "receipts" ELSE "txid"]
      BY <1>1 DEF BeginPass
    <2>5. AskedArePending'
      BY <2>1, <2>2, <2>3, <2>4 DEF AskedArePending
    <2>6. RemovedByThePass'
      BY <2>1, <2>3 DEF ListInv, RemovedByThePass, KnownTxs
    <2> QED  BY <2>1, <2>3, <2>4, <2>5, <2>6 DEF ListInv, ListStored
  <1>2. CASE EndOps
    <2>1. reads = {} /\ pass = "ops" /\ \A o \in OpIds : passStep[o] = "idle"
      BY <1>2 DEF EndOps, Calm
    <2>2. /\ external' = external \ UNION {KnownTxs(o) : o \in updated}
          /\ stored' = external' /\ UNCHANGED <<opState, learned, passStep, reads>>
      BY <1>2 DEF EndOps, opVars, ListInv, ListStored
    <2>3. RemovedByThePass'
      <3> SUFFICES ASSUME NEW o \in OpIds, opState[o] \in Final
                   PROVE  KnownTxs(o) \cap external' = {}
        BY <2>2 DEF RemovedByThePass, KnownTxs
      <3> QED  BY <2>2 DEF ListInv, RemovedByThePass
    <2> QED  BY <2>1, <2>2, <2>3 DEF ListInv, ListStored, AskedArePending
  <1>3. CASE EndPass
    <2>1. /\ pass = "save" /\ reads' = reads \cup {stored}
          /\ UNCHANGED <<opState, learned, passStep, external, stored>>
      BY <1>3 DEF EndPass, opVars
    <2>2. RemovedByThePass' /\ AskedArePending'
      BY <2>1 DEF ListInv, RemovedByThePass, AskedArePending, KnownTxs
    <2> QED  BY <2>1, <2>2 DEF ListInv, ListStored
  <1> QED  BY <1>1, <1>2, <1>3

\* A step that leaves the operations and the pass.
LEMMA OtherListed ==
    ASSUME ListInv, UNCHANGED <<opVars, passStep, pass, updated>>, ListStored',
           \A o \in OpIds : opState[o] \in Final =>
               KnownTxs(o) \cap external' \subseteq KnownTxs(o) \cap external
    PROVE  ListInv'
  <1>1. UNCHANGED <<opState, learned>>
    BY DEF opVars
  <1>2. RemovedByThePass'
    <2> SUFFICES ASSUME NEW o \in OpIds, opState[o] \in Final
                 PROVE  (pass = "ops" /\ o \in updated) \/ KnownTxs(o) \cap external' = {}
      BY <1>1 DEF RemovedByThePass, KnownTxs
    <2> QED  BY DEF ListInv, RemovedByThePass
  <1> QED  BY <1>1, <1>2 DEF ListInv, AskedArePending

LEMMA NextListInv ==
    ASSUME ActivityEnvironment = {}, ListInv, [ActivityNext]_activityVars
    PROVE  ListInv'
  <1>1. ASSUME NEW o \in OpIds, addAccountOp(o) PROVE ListInv'
    <2>1. /\ opState[o] = "none" /\ opState' = [opState EXCEPT ![o] = Pending]
          /\ UNCHANGED <<passStep, pass, updated, external, stored, reads>>
      BY <1>1 DEF addAccountOp, externalVars
    <2>2. /\ opState' = [p \in OpIds |-> opState'[p]] /\ opState'[o] = Pending
          /\ \A p \in OpIds : p # o => opState'[p] = opState[p]
      BY <2>1, OneChanged DEF ListInv
    <2>3. PICK l : learned' = [learned EXCEPT ![o] = l]
      BY <1>1 DEF addAccountOp
    <2>4. /\ learned' = [p \in OpIds |-> learned'[p]]
          /\ \A p \in OpIds : p # o => learned'[p] = learned[p]
      BY <2>3, OneChanged DEF ListInv
    <2>5. AskedArePending'
      BY <2>1, <2>2 DEF ListInv, AskedArePending
    <2>6. RemovedByThePass'
      BY <2>1, <2>2, <2>4 DEF ListInv, RemovedByThePass, KnownTxs, Final, Pending
    <2> QED  BY <2>1, <2>2, <2>4, <2>5, <2>6 DEF ListInv, ListStored
  <1>2. ASSUME UNCHANGED <<opVars, passStep, pass, updated, external, stored, reads>> PROVE ListInv'
    BY <1>2, OtherListed DEF ListInv, ListStored
  <1>3. ASSUME NEW o \in OpIds, FiveMinutesPass(o) PROVE ListInv'
    BY <1>2, <1>3 DEF FiveMinutesPass, externalVars
  <1>4. ASSUME NEW o \in OpIds, NEW i, NEW became, Mine(o, i, became) PROVE ListInv'
    BY <1>2, <1>4 DEF Mine, externalVars
  <1>5. ASSUME NEW t, BeginAdd(t) PROVE ListInv'
    BY <1>2, <1>5 DEF BeginAdd
  <1>6. CASE EndAdd
    <2>1. UNCHANGED <<opVars, passStep, pass, updated>> /\ reads = {}
      BY <1>6 DEF EndAdd, Calm
    <2>2. CASE Listed(adding)
      BY <1>2, <1>6, <2>1, <2>2 DEF EndAdd
    <2>3. CASE ~Listed(adding)
      <3>1. external' = external \cup {adding} /\ stored' = external' /\ reads' = reads \cup {stored'}
        BY <1>6, <2>3 DEF EndAdd
      <3>2. ListStored'
        BY <2>1, <3>1 DEF ListStored
      <3>3. \A o \in OpIds : opState[o] \in Final => adding \notin KnownTxs(o)
        BY <2>3 DEF Listed, Final
      <3> QED  BY <2>1, <3>1, <3>2, <3>3, OtherListed
    <2> QED  BY <2>2, <2>3
  <1>7. CASE BeginView
    BY <1>7 DEF BeginView
  <1>8. ASSUME NEW value \in reads, EndView(value) PROVE ListInv'
    <2>1. external' = external /\ UNCHANGED <<opVars, passStep, pass, updated, stored>>
          /\ reads' \subseteq reads
      BY <1>8 DEF EndView, ListInv, ListStored
    <2>2. ListStored'
      BY <2>1 DEF ListInv, ListStored
    <2> QED  BY <2>1, <2>2, OtherListed
  <1>9. CASE UNCHANGED activityVars
    BY <1>2, <1>9 DEF activityVars, externalVars
  <1> QED
    BY <1>1, <1>3, <1>4, <1>5, <1>6, <1>7, <1>8, <1>9, AskStepInv, PassInv DEF ActivityNext

\* When nothing is under way, no transaction is listed both as an external one
\* and as one of an operation with an outcome: #addExternalAccountOp looks at
\* the operations after its awaits, and each pass removes what it learned of
\* (#removeExternalAccountOpsMatchingInternalOps), where no read of the list
\* for a screen overlaps with them.
THEOREM NoDuplicateListedHolds ==
    ASSUME ActivityEnvironment = {}
    PROVE  ActivitySpec => []NoDuplicateListed
  <1>1. ActivityInit => ListInv
    BY DEF ActivityInit, ListInv, ListStored, AskedArePending, RemovedByThePass, Final
  <1>2. ListInv /\ [ActivityNext]_activityVars => ListInv'
    BY NextListInv
  <1>3. ListInv => NoDuplicateListed
    BY DEF ListInv, RemovedByThePass, NoDuplicateListed
  <1> QED  BY <1>1, <1>2, <1>3, PTL DEF ActivitySpec

-----------------------------------------------------------------------------
(* The types of Estimation. *)

\* An operation's id has grown with what the user did.
FeesInv == EstimationTypeOK /\ accountOp.id <= acted + 1

\* An update gives the fees and the status their types.
LEMMA UpdateType ==
    ASSUME EstimationTypeOK, NEW result \in Results, NEW prices \in BOOLEAN,
           NEW fees \in Estimated4337 \cup {NoFees}, UpdateFees(result, prices, fees)
    PROVE  /\ feesOf' \in Estimated4337 \cup {NoFees}
           /\ signStatus' \in {"none", "error", "ready", "inProgress", "done"}
           /\ hasPrices' \in BOOLEAN
<1>1. CASE InSigningState
  BY <1>1 DEF UpdateFees, EstimationTypeOK
<1>2. CASE ~InSigningState
  <2>1. hasPrices' = (hasPrices \/ prices \/ result.bundler)
    BY <1>2 DEF UpdateFees
  <2>2. hasPrices' \in BOOLEAN
    BY <2>1
  <2>3. result.of \in Estimated4337 \cup {NoFees}
    BY DEF Results
  <2>4. feesOf' = NoFees \/ feesOf' = result.of \/ feesOf' = fees
    BY <1>2, Zenon DEF UpdateFees
  <2>5. signStatus' \in {"error", "none", "ready"}
    BY <1>2, Zenon DEF UpdateFees
  <2> QED  BY <2>2, <2>3, <2>4, <2>5
<1> QED  BY <1>1, <1>2

\* So does what an update makes of the interval of prices.
LEMMA PricesLoopType ==
    ASSUME EstimationTypeOK, NEW result \in Results
    PROVE  PricesLoopFor(result) \in BOOLEAN
BY DEF PricesLoopFor, EstimationTypeOK

\* The user's steps keep the types, and so does the start of an estimate.
LEMMA BeginType ==
    ASSUME FeesInv, NEW e \in Estimates, NEW estimated \in Estimated4337,
           NEW fees \in Estimated4337 \cup {NoFees}, Begin(e, estimated, fees)
    PROVE  /\ estimates' \in [Estimates -> {NoCall} \cup
                [at : {"state", "estimate"}, of : Estimated4337]]
           /\ estimation' \in Results /\ pricesLoop' \in BOOLEAN
           /\ feesOf' \in Estimated4337 \cup {NoFees}
           /\ signStatus' \in {"none", "error", "ready", "inProgress", "done"}
           /\ hasPrices' \in BOOLEAN
<1>1. estimation' \in Results
  BY DEF Begin, FeesInv, EstimationTypeOK, Results
<1>2. UpdateFees(estimation', FALSE, fees) /\ pricesLoop' = PricesLoopFor(estimation')
  BY DEF Begin
<1>3. EstimationTypeOK
  BY DEF FeesInv
<1>4. PricesLoopFor(estimation') \in BOOLEAN
  BY <1>1, <1>3, PricesLoopType
<1>5. estimates' = [estimates EXCEPT ![e] = [at |-> "state", of |-> estimated]]
  BY DEF Begin
<1>6. estimates' \in [Estimates -> {NoCall} \cup
        [at : {"state", "estimate"}, of : Estimated4337]]
  BY <1>3, <1>5 DEF EstimationTypeOK
<1> QED  BY <1>1, <1>2, <1>3, <1>4, <1>6, UpdateType

LEMMA FeesUserType == FeesInv /\ FeesUser => FeesInv'
<1> SUFFICES ASSUME FeesInv, FeesUser PROVE FeesInv'
  OBVIOUS
<1> USE EstimationAssumption DEF FeesInv
<1>0. EstimationTypeOK /\ estimation \in Results /\ feesOf \in Estimated4337 \cup {NoFees}
  BY DEF EstimationTypeOK
<1>1. CASE ChangeCalls
  <2>1. UpdateFees(estimation, FALSE, feesOf)
    BY <1>1 DEF ChangeCalls
  <2>2. /\ feesOf' \in Estimated4337 \cup {NoFees} /\ hasPrices' \in BOOLEAN
        /\ signStatus' \in {"none", "error", "ready", "inProgress", "done"}
    BY <1>0, <2>1, UpdateType
  <2>3. /\ acted' = acted + 1 /\ acted < MAX_CHANGES
        /\ accountOp' = [accountOp EXCEPT !.id = @ + 1]
    BY <1>1 DEF ChangeCalls, Acts
  <2>4. /\ accountOp' \in Estimated4337 /\ accountOp'.id <= acted' + 1
        /\ acted' \in 0..MAX_CHANGES
    BY <1>0, <2>3 DEF EstimationTypeOK, Estimated4337, OpIdsUsed
  <2> QED
    BY <1>0, <1>1, <2>2, <2>4 DEF ChangeCalls, RestartEstimates, EstimationTypeOK, OpIdsUsed, Estimated4337
<1>2. CASE PauseOp
  BY <1>2 DEF PauseOp, EstimationTypeOK
<1>3. CASE ResumeOp
  <2>1. acted' \in 0..MAX_CHANGES /\ accountOp.id <= acted' + 1
    BY <1>0, <1>3 DEF ResumeOp, Acts, EstimationTypeOK, Estimated4337, OpIdsUsed
  <2>2. {stopRefetching', estimateLoop', paused'} \subseteq BOOLEAN
    BY <1>3 DEF ResumeOp
  <2>3. {hasPrices', customPrices', pricesLoop'} \subseteq BOOLEAN
    BY <1>3 DEF ResumeOp, EstimationTypeOK
  <2> QED  BY <1>3, <2>1, <2>2, <2>3 DEF ResumeOp, EstimationTypeOK
<1>4. CASE Retry
  BY <1>4 DEF Retry, Acts, RestartEstimates, EstimationTypeOK, feeVars, Estimated4337, OpIdsUsed
<1>5. CASE SetCustomPrices
  <2>1. UpdateFees(estimation, TRUE, feesOf)
    BY <1>5 DEF SetCustomPrices
  <2>2. /\ feesOf' \in Estimated4337 \cup {NoFees} /\ hasPrices' \in BOOLEAN
        /\ signStatus' \in {"none", "error", "ready", "inProgress", "done"}
    BY <1>0, <2>1, UpdateType
  <2> QED  BY <1>5, <2>2 DEF SetCustomPrices, EstimationTypeOK, loopVars
<1>6. CASE StartSigning
  BY <1>6 DEF StartSigning, Acts, EstimationTypeOK, loopVars, Estimated4337, OpIdsUsed
<1>7. ASSUME NEW e \in Estimates, EnableErc4337(e) PROVE FeesInv'
  <2> DEFINE estimated == [accountOp EXCEPT !.erc4337 = TRUE]
  <2>1. estimated \in Estimated4337 /\ estimated.id = accountOp.id
    BY <1>0 DEF EstimationTypeOK, Estimated4337
  <2>2. Begin(e, estimated, NoFees) /\ accountOp' = estimated
    BY <1>7 DEF EnableErc4337
  <2> HIDE DEF estimated
  <2> QED
    BY <1>0, <1>7, <2>1, <2>2, BeginType DEF EnableErc4337, EstimationTypeOK, loopVars
<1> QED  BY <1>1, <1>2, <1>3, <1>4, <1>5, <1>6, <1>7 DEF FeesUser

\* The ways an estimate goes on keep them.
LEMMA EstimatesType ==
    ASSUME FeesInv, NEW e \in Estimates,
           \/ StateArrives(e) \/ StateIsMissing(e)
           \/ EstimationSucceeds(e) \/ EstimationFails(e) \/ Obsolete(e)
    PROVE  FeesInv'
<1> USE DEF FeesInv
<1>1. /\ EstimationTypeOK /\ estimation \in Results /\ feesOf \in Estimated4337 \cup {NoFees}
      /\ accountOp \in Estimated4337
      /\ estimates[e] \in {NoCall} \cup [at : {"state", "estimate"}, of : Estimated4337]
  BY DEF EstimationTypeOK
<1>2. estimates[e].at \in {"state", "estimate"} => estimates[e].of \in Estimated4337
  BY <1>1 DEF NoCall
<1>3. ASSUME NEW result \in Results, Ends(e, result) PROVE FeesInv'
  <2>1. /\ feesOf' \in Estimated4337 \cup {NoFees} /\ hasPrices' \in BOOLEAN
        /\ signStatus' \in {"none", "error", "ready", "inProgress", "done"}
        /\ pricesLoop' \in BOOLEAN
    <3>1. CASE result = estimation
      BY <1>1, <1>3, <3>1 DEF Ends, feeVars, EstimationTypeOK
    <3>2. CASE result # estimation
      <4>1. UpdateFees(result, FALSE, feesOf) /\ pricesLoop' = PricesLoopFor(result)
        BY <1>3, <3>2 DEF Ends
      <4> QED  BY <1>1, <4>1, UpdateType, PricesLoopType
    <3> QED  BY <3>1, <3>2
  <2> QED
    BY <1>1, <1>3, <2>1 DEF Ends, EstimationTypeOK, userVars
<1>4. CASE StateArrives(e)
  <2>1. estimates[e].of \in Estimated4337 /\ accountOp.erc4337 \in BOOLEAN
    BY <1>1, <1>2, <1>4 DEF StateArrives, Estimated4337
  <2>2. [estimates[e] EXCEPT !.at = "estimate", !.of.erc4337 = accountOp.erc4337]
          \in [at : {"state", "estimate"}, of : Estimated4337]
    <3>1. estimates[e] \in [at : {"state", "estimate"}, of : Estimated4337]
      BY <1>1, <1>4 DEF StateArrives, NoCall
    <3> QED  BY <2>1, <3>1 DEF Estimated4337
  <2>3. lastAccountOpId' \in OpIdsUsed
    BY <2>1, <1>4 DEF StateArrives, Estimated4337
  <2> QED
    BY <1>1, <1>4, <2>2, <2>3 DEF StateArrives, EstimationTypeOK, userVars, feeVars, loopVars
<1>5. CASE StateIsMissing(e)
  <2>1. [estimation EXCEPT !.status = "error", !.error = TRUE] \in Results
    BY <1>1 DEF Results
  <2> QED  BY <1>3, <1>5, <2>1 DEF StateIsMissing
<1>6. CASE EstimationSucceeds(e)
  <2>1. PICK bundler \in BOOLEAN :
          Ends(e, [status |-> "success", error |-> FALSE, of |-> estimates[e].of,
                   bundler |-> bundler])
    BY <1>6 DEF EstimationSucceeds
  <2>2. [status |-> "success", error |-> FALSE, of |-> estimates[e].of, bundler |-> bundler]
          \in Results
    BY <1>2, <1>6 DEF EstimationSucceeds, Results
  <2> QED  BY <1>3, <2>1, <2>2
<1>7. CASE EstimationFails(e)
  BY <1>3, <1>7 DEF EstimationFails, Results
<1>8. CASE Obsolete(e)
  BY <1>1, <1>3, <1>8 DEF Obsolete
<1> QED  BY <1>4, <1>5, <1>6, <1>7, <1>8

\* And so do the intervals, the prices and the end of a signing.
LEMMA FeesNextType == FeesInv /\ [FeesNext]_estimationVars => FeesInv'
<1> SUFFICES ASSUME FeesInv, [FeesNext]_estimationVars PROVE FeesInv'
  OBVIOUS
<1> USE DEF FeesInv
<1>0. EstimationTypeOK /\ estimation \in Results /\ feesOf \in Estimated4337 \cup {NoFees}
  BY DEF EstimationTypeOK
<1>1. CASE FeesUser
  BY <1>1, FeesUserType
<1>2. CASE SignFails
  BY <1>2 DEF SignFails, RestartEstimates, EstimationTypeOK, userVars, PriceFetches
<1>3. CASE SignSucceeds
  BY <1>3 DEF SignSucceeds, EstimationTypeOK, userVars
<1>4. CASE EstimateTick
  <2>1. CASE stopRefetching
    BY <1>4, <2>1 DEF EstimateTick, EstimationTypeOK, userVars, feeVars
  <2>2. CASE ~stopRefetching
    <3>1. PICK e \in Estimates : Begin(e, accountOp, feesOf) /\ tracked' = e
      BY <1>4, <2>2 DEF EstimateTick
    <3>2. UNCHANGED <<estimateLoop, userVars, pricesFetch, lastAccountOpId, stopRefetching>>
      BY <1>4, <2>2 DEF EstimateTick
    <3> QED  BY <1>0, <3>1, <3>2, BeginType DEF EstimationTypeOK, userVars
  <2> QED  BY <2>1, <2>2
<1>5. CASE PricesTick
  BY <1>5 DEF PricesTick, EstimationTypeOK, userVars, loopVars, PriceFetches
<1>6. ASSUME NEW f \in PriceFetches, PricesArrive(f) PROVE FeesInv'
  <2>1. /\ feesOf' \in Estimated4337 \cup {NoFees} /\ hasPrices' \in BOOLEAN
        /\ signStatus' \in {"none", "error", "ready", "inProgress", "done"}
    <3>1. PICK come \in BOOLEAN :
            \/ UpdateFees(estimation, come, feesOf)
            \/ UNCHANGED <<feesOf, signStatus, hasPrices>>
      BY <1>6 DEF PricesArrive
    <3> QED  BY <1>0, <3>1, UpdateType DEF EstimationTypeOK
  <2>2. pricesLoop' \in BOOLEAN
    BY <1>0, <1>6, PricesLoopType DEF PricesArrive, EstimationTypeOK
  <2> QED  BY <1>6, <2>1, <2>2 DEF PricesArrive, EstimationTypeOK, userVars, loopVars
<1>7. CASE \E e \in Estimates : \/ StateArrives(e) \/ StateIsMissing(e)
                                \/ EstimationSucceeds(e) \/ EstimationFails(e) \/ Obsolete(e)
  BY <1>7, EstimatesType
<1>8. CASE UNCHANGED estimationVars
  BY <1>8 DEF estimationVars, EstimationTypeOK, userVars, feeVars, loopVars
<1> QED
  BY <1>1, <1>2, <1>3, <1>4, <1>5, <1>6, <1>7, <1>8 DEF FeesNext

\* All variables of Estimation have their types, for any numbers of estimates
\* and changes (update, estimate and the intervals).
THEOREM EstimationTypeCorrect == FeesSpec => []EstimationTypeOK
<1>1. EstimationInit => FeesInv
  <2> SUFFICES ASSUME EstimationInit PROVE FeesInv
    OBVIOUS
  <2>1. 1 \in OpIdsUsed /\ acted \in 0..MAX_CHANGES
    BY EstimationAssumption DEF EstimationInit, OpIdsUsed
  <2>2. accountOp \in Estimated4337 /\ accountOp.id <= acted + 1
    BY <2>1 DEF EstimationInit, Estimated4337
  <2>3. estimation \in Results
    BY DEF EstimationInit, Results
  <2>4. {estimateLoop, stopRefetching, paused} \subseteq BOOLEAN
    BY DEF EstimationInit
  <2>5. {hasPrices, customPrices, pricesLoop} \subseteq BOOLEAN
    BY DEF EstimationInit
  <2> QED
    BY <2>1, <2>2, <2>3, <2>4, <2>5 DEF EstimationInit, FeesInv, EstimationTypeOK
<1>2. FeesInv => EstimationTypeOK
  BY DEF FeesInv
<1> QED  BY <1>1, <1>2, FeesNextType, PTL DEF FeesSpec

-----------------------------------------------------------------------------
(* All of them together.                                                   *)

\* What is proved of each module holds of their composition.
LEMMA AssetsImplement ==
    Spec => /\ ActivitySpec /\ BalancesSpec /\ AccountsSpec /\ DetailsSpec
            /\ PortfolioSpec /\ FeesSpec
  <1>1. Init => /\ ActivityInit /\ BalancesInit /\ AccountsInit /\ DetailsInit
                /\ PortfolioInit /\ EstimationInit
    BY DEF Init
  <1>2. [Next]_vars => /\ [ActivityNext]_activityVars /\ [BalancesNext]_balancesVars
                       /\ [AccountsNext]_accountsVars /\ [DetailsNext]_detailsVars
                       /\ [PortfolioNext]_portfolioVars /\ [FeesNext]_estimationVars
    BY DEF Next, vars
  <1> QED
    BY <1>1, <1>2, PTL DEF Spec, ActivitySpec, BalancesSpec, AccountsSpec, DetailsSpec,
       PortfolioSpec, FeesSpec

\* All variables of these modules have their types, for any operations,
\* transactions, screens, accounts, networks and bounds, if no screen lists an
\* operation before the task of the pass is over.
THEOREM AssetsTypesCorrect ==
    ASSUME BalancesEnvironment = {} PROVE Spec => []TypeOK
  <1>1. BalancesSpec => []BalancesTypeOK
    BY BalancesTypeCorrect
  <1>2. TypeOK <=> /\ ActivityTypeOK /\ BalancesTypeOK /\ AccountsTypeOK
                   /\ DetailsTypeOK /\ PortfolioTypeOK /\ EstimationTypeOK
    BY DEF TypeOK
  <1> QED
    BY <1>1, <1>2, AssetsImplement, ActivityTypeCorrect, AccountsTypeCorrect,
       DetailsTypeCorrect, PortfolioTypeCorrect, EstimationTypeCorrect, PTL
=============================================================================
