------------------------------- MODULE Activity -------------------------------
(***************************************************************************)
(* ActivityController: what became of the operations the wallet submitted  *)
(* (updateAccountsOpsStatuses), and the transactions it learns of from     *)
(* elsewhere (addExternalAccountOp), which share one list on the screen.   *)
(*                                                                         *)
(* A pass over the pending operations of an account waits for bundlers and *)
(* providers, one operation beside the other, and saves what it found at   *)
(* the end.  Meanwhile transactions are added as external ones, and every  *)
(* view of the list reads the external ones again from storage.            *)
(*                                                                         *)
(* One account on one network.  Left out: balance changes, recipients,     *)
(* signed messages, banners, pages and filters, and the effect of a result *)
(* on portfolios and Safe transactions.                                    *)
(***************************************************************************)
EXTENDS Naturals, Sequences, SequencesExt, FiniteSets

CONSTANTS OpIds,         \* operations, oldest first by their numbers
          KindOf,        \* "eoa", "userop" or "batch" (several transactions)
          TxsOf,         \* the transactions of an operation, in order
          NonceOf,       \* eoaNonce
          OtherTxs,      \* transactions the wallet did not send
          MAX_OPS,       \* the newest operations a pass looks at
          ActivityEnvironment

ASSUME OpIdsAssumption == OpIds \subseteq Nat /\ MAX_OPS \in Nat \ {0}
\* An operation has calls, and each is a part of one of its transactions.
ASSUME TxsOfAssumption == \A o \in OpIds : TxsOf[o] \in Seq(ToSet(TxsOf[o])) \ {<<>>}
\* "view": screens are opened at any time, and a read of the list for a screen
\* may overlap with the other steps, which otherwise wait until it is over.
ASSUME ActivityEnvironmentAssumption == ActivityEnvironment \subseteq {"view"}

VARIABLES mined,     \* what became of a transaction on its chain
          opState,   \* the status of an operation
          callState, \* the statuses of its calls
          learned,   \* its txnId: unknown, a front-run "decoy", or the right one
          aged,      \* five minutes have passed since its broadcast
          passStep,  \* where the pass is with an operation
          pass,      \* the pass: "none", "ops" while it asks, "save" afterwards
          updated,   \* updatedAccountsOps of the pass
          external,  \* #externalAccountOps
          stored,    \* externalAccountOps in storage
          adding,    \* the external transaction that is being added
          reads      \* values read from storage by filterAccountsOps calls in flight

minedVars == <<mined, aged>>
opVars == <<opState, callState, learned>>
externalVars == <<external, stored, adding, reads>>
activityVars == <<minedVars, opVars, passStep, pass, updated, externalVars>>

Txs == UNION {ToSet(TxsOf[o]) : o \in OpIds}
NoTx == "no transaction"
Pending == "broadcasted-but-not-confirmed"
Final == {"success", "failure", "rejected", "unknown-but-past-nonce", "broadcast-but-stuck"}

ActivityTypeOK ==
    /\ mined \in [Txs -> {"pending", "success", "failure", "dropped"}]
    /\ opState \in [OpIds -> {"none", Pending} \cup Final]
    /\ \A o \in OpIds : callState[o] \in [DOMAIN TxsOf[o] -> {Pending} \cup Final]
    /\ learned \in [OpIds -> {"unknown", "decoy", "known"}]
    /\ aged \in [OpIds -> BOOLEAN]
    /\ passStep \in [OpIds -> {"idle", "txid", "receipts"}]
    /\ pass \in {"none", "ops", "save"} /\ updated \subseteq OpIds
    /\ {external, stored} \subseteq SUBSET (Txs \cup OtherTxs)
    /\ reads \subseteq SUBSET (Txs \cup OtherTxs)
    /\ adding \in Txs \cup OtherTxs \cup {NoTx}

ActivityInit ==
    /\ mined = [t \in Txs |-> "pending"] /\ aged = [o \in OpIds |-> FALSE]
    /\ opState = [o \in OpIds |-> "none"]
    /\ callState = [o \in OpIds |-> [i \in DOMAIN TxsOf[o] |-> Pending]]
    /\ learned = [o \in OpIds |-> "unknown"]
    /\ passStep = [o \in OpIds |-> "idle"] /\ pass = "none" /\ updated = {}
    /\ external = {} /\ stored = {} /\ adding = NoTx /\ reads = {}

-----------------------------------------------------------------------------
(* The chain, and the operations the wallet submits.                       *)

\* addAccountOp: the operations of a nonce replace one another.
addAccountOp(o) ==
    /\ opState[o] = "none" /\ \A p \in OpIds : p < o => opState[p] # "none"
    /\ opState' = [opState EXCEPT ![o] = Pending]
    /\ learned' = [learned EXCEPT ![o] = IF KindOf[o] = "userop" THEN "unknown" ELSE "known"]
    /\ UNCHANGED <<minedVars, callState, passStep, pass, updated, externalVars>>

\* A transaction is mined, after those before it in its batch, unless another
\* one of its nonce was.
Mine(o, i, outcome) ==
    LET t == TxsOf[o][i]
        taken == \E p \in OpIds \ {o} : /\ NonceOf[p] = NonceOf[o]
                                        /\ mined[TxsOf[p][1]] \in {"success", "failure"}
    IN /\ opState[o] # "none" /\ mined[t] = "pending"
       /\ \A j \in 1..(i - 1) : mined[TxsOf[o][j]] # "pending"
       /\ taken => outcome = "dropped"
       /\ mined' = [mined EXCEPT ![t] = outcome]
       /\ UNCHANGED <<aged, opVars, passStep, pass, updated, externalVars>>

FiveMinutesPass(o) ==
    /\ opState[o] = Pending /\ ~aged[o]
    /\ aged' = [aged EXCEPT ![o] = TRUE]
    /\ UNCHANGED <<mined, opVars, passStep, pass, updated, externalVars>>

-----------------------------------------------------------------------------
(* The pass: #updateAccountsOpsStatuses.                                   *)

\* Reads of the list are over, unless they may overlap with the rest.
Calm == "view" \in ActivityEnvironment \/ reads = {}

Recent(o) == Cardinality({p \in OpIds : p > o /\ opState[p] # "none"}) < MAX_OPS
ToUpdate == {o \in OpIds : opState[o] = Pending /\ Recent(o)}
PastNonce(o) == \E p \in OpIds \ {o} : NonceOf[p] = NonceOf[o] /\ opState[p] \in {"success", "failure"}

\* One pass per account: further calls share its promise.
BeginPass ==
    /\ pass = "none" /\ ToUpdate # {} /\ Calm
    /\ pass' = "ops"
    /\ updated' = {o \in ToUpdate : PastNonce(o)}
    /\ opState' = [o \in OpIds |-> IF o \in updated' THEN "unknown-but-past-nonce"
                                   ELSE opState[o]]
    /\ passStep' = [o \in OpIds |->
         IF o \notin ToUpdate \ updated' THEN "idle"
         ELSE IF KindOf[o] = "batch" THEN "receipts" ELSE "txid"]
    /\ UNCHANGED <<minedVars, callState, learned, externalVars>>

\* updateOpStatus: in a batch the status is that of the first call that has
\* none, or of the last call, and the operation has one when every call has.
FirstLeft(calls) == IF \E i \in DOMAIN calls : calls[i] = Pending
                    THEN CHOOSE i \in DOMAIN calls :
                           calls[i] = Pending /\ \A j \in 1..(i - 1) : calls[j] # Pending
                    ELSE Len(calls)

updateOpStatus(calls, status) == [calls EXCEPT ![FirstLeft(calls)] = status]

\* Mutant: nobody says that a transaction is lost.
WithReceiptOnly(o, calls, tx) ==
    IF mined[tx] \in {"success", "failure"} THEN updateOpStatus(calls, mined[tx]) ELSE calls

\* The receipt of a transaction, if it was there when the receipts were asked
\* for, or the status of one that nobody knows any more.
WithReceipt(o, calls, tx) ==
    CASE mined[tx] \in {"success", "failure"} -> updateOpStatus(calls, mined[tx])
      [] mined[tx] = "dropped" /\ aged[o] -> updateOpStatus(calls, "broadcast-but-stuck")
      [] OTHER -> calls

\* The receipts of the first n transactions, one after the other.
AfterReceipts(o, n) ==
    LET after[k \in 0..n] == IF k = 0 THEN callState[o]
                             ELSE WithReceipt(o, after[k - 1], TxsOf[o][k])
    IN after[n]

\* The pass is done with o, whose calls got these statuses.
Judged(o, calls) ==
    /\ passStep' = [passStep EXCEPT ![o] = "idle"]
    /\ callState' = [callState EXCEPT ![o] = calls]
    /\ IF \E i \in DOMAIN calls : calls[i] = Pending THEN UNCHANGED <<opState, updated>>
       ELSE /\ opState' = [opState EXCEPT ![o] = calls[Len(calls)]]
            /\ updated' = updated \cup {o}
    /\ UNCHANGED <<minedVars, pass, externalVars>>

\* fetchTxnId: a bundler may know a transaction that another bundler's has
\* preceded, reject what another one mined, or know nothing.
FindTxn(o) ==
    /\ passStep[o] = "txid"
    /\ \/ /\ KindOf[o] = "eoa" \/ mined[TxsOf[o][1]] \in {"success", "failure"}
          /\ learned' \in {[learned EXCEPT ![o] = l] :
                             l \in IF KindOf[o] = "userop" THEN {"decoy", "known"} ELSE {"known"}}
          /\ passStep' = [passStep EXCEPT ![o] = "receipts"]
          /\ UNCHANGED <<minedVars, opState, callState, pass, updated, externalVars>>
       \/ /\ KindOf[o] = "userop" /\ UNCHANGED learned
          /\ \/ Judged(o, updateOpStatus(callState[o], "rejected"))
             \/ Judged(o, IF aged[o] THEN updateOpStatus(callState[o], "broadcast-but-stuck")
                          ELSE callState[o])

\* The receipts are there.  A failed one of a user operation may be that of
\* the transaction another bundler preceded (fetchFrontRanTxnId), which is
\* looked for five times.
Receipts(o) ==
    /\ passStep[o] = "receipts"
    /\ IF learned[o] = "decoy"
       THEN \/ learned' = [learned EXCEPT ![o] = "known"] /\ Judged(o, AfterReceipts(o, Len(TxsOf[o])))
            \/ UNCHANGED learned /\ Judged(o, updateOpStatus(callState[o], "failure"))
       ELSE UNCHANGED learned /\ Judged(o, AfterReceipts(o, Len(TxsOf[o])))

\* A request to the provider throws: for the receipts, and then the statuses
\* stay, or for a transaction that has none, after those before it.
ReceiptsFail(o) ==
    /\ passStep[o] = "receipts"
    /\ UNCHANGED learned
    /\ \E n \in 0..(Len(TxsOf[o]) - 1) :
         /\ n = 0 \/ mined[TxsOf[o][n + 1]] \in {"pending", "dropped"}
         /\ Judged(o, AfterReceipts(o, n))

KnownTxs(o) == IF learned[o] = "known" THEN ToSet(TxsOf[o]) ELSE {}

\* #removeExternalAccountOpsMatchingInternalOps
EndOps ==
    /\ Calm /\ pass = "ops" /\ \A o \in OpIds : passStep[o] = "idle"
    /\ pass' = "save"
    /\ external' = external \ UNION {KnownTxs(o) : o \in updated}
    /\ stored' = IF external' # external THEN external' ELSE stored
    /\ UNCHANGED <<minedVars, opVars, passStep, updated, adding, reads>>

\* persistAccountsOps, which reads the list again for the screen.
EndPass ==
    /\ Calm /\ pass = "save"
    /\ pass' = "none" /\ updated' = {}
    /\ reads' = reads \cup {stored}
    /\ UNCHANGED <<minedVars, opVars, passStep, external, stored, adding>>

-----------------------------------------------------------------------------
(* The external transactions.                                              *)

Listed(t) == t \in external \/ \E o \in OpIds : opState[o] # "none" /\ t \in KnownTxs(o)

\* #addExternalAccountOp up to its awaits; calls wait for one another.
BeginAdd(t) ==
    /\ Calm /\ adding = NoTx /\ ~Listed(t)
    /\ t \in Txs => mined[t] \in {"success", "failure"}
    /\ adding' = t
    /\ UNCHANGED <<minedVars, opVars, passStep, pass, updated, external, stored, reads>>

\* Mutant: the list is not looked at again after the awaits.
EndAddUnchecked ==
    /\ Calm /\ adding # NoTx /\ adding' = NoTx
    /\ external' = external \cup {adding} /\ stored' = external'
    /\ reads' = reads \cup {stored'}
    /\ UNCHANGED <<minedVars, opVars, passStep, pass, updated>>

EndAdd ==
    /\ Calm /\ adding # NoTx /\ adding' = NoTx
    /\ IF Listed(adding) THEN UNCHANGED <<external, stored, reads>>
       ELSE /\ external' = external \cup {adding} /\ stored' = external'
            /\ reads' = reads \cup {stored'}
    /\ UNCHANGED <<minedVars, opVars, passStep, pass, updated>>

\* filterAccountsOps: what it reads replaces the list in memory.
BeginView ==
    /\ "view" \in ActivityEnvironment
    /\ reads' = reads \cup {stored}
    /\ UNCHANGED <<minedVars, opVars, passStep, pass, updated, external, stored, adding>>

EndView(value) ==
    /\ value \in reads /\ reads' = reads \ {value}
    /\ external' = value
    /\ UNCHANGED <<minedVars, opVars, passStep, pass, updated, stored, adding>>

ActivityNext ==
    \/ \E o \in OpIds : \/ addAccountOp(o) \/ FiveMinutesPass(o)
                        \/ \E i \in DOMAIN TxsOf[o], outcome \in {"success", "failure", "dropped"} :
                             Mine(o, i, outcome)
    \/ BeginPass \/ EndOps \/ EndPass
    \/ \E o \in OpIds : FindTxn(o) \/ Receipts(o) \/ ReceiptsFail(o)
    \/ EndAdd \/ BeginView
    \/ \E t \in Txs \cup OtherTxs : BeginAdd(t)
    \/ \E value \in reads : EndView(value)

\* Transactions are mined or dropped, time passes, the interval of
\* ContinuousUpdatesController asks while an operation is pending, and the
\* provider does not fail for ever.
ActivityFairness ==
    /\ \A o \in OpIds :
         /\ WF_activityVars(FiveMinutesPass(o))
         /\ \A i \in DOMAIN TxsOf[o] :
              WF_activityVars(\E outcome \in {"success", "failure", "dropped"} : Mine(o, i, outcome))
         /\ WF_activityVars(FindTxn(o) \/ Receipts(o) \/ ReceiptsFail(o))
         /\ SF_activityVars(Receipts(o))
    /\ WF_activityVars(\E value \in reads : EndView(value))
    /\ WF_activityVars(BeginPass) /\ WF_activityVars(EndOps) /\ WF_activityVars(EndPass)

ActivitySpec == ActivityInit /\ [][ActivityNext]_activityVars /\ ActivityFairness

-----------------------------------------------------------------------------
\* When nothing is under way, no transaction is listed both as an external one
\* and as one of an operation whose outcome is known.
NoDuplicateListed ==
    pass = "none" /\ adding = NoTx /\ reads = {} =>
        \A o \in OpIds : opState[o] \in Final => KnownTxs(o) \cap external = {}

\* An operation gets its status as a whole when none of its transactions is
\* still to be confirmed.
SettledAsAWhole ==
    \A o \in OpIds : opState[o] \in {"success", "failure"} =>
        \A i \in DOMAIN TxsOf[o] : mined[TxsOf[o][i]] # "pending"

\* Every operation among the newest ones gets an outcome in the end, also one
\* whose transaction is lost (updateAccountsOpsStatuses).
OpSettles == []<>(ToUpdate = {})
=============================================================================
