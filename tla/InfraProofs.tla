------------------------------ MODULE InfraProofs ------------------------------
(***************************************************************************)
(* What the email vault, the messages to sign and the requests for them,   *)
(* the account picker and the apps promise, for any number of operations,  *)
(* and any keys, messages, dapps and accounts; and the types of all that   *)
(* MC_Infra composes.                                                      *)
(*                                                                         *)
(* AccountPicker: all that is derived or chosen is of the iterator and the *)
(* path of the moment.  DappConnections: the apps there are agree with     *)
(* what was granted, and what is stored does up to accounts that are gone. *)
(***************************************************************************)
EXTENDS MC_Infra, StorageProofs, KeystoreProofs

-----------------------------------------------------------------------------
(* The email vault: a recovery that was cancelled stores nothing.  A       *)
(* handler that the user cancelled has no magic link key, so that it is    *)
(* still in its confirmation or about to give up: the answer of the last   *)
(* poll does not count any more.                                           *)

Tasks == [kind : Kinds, pc : Pcs] \cup {NoTask}

CancelInv ==
    /\ task \in Tasks
    /\ "waiting" \in flags => AwaitsEmail
    /\ AwaitsEmail => ~magicKey
    /\ cancelled => stop /\ ~magicKey /\ (AwaitsEmail \/ task.pc = "ready")

\* What CancelInv says of a task at one place.
LEMMA Placed ==
    ASSUME CancelInv
    PROVE  /\ task # NoTask => task.kind \in Kinds /\ task.pc \in Pcs
           /\ NoTask.kind = "none" /\ NoTask.pc = "idle"
  BY DEF CancelInv, Tasks, NoTask

LEMMA WentOn ==
    ASSUME CancelInv, task # NoTask, NEW pc \in Pcs, GoOn(pc)
    PROVE  task' \in Tasks /\ task'.pc = pc /\ cancelled' = cancelled
  BY DEF GoOn, CancelInv, Tasks

LEMMA TaskEnded ==
    ASSUME NEW left, EndTask(left), "waiting" \notin left
    PROVE  CancelInv'
  BY DEF EndTask, CancelInv, AwaitsEmail, Tasks, NoTask

\* A handler that is not cancelled goes on, past its confirmation.
LEMMA WentPast ==
    ASSUME CancelInv, task # NoTask, ~cancelled, NEW pc \in Pcs, GoOn(pc),
           pc \notin {"infoEmail", "email", "lastEmail"}, "waiting" \notin flags'
    PROVE  CancelInv'
  BY WentOn DEF CancelInv, AwaitsEmail

LEMMA EmailAwaited ==
    ASSUME CancelInv, task # NoTask, ~cancelled, ~magicKey, magicKey' = magicKey,
           NEW pc \in {"infoEmail", "email", "lastEmail"}, AwaitEmail(pc)
    PROVE  CancelInv'
  <1>1. pc \in Pcs
    BY DEF Pcs
  <1>2. GoOn(pc)
    BY DEF AwaitEmail
  <1> QED  BY <1>1, <1>2, WentOn DEF CancelInv, AwaitsEmail

\* The steps that do not touch the task: its key is only ever taken away.
LEMMA TaskKept ==
    ASSUME CancelInv, UNCHANGED <<task, cancelled, stop>>, magicKey' \in {magicKey, FALSE},
           flags' = flags
    PROVE  CancelInv'
  <1>1. CASE magicKey' = magicKey
    BY <1>1 DEF CancelInv, AwaitsEmail
  <1>2. CASE magicKey' = FALSE
    BY <1>2 DEF CancelInv, AwaitsEmail
  <1> QED  BY <1>1, <1>2

LEMMA CallVaultInv ==
    ASSUME CancelInv, NEW kind \in Kinds, CallVault(kind)
    PROVE  CancelInv'
  <1>1. task = NoTask /\ ~cancelled /\ "waiting" \notin flags
    BY Placed DEF CallVault, CancelInv, AwaitsEmail
  <1>2. task' \in Tasks /\ task'.pc \in {"read", "info", "ready"}
    BY DEF CallVault, Tasks, Pcs
  <1>3. UNCHANGED <<magicKey, stop, flags, cancelled>>
    BY DEF CallVault, emailVars
  <1> QED  BY <1>1, <1>2, <1>3 DEF CancelInv, AwaitsEmail

\* The handlers' steps outside a confirmation.
LEMMA NotCancelled ==
    ASSUME CancelInv, task # NoTask, ~AwaitsEmail, task.pc # "ready"
    PROVE  ~cancelled /\ "waiting" \notin flags
  BY DEF CancelInv

LEMMA AfterInfoInv ==
    ASSUME CancelInv, task # NoTask, AfterInfo, magicKey' = magicKey,
           task.pc \in {"info", "lastInfo"} \/ (~magicKey /\ AwaitsEmail),
           cancelled => stop'
    PROVE  CancelInv'
  <1>1. CASE task.kind # "info" /\ task.pc \in {"info", "infoEmail"}
    <2>1. GoOn("ready") /\ flags' = flags \ {"waiting"}
      BY <1>1 DEF AfterInfo
    <2>2. task' \in Tasks /\ task'.pc = "ready" /\ cancelled' = cancelled
      BY <2>1, WentOn DEF Pcs
    <2>3. cancelled => ~magicKey
      BY DEF CancelInv
    <2> QED  BY <2>1, <2>2, <2>3 DEF CancelInv, AwaitsEmail
  <1>2. CASE ~(task.kind # "info" /\ task.pc \in {"info", "infoEmail"})
    BY <1>2, TaskEnded DEF AfterInfo
  <1> QED  BY <1>1, <1>2

LEMMA ProceedInv ==
    ASSUME CancelInv, task # NoTask, ~cancelled, Proceed
    PROVE  CancelInv'
  <1>1. CASE GoOn("local") /\ flags' = (flags \ {"waiting"}) \cup {"uploading"}
    BY <1>1, WentPast DEF Pcs
  <1>2. CASE GoOn("remote") /\ flags' = (flags \ {"waiting"}) \cup {"removing"}
    BY <1>2, WentPast DEF Pcs
  <1> QED  BY <1>1, <1>2 DEF Proceed

LEMMA VaultReadyInv ==
    ASSUME CancelInv, VaultReady
    PROVE  CancelInv'
  <1>1. task # NoTask /\ task.pc = "ready" /\ ~AwaitsEmail
    BY Placed DEF VaultReady, AwaitsEmail
  <1>2. magicKey' = magicKey
    BY DEF VaultReady
  <1>3. CASE magicKey /\ Proceed
    BY <1>1, <1>3, ProceedInv DEF CancelInv
  <1>4. CASE ~magicKey /\ ~stop /\ AwaitEmail("email")
    BY <1>1, <1>2, <1>4, EmailAwaited DEF CancelInv
  <1>5. CASE EndTask(flags \ {"uploading"})
    <2>1. "waiting" \notin flags
      BY <1>1 DEF CancelInv
    <2> QED  BY <1>5, <2>1, TaskEnded
  <1> QED  BY <1>3, <1>4, <1>5 DEF VaultReady

LEMMA EmailConfirmedInv ==
    ASSUME CancelInv, EmailConfirmed
    PROVE  CancelInv'
  <1>1. task # NoTask
    BY Placed DEF EmailConfirmed, AwaitsEmail
  <1>2. ~cancelled
    BY DEF EmailConfirmed, AnswerCounts, CancelInv
  <1>3. CASE task.pc = "email"
    BY <1>1, <1>2, <1>3, ProceedInv DEF EmailConfirmed
  <1>4. CASE task.pc # "email"
    <2>1. PICK pc \in {"info", "lastInfo"} : GoOn(pc) /\ flags' = flags \ {"waiting"}
      BY <1>4 DEF EmailConfirmed
    <2> QED  BY <1>1, <1>2, <2>1, WentPast DEF Pcs
  <1> QED  BY <1>3, <1>4

\* A step of a handler that is past its confirmation: on, or over.
LEMMA HandlerStepInv ==
    ASSUME CancelInv, task.pc \in {"local", "remote", "read", "unlock", "drop", "add"},
           \/ \E pc \in {"remote", "local", "lastInfo", "unlock", "drop", "add"} :
                GoOn(pc) /\ flags' = flags
           \/ \E left \in {flags, flags \ {"removing"}} : EndTask(left)
    PROVE  CancelInv' /\ ~cancelled
  <1>1. task # NoTask /\ ~AwaitsEmail /\ task.pc # "ready"
    BY Placed DEF AwaitsEmail
  <1>2. ~cancelled /\ "waiting" \notin flags
    BY <1>1, NotCancelled
  <1>3. ASSUME NEW pc \in {"remote", "local", "lastInfo", "unlock", "drop", "add"},
               GoOn(pc), flags' = flags
        PROVE  CancelInv'
    BY <1>1, <1>2, <1>3, WentPast DEF Pcs
  <1>4. ASSUME NEW left \in {flags, flags \ {"removing"}}, EndTask(left) PROVE CancelInv'
    BY <1>2, <1>4, TaskEnded
  <1> QED  BY <1>2, <1>3, <1>4

LEMMA NextCancelInv ==
    ASSUME CancelInv, [VaultNext]_vaultVars
    PROVE  CancelInv' /\ (cancelled => UNCHANGED <<secrets, vault>>)
  <1>1. ASSUME NEW kind \in Kinds, CallVault(kind)
        PROVE  CancelInv' /\ UNCHANGED <<secrets, vault>>
    BY <1>1, CallVaultInv DEF CallVault, keystoreVars
  <1>2. ASSUME NEW reply \in {"ok", "fails", "noSession"}, InfoAnswers(reply)
        PROVE  CancelInv' /\ UNCHANGED <<secrets, vault>>
    <2>1. /\ task # NoTask /\ task.pc \in {"info", "lastInfo"} /\ ~AwaitsEmail
          /\ magicKey' = magicKey /\ stop' = stop /\ UNCHANGED <<secrets, vault>>
      BY <1>2, Placed DEF InfoAnswers, AwaitsEmail, keystoreVars
    <2>2. CASE AfterInfo
      <3>1. ~cancelled
        BY <2>1, NotCancelled
      <3>2. task.pc \in {"info", "lastInfo"} \/ (~magicKey /\ AwaitsEmail)
        BY <2>1
      <3>3. cancelled => stop'
        BY <3>1
      <3>4. magicKey' = magicKey
        BY <2>1
      <3>5. CancelInv'
        BY <2>1, <2>2, <3>2, <3>3, <3>4, AfterInfoInv
      <3> QED  BY <2>1, <3>5
    <2>3. CASE ThrowTask
      BY <2>1, <2>3, TaskEnded DEF ThrowTask, CancelInv
    <2> QED  BY <1>2, <2>1, <2>2, <2>3 DEF InfoAnswers
  <1>3. CASE InfoNeedsEmail
    <2>1. task # NoTask /\ ~cancelled /\ ~magicKey /\ magicKey' = magicKey
      BY <1>3, Placed DEF InfoNeedsEmail, CancelInv, AwaitsEmail
    <2>2. PICK pc \in {"infoEmail", "email", "lastEmail"} : AwaitEmail(pc)
      BY <1>3 DEF InfoNeedsEmail
    <2> QED  BY <1>3, <2>1, <2>2, EmailAwaited DEF InfoNeedsEmail, keystoreVars
  <1>4. CASE VaultReady
    BY <1>4, VaultReadyInv DEF VaultReady, keystoreVars
  <1>5. CASE EmailConfirmed
    BY <1>5, EmailConfirmedInv DEF EmailConfirmed, keystoreVars
  <1>6. CASE PollAnswered
    BY <1>6 DEF PollAnswered, CancelInv, AwaitsEmail, keystoreVars
  <1>7. CASE EmailNotConfirmed
    <2>1. task # NoTask /\ AwaitsEmail /\ ~magicKey /\ magicKey' = magicKey
          /\ UNCHANGED <<secrets, vault>>
      BY <1>7, Placed DEF EmailNotConfirmed, AwaitsEmail, CancelInv, keystoreVars
    <2>2. cancelled => stop'
      <3>1. cancelled => stop
        BY DEF CancelInv
      <3>2. stop' = stop \/ stop' = TRUE
        BY <1>7 DEF EmailNotConfirmed
      <3> QED  BY <3>1, <3>2
    <2>3. CASE EndTask({})
      BY <2>1, <2>3, TaskEnded
    <2>4. CASE AfterInfo
      BY <2>1, <2>2, <2>4, AfterInfoInv
    <2> QED  BY <1>7, <2>1, <2>3, <2>4 DEF EmailNotConfirmed
  <1>8. CASE CancelEmail
    <2>1. AwaitsEmail /\ ~magicKey
      BY <1>8 DEF CancelEmail, CancelInv
    <2> QED  BY <1>8, <2>1 DEF CancelEmail, CancelInv, AwaitsEmail, keystoreVars
  <1>9. CASE AddRecoverySecret
    BY <1>9, HandlerStepInv DEF AddRecoverySecret, emailVars
  <1>10. CASE DropRecoverySecret
    BY <1>10, HandlerStepInv DEF DropRecoverySecret, emailVars
  <1>11. ASSUME NEW reply \in {"ok", "fails"},
                UploadAnswered(reply) \/ RemovalAnswered(reply) \/ RecoverySecretRead(reply)
         PROVE  CancelInv' /\ ~cancelled
    <2>1. task.pc \in {"local", "remote", "read", "unlock", "drop", "add"}
      BY <1>11 DEF UploadAnswered, RemovalAnswered, RecoverySecretRead
    <2>2. \/ \E pc \in {"remote", "local", "lastInfo", "unlock", "drop", "add"} :
               GoOn(pc) /\ flags' = flags
          \/ \E left \in {flags, flags \ {"removing"}} : EndTask(left)
      BY <1>11 DEF UploadAnswered, RemovalAnswered, RecoverySecretRead, ThrowTask
    <2> QED  BY <2>1, <2>2, HandlerStepInv
  <1>12. CASE UnlockWithRecovery
    BY <1>12, HandlerStepInv DEF UnlockWithRecovery, emailVars
  <1>13. CASE DropPassword
    BY <1>13, HandlerStepInv DEF DropPassword, emailVars
  <1>14. CASE AddPassword
    BY <1>14, HandlerStepInv DEF AddPassword
  <1>15. CASE UnlockWithPassword
    BY <1>15, TaskKept DEF UnlockWithPassword, OpenKeystore, emailVars
  <1>16. CASE LockWallet
    BY <1>16, TaskKept DEF LockWallet
  <1>17. CASE MagicKeyExpires
    BY <1>17, TaskKept DEF MagicKeyExpires, keystoreVars
  <1>18. CASE RestartVault
    BY <1>18, TaskEnded DEF RestartVault
  <1>19. CASE UNCHANGED vaultVars
    BY <1>19, TaskKept DEF vaultVars, keystoreVars, emailVars
  <1> QED
    BY <1>1, <1>2, <1>3, <1>4, <1>5, <1>6, <1>7, <1>8, <1>9, <1>10, <1>11, <1>12, <1>13,
       <1>14, <1>15, <1>16, <1>17, <1>18, <1>19 DEF VaultNext

\* A handler whose confirmation was cancelled changes neither the keystore's
\* secrets nor the vault, for any number of uploads and at any moment of the
\* polling (handleMagicLinkKey, #uploadKeyStoreSecret, #removeKeyStoreSecret).
THEOREM CancelledStoresNothingHolds == VaultSpec => CancelledStoresNothing
  <1>1. VaultInit => CancelInv
    BY DEF VaultInit, CancelInv, Tasks, AwaitsEmail, NoTask
  <1>2. CancelInv /\ [VaultNext]_vaultVars => CancelInv'
    BY NextCancelInv
  <1>3. CancelInv /\
         [VaultNext]_vaultVars => [cancelled => UNCHANGED <<secrets, vault>>]_vaultVars
    BY NextCancelInv
  <1> QED  BY <1>1, <1>2, <1>3, PTL DEF VaultSpec, CancelledStoresNothing

SecretMaps == [Ids -> [value : 0..MAX_UPLOADS + 1, mk : 0..OtherMainKey]]

\* What the keystore's handlers make of its secrets has their type.
LEMMA SecretsTyped ==
    ASSUME VaultTypeOK
    PROVE  /\ \A id \in Ids, value \in 0..MAX_UPLOADS + 1 :
                AddVaultSecret(id, value) => secrets' \in SecretMaps /\ openedBy' = openedBy
           /\ \A id \in Ids :
                RemoveVaultSecret(id) => secrets' \in SecretMaps /\ openedBy' = openedBy
           /\ \A value : \A id \in Ids :
                OpenKeystore(id, value) => secrets' = secrets /\ openedBy' \in 0..OtherMainKey
  <1> USE DEF SecretMaps
  <1>0. /\ secrets \in SecretMaps /\ openedBy \in 0..OtherMainKey /\ OtherMainKey = 2
        /\ MAX_UPLOADS \in Nat \ {0}
    BY UploadsAssumption DEF VaultTypeOK, OtherMainKey
  <1>1. ASSUME NEW id \in Ids, NEW value \in 0..MAX_UPLOADS + 1, AddVaultSecret(id, value)
        PROVE  secrets' \in SecretMaps /\ openedBy' = openedBy
    <2> DEFINE mk == IF openedBy # 0 THEN openedBy ELSE OtherMainKey
    <2>1. mk \in 0..OtherMainKey
      BY <1>0
    <2> HIDE DEF mk
    <2>2. [secrets EXCEPT ![id] = [value |-> value, mk |-> mk]] \in SecretMaps
      BY <1>0, <2>1
    <2>3. \/ secrets' = secrets
          \/ secrets' = [secrets EXCEPT ![id] = [value |-> value, mk |-> mk]]
      BY <1>1 DEF AddVaultSecret, mk
    <2>4. openedBy' = openedBy
      BY <1>1 DEF AddVaultSecret
    <2> QED  BY <1>0, <2>2, <2>3, <2>4
  <1>2. ASSUME NEW id \in Ids, RemoveVaultSecret(id)
        PROVE  secrets' \in SecretMaps /\ openedBy' = openedBy
    <2>1. NoSecret \in [value : 0..MAX_UPLOADS + 1, mk : 0..OtherMainKey]
      BY <1>0 DEF NoSecret
    <2> QED  BY <1>0, <1>2, <2>1 DEF RemoveVaultSecret
  <1>3. ASSUME NEW id \in Ids, NEW value, OpenKeystore(id, value)
        PROVE  secrets' = secrets /\ openedBy' \in 0..OtherMainKey
    BY <1>0, <1>3 DEF OpenKeystore
  <1> QED  BY <1>1, <1>2, <1>3

LEMMA VaultUnchanged ==
    ASSUME VaultTypeOK, CancelInv', cancelled' \in BOOLEAN,
           UNCHANGED <<keystoreVars, vault, uploads>>,
           known' \in {"unknown", "disabled", "enabled"},
           magicKey' \in BOOLEAN, session' \in BOOLEAN, stop' \in BOOLEAN,
           flags' \subseteq {"waiting", "uploading", "removing"}
    PROVE  VaultTypeOK'
  <1>1. task' \in Tasks /\ (cancelled' => task' # NoTask)
    BY DEF CancelInv, AwaitsEmail, NoTask
  <1> QED  BY <1>1 DEF VaultTypeOK, keystoreVars, Tasks

\* A handler that goes on or ends.
LEMMA TaskTyped ==
    ASSUME VaultTypeOK
    PROVE  /\ \A pc : GoOn(pc) => cancelled' \in BOOLEAN
           /\ \A left : EndTask(left) => cancelled' \in BOOLEAN /\ flags' = left
           /\ \A pc : AwaitEmail(pc) => /\ cancelled' \in BOOLEAN /\ stop' = FALSE
                                        /\ flags' = flags \cup {"waiting"}
           /\ Proceed => /\ cancelled' \in BOOLEAN
                         /\ flags' \subseteq {"waiting", "uploading", "removing"}
           /\ AfterInfo => /\ cancelled' \in BOOLEAN
                           /\ flags' \subseteq {"waiting", "uploading", "removing"}
  BY DEF VaultTypeOK, GoOn, EndTask, AwaitEmail, Proceed, AfterInfo

LEMMA NextVaultType ==
    ASSUME VaultTypeOK, CancelInv', [VaultNext]_vaultVars
    PROVE  VaultTypeOK'
  <1>0. /\ cancelled \in BOOLEAN /\ known \in {"unknown", "disabled", "enabled"}
        /\ magicKey \in BOOLEAN /\ session \in BOOLEAN /\ stop \in BOOLEAN
        /\ flags \subseteq {"waiting", "uploading", "removing"}
        /\ vault \in 0..uploads /\ uploads \in 0..MAX_UPLOADS
        /\ secrets \in SecretMaps /\ openedBy \in 0..OtherMainKey
    BY DEF VaultTypeOK, SecretMaps
  <1>00. task' \in Tasks /\ (cancelled' => task' # NoTask)
    BY DEF CancelInv, AwaitsEmail, NoTask
  <1>1. ASSUME NEW kind \in Kinds, CallVault(kind) PROVE VaultTypeOK'
    BY <1>0, <1>1, VaultUnchanged DEF CallVault, emailVars
  <1>2. ASSUME NEW reply \in {"ok", "fails", "noSession"}, InfoAnswers(reply) PROVE VaultTypeOK'
    <2>1. /\ UNCHANGED <<keystoreVars, magicKey, stop, vault, uploads>>
          /\ known' \in {known, "enabled", "disabled"} /\ session' \in {session, TRUE}
      BY <1>2 DEF InfoAnswers
    <2>2. AfterInfo \/ EndTask(flags \ {"removing"})
      BY <1>2 DEF InfoAnswers, ThrowTask
    <2>3. cancelled' \in BOOLEAN /\ flags' \subseteq {"waiting", "uploading", "removing"}
      <3>1. CASE AfterInfo
        BY <3>1, TaskTyped
      <3>2. CASE EndTask(flags \ {"removing"})
        BY <1>0, <3>2 DEF EndTask
      <3> QED  BY <2>2, <3>1, <3>2
    <2> QED  BY <1>0, <2>1, <2>3, VaultUnchanged
  <1>3. CASE InfoNeedsEmail
    BY <1>0, <1>3, TaskTyped, VaultUnchanged DEF InfoNeedsEmail
  <1>4. CASE VaultReady
    <2>1. UNCHANGED <<keystoreVars, known, magicKey, session, vault, uploads>>
      BY <1>4 DEF VaultReady
    <2>2. \/ Proceed /\ stop' = stop
          \/ AwaitEmail("email")
          \/ EndTask(flags \ {"uploading"}) /\ stop' = stop
      BY <1>4 DEF VaultReady
    <2>3. /\ cancelled' \in BOOLEAN /\ flags' \subseteq {"waiting", "uploading", "removing"}
          /\ stop' \in BOOLEAN
      <3>1. CASE Proceed /\ stop' = stop
        BY <1>0, <3>1, TaskTyped
      <3>2. CASE AwaitEmail("email")
        BY <1>0, <3>2 DEF AwaitEmail, GoOn
      <3>3. CASE EndTask(flags \ {"uploading"}) /\ stop' = stop
        BY <1>0, <3>3 DEF EndTask
      <3> QED  BY <2>2, <3>1, <3>2, <3>3
    <2> QED  BY <1>0, <2>1, <2>3, VaultUnchanged
  <1>5. CASE EmailConfirmed
    <2>1. /\ UNCHANGED <<keystoreVars, known, stop, vault, uploads>>
          /\ magicKey' = TRUE /\ session' \in {session, TRUE}
      BY <1>5 DEF EmailConfirmed
    <2>2. \/ Proceed
          \/ (\E pc : GoOn(pc)) /\ flags' = flags \ {"waiting"}
      BY <1>5 DEF EmailConfirmed
    <2>3. cancelled' \in BOOLEAN /\ flags' \subseteq {"waiting", "uploading", "removing"}
      BY <1>0, <2>2, TaskTyped
    <2> QED  BY <1>0, <2>1, <2>3, VaultUnchanged
  <1>6. CASE PollAnswered
    BY <1>0, <1>6, VaultUnchanged DEF PollAnswered
  <1>7. CASE EmailNotConfirmed
    <2>1. /\ UNCHANGED <<keystoreVars, known, magicKey, session, vault, uploads>>
          /\ stop' \in {stop, TRUE} /\ (EndTask({}) \/ AfterInfo)
      BY <1>7 DEF EmailNotConfirmed
    <2>2. cancelled' \in BOOLEAN /\ flags' \subseteq {"waiting", "uploading", "removing"}
      BY <1>0, <2>1, TaskTyped
    <2> QED  BY <1>0, <2>1, <2>2, VaultUnchanged
  <1>8. CASE CancelEmail
    <2>1. /\ UNCHANGED <<keystoreVars, known, magicKey, session, vault, uploads>>
          /\ stop' = TRUE /\ flags' = flags \ {"waiting"} /\ cancelled' = (task # NoTask)
      BY <1>8 DEF CancelEmail
    <2>2. cancelled' \in BOOLEAN
      BY <2>1
    <2> QED  BY <1>0, <2>1, <2>2, VaultUnchanged
  <1>9. CASE AddRecoverySecret
    <2>1. /\ UNCHANGED <<emailVars, vault>> /\ uploads' = uploads + 1 /\ uploads < MAX_UPLOADS
          /\ AddVaultSecret("recovery", uploads') /\ GoOn("remote")
      BY <1>9 DEF AddRecoverySecret
    <2>2. /\ "recovery" \in Ids /\ uploads' \in 0..MAX_UPLOADS + 1 /\ uploads' \in 0..MAX_UPLOADS
          /\ vault' \in 0..uploads'
      BY <1>0, <2>1, UploadsAssumption DEF Ids
    <2>3. secrets' \in SecretMaps /\ openedBy' = openedBy
      BY <2>1, <2>2, SecretsTyped
    <2>4. cancelled' \in BOOLEAN
      BY <2>1, TaskTyped
    <2>5. UNCHANGED <<known, magicKey, session, stop, flags>>
      BY <2>1 DEF emailVars
    <2> QED  BY <1>0, <1>00, <2>2, <2>3, <2>4, <2>5 DEF VaultTypeOK, SecretMaps, Tasks
  <1>10. ASSUME DropRecoverySecret \/ DropPassword PROVE VaultTypeOK'
    <2>1. /\ UNCHANGED <<emailVars, vault, uploads>> /\ \E pc : GoOn(pc)
          /\ RemoveVaultSecret("recovery") \/ RemoveVaultSecret("password")
      BY <1>10 DEF DropRecoverySecret, DropPassword
    <2>2. secrets' \in SecretMaps /\ openedBy' = openedBy
      BY <2>1, SecretsTyped DEF Ids
    <2>3. cancelled' \in BOOLEAN
      BY <2>1, TaskTyped
    <2>4. UNCHANGED <<known, magicKey, session, stop, flags>>
      BY <2>1 DEF emailVars
    <2> QED  BY <1>0, <1>00, <2>1, <2>2, <2>3, <2>4 DEF VaultTypeOK, SecretMaps, Tasks
  <1>11. ASSUME NEW reply \in {"ok", "fails"},
                UploadAnswered(reply) \/ RemovalAnswered(reply) \/ RecoverySecretRead(reply)
         PROVE  VaultTypeOK'
    <2>1. /\ UNCHANGED <<keystoreVars, known, magicKey, session, stop, uploads>>
          /\ vault' \in {vault, 0, uploads}
      BY <1>11 DEF UploadAnswered, RemovalAnswered, RecoverySecretRead
    <2>2. \/ (\E pc : GoOn(pc)) /\ flags' = flags
          \/ \E left \in {flags, flags \ {"removing"}} : EndTask(left)
      BY <1>11 DEF UploadAnswered, RemovalAnswered, RecoverySecretRead, ThrowTask
    <2>3. cancelled' \in BOOLEAN /\ flags' \subseteq {"waiting", "uploading", "removing"}
      BY <1>0, <2>2, TaskTyped
    <2>4. vault' \in 0..uploads'
      BY <1>0, <2>1
    <2> QED  BY <1>0, <1>00, <2>1, <2>3, <2>4 DEF VaultTypeOK, keystoreVars, SecretMaps, Tasks
  <1>12. ASSUME UnlockWithRecovery \/ UnlockWithPassword PROVE VaultTypeOK'
    <2>1. /\ UNCHANGED <<emailVars, vault, uploads>>
          /\ (\E pc : GoOn(pc)) \/ cancelled' = cancelled
          /\ OpenKeystore("recovery", vault) \/ OpenKeystore("password", 1)
      BY <1>12 DEF UnlockWithRecovery, UnlockWithPassword
    <2>2. secrets' = secrets /\ openedBy' \in 0..OtherMainKey
      BY <2>1, SecretsTyped DEF Ids
    <2>3. cancelled' \in BOOLEAN
      BY <1>0, <2>1, TaskTyped
    <2>4. UNCHANGED <<known, magicKey, session, stop, flags>>
      BY <2>1 DEF emailVars
    <2> QED  BY <1>0, <1>00, <2>1, <2>2, <2>3, <2>4 DEF VaultTypeOK, SecretMaps, Tasks
  <1>13. CASE AddPassword
    <2>1. /\ UNCHANGED <<known, magicKey, session, stop, vault, uploads>>
          /\ AddVaultSecret("password", 1) /\ EndTask(flags)
      BY <1>13 DEF AddPassword
    <2>2. "password" \in Ids /\ 1 \in 0..MAX_UPLOADS + 1
      BY UploadsAssumption DEF Ids
    <2>3. secrets' \in SecretMaps /\ openedBy' = openedBy
      BY <2>1, <2>2, SecretsTyped
    <2>4. cancelled' \in BOOLEAN /\ flags' = flags
      BY <2>1, TaskTyped
    <2> QED  BY <1>0, <1>00, <2>1, <2>3, <2>4 DEF VaultTypeOK, SecretMaps, Tasks
  <1>14. CASE LockWallet
    <2>1. /\ UNCHANGED <<secrets, known, stop, flags, vault, uploads, cancelled>>
          /\ openedBy' = 0 /\ magicKey' = FALSE /\ session' = FALSE
      BY <1>14 DEF LockWallet
    <2>2. openedBy' \in 0..OtherMainKey
      BY <2>1 DEF OtherMainKey
    <2> QED  BY <1>0, <1>00, <2>1, <2>2 DEF VaultTypeOK, SecretMaps, Tasks
  <1>15. CASE MagicKeyExpires
    BY <1>0, <1>15, VaultUnchanged DEF MagicKeyExpires
  <1>16. CASE RestartVault
    <2>1. /\ UNCHANGED <<secrets, known, magicKey, vault, uploads>>
          /\ openedBy' = 0 /\ session' = FALSE /\ stop' = FALSE /\ EndTask({})
      BY <1>16 DEF RestartVault
    <2>2. openedBy' \in 0..OtherMainKey /\ cancelled' \in BOOLEAN /\ flags' = {}
      BY <2>1, TaskTyped DEF OtherMainKey
    <2> QED  BY <1>0, <1>00, <2>1, <2>2 DEF VaultTypeOK, SecretMaps, Tasks
  <1>17. CASE UNCHANGED vaultVars
    BY <1>0, <1>17, VaultUnchanged DEF vaultVars, emailVars
  <1> QED
    BY <1>1, <1>2, <1>3, <1>4, <1>5, <1>6, <1>7, <1>8, <1>9, <1>10, <1>11, <1>12, <1>13,
       <1>14, <1>15, <1>16, <1>17 DEF VaultNext

\* Secrets, vault, flags and the handler keep their types, and only a handler that
\* runs is cancelled, for any number of uploads.
THEOREM VaultTypeCorrect == VaultSpec => []VaultTypeOK
  <1>1. VaultInit => CancelInv /\ VaultTypeOK
    <2> SUFFICES ASSUME VaultInit PROVE CancelInv /\ VaultTypeOK
      OBVIOUS
    <2>1. CancelInv
      BY DEF VaultInit, CancelInv, Tasks, AwaitsEmail, NoTask
    <2>2. secrets \in [Ids -> [value : 0..MAX_UPLOADS + 1, mk : 0..OtherMainKey]]
      <3>1. /\ [value |-> 1, mk |-> TheirMainKey] \in [value : 0..MAX_UPLOADS + 1, mk : 0..OtherMainKey]
            /\ NoSecret \in [value : 0..MAX_UPLOADS + 1, mk : 0..OtherMainKey]
        BY UploadsAssumption DEF NoSecret, TheirMainKey, OtherMainKey
      <3> QED  BY <3>1 DEF VaultInit, Ids
    <2>3. /\ openedBy \in 0..OtherMainKey /\ vault \in 0..uploads /\ uploads \in 0..MAX_UPLOADS
      BY UploadsAssumption DEF VaultInit, TheirMainKey, OtherMainKey
    <2>4. task = NoTask /\ cancelled = FALSE /\ flags = {} /\ known = "unknown"
      BY DEF VaultInit
    <2> QED  BY <2>1, <2>2, <2>3, <2>4 DEF VaultInit, VaultTypeOK
  <1>2. CancelInv /\ VaultTypeOK /\ [VaultNext]_vaultVars => CancelInv' /\ VaultTypeOK'
    BY NextCancelInv, NextVaultType
  <1> QED  BY <1>1, <1>2, PTL DEF VaultSpec

-----------------------------------------------------------------------------
(* Messages: a dapp is answered only with the user's approval.  A signing  *)
(* that is still of the current generation was approved for the message    *)
(* that is installed, because every installation and every reset starts a  *)
(* generation that no signing has.                                         *)

\* What the device or the verification has is a signature.
SignatureInv ==
    \A s \in Signings : signing[s].pc \in {"device",
        "verify"} => signing[s].signature \in Signatures

\* No signing is of a later generation, one of this generation is approved.
ApprovalInv ==
    \A s \in Signings :
        /\ signing[s].generation <= generation
        /\ (signing[s].pc # "idle" /\ signing[s].generation = generation /\ message # NoMessage)
               => message \in approved

SignedInv == signed.of = NoMessage \/ signed.of \in approved

MessageInv ==
    MessageTypeOK /\ SignatureInv /\ ApprovalInv /\ SignedInv /\ AnsweredWasApproved

Slots == [pc : {"idle", "signer", "state", "device", "verify", "done"},
          generation : 0..MAX_INSTALLS, key : Owners \cup {NoMessage},
          signature : Signatures \cup {NoMessage}]

LEMMA SlotsType == MessageTypeOK => signing \in [Signings -> Slots]
  BY DEF MessageTypeOK, Slots

LEMMA NoSigningType == NoSigning \in Slots
  BY InstallsAssumption DEF NoSigning, Slots

LEMMA InitMessageInv == MessageInit => MessageInv
  <1> SUFFICES ASSUME MessageInit PROVE MessageInv
    OBVIOUS
  <1>1. MessageTypeOK
    <2>1. signing \in [Signings -> Slots]
      BY NoSigningType DEF MessageInit
    <2>2. generation \in 0..MAX_INSTALLS
      BY InstallsAssumption DEF MessageInit
    <2>3. answered \in [Messages -> Signatures \cup {NoMessage}]
      BY DEF MessageInit
    <2> QED  BY <2>1, <2>2, <2>3 DEF MessageInit, MessageTypeOK, Slots
  <1>2. SignatureInv /\ ApprovalInv
    BY DEF MessageInit, SignatureInv, ApprovalInv, NoSigning
  <1>3. SignedInv /\ AnsweredWasApproved
    BY DEF MessageInit, SignedInv, AnsweredWasApproved, Nobody
  <1> QED  BY <1>1, <1>2, <1>3 DEF MessageInv

\* An installation or a reset starts a generation no signing has.
LEMMA ClearedInv ==
    ASSUME MessageInv, Cleared, UNCHANGED <<signing, approved, answered>>
    PROVE  /\ generation' \in 0..MAX_INSTALLS /\ SignatureInv' /\ ApprovalInv'
           /\ SignedInv' /\ AnsweredWasApproved'
  <1>1. generation' = generation + 1 /\ generation' \in 0..MAX_INSTALLS /\ generation \in Nat
    BY InstallsAssumption DEF MessageInv, MessageTypeOK, Cleared
  <1>2. \A s \in Signings : signing[s].generation \in Nat
    BY SlotsType DEF MessageInv, Slots
  <1>3. ApprovalInv'
    BY <1>1, <1>2 DEF MessageInv, ApprovalInv
  <1>4. SignatureInv' /\ AnsweredWasApproved'
    BY DEF MessageInv, SignatureInv, AnsweredWasApproved
  <1>5. SignedInv'
    BY DEF Cleared, SignedInv, Nobody
  <1> QED  BY <1>1, <1>3, <1>4, <1>5

\* A signing that ends, or goes on without a new message, keeps the invariant.
LEMMA SlotKept ==
    ASSUME MessageInv, NEW s \in Signings, NEW slot \in Slots,
           signing' = [signing EXCEPT ![s] = slot],
           slot.generation = signing[s].generation \/ slot = NoSigning,
           slot.pc # "idle" => signing[s].pc # "idle",
           slot.pc \in {"device", "verify"} => slot.signature \in Signatures,
           UNCHANGED <<message, generation, approved>>
    PROVE  /\ signing' \in [Signings -> Slots]
           /\ SignatureInv' /\ ApprovalInv'
  <1>1. signing' \in [Signings -> Slots]
    BY SlotsType DEF MessageInv
  <1>2. SignatureInv'
    BY SlotsType DEF MessageInv, SignatureInv
  <1>3. generation \in Nat
    BY InstallsAssumption DEF MessageInv, MessageTypeOK
  <1>4. ApprovalInv'
    BY <1>3, SlotsType DEF MessageInv, ApprovalInv, NoSigning
  <1> QED  BY <1>1, <1>2, <1>4

LEMMA NextMessageInv == MessageInv /\ [MessageNext]_messageVars => MessageInv'
  <1> SUFFICES ASSUME MessageInv, [MessageNext]_messageVars PROVE MessageInv'
    OBVIOUS
  <1> USE DEF MessageInv
  <1>s. signing \in [Signings -> Slots]
    BY SlotsType
  <1>1. ASSUME NEW m \in Messages, InstallMessage(m) PROVE MessageInv'
    <2>1. generation' \in 0..MAX_INSTALLS /\ SignatureInv' /\ ApprovalInv' /\ SignedInv' /\
           AnsweredWasApproved'
      BY <1>1, ClearedInv DEF InstallMessage
    <2>2. MessageTypeOK'
      BY <1>1, <2>1 DEF MessageTypeOK, InstallMessage, Cleared
    <2> QED  BY <2>1, <2>2
  <1>2. ASSUME NEW m \in Messages, StateFetched(m) PROVE MessageInv'
    <2>1. OwnerOf[m] \in Owners
      BY OwnersAssumption
    <2>2. MessageTypeOK'
      BY <1>2, <2>1 DEF MessageTypeOK, StateFetched
    <2> QED  BY <1>2, <2>2 DEF StateFetched, SignatureInv, ApprovalInv, SignedInv,
           AnsweredWasApproved
  <1>3. CASE SetSigners
    <2>1. MessageTypeOK'
      BY <1>3, OwnersAssumption DEF MessageTypeOK, SetSigners
    <2> QED  BY <1>3, <2>1 DEF SetSigners, SignatureInv, ApprovalInv, SignedInv,
           AnsweredWasApproved
  <1>4. CASE ResetMessage
    <2>1. generation' \in 0..MAX_INSTALLS /\ SignatureInv' /\ ApprovalInv' /\ SignedInv' /\
           AnsweredWasApproved'
      BY <1>4, ClearedInv DEF ResetMessage
    <2>2. MessageTypeOK'
      BY <1>4, <2>1 DEF MessageTypeOK, ResetMessage, Cleared
    <2> QED  BY <2>1, <2>2
  <1>5. CASE CancelSignReq
    <2>1. MessageTypeOK'
      BY <1>5 DEF MessageTypeOK, CancelSignReq
    <2> QED  BY <1>5, <2>1 DEF CancelSignReq, SignatureInv, ApprovalInv, SignedInv,
           AnsweredWasApproved
  <1>6. ASSUME NEW s \in Signings, Approve(s) PROVE MessageInv'
    <2> DEFINE slot == [NoSigning EXCEPT !.pc = "signer", !.key = signers,
           !.generation = generation]
    <2>1. message \in Messages /\ generation \in 0..MAX_INSTALLS /\ signers \in Owners
      BY <1>6 DEF Approve, MessageTypeOK
    <2>2. slot \in Slots /\ slot.pc = "signer" /\ slot.generation = generation
      BY <2>1 DEF Slots, NoSigning
    <2>3. signing' = [signing EXCEPT ![s] = slot] /\ approved' = approved \cup {message}
      BY <1>6 DEF Approve
    <2> HIDE DEF slot
    <2>4. signing' \in [Signings -> Slots]
      BY <1>s, <2>2, <2>3
    <2>5. MessageTypeOK'
      BY <1>6, <2>1, <2>4 DEF MessageTypeOK, Approve, Slots
    <2>6. SignatureInv' /\ ApprovalInv'
      BY <1>6, <1>s, <2>1, <2>2, <2>3 DEF Approve, SignatureInv, ApprovalInv, Slots
    <2>7. SignedInv' /\ AnsweredWasApproved'
      BY <1>6, <2>3 DEF Approve, SignedInv, AnsweredWasApproved
    <2> QED  BY <2>5, <2>6, <2>7
  <1>7. ASSUME NEW s \in Signings, SignerFound(s) PROVE MessageInv'
    <2>1. \E slot \in {NoSigning, [signing[s] EXCEPT !.pc = "state"]} :
           signing' = [signing EXCEPT ![s] = slot]
      BY <1>7, <1>s DEF SignerFound, SigningMoves, SigningEnds, Slots
    <2>2. PICK slot \in {NoSigning, [signing[s] EXCEPT !.pc = "state"]} :
           signing' = [signing EXCEPT ![s] = slot]
      BY <2>1
    <2>3. /\ slot \in Slots
          /\ slot.generation = signing[s].generation \/ slot = NoSigning
          /\ slot.pc # "idle" => signing[s].pc # "idle"
          /\ slot.pc \notin {"device", "verify"}
      BY <1>7, <1>s, NoSigningType DEF Slots, NoSigning, SignerFound
    <2>4. UNCHANGED <<message, generation, approved, signed, answered, first, signers,
           fetching>>
      BY <1>7 DEF SignerFound
    <2>5. signing' \in [Signings -> Slots] /\ SignatureInv' /\ ApprovalInv'
      BY <2>2, <2>3, <2>4, SlotKept
    <2>6. signing[s].key \in Owners \cup {NoMessage} /\ busy' \in BOOLEAN /\
           signer' = signing[s].key
      BY <1>7, <1>s DEF Slots, SignerFound, SigningEnds, MessageTypeOK
    <2>7. MessageTypeOK'
      BY <2>4, <2>5, <2>6 DEF MessageTypeOK, Slots
    <2> QED  BY <2>4, <2>5, <2>7 DEF SignedInv, AnsweredWasApproved
  <1>8. ASSUME NEW s \in Signings, AskDevice(s) PROVE MessageInv'
    <2>1. UNCHANGED <<message, generation, approved, signed, answered, first, signers,
           signer, fetching>>
      BY <1>8 DEF AskDevice
    <2>2. busy' \in BOOLEAN
      BY <1>8 DEF AskDevice, SigningEnds, MessageTypeOK
    <2>3. signing' \in [Signings -> Slots] /\ SignatureInv' /\ ApprovalInv'
      <3>1. CASE message # NoMessage /\ signer # NoMessage
        <4> DEFINE slot == [signing[s] EXCEPT !.pc = "device", !.signature = [of |-> message,
               by |-> signer]]
        <4>1. [of |-> message, by |-> signer] \in Signatures
          BY <3>1 DEF MessageTypeOK, Signatures
        <4>2. /\ slot \in Slots /\ slot.generation = signing[s].generation
              /\ signing[s].pc # "idle" /\ slot.signature \in Signatures
          BY <1>s, <1>8, <4>1 DEF Slots, AskDevice
        <4>3. signing' = [signing EXCEPT ![s] = slot]
          BY <1>8, <3>1 DEF AskDevice
        <4> HIDE DEF slot
        <4> QED  BY <2>1, <4>2, <4>3, SlotKept
      <3>2. CASE ~(message # NoMessage /\ signer # NoMessage)
        <4>1. signing' = [signing EXCEPT ![s] = NoSigning]
          BY <1>8, <3>2 DEF AskDevice, SigningEnds
        <4> QED  BY <2>1, <4>1, NoSigningType, SlotKept DEF NoSigning
      <3> QED  BY <3>1, <3>2
    <2>4. MessageTypeOK'
      BY <2>1, <2>2, <2>3 DEF MessageTypeOK, Slots
    <2> QED  BY <2>1, <2>3, <2>4 DEF SignedInv, AnsweredWasApproved
  <1>9. ASSUME NEW s \in Signings, DeviceSigns(s) PROVE MessageInv'
    <2>1. UNCHANGED <<message, generation, approved, answered, signers, signer, fetching>>
      BY <1>9 DEF DeviceSigns
    <2>2. signing[s].pc = "device" /\ signing[s].signature \in Signatures
      BY <1>9 DEF DeviceSigns, SignatureInv
    <2>3. first' \in Signatures
      BY <1>9, <2>2 DEF DeviceSigns, MessageTypeOK
    <2>4. busy' \in BOOLEAN
      BY <1>9 DEF DeviceSigns, SigningEnds, Stores, MessageTypeOK
    <2>5. PICK slot \in {NoSigning, [signing[s] EXCEPT !.pc = "verify", !.signature = first'],
                         [signing[s] EXCEPT !.pc = "done"]} :
                             signing' = [signing EXCEPT ![s] = slot]
      BY <1>9, <1>s DEF DeviceSigns, SigningEnds, Stores, SigningMoves, Slots
    <2>6. /\ slot \in Slots
          /\ slot.generation = signing[s].generation \/ slot = NoSigning
          /\ slot.pc \in {"device", "verify"} => slot.signature \in Signatures
      BY <1>s, <2>2, <2>3, NoSigningType DEF Slots, NoSigning
    <2>7. signing' \in [Signings -> Slots] /\ SignatureInv' /\ ApprovalInv'
      BY <2>1, <2>2, <2>5, <2>6, SlotKept
    <2>8. signed' = signed \/ (Valid(s) /\ signed' = [of |-> message, signature |-> first'])
      BY <1>9 DEF DeviceSigns, Stores
    <2>9. Valid(s) => message \in Messages /\ message \in approved
      BY <2>2 DEF Valid, ApprovalInv, MessageTypeOK
    <2>10. SignedInv' /\ signed' \in [of : Messages, signature : Signatures] \cup {Nobody}
      BY <2>1, <2>3, <2>8, <2>9 DEF SignedInv, MessageTypeOK
    <2>11. MessageTypeOK'
      BY <2>1, <2>3, <2>4, <2>7, <2>10 DEF MessageTypeOK, Slots
    <2> QED  BY <2>1, <2>7, <2>10, <2>11 DEF AnsweredWasApproved
  <1>10. ASSUME NEW s \in Signings, SignatureVerified(s) PROVE MessageInv'
    <2>1. UNCHANGED <<message, generation, approved, answered, first, signers, signer,
           fetching>>
      BY <1>10 DEF SignatureVerified
    <2>2. signing[s].pc = "verify" /\ signing[s].signature \in Signatures
      BY <1>10 DEF SignatureVerified, SignatureInv
    <2>3. busy' \in BOOLEAN
      BY <1>10 DEF SignatureVerified, SigningEnds, Stores, MessageTypeOK
    <2>4. PICK slot \in {NoSigning, [signing[s] EXCEPT !.pc = "done"]} :
           signing' = [signing EXCEPT ![s] = slot]
      BY <1>10, <1>s DEF SignatureVerified, SigningEnds, Stores, SigningMoves, Slots
    <2>5. /\ slot \in Slots
          /\ slot.generation = signing[s].generation \/ slot = NoSigning
          /\ slot.pc \notin {"device", "verify"}
      BY <1>s, NoSigningType DEF Slots, NoSigning
    <2>6. signing' \in [Signings -> Slots] /\ SignatureInv' /\ ApprovalInv'
      BY <2>1, <2>2, <2>4, <2>5, SlotKept
    <2>7. signed' = signed \/ (Valid(s) /\
           signed' = [of |-> message, signature |-> signing[s].signature])
      BY <1>10 DEF SignatureVerified, Stores
    <2>8. Valid(s) => message \in Messages /\ message \in approved
      BY <2>2 DEF Valid, ApprovalInv, MessageTypeOK
    <2>9. SignedInv' /\ signed' \in [of : Messages, signature : Signatures] \cup {Nobody}
      BY <2>1, <2>2, <2>7, <2>8 DEF SignedInv, MessageTypeOK
    <2>10. MessageTypeOK'
      BY <2>1, <2>3, <2>6, <2>9 DEF MessageTypeOK, Slots
    <2> QED  BY <2>1, <2>6, <2>9, <2>10 DEF AnsweredWasApproved
  <1>11. ASSUME NEW s \in Signings, SigningFails(s) \/ ResolveSignMessage(s) PROVE MessageInv'
    <2>1. /\ UNCHANGED <<message, generation, approved, first, signers, signer, fetching,
           signed>>
          /\ signing' = [signing EXCEPT ![s] = NoSigning] /\ busy' \in BOOLEAN
      BY <1>11 DEF SigningFails, ResolveSignMessage, SigningEnds
    <2>2. signing' \in [Signings -> Slots] /\ SignatureInv' /\ ApprovalInv'
      BY <2>1, NoSigningType, SlotKept DEF NoSigning
    <2>3. answered' \in [Messages -> Signatures \cup {NoMessage}] /\ AnsweredWasApproved'
      <3>1. CASE SigningFails(s)
        BY <2>1, <3>1 DEF SigningFails, AnsweredWasApproved, MessageTypeOK
      <3>2. CASE ResolveSignMessage(s)
        <4>1. \A m \in Messages : m = signed.of => signed.signature \in Signatures /\
               m \in approved
          BY NoneAssumption DEF SignedInv, MessageTypeOK, Nobody
        <4> QED  BY <2>1, <3>2, <4>1 DEF ResolveSignMessage, AnsweredWasApproved, MessageTypeOK
      <3> QED  BY <1>11, <3>1, <3>2
    <2>4. MessageTypeOK'
      BY <2>1, <2>2, <2>3 DEF MessageTypeOK, Slots
    <2> QED  BY <2>1, <2>2, <2>3, <2>4 DEF SignedInv
  <1>12. CASE UNCHANGED messageVars
    BY <1>12 DEF messageVars, MessageTypeOK, SignatureInv, ApprovalInv, SignedInv,
        AnsweredWasApproved
  <1> QED
    BY <1>1, <1>2, <1>3, <1>4, <1>5, <1>6, <1>7, <1>8, <1>9, <1>10, <1>11, <1>12 DEF MessageNext

\* The inductive invariant holds in every reachable state.
THEOREM MessageInvariance == MessageSpec => []MessageInv
  BY InitMessageInv, NextMessageInv, PTL DEF MessageSpec

\* The state of the controller and of the answers keeps its type.
THEOREM MessageTypeCorrect == MessageSpec => []MessageTypeOK
  BY MessageInvariance, PTL DEF MessageInv

\* A dapp is answered only if the user asked to sign its message, whatever
\* replaces what meanwhile (#signingGeneration, handleSignMessage).
THEOREM AnsweredWasApprovedHolds == MessageSpec => []AnsweredWasApproved
  BY MessageInvariance, PTL DEF MessageInv

-----------------------------------------------------------------------------
(* Sequences, by a least counterexample as in StorageProofs.               *)

\* f has the elements of S among the first i of s, for each i up to n.
Selects(f, s, S, n) ==
    f = [i \in 0..n |-> IF i = 0 THEN <<>>
                        ELSE IF s[i] \in S THEN Append(f[i - 1], s[i]) ELSE f[i - 1]]

\* A filter is well defined.
LEMMA SelectionExists ==
    ASSUME NEW s, NEW S, NEW n \in Nat
    PROVE  \E f : Selects(f, s, S, n)
  <1> DEFINE T == {m \in Nat : ~ \E f : Selects(f, s, S, m)}
  <1>1. ASSUME T # {} PROVE FALSE
    <2>1. PICK m \in T : \A k \in T : m <= k
      BY <1>1, Least
    <2>2. CASE m = 0
      <3>1. Selects([i \in 0..0 |-> <<>>], s, S, 0)
        BY DEF Selects
      <3> QED  BY <2>2, <3>1
    <2>3. CASE m # 0
      <3>1. m - 1 \in Nat /\ m - 1 \notin T
        BY <2>1, <2>3
      <3>2. PICK f : Selects(f, s, S, m - 1)
        BY <3>1
      <3> DEFINE g == [i \in 0..m |-> IF i = m
                         THEN IF s[m] \in S THEN Append(f[m - 1], s[m]) ELSE f[m - 1]
                         ELSE f[i]]
      <3>3. \A i \in 0..(m - 1) :
               f[i] = IF i = 0 THEN <<>>
                      ELSE IF s[i] \in S THEN Append(f[i - 1], s[i]) ELSE f[i - 1]
        BY <3>2 DEF Selects
      <3>4. m \in Nat
        OBVIOUS
      <3>5. Selects(g, s, S, m)
        <4>1. \A i \in 0..m : g[i] = IF i = 0 THEN <<>>
                      ELSE IF s[i] \in S THEN Append(g[i - 1], s[i]) ELSE g[i - 1]
          BY <2>3, <3>3, <3>4
        <4> QED  BY <4>1 DEF Selects
      <3> QED  BY <3>5
    <2> QED  BY <2>2, <2>3
  <1> QED  BY <1>1

LEMMA OnlySelects ==
    ASSUME NEW s, NEW S, Len(s) \in Nat
    PROVE  \E f : Selects(f, s, S, Len(s)) /\ Only(s, S) = f[Len(s)]
  <1> DEFINE f == CHOOSE f : Selects(f, s, S, Len(s))
  <1>1. Selects(f, s, S, Len(s))
    BY SelectionExists
  <1>2. Only(s, S) = f[Len(s)]
    BY DEF Only, Selects
  <1> QED  BY <1>1, <1>2

LEMMA AppendSet ==
    ASSUME NEW A, NEW s \in Seq(A), NEW e \in A
    PROVE  Append(s, e) \in Seq(A) /\ ToSet(Append(s, e)) = ToSet(s) \cup {e}
  <1>1. Append(s, e) \in Seq(A) /\ Len(Append(s, e)) = Len(s) + 1 /\ Len(s) \in Nat
        /\ DOMAIN Append(s, e) = 1..(Len(s) + 1) /\ DOMAIN s = 1..Len(s)
    BY AppendProperties
  <1>2. Append(s, e)[Len(s) + 1] = e /\ \A i \in 1..Len(s) : Append(s, e)[i] = s[i]
    BY AppendProperties
  <1> QED  BY <1>1, <1>2 DEF ToSet

\* A filter keeps the elements of S, and no others.
LEMMA OnlyIs ==
    ASSUME NEW A, NEW s \in Seq(A), NEW S
    PROVE  /\ Only(s, S) \in Seq(A)
           /\ ToSet(Only(s, S)) = ToSet(s) \cap S
  <1>1. PICK f : Selects(f, s, S, Len(s)) /\ Only(s, S) = f[Len(s)]
    BY OnlySelects
  <1> DEFINE Right(i) == f[i] \in Seq(A) /\ ToSet(f[i]) = {s[j] : j \in 1..i} \cap S
             T == {m \in Nat : m <= Len(s) /\ ~Right(m)}
  <1>0. Len(s) \in Nat
    OBVIOUS
  <1>2. f[0] = <<>> /\ \A i \in 1..Len(s) :
           f[i] = IF s[i] \in S THEN Append(f[i - 1], s[i]) ELSE f[i - 1]
    <2>1. \A i \in 0..Len(s) :
             f[i] = IF i = 0 THEN <<>>
                    ELSE IF s[i] \in S THEN Append(f[i - 1], s[i]) ELSE f[i - 1]
      BY <1>1 DEF Selects
    <2> QED  BY <1>0, <2>1
  <1>3. ASSUME T # {} PROVE FALSE
    <2>1. PICK m \in T : \A k \in T : m <= k
      BY <1>3, Least
    <2>0. m \in Nat /\ m <= Len(s) /\ ~Right(m)
      BY <2>1
    <2>2. m # 0
      <3>1. <<>> \in Seq(A) /\ ToSet(<<>>) = {} /\ {s[j] : j \in 1..0} = {}
        BY DEF ToSet
      <3> QED  BY <1>2, <2>0, <3>1
    <2>3. m - 1 \in Nat /\ Right(m - 1) /\ m \in 1..Len(s)
      <3>1. m - 1 \in Nat /\ m - 1 <= Len(s) /\ m \in 1..Len(s)
        BY <1>0, <2>0, <2>2
      <3>2. m - 1 \notin T
        <4> HIDE DEF T
        <4>1. ~ (m <= m - 1)
          BY <2>0
        <4> QED  BY <2>1, <4>1
      <3> HIDE DEF Right
      <3> QED  BY <3>1, <3>2
    <2>4. {s[j] : j \in 1..m} = {s[j] : j \in 1..(m - 1)} \cup {s[m]}
      BY <2>3
    <2>5. s[m] \in A
      BY <2>3
    <2>7. Right(m)
      <3>1. CASE s[m] \in S
        <4>1. f[m] = Append(f[m - 1], s[m])
          BY <1>2, <2>3, <3>1
        <4>2. f[m] \in Seq(A) /\ ToSet(f[m]) = ToSet(f[m - 1]) \cup {s[m]}
          BY <2>3, <2>5, <4>1, AppendSet
        <4>3. ToSet(f[m]) = {s[j] : j \in 1..m} \cap S
          BY <2>3, <2>4, <3>1, <4>2
        <4> QED  BY <4>2, <4>3
      <3>2. CASE s[m] \notin S
        BY <1>2, <2>3, <2>4, <3>2
      <3> QED  BY <3>1, <3>2
    <2> QED  BY <2>0, <2>7
  <1>4. Right(Len(s))
    <2> HIDE DEF Right
    <2> QED  BY <1>0, <1>3
  <1> QED  BY <1>1, <1>4 DEF ToSet

LEMMA ConcatSet ==
    ASSUME NEW A, NEW s \in Seq(A), NEW t \in Seq(A)
    PROVE  s \o t \in Seq(A) /\ ToSet(s \o t) = ToSet(s) \cup ToSet(t)
  <1>1. /\ s \o t \in Seq(A) /\ Len(s \o t) = Len(s) + Len(t)
        /\ \A i \in 1..Len(s) : (s \o t)[i] = s[i]
        /\ \A i \in 1..Len(t) : (s \o t)[Len(s) + i] = t[i]
    BY ConcatProperties
  <1>2. Len(s) \in Nat /\ Len(t) \in Nat
    OBVIOUS
  <1>3. \A i \in 1..(Len(s) + Len(t)) :
           i \in 1..Len(s) \/ \E j \in 1..Len(t) : i = Len(s) + j
    <2> SUFFICES ASSUME NEW i \in 1..(Len(s) + Len(t)), i \notin 1..Len(s)
                 PROVE  \E j \in 1..Len(t) : i = Len(s) + j
      OBVIOUS
    <2>1. i - Len(s) \in 1..Len(t) /\ i = Len(s) + (i - Len(s))
      BY <1>2
    <2> QED  BY <2>1
  <1>4. \A i \in 1..Len(s) : i \in 1..(Len(s) + Len(t))
    BY <1>2
  <1>5. \A j \in 1..Len(t) : Len(s) + j \in 1..(Len(s) + Len(t))
    BY <1>2
  <1>6. /\ DOMAIN s = 1..Len(s) /\ DOMAIN t = 1..Len(t)
        /\ DOMAIN (s \o t) = 1..(Len(s) + Len(t))
    BY <1>1
  <1>7. ToSet(s \o t) \subseteq ToSet(s) \cup ToSet(t)
    <2> SUFFICES ASSUME NEW i \in 1..(Len(s) + Len(t))
                 PROVE  (s \o t)[i] \in ToSet(s) \/ (s \o t)[i] \in ToSet(t)
      BY <1>6 DEF ToSet
    <2>1. CASE i \in 1..Len(s)
      BY <2>1, <1>1, <1>6 DEF ToSet
    <2>2. ASSUME NEW j \in 1..Len(t), i = Len(s) + j PROVE (s \o t)[i] \in ToSet(t)
      BY <2>2, <1>1, <1>6 DEF ToSet
    <2> QED  BY <2>1, <2>2, <1>3
  <1>8. ToSet(s) \subseteq ToSet(s \o t) /\ ToSet(t) \subseteq ToSet(s \o t)
    BY <1>1, <1>4, <1>5, <1>6 DEF ToSet
  <1> QED  BY <1>1, <1>7, <1>8

LEMMA SetOfSeq ==
    ASSUME NEW A, NEW s \in Seq(A)
    PROVE  /\ ToSet(s) \subseteq A
           /\ s # <<>> => Head(s) \in ToSet(s) /\ Tail(s) \in Seq(A)
           /\ ToSet(s) = {} <=> s = <<>>
  <1>1. ToSet(s) \subseteq A /\ ToSet(<<>>) = {}
    BY DEF ToSet
  <1>2. s # <<>> => Head(s) \in ToSet(s) /\ Tail(s) \in Seq(A)
    BY HeadTailProperties DEF ToSet
  <1> QED  BY <1>1, <1>2

LEMMA SetOfOne ==
    ASSUME NEW e
    PROVE  ToSet(<<e>>) = {e}
  BY DEF ToSet

LEMMA RemovedOne ==
    ASSUME NEW A, NEW s \in Seq(A), NEW i \in 1..Len(s)
    PROVE  RemoveAt(s, i) \in Seq(A) /\ ToSet(RemoveAt(s, i)) \subseteq ToSet(s)
  <1>1. Len(s) \in Nat
    OBVIOUS
  <1>2. ASSUME NEW m \in 1..(Len(s) + 1), NEW n \in 0..Len(s)
        PROVE  SubSeq(s, m, n) \in Seq(A) /\ ToSet(SubSeq(s, m, n)) \subseteq ToSet(s)
    <2>1. SubSeq(s, m, n) \in Seq(A)
      BY <1>1, SubSeqProperties
    <2>2. CASE m <= n
      <3>1. /\ Len(SubSeq(s, m, n)) = n - m + 1
            /\ \A j \in 1..(n - m + 1) : SubSeq(s, m, n)[j] = s[m + j - 1]
        BY <1>1, <2>2, SubSeqProperties
      <3>2. DOMAIN SubSeq(s, m, n) = 1..(n - m + 1)
        BY <2>1, <3>1
      <3>3. \A j \in 1..(n - m + 1) : m + j - 1 \in 1..Len(s)
        BY <1>1, <2>2
      <3> QED  BY <2>1, <3>1, <3>2, <3>3 DEF ToSet
    <2>3. CASE ~ (m <= n)
      <3>1. SubSeq(s, m, n) = <<>>
        BY <1>1, <2>3, SubSeqProperties
      <3> QED  BY <2>1, <3>1 DEF ToSet
    <2> QED  BY <2>2, <2>3
  <1>3. 1 \in 1..(Len(s) + 1) /\ i - 1 \in 0..Len(s) /\ i + 1 \in 1..(Len(s) + 1) /\ Len(s) \in 0..Len(s)
    BY <1>1
  <1>4. RemoveAt(s, i) = SubSeq(s, 1, i - 1) \o SubSeq(s, i + 1, Len(s))
    BY DEF RemoveAt
  <1>5. /\ SubSeq(s, 1, i - 1) \in Seq(A) /\ SubSeq(s, i + 1, Len(s)) \in Seq(A)
        /\ ToSet(SubSeq(s, 1, i - 1)) \subseteq ToSet(s)
        /\ ToSet(SubSeq(s, i + 1, Len(s))) \subseteq ToSet(s)
    BY <1>2, <1>3
  <1> DEFINE l == SubSeq(s, 1, i - 1)
             r == SubSeq(s, i + 1, Len(s))
  <1>6. RemoveAt(s, i) = l \o r /\ l \in Seq(A) /\ r \in Seq(A)
        /\ ToSet(l) \subseteq ToSet(s) /\ ToSet(r) \subseteq ToSet(s)
    BY <1>4, <1>5
  <1> HIDE DEF l, r
  <1>7. l \o r \in Seq(A) /\ ToSet(l \o r) = ToSet(l) \cup ToSet(r)
    BY <1>6, ConcatSet
  <1> QED  BY <1>6, <1>7

-----------------------------------------------------------------------------
(* The messages to sign: a dapp that waits for its answer can get one.  A  *)
(* window that closes rejects what it saw in the queue and forgets who     *)
(* waits, so that everybody who waits must have been seen; and a request   *)
(* to switch is added before anything may close the window.  None of this  *)
(* holds when the environment lets a dapp ask while the window closes, or  *)
(* before a switch is resolved.                                            *)

JoinTasks == [requests : Seq(Requests), place : {"first", "last", "queued"}, next : BOOLEAN,
              pc : {"fresh", "replacing", "clearing"}]

\* Requests are added once those who waited for the account have come up.
NoneMissed == joining # {} => \A d \in ToSet(waiting) : AddressOf[d] # selected

\* A request to switch is added alone, and its handler never waits.
SwitchJoins ==
    \A t \in joining, d \in Dapps : SwitchFor(d) \in ToSet(t.requests) =>
        t.pc = "fresh" /\ t.requests = <<SwitchFor(d)>> /\ ~CurrentGoes

\* A window that closes has seen the requests to switch that are waited for.
ClosingsSaw ==
    \A c \in ToSet(closings), d \in Dapps :
        promise[d] = "pending" /\ Own(d) \notin Queued => SwitchFor(d) \in c

HeldType == RequestsTypeOK /\ joining \subseteq JoinTasks /\ \A t \in joining : t.requests # <<>>

HeldInv == HeldType /\ NoneMissed /\ SwitchJoins /\ ClosingsSaw /\ PromiseHeld

LEMMA InitHeldInv == RequestsInit => HeldInv
  BY AddressesAssumption
  DEF RequestsInit, HeldInv, HeldType, RequestsTypeOK, NoneMissed, SwitchJoins, ClosingsSaw,
      PromiseHeld, ToSet

LEMMA HeldUnchanged == HeldInv /\ UNCHANGED requestVars => HeldInv'
  <1> SUFFICES ASSUME HeldInv, UNCHANGED requestVars PROVE HeldInv'
    OBVIOUS
  <1>1. HeldType' /\ NoneMissed'
    BY DEF HeldInv, HeldType, RequestsTypeOK, NoneMissed, requestVars
  <1>2. SwitchJoins'
    BY DEF HeldInv, SwitchJoins, CurrentGoes, Kept, requestVars
  <1>3. ClosingsSaw' /\ PromiseHeld'
    BY DEF HeldInv, ClosingsSaw, PromiseHeld, Queued, requestVars
  <1> QED  BY <1>1, <1>2, <1>3 DEF HeldInv

\* A request is a dapp's own one or the one to switch for it.
LEMMA RequestIs ==
    /\ \A d \in Dapps : Own(d) \in Requests /\ SwitchFor(d) \in Requests
    /\ \A d, q \in Dapps : Own(d) # SwitchFor(q) /\ (Own(d) = Own(q) => d = q)
                           /\ (SwitchFor(d) = SwitchFor(q) => d = q)
    /\ \A d \in Dapps : /\ Own(d).kind = "own" /\ Own(d).dapp = d
                        /\ SwitchFor(d).kind = "switch" /\ SwitchFor(d).dapp = d
    /\ \A r \in Requests : /\ r.dapp \in Dapps
                           /\ r.kind = "own" => r = Own(r.dapp)
                           /\ r.kind = "switch" => r = SwitchFor(r.dapp)
                           /\ r.kind \in {"own", "switch"}
                           /\ r # NoRequest
  BY DEF Requests, Own, SwitchFor, NoRequest

\* What the filters of the queue leave.
LEMMA KeptIs ==
    ASSUME HeldType
    PROVE  /\ Kept \in Seq(Requests)
           /\ \A r \in Requests : r \in ToSet(Kept) <=>
                 r \in ToSet(userRequests) /\ (r.kind = "switch" => AddressOf[r.dapp] # selected)
  BY OnlyIs DEF Kept, HeldType, RequestsTypeOK

\* The current request stays as others are added.
LEMMA StaysIs ==
    HeldType => (~CurrentGoes <=>
        \/ current = NoRequest
        \/ /\ current \in ToSet(userRequests)
           /\ current.kind = "switch" => AddressOf[current.dapp] # selected)
  <1> SUFFICES ASSUME HeldType
               PROVE  ~CurrentGoes <=>
                        \/ current = NoRequest
                        \/ /\ current \in ToSet(userRequests)
                           /\ current.kind = "switch" => AddressOf[current.dapp] # selected
    OBVIOUS
  <1>1. current \in Requests \cup {NoRequest}
    BY DEF HeldType, RequestsTypeOK
  <1> QED  BY <1>1, KeptIs DEF CurrentGoes

LEMMA FirstVisibleIs ==
    ASSUME NEW rs \in Seq(Requests)
    PROVE  \/ FirstVisible(rs) = NoRequest
           \/ FirstVisible(rs) \in ToSet(rs) \cap Requests /\ Visible(FirstVisible(rs))
  <1> DEFINE V == {r \in Requests : Visible(r)}
             seen == Only(rs, V)
  <1>1. seen \in Seq(Requests) /\ ToSet(seen) = ToSet(rs) \cap V
    BY OnlyIs
  <1>2. seen # <<>> => Head(seen) \in ToSet(seen)
    BY <1>1, SetOfSeq
  <1>3. FirstVisible(rs) = IF seen = <<>> THEN NoRequest ELSE Head(seen)
    BY DEF FirstVisible
  <1> HIDE DEF seen
  <1> QED  BY <1>1, <1>2, <1>3

LEMMA SetCurrentType ==
    ASSUME HeldType, NEW r \in Requests \cup {NoRequest}, SetCurrent(r)
    PROVE  current' \in Requests \cup {NoRequest} /\ windowOps' \in Seq({"show", "hide"})
           /\ current' = r
  <1> DEFINE op == IF r = NoRequest THEN "hide" ELSE "show"
  <1>1. windowOps \in Seq({"show", "hide"}) /\ op \in {"show", "hide"}
    BY DEF HeldType, RequestsTypeOK
  <1>2. current' = r /\ windowOps' = Enqueue(op)
    BY DEF SetCurrent
  <1> HIDE DEF op
  <1>3. Append(windowOps, op) \in Seq({"show", "hide"})
    BY <1>1, AppendSet
  <1> QED  BY <1>1, <1>2, <1>3 DEF Enqueue

\* A handler that waits for nothing has no request to switch to add.
LEMMA NoSwitchJoins ==
    ASSUME HeldInv, ~Fresh \/ CurrentGoes
    PROVE  \A t \in joining, d \in Dapps : SwitchFor(d) \notin ToSet(t.requests)
  BY DEF HeldInv, SwitchJoins, Fresh

\* A dapp is rejected, or answered, but not asked again.
LEMMA RejectIs ==
    ASSUME HeldType, NEW ds, promise' = Reject(ds)
    PROVE  /\ promise' \in [Dapps -> {"unsent", "pending", "resolved", "rejected"}]
           /\ \A d \in Dapps : promise'[d] = "pending" => promise[d] = "pending" /\ d \notin ds
  BY DEF HeldType, RequestsTypeOK, Reject

-----------------------------------------------------------------------------
(* What a step must do to hold the promises: nobody is dropped.            *)

NobodyDropped ==
    \A d \in Dapps : promise'[d] = "pending" =>
        /\ promise[d] = "pending"
        /\ Own(d) \in Queued => Own(d) \in Queued'
        /\ d \in ToSet(waiting) /\ SwitchFor(d) \in Queued =>
               \/ Own(d) \in Queued'
               \/ d \in ToSet(waiting') /\ SwitchFor(d) \in Queued'

LEMMA StillHeld ==
    ASSUME HeldInv, NobodyDropped
    PROVE  PromiseHeld'
  BY DEF HeldInv, PromiseHeld, NobodyDropped

LEMMA StillSeen ==
    ASSUME HeldInv, NobodyDropped, ToSet(closings') \subseteq ToSet(closings)
    PROVE  ClosingsSaw'
  BY DEF HeldInv, ClosingsSaw, NobodyDropped

-----------------------------------------------------------------------------
(* Requests that leave.                                                    *)

\* What of the queue stays.
LEMMA RestIs ==
    ASSUME HeldType, NEW rs
    PROVE  /\ Only(userRequests, Requests \ rs) \in Seq(Requests)
           /\ ToSet(Only(userRequests, Requests \ rs)) = ToSet(userRequests) \ rs
           /\ FirstVisible(Only(userRequests, Requests \ rs)) \in Requests \cup {NoRequest}
  <1>1. userRequests \in Seq(Requests) /\ ToSet(userRequests) \subseteq Requests
    BY SetOfSeq DEF HeldType, RequestsTypeOK
  <1> DEFINE rest == Only(userRequests, Requests \ rs)
  <1>2. rest \in Seq(Requests) /\ ToSet(rest) = ToSet(userRequests) \ rs
    BY <1>1, OnlyIs
  <1> HIDE DEF rest
  <1>3. FirstVisible(rest) \in Requests \cup {NoRequest}
    BY <1>2, FirstVisibleIs
  <1> QED  BY <1>2, <1>3 DEF rest

\* Those who come back are the ones who waited for the selected account.
LEMMA ReturningIs ==
    ASSUME NEW rs, NEW ws \in Seq(Dapps)
    PROVE  /\ Returning(rs, ws) \in Seq(Dapps)
           /\ ToSet(Returning(rs, ws)) =
                IF \E r \in rs : r.kind = "switch"
                THEN {d \in ToSet(ws) : AddressOf[d] = selected} ELSE {}
           /\ Only(ws, Dapps \ ToSet(Returning(rs, ws))) \in Seq(Dapps)
           /\ ToSet(Only(ws, Dapps \ ToSet(Returning(rs, ws)))) =
                ToSet(ws) \ ToSet(Returning(rs, ws))
  <1> DEFINE back == Returning(rs, ws)
  <1>0. ToSet(ws) \subseteq Dapps /\ <<>> \in Seq(Dapps) /\ ToSet(<<>>) = {}
    BY SetOfSeq DEF ToSet
  <1>1. /\ back \in Seq(Dapps)
        /\ ToSet(back) = IF \E r \in rs : r.kind = "switch"
                         THEN {d \in ToSet(ws) : AddressOf[d] = selected} ELSE {}
    <2>1. CASE \E r \in rs : r.kind = "switch"
      <3> DEFINE A == {d \in Dapps : AddressOf[d] = selected}
      <3>1. Only(ws, A) \in Seq(Dapps) /\ ToSet(Only(ws, A)) = ToSet(ws) \cap A
        BY OnlyIs
      <3>2. back = Only(ws, A)
        BY <2>1 DEF Returning
      <3>3. ToSet(ws) \cap A = {d \in ToSet(ws) : AddressOf[d] = selected}
        BY <1>0
      <3> HIDE DEF back
      <3> QED  BY <2>1, <3>1, <3>2, <3>3
    <2>2. CASE ~ \E r \in rs : r.kind = "switch"
      <3>1. back = <<>>
        BY <2>2 DEF Returning
      <3> QED  BY <1>0, <2>2, <3>1
    <2> QED  BY <2>1, <2>2
  <1> HIDE DEF back
  <1>2. Only(ws, Dapps \ ToSet(back)) \in Seq(Dapps)
        /\ ToSet(Only(ws, Dapps \ ToSet(back))) = ToSet(ws) \ ToSet(back)
    BY <1>0, OnlyIs
  <1> QED  BY <1>1, <1>2 DEF back

\* They are added, each with its own request.
LEMMA ReAddedIs ==
    ASSUME HeldType, NEW ds \in Seq(Dapps), NEW next \in BOOLEAN, joining' = ReAdded(ds, next)
    PROVE  /\ joining' \subseteq JoinTasks /\ joining \subseteq joining'
           /\ \A t \in joining' : t.requests # <<>>
           /\ \A t \in joining', d \in Dapps :
                 SwitchFor(d) \in ToSet(t.requests) => t \in joining
           /\ \A d \in ToSet(ds) : \E t \in joining' : Own(d) \in ToSet(t.requests)
           /\ ds = <<>> => joining' = joining
  <1> DEFINE rs == [i \in DOMAIN ds |-> Own(ds[i])]
             new == Task(rs, "last", next)
  <1>0. ds = <<>> => joining' = joining
    BY DEF ReAdded
  <1>1. ToSet(<<>>) = {}
    BY DEF ToSet
  <1>2. CASE ds = <<>>
    BY <1>0, <1>1, <1>2 DEF HeldType
  <1>3. CASE ds # <<>>
    <2>1. DOMAIN ds = 1..Len(ds) /\ Len(ds) \in Nat /\ Len(ds) # 0
      BY <1>3
    <2>2. \A i \in 1..Len(ds) : ds[i] \in Dapps
      BY <1>3
    <2>3. rs \in Seq(Requests) /\ rs # <<>>
      <3>1. rs \in [1..Len(ds) -> Requests]
        BY <2>1, <2>2, RequestIs
      <3>2. rs \in Seq(Requests)
        BY <2>1, <3>1, SeqDef
      <3>3. 1 \in DOMAIN rs
        BY <2>1
      <3> HIDE DEF rs
      <3> QED  BY <3>2, <3>3
    <2>4. ToSet(rs) = {Own(d) : d \in ToSet(ds)}
      BY <2>1 DEF ToSet
    <2>5. joining' = joining \cup {new}
      BY <1>3 DEF ReAdded
    <2> HIDE DEF rs
    <2>6. new \in JoinTasks /\ new.requests = rs
      BY <2>3 DEF Task, JoinTasks
    <2>7. ToSet(ds) \subseteq Dapps
      BY SetOfSeq
    <2>8. \A d \in Dapps : SwitchFor(d) \notin ToSet(rs)
      BY <2>4, <2>7, RequestIs
    <2> HIDE DEF new
    <2> QED  BY <1>3, <2>3, <2>4, <2>5, <2>6, <2>7, <2>8 DEF HeldType
  <1> QED  BY <1>2, <1>3

LEMMA NotBehindIs ==
    ASSUME HeldType, NEW rs
    PROVE  /\ NotBehind(rs) \in Seq(Dapps)
           /\ ToSet(NotBehind(rs)) = {d \in ToSet(waiting) : SwitchFor(d) \notin rs}
  <1>1. waiting \in Seq(Dapps) /\ ToSet(waiting) \subseteq Dapps
    BY SetOfSeq DEF HeldType, RequestsTypeOK
  <1> DEFINE A == {d \in Dapps : SwitchFor(d) \notin rs}
  <1>2. Only(waiting, A) \in Seq(Dapps) /\ ToSet(Only(waiting, A)) = ToSet(waiting) \cap A
    BY <1>1, OnlyIs
  <1>3. NotBehind(rs) = Only(waiting, A)
    BY DEF NotBehind
  <1> HIDE DEF A
  <1> QED  BY <1>1, <1>2, <1>3 DEF A

\* The requests in rs leave, and ws is what still waits: a dapp whose request
\* is not in rs keeps it, and one that waits for a request to switch in rs gets
\* its own request back if that switch was made.
LEMMA RemovedKeep ==
    ASSUME HeldInv, ~Fresh, NEW rs, NEW ws \in Seq(Dapps), ToSet(ws) \subseteq ToSet(waiting),
           RemoveRequests(rs, ws), selected' = selected, closings' = closings,
           NEW d \in Dapps
    PROVE  /\ Own(d) \in Queued /\ Own(d) \notin rs => Own(d) \in Queued'
           /\ d \in ToSet(ws) /\ SwitchFor(d) \in Queued /\ SwitchFor(d) \notin rs =>
                \/ Own(d) \in Queued'
                \/ d \in ToSet(waiting') /\ SwitchFor(d) \in Queued'
           /\ d \in ToSet(ws) /\ SwitchFor(d) \in rs \cap ToSet(userRequests)
                /\ AddressOf[d] = selected => Own(d) \in Queued'
  <1> DEFINE rest == Only(userRequests, Requests \ rs)
             gone == rs \cap ToSet(userRequests)
             back == Returning(gone, ws)
  <1>0. HeldType
    BY DEF HeldInv
  <1>1. userRequests' = rest /\ waiting' = Only(ws, Dapps \ ToSet(back))
        /\ joining' = ReAdded(back, TRUE)
    BY DEF RemoveRequests
  <1>2. ToSet(rest) = ToSet(userRequests) \ rs
    BY <1>0, RestIs
  <1>3. /\ back \in Seq(Dapps)
        /\ ToSet(back) = IF \E r \in gone : r.kind = "switch"
                         THEN {e \in ToSet(ws) : AddressOf[e] = selected} ELSE {}
        /\ ToSet(Only(ws, Dapps \ ToSet(back))) = ToSet(ws) \ ToSet(back)
    BY ReturningIs
  <1> HIDE DEF rest, back
  <1>4. joining \subseteq joining'
        /\ \A e \in ToSet(back) : \E t \in joining' : Own(e) \in ToSet(t.requests)
    BY <1>0, <1>1, <1>3, ReAddedIs
  <1>5. Queued' = ToSet(userRequests') \cup UNION {ToSet(t.requests) : t \in joining'}
    BY DEF Queued
  <1>6. Queued \ rs \subseteq Queued'
    BY <1>1, <1>2, <1>4, <1>5 DEF Queued
  <1>7. \A e \in ToSet(back) : Own(e) \in Queued'
    BY <1>4, <1>5
  <1>8. d \in ToSet(ws) => d \in ToSet(back) \/ d \in ToSet(waiting')
    BY <1>1, <1>3
  <1>9. SwitchFor(d) \in gone => \E r \in gone : r.kind = "switch"
    BY RequestIs
  <1> QED  BY <1>3, <1>6, <1>7, <1>8, <1>9

LEMMA RemovedInv ==
    ASSUME HeldInv, ~Fresh, NEW rs, NEW ws \in Seq(Dapps), ToSet(ws) \subseteq ToSet(waiting),
           RemoveRequests(rs, ws), NobodyDropped,
           promise' \in [Dapps -> {"unsent", "pending", "resolved", "rejected"}],
           UNCHANGED <<selected, selecting, window, closings>>
    PROVE  HeldInv'
  <1> DEFINE rest == Only(userRequests, Requests \ rs)
             gone == rs \cap ToSet(userRequests)
             back == Returning(gone, ws)
  <1>0. HeldType
    BY DEF HeldInv
  <1>1. userRequests' = rest /\ waiting' = Only(ws, Dapps \ ToSet(back))
        /\ joining' = ReAdded(back, TRUE)
        /\ IF back = <<>> THEN SetCurrent(FirstVisible(rest)) ELSE UNCHANGED <<current, windowOps>>
    BY DEF RemoveRequests
  <1>2. rest \in Seq(Requests) /\ FirstVisible(rest) \in Requests \cup {NoRequest}
    BY <1>0, RestIs
  <1>3. /\ back \in Seq(Dapps)
        /\ ToSet(back) = IF \E r \in gone : r.kind = "switch"
                         THEN {e \in ToSet(ws) : AddressOf[e] = selected} ELSE {}
        /\ Only(ws, Dapps \ ToSet(back)) \in Seq(Dapps)
        /\ ToSet(Only(ws, Dapps \ ToSet(back))) = ToSet(ws) \ ToSet(back)
    BY ReturningIs
  <1>4. ToSet(back) = {} => back = <<>>
    BY <1>3, SetOfSeq
  <1> HIDE DEF rest, back
  <1>5. /\ joining' \subseteq JoinTasks
        /\ \A t \in joining' : t.requests # <<>>
        /\ \A t \in joining', d \in Dapps : SwitchFor(d) \in ToSet(t.requests) => t \in joining
        /\ back = <<>> => joining' = joining
    BY <1>0, <1>1, <1>3, ReAddedIs
  <1>6. current' \in Requests \cup {NoRequest} /\ windowOps' \in Seq({"show", "hide"})
    <2>1. CASE back = <<>>
      BY <1>0, <1>1, <1>2, <2>1, SetCurrentType
    <2>2. CASE back # <<>>
      BY <1>0, <1>1, <2>2 DEF HeldType, RequestsTypeOK
    <2> QED  BY <2>1, <2>2
  <1>7. HeldType'
    BY <1>0, <1>1, <1>2, <1>3, <1>5, <1>6 DEF HeldType, RequestsTypeOK, JoinTasks
  <1>8. NoneMissed'
    <2>1. CASE \E r \in gone : r.kind = "switch"
      BY <1>1, <1>3, <2>1 DEF NoneMissed
    <2>2. CASE ~ \E r \in gone : r.kind = "switch"
      BY <1>1, <1>3, <1>4, <1>5, <2>2 DEF NoneMissed, HeldInv
    <2> QED  BY <2>1, <2>2
  <1>9. SwitchJoins'
    BY <1>5, NoSwitchJoins DEF SwitchJoins
  <1>10. ClosingsSaw' /\ PromiseHeld'
    BY StillHeld, StillSeen
  <1> QED  BY <1>7, <1>8, <1>9, <1>10 DEF HeldInv

LEMMA RejectInv == HeldInv /\ RejectUserRequest => HeldInv'
  <1> SUFFICES ASSUME HeldInv, RejectUserRequest PROVE HeldInv'
    OBVIOUS
  <1> DEFINE ws == NotBehind({current})
  <1>0. HeldType
    BY DEF HeldInv
  <1>1. /\ ~Fresh /\ current \in ToSet(userRequests) /\ promise' = Reject({current.dapp})
        /\ RemoveRequests({current}, ws) /\ UNCHANGED <<selected, selecting, window, closings>>
    BY DEF RejectUserRequest
  <1>2. ws \in Seq(Dapps) /\ ToSet(ws) = {d \in ToSet(waiting) : SwitchFor(d) \notin {current}}
    BY <1>0, NotBehindIs
  <1> HIDE DEF ws
  <1>3. /\ promise' \in [Dapps -> {"unsent", "pending", "resolved", "rejected"}]
        /\ \A d \in Dapps : promise'[d] = "pending" => promise[d] = "pending" /\ d # current.dapp
    BY <1>0, <1>1, RejectIs
  <1>4. NobodyDropped
    <2> SUFFICES ASSUME NEW d \in Dapps, promise'[d] = "pending"
                 PROVE  /\ promise[d] = "pending"
                        /\ Own(d) \in Queued => Own(d) \in Queued'
                        /\ d \in ToSet(waiting) /\ SwitchFor(d) \in Queued =>
                               \/ Own(d) \in Queued'
                               \/ d \in ToSet(waiting') /\ SwitchFor(d) \in Queued'
      BY DEF NobodyDropped
    <2>1. promise[d] = "pending" /\ Own(d) # current /\ SwitchFor(d) # current
      BY <1>3, RequestIs
    <2>2. /\ Own(d) \in Queued /\ Own(d) \notin {current} => Own(d) \in Queued'
          /\ d \in ToSet(ws) /\ SwitchFor(d) \in Queued /\ SwitchFor(d) \notin {current} =>
                \/ Own(d) \in Queued'
                \/ d \in ToSet(waiting') /\ SwitchFor(d) \in Queued'
      BY <1>1, <1>2, RemovedKeep
    <2> QED  BY <1>2, <2>1, <2>2
  <1> QED  BY <1>1, <1>2, <1>3, <1>4, RemovedInv

LEMMA ResolveInv == HeldInv /\ (ResolveSigned \/ ResolveSwitch) => HeldInv'
  <1> SUFFICES ASSUME HeldInv, ResolveSigned \/ ResolveSwitch PROVE HeldInv'
    OBVIOUS
  <1>0. HeldType /\ waiting \in Seq(Dapps)
        /\ promise \in [Dapps -> {"unsent", "pending", "resolved", "rejected"}]
        /\ ToSet(userRequests) \subseteq Requests
    BY SetOfSeq DEF HeldInv, HeldType, RequestsTypeOK
  <1>1. /\ ~Fresh /\ current \in ToSet(userRequests) /\ RemoveRequests({current}, waiting)
        /\ UNCHANGED <<selected, selecting, window, closings>>
    BY DEF ResolveSigned, ResolveSwitch
  <1>2. \/ current.kind = "own"
           /\ promise' = [promise EXCEPT ![current.dapp] = IF @ = "pending" THEN "resolved" ELSE @]
        \/ current.kind = "switch" /\ AddressOf[current.dapp] = selected /\ promise' = promise
    BY DEF ResolveSigned, ResolveSwitch
  <1>3. current \in Requests
    BY <1>0, <1>1
  <1>4. promise' \in [Dapps -> {"unsent", "pending", "resolved", "rejected"}]
    BY <1>0, <1>2
  <1>5. \A d \in Dapps : promise'[d] = "pending" => promise[d] = "pending" /\ Own(d) # current
    BY <1>0, <1>2, <1>3, RequestIs
  <1>6. \A d \in Dapps : SwitchFor(d) = current => AddressOf[d] = selected
    BY <1>2, <1>3, RequestIs
  <1>7. NobodyDropped
    <2> SUFFICES ASSUME NEW d \in Dapps, promise'[d] = "pending"
                 PROVE  /\ promise[d] = "pending"
                        /\ Own(d) \in Queued => Own(d) \in Queued'
                        /\ d \in ToSet(waiting) /\ SwitchFor(d) \in Queued =>
                               \/ Own(d) \in Queued'
                               \/ d \in ToSet(waiting') /\ SwitchFor(d) \in Queued'
      BY DEF NobodyDropped
    <2>1. promise[d] = "pending" /\ Own(d) # current
      BY <1>5
    <2>2. /\ Own(d) \in Queued /\ Own(d) \notin {current} => Own(d) \in Queued'
          /\ d \in ToSet(waiting) /\ SwitchFor(d) \in Queued /\ SwitchFor(d) \notin {current} =>
                \/ Own(d) \in Queued'
                \/ d \in ToSet(waiting') /\ SwitchFor(d) \in Queued'
          /\ d \in ToSet(waiting) /\ SwitchFor(d) \in {current} \cap ToSet(userRequests)
                /\ AddressOf[d] = selected => Own(d) \in Queued'
      BY <1>0, <1>1, RemovedKeep
    <2> QED  BY <1>1, <1>6, <2>1, <2>2
  <1> QED  BY <1>0, <1>1, <1>4, <1>7, RemovedInv

\* The window that closed rejects what it saw: a dapp that still waits for its
\* answer has its own request in the queue.
LEMMA CloseEndsInv == \A i \in DOMAIN closings : HeldInv /\ CloseEnds(i) => HeldInv'
  <1> SUFFICES ASSUME NEW i \in DOMAIN closings, HeldInv, CloseEnds(i) PROVE HeldInv'
    OBVIOUS
  <1> DEFINE rs == closings[i] \cap ToSet(userRequests)
             rest == Only(userRequests, Requests \ rs)
             ws == NotBehind(rs)
             back == Returning(rs, ws)
  <1>0. HeldType /\ closings \in Seq(SUBSET Requests) /\ ToSet(userRequests) \subseteq Requests
    BY SetOfSeq DEF HeldInv, HeldType, RequestsTypeOK
  <1>1. /\ ~Fresh /\ closings' = RemoveAt(closings, i) /\ waiting' = <<>>
        /\ promise' = Reject({r.dapp : r \in rs}) /\ userRequests' = rest
        /\ joining' = ReAdded(back, FALSE) /\ UNCHANGED <<selected, selecting, window>>
        /\ IF back = <<>> /\ FirstVisible(rest) = NoRequest THEN SetCurrent(NoRequest)
           ELSE UNCHANGED <<current, windowOps>>
    BY DEF CloseEnds
  <1>2. rest \in Seq(Requests) /\ ToSet(rest) = ToSet(userRequests) \ rs
    BY <1>0, RestIs
  <1>3. ws \in Seq(Dapps)
    BY <1>0, NotBehindIs
  <1>4. back \in Seq(Dapps)
    <2> HIDE DEF ws, rs
    <2> QED  BY <1>3, ReturningIs
  <1>c. closings[i] \in ToSet(closings)
    BY DEF ToSet
  <1>r. rs = closings[i] \cap ToSet(userRequests)
    OBVIOUS
  <1> HIDE DEF rest, ws, back, rs
  <1>5. /\ joining' \subseteq JoinTasks /\ joining \subseteq joining'
        /\ \A t \in joining' : t.requests # <<>>
        /\ \A t \in joining', d \in Dapps : SwitchFor(d) \in ToSet(t.requests) => t \in joining
    BY <1>0, <1>1, <1>4, ReAddedIs
  <1>6. closings' \in Seq(SUBSET Requests) /\ ToSet(closings') \subseteq ToSet(closings)
    <2>1. i \in 1..Len(closings)
      BY <1>0
    <2> QED  BY <1>0, <1>1, <2>1, RemovedOne
  <1>7. /\ promise' \in [Dapps -> {"unsent", "pending", "resolved", "rejected"}]
        /\ \A d \in Dapps : promise'[d] = "pending" =>
              promise[d] = "pending" /\ d \notin {r.dapp : r \in rs}
    BY <1>0, <1>1, RejectIs
  <1>8. current' \in Requests \cup {NoRequest} /\ windowOps' \in Seq({"show", "hide"})
    <2>1. CASE back = <<>> /\ FirstVisible(rest) = NoRequest
      BY <1>0, <1>1, <2>1, SetCurrentType
    <2>2. CASE ~ (back = <<>> /\ FirstVisible(rest) = NoRequest)
      BY <1>0, <1>1, <2>2 DEF HeldType, RequestsTypeOK
    <2> QED  BY <2>1, <2>2
  <1>9. HeldType'
    <2>1. waiting' \in Seq(Dapps)
      BY <1>1
    <2> QED  BY <1>0, <1>1, <1>2, <1>5, <1>6, <1>7, <1>8, <2>1
         DEF HeldType, RequestsTypeOK, JoinTasks
  <1>10. NobodyDropped
    <2> SUFFICES ASSUME NEW d \in Dapps, promise'[d] = "pending"
                 PROVE  promise[d] = "pending" /\ Own(d) \in Queued'
      BY DEF NobodyDropped
    <2>1. promise[d] = "pending" /\ Own(d) \notin rs /\ SwitchFor(d) \notin rs
      BY <1>7, RequestIs
    <2>2. Own(d) \in Queued
      <3>1. SUFFICES ASSUME Own(d) \notin Queued PROVE FALSE
        OBVIOUS
      <3>2. SwitchFor(d) \in closings[i]
        BY <1>c, <2>1, <3>1 DEF HeldInv, ClosingsSaw
      <3>3. SwitchFor(d) \in Queued
        BY <2>1, <3>1 DEF HeldInv, PromiseHeld
      <3>4. SwitchFor(d) \in ToSet(userRequests)
        BY <1>1, <3>3, NoSwitchJoins DEF Queued
      <3> QED  BY <1>r, <2>1, <3>2, <3>4
    <2>3. Queued' = ToSet(userRequests') \cup UNION {ToSet(t.requests) : t \in joining'}
      BY DEF Queued
    <2>4. Queued \ rs \subseteq Queued'
      BY <1>1, <1>2, <1>5, <2>3 DEF Queued
    <2> QED  BY <2>1, <2>2, <2>4
  <1>11. NoneMissed'
    BY <1>1 DEF NoneMissed, ToSet
  <1>12. SwitchJoins'
    BY <1>1, <1>5, NoSwitchJoins DEF SwitchJoins
  <1>13. ClosingsSaw' /\ PromiseHeld'
    BY <1>6, <1>10, StillHeld, StillSeen
  <1> QED  BY <1>9, <1>11, <1>12, <1>13 DEF HeldInv

-----------------------------------------------------------------------------
(* Requests that join.                                                     *)

\* A dapp asks.  Its request is added before the window may close, and one for
\* another account only while nothing closes.
LEMMA BuildInv ==
    ASSUME RequestsEnvironment = {}, NEW d \in Dapps, NEW place \in {"first", "last", "queued"},
           HeldInv, BuildUserRequest(d, place)
    PROVE  HeldInv'
  <1> DEFINE other == AddressOf[d] # selected
             new == IF other THEN Task(<<SwitchFor(d)>>, "last", FALSE)
                    ELSE Task(<<Own(d)>>, place, FALSE)
             r == IF other THEN SwitchFor(d) ELSE Own(d)
  <1>0. HeldType /\ waiting \in Seq(Dapps)
        /\ promise \in [Dapps -> {"unsent", "pending", "resolved", "rejected"}]
    BY DEF HeldInv, HeldType, RequestsTypeOK
  <1>1. /\ ~Fresh /\ promise' = [promise EXCEPT ![d] = "pending"]
        /\ waiting' = IF other THEN Append(waiting, d) ELSE waiting
        /\ joining' = joining \cup {new}
        /\ UNCHANGED <<userRequests, current, selected, selecting, window, windowOps, closings>>
        /\ ~SwitchPending /\ (other => ~WillClose)
    BY DEF BuildUserRequest
  <1>2. waiting' \in Seq(Dapps) /\ ToSet(waiting') = ToSet(waiting) \cup (IF other THEN {d} ELSE {})
    BY <1>0, <1>1, AppendSet
  <1>3. new.requests = <<r>> /\ new.pc = "fresh" /\ r \in Requests /\ new \in JoinTasks
    BY RequestIs DEF Task, JoinTasks
  <1>r. r = IF other THEN SwitchFor(d) ELSE Own(d)
    OBVIOUS
  <1> HIDE DEF new, r
  <1>4. ToSet(new.requests) = {r} /\ new.requests # <<>>
    BY <1>3, SetOfOne
  <1>p. promise' \in [Dapps -> {"unsent", "pending", "resolved", "rejected"}]
    BY <1>0, <1>1
  <1>5. HeldType'
    BY <1>0, <1>1, <1>2, <1>3, <1>4, <1>p DEF HeldType, RequestsTypeOK, JoinTasks
  <1>6. NoneMissed'
    BY <1>1, <1>2 DEF NoneMissed, SwitchPending
  <1>7. other => ~CurrentGoes /\ closings = <<>>
    BY <1>1 DEF WillClose
  <1>8. SwitchJoins'
    <2> SUFFICES ASSUME NEW t \in joining', NEW q \in Dapps, SwitchFor(q) \in ToSet(t.requests)
                 PROVE  t.pc = "fresh" /\ t.requests = <<SwitchFor(q)>> /\ ~CurrentGoes'
      BY DEF SwitchJoins
    <2>1. t = new
      BY <1>1, NoSwitchJoins
    <2>2. SwitchFor(q) = r
      BY <1>4, <2>1
    <2>3. other
      BY <1>r, <2>2, RequestIs
    <2>4. ~CurrentGoes'
      BY <1>1, <1>7, <2>3 DEF CurrentGoes, Kept
    <2> QED  BY <1>3, <2>1, <2>2, <2>4
  <1>9. Queued' = Queued \cup {r}
    BY <1>1, <1>4 DEF Queued
  <1>10. \A q \in Dapps : q # d => promise'[q] = promise[q]
    BY <1>0, <1>1
  <1>11. PromiseHeld'
    BY <1>2, <1>9, <1>10, <1>r DEF HeldInv, PromiseHeld
  <1>12. ClosingsSaw'
    <2>1. CASE other
      BY <1>1, <1>7, <2>1 DEF ClosingsSaw, ToSet
    <2>2. CASE ~other
      <3>1. r = Own(d) /\ Own(d) \in Queued'
        BY <1>9, <1>r, <2>2
      <3> QED  BY <1>1, <1>9, <1>10, <3>1 DEF HeldInv, ClosingsSaw
    <2> QED  BY <2>1, <2>2
  <1> QED  BY <1>5, <1>6, <1>8, <1>11, <1>12 DEF HeldInv

\* A handler that waits keeps its requests.
LEMMA TaskWaits ==
    ASSUME HeldType, NEW t \in joining, NEW pc \in {"replacing", "clearing"},
           joining' = (joining \ {t}) \cup {[t EXCEPT !.pc = pc]}
    PROVE  /\ joining' \subseteq JoinTasks
           /\ \A u \in joining' : u.requests # <<>>
           /\ \A u \in joining' : u \in joining \/ u.requests = t.requests
           /\ \A v \in joining : \E u \in joining' : u.requests = v.requests
  <1> DEFINE new == [t EXCEPT !.pc = pc]
  <1>1. t \in JoinTasks /\ t.requests # <<>>
    BY DEF HeldType
  <1>2. new \in JoinTasks /\ new.requests = t.requests
    BY <1>1 DEF JoinTasks
  <1> HIDE DEF new
  <1> QED  BY <1>1, <1>2 DEF HeldType, new

\* The same of the current request after a step; a visible one stays.
LEMMA StaysNext ==
    HeldType' => (~CurrentGoes' <=>
        \/ current' = NoRequest
        \/ /\ current' \in ToSet(userRequests')
           /\ current'.kind = "switch" => AddressOf[current'.dapp] # selected')
  <1>1. (HeldType => (~CurrentGoes <=>
        \/ current = NoRequest
        \/ /\ current \in ToSet(userRequests)
           /\ current.kind = "switch" => AddressOf[current.dapp] # selected))'
    BY StaysIs, PTL
  <1> QED  BY <1>1 DEF NoRequest

LEMMA ShownStays ==
    ASSUME HeldType', current' = NoRequest \/ (current' \in ToSet(userRequests') /\ Visible(current)'),
           selected' = selected
    PROVE  ~CurrentGoes'
  BY StaysNext DEF Visible

LEMMA AddRejectsInv == \A t \in joining : HeldInv /\ AddRejects(t) => HeldInv'
  <1> SUFFICES ASSUME NEW t \in joining, HeldInv, AddRejects(t) PROVE HeldInv'
    OBVIOUS
  <1> DEFINE old == Replaced(t.requests)
             r == Head(old)
             rest == Only(userRequests, Requests \ {r})
  <1>0. HeldType /\ userRequests \in Seq(Requests) /\ waiting \in Seq(Dapps)
        /\ t \in JoinTasks
    BY DEF HeldInv, HeldType, RequestsTypeOK
  <1>1. /\ old # <<>> /\ promise' = Reject({r.dapp})
        /\ userRequests' = rest /\ SetCurrent(FirstVisible(rest))
        /\ joining' = (joining \ {t}) \cup {[t EXCEPT !.pc = "replacing"]}
        /\ UNCHANGED <<waiting, selected, selecting, window, closings>>
    BY DEF AddRejects
  <1>2. rest \in Seq(Requests) /\ ToSet(rest) = ToSet(userRequests) \ {r}
        /\ FirstVisible(rest) \in Requests \cup {NoRequest}
    BY <1>0, RestIs
  <1>3. r \in Requests /\ r.kind = "own" /\ \E i \in DOMAIN t.requests : t.requests[i].kind = "own"
    <2> DEFINE R == {q \in Requests : q.kind = "own" /\ \E i \in DOMAIN t.requests :
                       t.requests[i].kind = "own" /\ AddressOf[t.requests[i].dapp] = AddressOf[q.dapp]}
    <2>1. old = Only(userRequests, R)
      BY DEF Replaced
    <2>2. old \in Seq(Requests) /\ ToSet(old) = ToSet(userRequests) \cap R
      BY <1>0, <2>1, OnlyIs
    <2>3. Head(old) \in ToSet(old)
      BY <1>1, <2>2, SetOfSeq
    <2>4. r \in R
      BY <2>2, <2>3
    <2> HIDE DEF old, r
    <2> QED  BY <2>4
  <1> HIDE DEF old, r, rest
  <1>4. \A d \in Dapps : SwitchFor(d) \notin ToSet(t.requests)
    <2> SUFFICES ASSUME NEW d \in Dapps, SwitchFor(d) \in ToSet(t.requests) PROVE FALSE
      OBVIOUS
    <2>1. t.requests = <<SwitchFor(d)>>
      BY DEF HeldInv, SwitchJoins
    <2>2. PICK i \in DOMAIN t.requests : t.requests[i].kind = "own"
      BY <1>3
    <2>3. t.requests[i] = SwitchFor(d)
      BY <2>1, <2>2
    <2> QED  BY <2>2, <2>3, RequestIs
  <1>5. /\ joining' \subseteq JoinTasks
        /\ \A u \in joining' : u.requests # <<>>
        /\ \A u \in joining' : u \in joining \/ u.requests = t.requests
        /\ \A v \in joining : \E u \in joining' : u.requests = v.requests
    BY <1>0, <1>1, TaskWaits
  <1>6. /\ current' \in Requests \cup {NoRequest} /\ windowOps' \in Seq({"show", "hide"})
        /\ current' = FirstVisible(rest)
    BY <1>0, <1>1, <1>2, SetCurrentType
  <1>7. /\ promise' \in [Dapps -> {"unsent", "pending", "resolved", "rejected"}]
        /\ \A d \in Dapps : promise'[d] = "pending" => promise[d] = "pending" /\ d # r.dapp
    BY <1>0, <1>1, RejectIs
  <1>8. HeldType'
    BY <1>0, <1>1, <1>2, <1>5, <1>6, <1>7 DEF HeldType, RequestsTypeOK, JoinTasks
  <1>9. ~CurrentGoes'
    <2>1. current' = NoRequest \/ (current' \in ToSet(userRequests') /\ Visible(current)')
      BY <1>1, <1>2, <1>6, FirstVisibleIs DEF Visible
    <2> QED  BY <1>1, <1>8, <2>1, ShownStays
  <1>10. SwitchJoins'
    <2> SUFFICES ASSUME NEW u \in joining', NEW d \in Dapps, SwitchFor(d) \in ToSet(u.requests)
                 PROVE  u.pc = "fresh" /\ u.requests = <<SwitchFor(d)>>
      BY <1>9 DEF SwitchJoins
    <2>1. u \in joining
      BY <1>4, <1>5
    <2> QED  BY <2>1 DEF HeldInv, SwitchJoins
  <1>11. NoneMissed'
    BY <1>1 DEF HeldInv, NoneMissed
  <1>12. Queued \ {r} \subseteq Queued'
    <2>1. Queued' = ToSet(userRequests') \cup UNION {ToSet(u.requests) : u \in joining'}
      BY DEF Queued
    <2> QED  BY <1>1, <1>2, <1>5, <2>1 DEF Queued
  <1>13. NobodyDropped
    <2>1. \A d \in Dapps : SwitchFor(d) # r /\ (d # r.dapp => Own(d) # r)
      BY <1>3, RequestIs
    <2> QED  BY <1>1, <1>7, <1>12, <2>1 DEF NobodyDropped
  <1>14. ClosingsSaw' /\ PromiseHeld'
    BY <1>1, <1>13, StillHeld, StillSeen
  <1> QED  BY <1>8, <1>10, <1>11, <1>14 DEF HeldInv

LEMMA AddClosesInv == \A t \in joining : HeldInv /\ AddCloses(t) => HeldInv'
  <1> SUFFICES ASSUME NEW t \in joining, HeldInv, AddCloses(t) PROVE HeldInv'
    OBVIOUS
  <1>0. HeldType
    BY DEF HeldInv
  <1>1. /\ CurrentGoes /\ userRequests' = Kept /\ SetCurrent(NoRequest)
        /\ joining' = (joining \ {t}) \cup {[t EXCEPT !.pc = "clearing"]}
        /\ UNCHANGED <<promise, waiting, selected, selecting, window, closings>>
    BY DEF AddCloses
  <1>2. /\ joining' \subseteq JoinTasks
        /\ \A u \in joining' : u.requests # <<>>
        /\ \A u \in joining' : u \in joining \/ u.requests = t.requests
        /\ \A v \in joining : \E u \in joining' : u.requests = v.requests
    BY <1>0, <1>1, TaskWaits
  <1>3. current' \in Requests \cup {NoRequest} /\ windowOps' \in Seq({"show", "hide"})
    BY <1>0, <1>1, SetCurrentType
  <1>4. HeldType'
    BY <1>0, <1>1, <1>2, <1>3, KeptIs DEF HeldType, RequestsTypeOK, JoinTasks
  <1>5. SwitchJoins'
    BY <1>1, <1>2, NoSwitchJoins DEF SwitchJoins
  <1>6. NoneMissed'
    BY <1>1 DEF HeldInv, NoneMissed
  <1>7. \A d \in ToSet(waiting) : AddressOf[d] # selected
    BY DEF HeldInv, NoneMissed
  <1>8. Queued' = ToSet(userRequests') \cup UNION {ToSet(u.requests) : u \in joining'}
    BY DEF Queued
  <1>9. \A q \in Requests : q \in Queued => q \in Queued' \/ (q.kind = "switch" /\ AddressOf[q.dapp] = selected)
    BY <1>0, <1>1, <1>2, <1>8, KeptIs DEF Queued
  <1>10. NobodyDropped
    BY <1>1, <1>7, <1>9, RequestIs DEF NobodyDropped
  <1>11. ClosingsSaw' /\ PromiseHeld'
    BY <1>1, <1>10, StillHeld, StillSeen
  <1> QED  BY <1>4, <1>5, <1>6, <1>11 DEF HeldInv

LEMMA AddPushesInv == \A t \in joining : HeldInv /\ AddPushes(t) => HeldInv'
  <1> SUFFICES ASSUME NEW t \in joining, HeldInv, AddPushes(t) PROVE HeldInv'
    OBVIOUS
  <1> DEFINE base == IF t.pc = "clearing" THEN userRequests ELSE Kept
             all == IF t.place = "first" THEN t.requests \o base ELSE base \o t.requests
             shown == IF Visible(Head(t.requests)) THEN Head(t.requests) ELSE NoRequest
             r == IF t.next \/ (t.place = "queued" /\ current = NoRequest) THEN FirstVisible(all)
                  ELSE IF t.place = "queued" THEN current ELSE shown
  <1>0. HeldType /\ userRequests \in Seq(Requests) /\ t \in JoinTasks /\ t.requests # <<>>
        /\ current \in Requests \cup {NoRequest}
    BY DEF HeldInv, HeldType, RequestsTypeOK
  <1>1. /\ userRequests' = all /\ joining' = joining \ {t} /\ SetCurrent(r)
        /\ UNCHANGED <<promise, waiting, selected, selecting, window, closings>>
    BY DEF AddPushes
  <1>2. base \in Seq(Requests) /\ t.requests \in Seq(Requests)
    BY <1>0, KeptIs DEF JoinTasks
  <1>3. \A q \in Requests : q \in ToSet(userRequests) =>
           q \in ToSet(base) \/ (q.kind = "switch" /\ AddressOf[q.dapp] = selected)
    BY <1>0, KeptIs
  <1>h. Head(t.requests) \in ToSet(t.requests) \cap Requests
    BY <1>0, <1>2, SetOfSeq
  <1> HIDE DEF base
  <1>4. all \in Seq(Requests) /\ ToSet(all) = ToSet(base) \cup ToSet(t.requests)
    BY <1>2, ConcatSet
  <1> HIDE DEF all
  <1>5. r \in Requests \cup {NoRequest}
    BY <1>0, <1>4, <1>h, FirstVisibleIs
  <1>s. shown = NoRequest \/ (shown \in ToSet(t.requests) /\ Visible(shown))
    BY <1>h
  <1>r. r \in {FirstVisible(all), current, shown}
    OBVIOUS
  <1> HIDE DEF r, shown
  <1>6. current' = r /\ current' \in Requests \cup {NoRequest} /\ windowOps' \in Seq({"show", "hide"})
    BY <1>0, <1>1, <1>5, SetCurrentType
  <1>7. HeldType'
    BY <1>0, <1>1, <1>4, <1>6 DEF HeldType, RequestsTypeOK, JoinTasks
  <1>8. SwitchJoins'
    <2> SUFFICES ASSUME NEW u \in joining', NEW d \in Dapps, SwitchFor(d) \in ToSet(u.requests)
                 PROVE  u.pc = "fresh" /\ u.requests = <<SwitchFor(d)>> /\ ~CurrentGoes'
      BY DEF SwitchJoins
    <2>1. u.pc = "fresh" /\ u.requests = <<SwitchFor(d)>> /\ ~CurrentGoes
      BY <1>1 DEF HeldInv, SwitchJoins
    <2>2. CASE r = FirstVisible(all) \/ r = shown
      <3>1. current' = NoRequest \/ (current' \in ToSet(userRequests') /\ Visible(current)')
        BY <1>1, <1>4, <1>6, <1>s, <2>2, FirstVisibleIs DEF Visible
      <3> QED  BY <1>1, <1>7, <2>1, <3>1, ShownStays
    <2>3. CASE r = current
      <3>1. \/ current = NoRequest
            \/ /\ current \in ToSet(userRequests)
               /\ current.kind = "switch" => AddressOf[current.dapp] # selected
        BY <1>0, <2>1, StaysIs
      <3>2. current = NoRequest \/ current \in ToSet(all)
        BY <1>0, <1>3, <1>4, <3>1
      <3> QED  BY <1>1, <1>6, <1>7, <2>1, <2>3, <3>1, <3>2, StaysNext
    <2> QED  BY <1>r, <2>2, <2>3
  <1>9. NoneMissed'
    BY <1>1 DEF HeldInv, NoneMissed
  <1>10. \A d \in ToSet(waiting) : AddressOf[d] # selected
    BY DEF HeldInv, NoneMissed
  <1>11. Queued' = ToSet(userRequests') \cup UNION {ToSet(u.requests) : u \in joining'}
    BY DEF Queued
  <1>12. \A q \in Requests : q \in Queued => q \in Queued' \/ (q.kind = "switch" /\ AddressOf[q.dapp] = selected)
    BY <1>1, <1>3, <1>4, <1>11 DEF Queued
  <1>13. NobodyDropped
    BY <1>1, <1>10, <1>12, RequestIs DEF NobodyDropped
  <1>14. ClosingsSaw' /\ PromiseHeld'
    BY <1>1, <1>13, StillHeld, StillSeen
  <1> QED  BY <1>7, <1>8, <1>9, <1>14 DEF HeldInv

-----------------------------------------------------------------------------
(* The window and the account: the queue stays as it is.                   *)

LEMMA QueueStays ==
    ASSUME HeldInv, HeldType', NoneMissed', ~Fresh,
           UNCHANGED <<promise, userRequests, waiting, joining>>,
           \A c \in ToSet(closings') : c \in ToSet(closings) \/ c = ToSet(userRequests)
    PROVE  HeldInv'
  <1>1. Queued' = Queued
    BY DEF Queued
  <1>2. PromiseHeld'
    BY <1>1 DEF HeldInv, PromiseHeld
  <1>3. SwitchJoins'
    BY NoSwitchJoins DEF SwitchJoins
  <1>4. ClosingsSaw'
    <2> SUFFICES ASSUME NEW c \in ToSet(closings'), NEW d \in Dapps,
                        promise[d] = "pending", Own(d) \notin Queued
                 PROVE  SwitchFor(d) \in c
      BY <1>1 DEF ClosingsSaw
    <2>1. SwitchFor(d) \in Queued
      BY DEF HeldInv, PromiseHeld
    <2>2. SwitchFor(d) \in ToSet(userRequests)
      BY <2>1, NoSwitchJoins DEF Queued
    <2> QED  BY <2>2 DEF HeldInv, ClosingsSaw
  <1> QED  BY <1>2, <1>3, <1>4 DEF HeldInv

LEMMA WindowInv == HeldInv /\ (ServeWindow \/ WindowOpened \/ WindowRemoved) => HeldInv'
  <1> SUFFICES ASSUME HeldInv, ServeWindow \/ WindowOpened \/ WindowRemoved PROVE HeldInv'
    OBVIOUS
  <1>0. HeldType /\ closings \in Seq(SUBSET Requests) /\ ToSet(userRequests) \subseteq Requests
        /\ windowOps \in Seq({"show", "hide"})
    BY SetOfSeq DEF HeldInv, HeldType, RequestsTypeOK
  <1>1. ~Fresh /\ UNCHANGED <<promise, userRequests, waiting, selected, selecting, joining>>
        /\ window' \in {"closed", "opening", "open", "removing"}
    BY <1>0 DEF ServeWindow, WindowOpened, WindowRemoved, HeldType, RequestsTypeOK
  <1>2. /\ closings' \in Seq(SUBSET Requests)
        /\ \A c \in ToSet(closings') : c \in ToSet(closings) \/ c = ToSet(userRequests)
    <2>1. CASE closings' = closings
      BY <1>0, <2>1
    <2>2. CASE closings' = Append(closings, ToSet(userRequests))
      <3>1. ToSet(userRequests) \in SUBSET Requests
        BY <1>0
      <3> QED  BY <1>0, <2>2, <3>1, AppendSet
    <2> QED  BY <2>1, <2>2 DEF ServeWindow, WindowOpened, WindowRemoved
  <1>3. current' \in Requests \cup {NoRequest} /\ windowOps' \in Seq({"show", "hide"})
    <2>1. CASE ServeWindow
      BY <1>0, <2>1, SetOfSeq DEF ServeWindow, HeldType, RequestsTypeOK
    <2>2. CASE WindowOpened
      BY <1>0, <2>2 DEF WindowOpened, HeldType, RequestsTypeOK
    <2>3. CASE WindowRemoved
      BY <1>0, <2>3, SetCurrentType DEF WindowRemoved
    <2> QED  BY <2>1, <2>2, <2>3
  <1>4. HeldType'
    BY <1>0, <1>1, <1>2, <1>3 DEF HeldType, RequestsTypeOK
  <1>5. NoneMissed'
    BY <1>1 DEF HeldInv, NoneMissed
  <1> QED  BY <1>1, <1>2, <1>4, <1>5, QueueStays

LEMMA SelectInv ==
    ASSUME RequestsEnvironment = {}, HeldInv,
           (\E a \in Addresses : SelectAccount(a)) \/ AccountSelected
    PROVE  HeldInv'
  <1>0. HeldType /\ windowOps \in Seq({"show", "hide"}) /\ selecting \in Addresses \cup {NoOne}
    BY DEF HeldInv, HeldType, RequestsTypeOK
  <1>1. ~Fresh /\ joining = {} /\ UNCHANGED <<promise, userRequests, waiting, current, window,
                                              closings, joining>>
        /\ selected' \in Addresses /\ selecting' \in Addresses \cup {NoOne}
    BY <1>0 DEF SelectAccount, AccountSelected, HeldType, RequestsTypeOK
  <1>2. windowOps' \in Seq({"show", "hide"})
    <2>1. Append(windowOps, "hide") \in Seq({"show", "hide"})
      BY <1>0, AppendSet
    <2> QED  BY <1>0, <2>1 DEF SelectAccount, AccountSelected, Enqueue
  <1>3. HeldType'
    BY <1>0, <1>1, <1>2 DEF HeldType, RequestsTypeOK
  <1>4. NoneMissed'
    BY <1>1 DEF NoneMissed
  <1> QED  BY <1>1, <1>3, <1>4, QueueStays

LEMMA NextHeldInv ==
    RequestsEnvironment = {} /\ HeldInv /\ [RequestsNext]_requestVars => HeldInv'
  <1> SUFFICES ASSUME RequestsEnvironment = {}, HeldInv, [RequestsNext]_requestVars PROVE HeldInv'
    OBVIOUS
  <1>1. CASE ServeWindow \/ WindowOpened \/ WindowRemoved
    BY <1>1, WindowInv
  <1>2. CASE \E d \in Dapps, place \in {"first", "last", "queued"} : BuildUserRequest(d, place)
    BY <1>2, BuildInv
  <1>3. CASE \E t \in joining : AddRejects(t) \/ AddCloses(t) \/ AddPushes(t)
    BY <1>3, AddRejectsInv, AddClosesInv, AddPushesInv
  <1>4. CASE RejectUserRequest
    BY <1>4, RejectInv
  <1>5. CASE ResolveSigned \/ ResolveSwitch
    BY <1>5, ResolveInv
  <1>6. CASE \E i \in DOMAIN closings : CloseEnds(i)
    BY <1>6, CloseEndsInv
  <1>7. CASE (\E a \in Addresses : SelectAccount(a)) \/ AccountSelected
    BY <1>7, SelectInv
  <1>8. CASE UNCHANGED requestVars
    BY <1>8, HeldUnchanged
  <1> QED  BY <1>1, <1>2, <1>3, <1>4, <1>5, <1>6, <1>7, <1>8 DEF RequestsNext

\* The inductive invariant: where the request, the promise and the switch of
\* every dapp that waits are, at each await of the queue and of the window.
THEOREM HeldInvariance ==
    ASSUME RequestsEnvironment = {}
    PROVE  RequestsSpec => []HeldInv
  <1>1. HeldInv /\ [RequestsNext]_requestVars => HeldInv'
    BY NextHeldInv
  <1> QED  BY <1>1, InitHeldInv, PTL DEF RequestsSpec

\* The queue, the window and the handlers keep their types.
THEOREM RequestsTypeCorrect ==
    ASSUME RequestsEnvironment = {}
    PROVE  RequestsSpec => []RequestsTypeOK
  <1>1. HeldInv => RequestsTypeOK
    BY DEF HeldInv, HeldType
  <1> QED  BY <1>1, HeldInvariance, PTL

\* A dapp that waits for the answer to its message can get one, however many
\* dapps ask for however many accounts, and however often the window closes
\* (dappPromises, #handleRequestWindowClose, removeUserRequests), as long as
\* none asks for another account while the window closes, and none before the
\* request to switch to the account that was selected is resolved.
THEOREM PromiseHeldHolds ==
    ASSUME RequestsEnvironment = {}
    PROVE  RequestsSpec => []PromiseHeld
  <1>1. HeldInv => PromiseHeld
    BY DEF HeldInv
  <1> QED  BY <1>1, HeldInvariance, PTL

-----------------------------------------------------------------------------
(* Accounts imported by the picker.                                        *)

\* Everything derived, chosen or being derived is of the iterator and the path
\* of the moment.
OfNow(x) == x.from = keyIterator /\ x.path = hdPath
OnlyOfNow ==
    /\ \A x \in derived \cup chosen : OfNow(x)
    /\ \A c \in PageCalls : pageCalls[c] # NoCall => OfNow(pageCalls[c].found)
    /\ keyIterator = NoIterator =>
         derived = {} /\ chosen = {} /\ \A c \in PageCalls : pageCalls[c] = NoCall
    /\ keyIterator # NoIterator => hdPath # NoPath

\* One addAccounts at a time, whose keys are there before its accounts.
KeysFirst ==
    /\ readyToAdd.accounts \subseteq readyToAdd.keys
    /\ \A a \in AddCalls : addCalls[a] = "stored" => readyToAdd.accounts \subseteq storedKeys
    /\ \A a, b \in AddCalls : UnderWay(a) /\ UnderWay(b) => a = b
    /\ ~storeReady => \A a \in AddCalls : addCalls[a] = "unused"
    /\ imported \subseteq storedKeys

PickerInv == PickerTypeOK /\ OnlyOfNow /\ KeysFirst

LEMMA KeysOfOwn ==
    ASSUME PickerInv
    PROVE  /\ chosen \subseteq KeysOf(chosen)
           /\ KeysOf(chosen) \subseteq Derivations
  <1>1. ASSUME NEW x \in chosen
        PROVE  /\ x \in Derivations /\ x.from = keyIterator /\ x.path = hdPath
               /\ keyIterator # NoIterator /\ hdPath # NoPath
    BY DEF PickerInv, PickerTypeOK, OnlyOfNow, OfNow
  <1>2. ASSUME NEW x \in chosen
        PROVE  /\ x = DerivedAt(keyIterator, hdPath, x.page) /\ x \in Derivations
               /\ keyIterator # NoIterator /\ hdPath # NoPath
    BY <1>1 DEF Derivations, DerivedAt
  <1> QED  BY <1>2 DEF KeysOf

\* What the pages do.
LEMMA AddsKept ==
    ASSUME KeysFirst, UNCHANGED pickerAdds
    PROVE  KeysFirst'
  BY DEF KeysFirst, pickerAdds, UnderWay

LEMMA DeriveInv ==
    ASSUME PickerInv, NEW c \in PageCalls, NEW p \in Paths, NEW n \in Pages,
           keyIterator # NoIterator, Derive(c, p, n), hdPath' = p,
           UNCHANGED <<keyIterator, pickerAdds>>,
           p = hdPath \/ ~PageLoads, (p = hdPath /\ chosen' = chosen) \/ chosen' = {}
    PROVE  PickerInv'
  <1>1. DerivedAt(keyIterator, p, n) \in Derivations
    BY DEF DerivedAt, Derivations, PickerInv, PickerTypeOK
  <1> DEFINE call == [at |-> "derive", page |-> n, found |-> DerivedAt(keyIterator, p, n)]
  <1>2. /\ pageCalls' = [pageCalls EXCEPT ![c] = call] /\ derived' = {} /\ page' = n
    BY DEF Derive
  <1>3. call \in [at : {"derive", "used"}, page : Pages, found : Derivations]
    BY <1>1
  <1>4. PickerTypeOK'
    BY <1>2, <1>3 DEF PickerInv, PickerTypeOK, pickerAdds
  <1>5. ASSUME NEW d \in PageCalls, pageCalls'[d] # NoCall
        PROVE  OfNow(pageCalls[d].found)'
    <2>1. CASE d = c
      <3>1. pageCalls'[d] = call
        BY <1>2, <2>1 DEF PickerInv, PickerTypeOK
      <3> QED  BY <3>1 DEF OfNow, DerivedAt
    <2>2. CASE d # c
      <3>1. pageCalls'[d] = pageCalls[d]
        BY <1>2, <2>2 DEF PickerInv, PickerTypeOK
      <3>2. p = hdPath
        BY <1>5, <3>1 DEF PageLoads
      <3> QED  BY <1>5, <3>1, <3>2 DEF OfNow, PickerInv, OnlyOfNow
    <2> QED  BY <2>1, <2>2
  <1>6. OnlyOfNow'
    <2>1. \A x \in (derived \cup chosen)' : OfNow(x)'
      BY <1>2 DEF PickerInv, OnlyOfNow, OfNow
    <2>2. hdPath' # NoPath
      BY PickerAssumption
    <2> QED  BY <1>5, <2>1, <2>2 DEF OnlyOfNow
  <1> QED  BY <1>4, <1>6, AddsKept DEF PickerInv

LEMMA PageStepInv ==
    ASSUME PickerInv, NEW c \in PageCalls,
           Stale(c) \/ Derived(c) \/ DeriveFails(c) \/ UsedOnNetworks(c)
    PROVE  PickerInv'
  <1>1. UNCHANGED <<keyIterator, hdPath, page, pickerAdds>>
    BY DEF Stale, Derived, DeriveFails, UsedOnNetworks
  <1>2. pageCalls[c] \in [at : {"derive", "used"}, page : Pages, found : Derivations]
    BY DEF PickerInv, PickerTypeOK, NoCall, Stale, Derived, DeriveFails, UsedOnNetworks
  <1>3. pageCalls[c] # NoCall
    BY <1>2 DEF NoCall
  <1>4. pageCalls[c].found \in Derivations /\ OfNow(pageCalls[c].found) /\ keyIterator # NoIterator
    BY <1>2, <1>3 DEF PickerInv, OnlyOfNow
  <1>5. \/ derived' = derived /\ chosen' = chosen
        \/ derived' = {pageCalls[c].found} /\ chosen' \in {chosen, chosen \cup derived'}
    BY DEF Stale, Derived, DeriveFails, UsedOnNetworks
  <1>6. \/ pageCalls' = [pageCalls EXCEPT ![c] = NoCall]
        \/ pageCalls' = [pageCalls EXCEPT ![c].at = "used"]
    BY DEF Stale, Derived, DeriveFails, UsedOnNetworks, Finished
  <1>7. /\ pageCalls' \in [PageCalls ->
             {NoCall} \cup [at : {"derive", "used"}, page : Pages, found : Derivations]]
        /\ \A d \in PageCalls : pageCalls'[d] # NoCall =>
             pageCalls[d] # NoCall /\ pageCalls'[d].found = pageCalls[d].found
    BY <1>2, <1>3, <1>6 DEF PickerInv, PickerTypeOK
  <1>8. PickerTypeOK'
    BY <1>1, <1>4, <1>5, <1>7 DEF PickerInv, PickerTypeOK, pickerAdds
  <1>9. OnlyOfNow'
    BY <1>1, <1>4, <1>5, <1>7 DEF PickerInv, OnlyOfNow, OfNow
  <1> QED  BY <1>1, <1>8, <1>9, AddsKept DEF PickerInv

LEMMA ChoiceInv ==
    ASSUME PickerInv,
           (\E x \in derived : Select(x)) \/ (\E x \in chosen : Deselect(x))
    PROVE  PickerInv'
  <1>1. /\ chosen' \subseteq derived \cup chosen /\ keyIterator # NoIterator
        /\ UNCHANGED <<keyIterator, hdPath, page, derived, pageCalls, pickerAdds>>
    BY DEF Select, Deselect
  <1>2. PickerTypeOK'
    BY <1>1 DEF PickerInv, PickerTypeOK, pickerAdds
  <1>3. OnlyOfNow'
    BY <1>1 DEF PickerInv, OnlyOfNow, OfNow
  <1> QED  BY <1>1, <1>2, <1>3, AddsKept DEF PickerInv

LEMMA OpenCloseInv ==
    ASSUME PickerEnvironment = {}, PickerInv,
           ClosePicker \/ (\E it \in Iterators, p \in Paths, n \in Pages : OpenPicker(it, p, n))
    PROVE  PickerInv'
  <1>1. CASE ClosePicker
    <2>1. /\ keyIterator' = NoIterator /\ hdPath' = NoPath /\ page' = 1
          /\ derived' = {} /\ chosen' = {} /\ readyToAdd' = Nothing /\ putOff' = FALSE
          /\ UNCHANGED <<pageCalls, storeReady, addCalls, addPromise, storedKeys, imported>>
          /\ ~PageLoads
      BY <1>1 DEF ClosePicker
    <2>2. PickerTypeOK'
      BY <2>1, PickerAssumption DEF PickerInv, PickerTypeOK, Nothing
    <2>3. OnlyOfNow'
      BY <2>1 DEF PickerInv, OnlyOfNow, OfNow, PageLoads
    <2>4. KeysFirst'
      BY <2>1 DEF PickerInv, KeysFirst, UnderWay, Nothing
    <2> QED  BY <2>2, <2>3, <2>4 DEF PickerInv
  <1>2. ASSUME NEW it \in Iterators, NEW p \in Paths, NEW n \in Pages,
               OpenPicker(it, p, n)
        PROVE  PickerInv'
    <2>1. PickerTypeOK'
      BY <1>2 DEF OpenPicker, PickerInv, PickerTypeOK, pickerAdds
    <2>2. OnlyOfNow'
      BY <1>2, PickerAssumption DEF OpenPicker, PickerInv, OnlyOfNow, OfNow
    <2>3. KeysFirst'
      BY <1>2, AddsKept DEF OpenPicker, PickerInv
    <2> QED  BY <2>1, <2>2, <2>3 DEF PickerInv
  <1> QED  BY <1>1, <1>2

\* What adding the accounts does.
LEMMA AddStepInv ==
    ASSUME PickerEnvironment = {}, PickerInv,
           \/ AddAccounts \/ KeystoreReady
           \/ \E a \in AddCalls : TakeChosen(a) \/ KeysStored(a) \/ AccountsSaved(a)
    PROVE  PickerInv'
  <1>1. ASSUME AddAccounts \/ KeystoreReady PROVE PickerInv'
    <2>1. UNCHANGED <<pickerView, readyToAdd, storedKeys, imported>>
      BY <1>1 DEF AddAccounts, KeystoreReady
    <2>2. \/ UNCHANGED <<addCalls, addPromise>>
          \/ /\ \A a \in AddCalls : ~UnderWay(a)
             /\ \E a \in AddCalls : /\ addCalls' = [addCalls EXCEPT ![a] = "begun"]
                                    /\ addPromise' = {a} 
             /\ storeReady'
      BY <1>1 DEF AddAccounts, KeystoreReady, Begin, UnderWay, PickerInv, KeysFirst
    <2>3. putOff' \in BOOLEAN /\ storeReady' \in BOOLEAN /\ (storeReady => storeReady')
      BY <1>1 DEF AddAccounts, KeystoreReady, PickerInv, PickerTypeOK
    <2>4. PickerTypeOK'
      BY <2>1, <2>2, <2>3 DEF PickerInv, PickerTypeOK, pickerView
    <2>5. OnlyOfNow'
      BY <2>1 DEF PickerInv, OnlyOfNow, OfNow, pickerView
    <2>6. KeysFirst'
      BY <2>1, <2>2, <2>3 DEF PickerInv, PickerTypeOK, KeysFirst, UnderWay
    <2> QED  BY <2>4, <2>5, <2>6 DEF PickerInv
  <1>2. ASSUME NEW a \in AddCalls, TakeChosen(a) PROVE PickerInv'
    <2>1. /\ readyToAdd' = [accounts |-> chosen, keys |-> KeysOf(chosen)]
          /\ chosen' = {} /\ addCalls' = [addCalls EXCEPT ![a] = "taken"] /\ UnderWay(a)
          /\ UNCHANGED <<keyIterator, hdPath, page, derived, pageCalls, storeReady, putOff,
                         addPromise, storedKeys, imported>>
      BY <1>2 DEF TakeChosen, UnderWay
    <2>2. PickerTypeOK'
      BY <2>1, KeysOfOwn DEF PickerInv, PickerTypeOK
    <2>3. OnlyOfNow'
      BY <2>1 DEF PickerInv, OnlyOfNow, OfNow
    <2>4. KeysFirst'
      BY <2>1, KeysOfOwn DEF PickerInv, PickerTypeOK, KeysFirst, UnderWay
    <2> QED  BY <2>2, <2>3, <2>4 DEF PickerInv
  <1>3. ASSUME NEW a \in AddCalls, KeysStored(a) PROVE PickerInv'
    <2>1. /\ storedKeys' = storedKeys \cup readyToAdd.keys /\ UnderWay(a)
          /\ addCalls' = [addCalls EXCEPT ![a] = "stored"]
          /\ UNCHANGED <<pickerView, storeReady, putOff, addPromise, readyToAdd, imported>>
      BY <1>3 DEF KeysStored, UnderWay
    <2>2. PickerTypeOK'
      BY <2>1 DEF PickerInv, PickerTypeOK, pickerView
    <2>3. OnlyOfNow'
      BY <2>1 DEF PickerInv, OnlyOfNow, OfNow, pickerView
    <2>4. KeysFirst'
      BY <2>1 DEF PickerInv, PickerTypeOK, KeysFirst, UnderWay
    <2> QED  BY <2>2, <2>3, <2>4 DEF PickerInv
  <1>4. ASSUME NEW a \in AddCalls, AccountsSaved(a) PROVE PickerInv'
    <2>1. /\ imported' = imported \cup readyToAdd.accounts /\ addCalls[a] = "stored"
          /\ addCalls' = [addCalls EXCEPT ![a] = "over"] /\ addPromise' = {}
          /\ UNCHANGED <<pickerView, storeReady, putOff, readyToAdd, storedKeys>>
      BY <1>4 DEF AccountsSaved
    <2>2. PickerTypeOK'
      BY <2>1 DEF PickerInv, PickerTypeOK, pickerView
    <2>3. OnlyOfNow'
      BY <2>1 DEF PickerInv, OnlyOfNow, OfNow, pickerView
    <2>4. KeysFirst'
      BY <2>1 DEF PickerInv, PickerTypeOK, KeysFirst, UnderWay
    <2> QED  BY <2>2, <2>3, <2>4 DEF PickerInv
  <1> QED  BY <1>1, <1>2, <1>3, <1>4

LEMMA NextPickerInv ==
    ASSUME PickerEnvironment = {}, PickerInv, [PickerNext]_pickerVars
    PROVE  PickerInv'
  <1>1. ASSUME NEW c \in PageCalls, NEW n \in Pages, SetPage(c, n)
        PROVE  PickerInv'
    <2>1. hdPath \in Paths
      BY <1>1 DEF SetPage, PickerInv, PickerTypeOK, OnlyOfNow
    <2> QED  BY <1>1, <2>1, DeriveInv DEF SetPage
  <1>2. ASSUME NEW c \in PageCalls, NEW n \in Pages, NEW p \in Paths, SetPath(c, p, n)
        PROVE  PickerInv'
    BY <1>2, DeriveInv DEF SetPath, ChosenOnNewPath
  <1>3. CASE UNCHANGED pickerVars
    <2>1. PickerTypeOK'
      BY <1>3 DEF pickerVars, pickerView, pickerAdds, PickerInv, PickerTypeOK
    <2>2. OnlyOfNow'
      BY <1>3 DEF pickerVars, pickerView, PickerInv, OnlyOfNow, OfNow
    <2> QED  BY <1>3, <2>1, <2>2, AddsKept DEF pickerVars, PickerInv
  <1> QED
    BY <1>1, <1>2, <1>3, PageStepInv, ChoiceInv, OpenCloseInv, AddStepInv DEF PickerNext

LEMMA InitPickerInv == PickerInit => PickerInv
  <1> SUFFICES ASSUME PickerInit PROVE PickerInv
    OBVIOUS
  <1>1. PickerTypeOK
    BY PickerAssumption DEF PickerInit, PickerTypeOK, Nothing
  <1>2. OnlyOfNow
    BY DEF PickerInit, OnlyOfNow, OfNow
  <1>3. KeysFirst
    BY DEF PickerInit, KeysFirst, UnderWay, Nothing
  <1> QED  BY <1>1, <1>2, <1>3 DEF PickerInv

\* An account is added only with its own key in the keystore, for any seeds,
\* devices, paths and pages, if the path stays and the picker is open while a
\* page loads and accounts are added once at a time.
THEOREM ImportedWithItsKeyHolds ==
    ASSUME PickerEnvironment = {}
    PROVE  PickerSpec => []ImportedWithItsKey
  <1>1. PickerInit => PickerInv
    BY InitPickerInv
  <1>2. PickerInv /\ [PickerNext]_pickerVars => PickerInv'
    BY NextPickerInv
  <1>3. PickerInv => ImportedWithItsKey
    BY DEF PickerInv, KeysFirst, ImportedWithItsKey
  <1> QED  BY <1>1, <1>2, <1>3, PTL DEF PickerSpec

\* The variables of the picker have their types, for any seeds, devices, paths and
\* pages.
THEOREM PickerTypeCorrect ==
    ASSUME PickerEnvironment = {}
    PROVE  PickerSpec => []PickerTypeOK
  <1>1. PickerInv /\ [PickerNext]_pickerVars => PickerInv'
    BY NextPickerInv
  <1>2. PickerInv => PickerTypeOK
    BY DEF PickerInv
  <1> QED  BY <1>1, <1>2, InitPickerInv, PTL DEF PickerSpec

-----------------------------------------------------------------------------
(* Connections of apps.                                                    *)

\* The apps m have the permissions the user granted; what they have beyond is of
\* accounts that are gone.
Agrees(m) ==
    \A d \in AppIds :
        /\ (d \in DOMAIN m /\ m[d].sources # {}) <=> granted[d].sources # {}
        /\ granted[d].sources # {} => /\ m[d].sources = granted[d].sources
                                      /\ m[d].accounts \cap inWallet = granted[d].accounts

AreApps(m) == DOMAIN m \subseteq AppIds /\ \A d \in DOMAIN m : m[d] \in Apps

\* No app there is has an account that is gone; one that is stored may.
ConnectionsInv ==
    /\ AreApps(dapps) /\ AreApps(dappsStored)
    /\ granted \in [AppIds -> Grants] /\ inWallet \subseteq AppAccounts
    /\ toConnect \subseteq [id : AppIds, custom : BOOLEAN]
    /\ \A d \in DOMAIN dapps : /\ dapps[d].accounts \subseteq inWallet
                               /\ dapps[d].connected <=> dapps[d].sources # {}
    /\ Agrees(dapps) /\ Agrees(dappsStored)

LEMMA AppIsApp ==
    ASSUME NEW s \in SUBSET Channels, NEW c \in BOOLEAN, NEW a \in SUBSET AppAccounts
    PROVE  /\ App(s, c, a) \in Apps
           /\ App(s, c, a).sources = s /\ App(s, c, a).accounts = a
           /\ App(s, c, a).custom = c
           /\ App(s, c, a).connected <=> s # {}
  BY DEF App, Apps

\* Nothing but the catalogue or what is shown changes.
LEMMA AppsUnchanged ==
    ASSUME ConnectionsInv, UNCHANGED <<dapps, dappsStored, inWallet, granted>>,
           toConnect' \subseteq [id : AppIds, custom : BOOLEAN]
    PROVE  ConnectionsInv'
  BY DEF ConnectionsInv, Agrees, AreApps

\* Of what is stored: as it is there.
LEMMA StoredAsTheyAre ==
    ASSUME /\ AreApps(dapps) /\ inWallet \subseteq AppAccounts
           /\ granted \in [AppIds -> Grants]
           /\ toConnect \subseteq [id : AppIds, custom : BOOLEAN]
           /\ \A d \in DOMAIN dapps : /\ dapps[d].accounts \subseteq inWallet
                                      /\ dapps[d].connected <=> dapps[d].sources # {}
           /\ Agrees(dapps), dappsStored = dapps
    PROVE  ConnectionsInv
  BY DEF ConnectionsInv

LEMMA OneAppSet ==
    ASSUME ConnectionsInv, NEW d \in AppIds, NEW s \in SUBSET Channels, NEW c \in BOOLEAN,
           NEW a \in SUBSET inWallet, NEW g \in SUBSET AppAccounts, s # {} => g = a,
           SetApp(d, App(s, c, a)), Grant(d, s, g), UNCHANGED inWallet,
           toConnect' \subseteq [id : AppIds, custom : BOOLEAN]
    PROVE  ConnectionsInv'
  <1> DEFINE new == App(s, c, a)
  <1>1. /\ new \in Apps /\ new.sources = s /\ new.accounts = a
        /\ new.connected <=> s # {}
    BY AppIsApp DEF ConnectionsInv
  <1>2. /\ dapps' = [e \in DOMAIN dapps \cup {d} |-> IF e = d THEN new ELSE dapps[e]]
        /\ dappsStored' = dapps'
    BY DEF SetApp
  <1>3. granted' = [granted EXCEPT ![d] = [sources |-> s, accounts |-> g]]
    BY DEF Grant
  <1> HIDE DEF new
  <1>4. granted' \in [AppIds -> Grants]
    BY <1>3 DEF ConnectionsInv, Grants
  <1>5. AreApps(dapps)'
    BY <1>1, <1>2 DEF ConnectionsInv, AreApps
  <1>6. \A e \in DOMAIN dapps' : /\ dapps'[e].accounts \subseteq inWallet'
                                 /\ dapps'[e].connected <=> dapps'[e].sources # {}
    BY <1>1, <1>2 DEF ConnectionsInv
  <1>7. Agrees(dapps)'
    <2> SUFFICES ASSUME NEW e \in AppIds
                 PROVE  /\ (e \in DOMAIN dapps' /\ dapps'[e].sources # {})
                             <=> granted'[e].sources # {}
                        /\ granted'[e].sources # {} =>
                             /\ dapps'[e].sources = granted'[e].sources
                             /\ dapps'[e].accounts \cap inWallet' = granted'[e].accounts
      BY DEF Agrees
    <2>1. CASE e = d
      BY <2>1, <1>1, <1>2, <1>3 DEF ConnectionsInv
    <2>2. CASE e # d
      BY <2>2, <1>2, <1>3 DEF ConnectionsInv, Agrees
    <2> QED  BY <2>1, <2>2
  <1> QED
    BY <1>2, <1>4, <1>5, <1>6, <1>7 DEF ConnectionsInv, Agrees, AreApps

LEMMA OneAppGone ==
    ASSUME ConnectionsInv, NEW d \in AppIds, NEW g \in SUBSET AppAccounts,
           DeleteApp(d), Grant(d, {}, g), UNCHANGED inWallet,
           toConnect' \subseteq [id : AppIds, custom : BOOLEAN]
    PROVE  ConnectionsInv'
  <1>1. /\ dapps' = [e \in DOMAIN dapps \ {d} |-> dapps[e]]
        /\ dappsStored' = dapps'
        /\ granted' = [granted EXCEPT ![d] = [sources |-> {}, accounts |-> g]]
    BY DEF DeleteApp, Grant
  <1>2. granted' \in [AppIds -> Grants] /\ AreApps(dapps)'
    BY <1>1 DEF ConnectionsInv, Grants, AreApps
  <1>3. \A e \in DOMAIN dapps' : /\ dapps'[e].accounts \subseteq inWallet'
                                 /\ dapps'[e].connected <=> dapps'[e].sources # {}
    BY <1>1 DEF ConnectionsInv
  <1>4. Agrees(dapps)'
    BY <1>1 DEF ConnectionsInv, Agrees
  <1> QED
    BY <1>1, <1>2, <1>3, <1>4 DEF ConnectionsInv, Agrees, AreApps

LEMMA OneAppUpdated ==
    ASSUME ConnectionsInv, NEW d \in DOMAIN dapps, NEW s \in SUBSET Channels,
           NEW a \in SUBSET inWallet, NEW g \in SUBSET AppAccounts, s # {} => g = a,
           UpdateApp(d, s, a), Grant(d, s, g), UNCHANGED inWallet,
           toConnect' \subseteq [id : AppIds, custom : BOOLEAN]
    PROVE  ConnectionsInv'
  <1>1. d \in AppIds /\ dapps[d].custom \in BOOLEAN
    BY DEF ConnectionsInv, AreApps, Apps
  <1>2. CASE dapps[d].custom /\ dapps[d].sources # {} /\ s = {}
    BY <1>1, <1>2, OneAppGone DEF UpdateApp
  <1>3. CASE ~(dapps[d].custom /\ dapps[d].sources # {} /\ s = {})
    <2>1. SetApp(d, App(s, dapps[d].custom, a))
      BY <1>3 DEF UpdateApp
    <2> QED  BY <1>1, <2>1, OneAppSet
  <1> QED  BY <1>2, <1>3

\* What is known of one app.
LEMMA OfOneApp ==
    ASSUME ConnectionsInv, NEW d \in AppIds
    PROVE  /\ granted[d].sources \in SUBSET Channels
           /\ granted[d].accounts \in SUBSET AppAccounts
           /\ d \in DOMAIN dapps => /\ dapps[d].sources = granted[d].sources
                                    /\ dapps[d].accounts \in SUBSET inWallet
                                    /\ dapps[d].custom \in BOOLEAN
           /\ d \notin DOMAIN dapps => granted[d].sources = {}
           /\ granted[d].sources # {} => dapps[d].accounts = granted[d].accounts
  <1>1. /\ granted[d] \in Grants /\ (d \in DOMAIN dapps => dapps[d] \in Apps)
        /\ d \in DOMAIN dapps => dapps[d].accounts \subseteq inWallet
    BY DEF ConnectionsInv, AreApps
  <1>2. /\ (d \in DOMAIN dapps /\ dapps[d].sources # {}) <=> granted[d].sources # {}
        /\ granted[d].sources # {} => /\ dapps[d].sources = granted[d].sources
                                      /\ dapps[d].accounts \cap inWallet = granted[d].accounts
    BY DEF ConnectionsInv, Agrees
  <1> QED  BY <1>1, <1>2 DEF Grants, Apps

LEMMA BeforeOfApp ==
    ASSUME ConnectionsInv, NEW d \in AppIds
    PROVE  /\ Before(d).sources = granted[d].sources
           /\ Before(d).accounts \in SUBSET inWallet
           /\ Before(d).custom \in BOOLEAN
           /\ granted[d].sources # {} => /\ Before(d).accounts = granted[d].accounts
  <1>1. App({}, FALSE, {}).sources = {} /\ App({}, FALSE, {}).accounts = {}
        /\ App({}, FALSE, {}).custom = FALSE
    BY DEF App
  <1> QED  BY <1>1, OfOneApp DEF Before

LEMMA OneAppAdded ==
    ASSUME ConnectionsInv, NEW d \in AppIds, NEW custom \in BOOLEAN, NEW ch \in Channels,
           NEW a \in SUBSET inWallet, AddApp(d, custom, ch, a),
           Grant(d, granted[d].sources \cup {ch}, a), UNCHANGED inWallet,
           toConnect' \subseteq [id : AppIds, custom : BOOLEAN]
    PROVE  ConnectionsInv'
  <1>1. a \in SUBSET AppAccounts /\ granted[d].sources \cup {ch} \in SUBSET Channels
    BY OfOneApp DEF ConnectionsInv
  <1>2. CASE d \in DOMAIN dapps
    <2>1. UpdateApp(d, granted[d].sources \cup {ch}, a)
      BY <1>2, OfOneApp DEF AddApp
    <2> QED  BY <1>1, <1>2, <2>1, OneAppUpdated
  <1>3. CASE d \notin DOMAIN dapps
    <2>1. granted[d].sources \cup {ch} = {ch} /\ SetApp(d, App({ch}, custom, a))
      BY <1>3, OfOneApp DEF AddApp
    <2> QED  BY <1>1, <2>1, OneAppSet
  <1> QED  BY <1>2, <1>3

\* The actions on one app.
LEMMA ConnectInv ==
    ASSUME ConnectionsInv,
           \/ \E S \in SUBSET inWallet : ConnectApp(S)
           \/ \E d \in AppIds : ConnectByWc(d)
    PROVE  ConnectionsInv'
  <1>1. ASSUME NEW S \in SUBSET inWallet, ConnectApp(S) PROVE ConnectionsInv'
    <2>1. PICK r \in toConnect :
            /\ AddApp(r.id, r.custom, "injected", S)
            /\ Grant(r.id, granted[r.id].sources \cup {"injected"}, S)
      BY <1>1 DEF ConnectApp
    <2>2. r.id \in AppIds /\ r.custom \in BOOLEAN
      BY DEF ConnectionsInv
    <2>3. UNCHANGED inWallet /\ toConnect' = {} /\ "injected" \in Channels
      BY <1>1 DEF ConnectApp, Channels
    <2> QED  BY <2>1, <2>2, <2>3, OneAppAdded
  <1>2. ASSUME NEW d \in AppIds, ConnectByWc(d) PROVE ConnectionsInv'
    <2>1. /\ AddApp(d, TRUE, "wc", Before(d).accounts) /\ "wc" \in Channels
          /\ Grant(d, granted[d].sources \cup {"wc"}, Before(d).accounts)
          /\ UNCHANGED <<inWallet, toConnect>>
      BY <1>2, BeforeOfApp DEF ConnectByWc, Channels
    <2>2. toConnect' \subseteq [id : AppIds, custom : BOOLEAN]
      BY <2>1 DEF ConnectionsInv
    <2> QED  BY <2>1, <2>2, BeforeOfApp, OneAppAdded
  <1> QED  BY <1>1, <1>2

LEMMA ChangeInv ==
    ASSUME ConnectionsInv, NEW d \in AppIds,
           \/ \E S \in SUBSET inWallet : LimitApp(d, S)
           \/ \E c \in Channels : DisconnectSource(d, c)
           \/ RemoveApp(d)
    PROVE  ConnectionsInv'
  <1>1. toConnect' = toConnect => toConnect' \subseteq [id : AppIds, custom : BOOLEAN]
    BY DEF ConnectionsInv
  <1>2. ASSUME NEW S \in SUBSET inWallet, LimitApp(d, S) PROVE ConnectionsInv'
    <2>1. /\ d \in DOMAIN dapps /\ UpdateApp(d, granted[d].sources, S)
          /\ Grant(d, granted[d].sources, S) /\ UNCHANGED <<inWallet, toConnect>>
      BY <1>2, OfOneApp DEF LimitApp
    <2>2. S \in SUBSET AppAccounts
      BY DEF ConnectionsInv
    <2> QED  BY <1>1, <2>1, <2>2, OfOneApp, OneAppUpdated
  <1>3. ASSUME NEW c \in Channels, DisconnectSource(d, c) PROVE ConnectionsInv'
    <2>1. /\ d \in DOMAIN dapps /\ UNCHANGED <<inWallet, toConnect>>
          /\ UpdateApp(d, granted[d].sources \ {c}, dapps[d].accounts)
          /\ Grant(d, granted[d].sources \ {c}, granted[d].accounts)
      BY <1>3, OfOneApp DEF DisconnectSource
    <2>2. granted[d].sources \ {c} \in SUBSET Channels
          /\ (granted[d].sources \ {c} # {} => granted[d].accounts = dapps[d].accounts)
      BY OfOneApp
    <2> QED  BY <1>1, <2>1, <2>2, OfOneApp, OneAppUpdated
  <1>4. CASE RemoveApp(d)
    <2>1. DeleteApp(d) /\ Grant(d, {}, {}) /\ UNCHANGED <<inWallet, toConnect>>
      BY <1>4 DEF RemoveApp
    <2> QED  BY <1>1, <2>1, OneAppGone
  <1> QED  BY <1>2, <1>3, <1>4

LEMMA DisconnectAllInv ==
    ASSUME ConnectionsInv, NEW over \in SUBSET Channels, DisconnectAll(over)
    PROVE  ConnectionsInv'
  <1> DEFINE Left(d) == dapps[d].sources \ over
             touched == {d \in DOMAIN dapps :
                           /\ dapps[d].connected
                           /\ over = Channels \/ dapps[d].sources \cap over # {}}
             gone == {d \in touched : dapps[d].custom /\ Left(d) = {}}
  <1>1. /\ dapps' = [d \in DOMAIN dapps \ gone |->
                      IF d \in touched THEN App(Left(d), dapps[d].custom, dapps[d].accounts)
                      ELSE dapps[d]]
        /\ dappsStored' = dapps' /\ UNCHANGED <<inWallet, toConnect>>
        /\ granted' = [d \in AppIds |-> [granted[d] EXCEPT !.sources = @ \ over]]
    BY DEF DisconnectAll
  <1>2. \A d \in AppIds : /\ granted'[d] \in Grants
                          /\ granted'[d].sources = granted[d].sources \ over
                          /\ granted'[d].accounts = granted[d].accounts
    BY <1>1 DEF ConnectionsInv, Grants
  <1>3. \A d \in DOMAIN dapps :
          /\ d \in AppIds /\ dapps[d] \in Apps /\ dapps[d].sources \in SUBSET Channels
          /\ dapps[d].custom \in BOOLEAN /\ dapps[d].accounts \in SUBSET inWallet
          /\ dapps[d].connected <=> dapps[d].sources # {}
          /\ dapps[d].accounts \in SUBSET AppAccounts
    BY DEF ConnectionsInv, AreApps, Apps
  <1>4. \A d \in DOMAIN dapps : d \notin touched => dapps[d].sources \ over = dapps[d].sources
    BY <1>3
  <1>5. \A d \in DOMAIN dapps' :
          /\ d \in DOMAIN dapps /\ dapps'[d] \in Apps
          /\ dapps'[d].sources = dapps[d].sources \ over
          /\ dapps'[d].accounts = dapps[d].accounts
          /\ dapps'[d].connected <=> dapps'[d].sources # {}
    <2> SUFFICES ASSUME NEW d \in DOMAIN dapps'
                 PROVE  /\ d \in DOMAIN dapps /\ dapps'[d] \in Apps
                        /\ dapps'[d].sources = dapps[d].sources \ over
                        /\ dapps'[d].accounts = dapps[d].accounts
                        /\ dapps'[d].connected <=> dapps'[d].sources # {}
      OBVIOUS
    <2>1. d \in DOMAIN dapps
      BY <1>1
    <2>2. CASE d \in touched
      <3>1. dapps'[d] = App(dapps[d].sources \ over, dapps[d].custom, dapps[d].accounts)
        BY <1>1, <2>2
      <3>2. dapps[d].sources \ over \in SUBSET Channels
        BY <1>3, <2>1
      <3> QED  BY <1>3, <2>1, <3>1, <3>2, AppIsApp
    <2>3. CASE d \notin touched
      <3>1. dapps'[d] = dapps[d]
        BY <1>1, <2>3
      <3> QED  BY <1>3, <1>4, <2>1, <2>3, <3>1
    <2> QED  BY <2>2, <2>3
  <1>6. \A d \in DOMAIN dapps : d \notin DOMAIN dapps' => dapps[d].sources \ over = {}
    BY <1>1
  <1> HIDE DEF touched, gone
  <1>7. Agrees(dapps)'
    <2> SUFFICES ASSUME NEW d \in AppIds
                 PROVE  /\ (d \in DOMAIN dapps' /\ dapps'[d].sources # {})
                             <=> granted'[d].sources # {}
                        /\ granted'[d].sources # {} =>
                             /\ dapps'[d].sources = granted'[d].sources
                             /\ dapps'[d].accounts \cap inWallet' = granted'[d].accounts
      BY DEF Agrees
    <2>1. d \notin DOMAIN dapps => granted[d].sources = {} /\ d \notin DOMAIN dapps'
      BY <1>5, OfOneApp
    <2>2. CASE d \notin DOMAIN dapps
      BY <1>2, <2>1, <2>2
    <2>3. CASE d \in DOMAIN dapps /\ d \notin DOMAIN dapps'
      BY <1>2, <1>6, <2>3, OfOneApp
    <2>4. CASE d \in DOMAIN dapps /\ d \in DOMAIN dapps'
      <3>1. /\ dapps'[d].sources = granted'[d].sources
            /\ dapps'[d].accounts \in SUBSET inWallet'
        <4>1. dapps[d].sources = granted[d].sources /\ dapps[d].accounts \in SUBSET inWallet
          BY <2>4, OfOneApp
        <4>2. /\ dapps'[d].sources = dapps[d].sources \ over
              /\ dapps'[d].accounts = dapps[d].accounts
          BY <1>5, <2>4
        <4>3. granted'[d].sources = granted[d].sources \ over /\ inWallet' = inWallet
          BY <1>1, <1>2
        <4> QED  BY <4>1, <4>2, <4>3
      <3>2. granted'[d].sources # {} => dapps'[d].accounts = granted'[d].accounts
        BY <1>2, <1>5, <2>4, OfOneApp
      <3> QED  BY <2>4, <3>1, <3>2
    <2> QED  BY <2>2, <2>3, <2>4
  <1>8. AreApps(dapps)' /\ granted' \in [AppIds -> Grants]
    BY <1>1, <1>2, <1>3, <1>5 DEF AreApps
  <1>9. \A d \in DOMAIN dapps' : /\ dapps'[d].accounts \subseteq inWallet'
                                 /\ dapps'[d].connected <=> dapps'[d].sources # {}
    BY <1>1, <1>3, <1>5
  <1> QED
    BY <1>1, <1>7, <1>8, <1>9 DEF ConnectionsInv, Agrees, AreApps

\* A new catalogue keeps the permissions of the moment it comes.
LEMMA ReplaceAppsInv ==
    ASSUME ConnectionsInv, NEW fetched \in SUBSET AppIds, ReplaceApps(fetched)
    PROVE  ConnectionsInv'
  <1>1. /\ dapps' = [d \in fetched \cup Predefined \cup {e \in DOMAIN dapps : Stays(e)} |->
                      IF d \in fetched THEN FromList(d)
                      ELSE IF d \in Predefined THEN FromPredefined(d) ELSE dapps[d]]
        /\ UNCHANGED <<dappsStored, toConnect, inWallet, granted>>
    BY DEF ReplaceApps
  <1>2. DOMAIN dapps' \subseteq AppIds
    BY <1>1, ConnectionsAssumption DEF ConnectionsInv, AreApps
  <1>3. \A d \in DOMAIN dapps' :
          /\ dapps'[d] \in Apps /\ dapps'[d].sources = granted[d].sources
          /\ dapps'[d].accounts \in SUBSET inWallet
          /\ granted[d].sources # {} => dapps'[d].accounts = granted[d].accounts
          /\ dapps'[d].connected <=> dapps'[d].sources # {}
    <2> SUFFICES ASSUME NEW d \in DOMAIN dapps'
                 PROVE  /\ dapps'[d] \in Apps /\ dapps'[d].sources = granted[d].sources
                        /\ dapps'[d].accounts \in SUBSET inWallet
                        /\ granted[d].sources # {} => dapps'[d].accounts = granted[d].accounts
                        /\ dapps'[d].connected <=> dapps'[d].sources # {}
      OBVIOUS
    <2>1. /\ d \in AppIds /\ Before(d).sources \in SUBSET Channels
          /\ Before(d).accounts \in SUBSET AppAccounts
      BY <1>2, BeforeOfApp, OfOneApp DEF ConnectionsInv
    <2>2. CASE d \in fetched
      BY <1>1, <2>1, <2>2, BeforeOfApp, AppIsApp DEF FromList
    <2>3. CASE d \notin fetched /\ d \in Predefined
      <3>1. PICK c \in BOOLEAN : dapps'[d] = App(Before(d).sources, c, Before(d).accounts)
        BY <1>1, <2>3 DEF FromPredefined
      <3> QED  BY <2>1, <3>1, BeforeOfApp, AppIsApp
    <2>4. CASE d \notin fetched /\ d \notin Predefined
      <3>1. d \in DOMAIN dapps /\ dapps'[d] = dapps[d]
        BY <1>1, <2>4
      <3> QED  BY <2>1, <3>1, OfOneApp DEF ConnectionsInv, AreApps
    <2> QED  BY <2>2, <2>3, <2>4
  <1>4. \A d \in AppIds : granted[d].sources # {} => d \in DOMAIN dapps'
    BY <1>1, OfOneApp DEF Stays
  <1>5. Agrees(dapps)'
    BY <1>1, <1>3, <1>4, OfOneApp DEF Agrees, ConnectionsInv
  <1> QED
    BY <1>1, <1>2, <1>3, <1>5 DEF ConnectionsInv, Agrees, AreApps

\* An account that is one of several an app sees goes.
LEMMA RemoveAccountInv ==
    ASSUME ConnectionsEnvironment = {}, ConnectionsInv, NEW a \in AppAccounts,
           RemoveAccountData(a)
    PROVE  ConnectionsInv'
  <1>1. /\ inWallet' = inWallet \ {a} /\ UNCHANGED <<dappsStored, toConnect>>
        /\ dapps' = [d \in DOMAIN dapps |-> WithoutAccount(dapps[d], a)]
        /\ \A d \in DOMAIN dapps : a \in dapps[d].accounts =>
                                     dapps[d].accounts # {a} /\ dapps[d].sources # {}
        /\ granted' = [d \in AppIds |->
                         IF granted[d].accounts = {a} THEN NoGrant
                         ELSE [granted[d] EXCEPT !.accounts = @ \ {a}]]
    BY DEF RemoveAccountData
  <1>2. \A d \in DOMAIN dapps :
          /\ dapps'[d] \in Apps /\ dapps'[d].sources = dapps[d].sources
          /\ dapps'[d].accounts = dapps[d].accounts \ {a}
          /\ dapps'[d].connected <=> dapps'[d].sources # {}
    <2> SUFFICES ASSUME NEW d \in DOMAIN dapps
                 PROVE  /\ dapps'[d] \in Apps /\ dapps'[d].sources = dapps[d].sources
                        /\ dapps'[d].accounts = dapps[d].accounts \ {a}
                        /\ dapps'[d].connected <=> dapps'[d].sources # {}
      OBVIOUS
    <2>1. dapps[d] \in Apps /\ (dapps[d].connected <=> dapps[d].sources # {})
      BY DEF ConnectionsInv, AreApps
    <2>2. CASE a \notin dapps[d].accounts
      BY <1>1, <2>1, <2>2 DEF WithoutAccount, Apps
    <2>3. CASE a \in dapps[d].accounts
      <3>1. /\ dapps'[d] = [dapps[d] EXCEPT !.accounts = dapps[d].accounts \ {a},
                                            !.connected = dapps[d].accounts # {a}]
            /\ dapps[d].accounts # {a} /\ dapps[d].sources # {}
        BY <1>1, <2>3 DEF WithoutAccount
      <3> QED  BY <2>1, <3>1 DEF Apps
    <2> QED  BY <2>2, <2>3
  <1>3. \A d \in AppIds :
          /\ granted'[d] \in Grants /\ granted'[d].sources = granted[d].sources
          /\ granted[d].sources # {} => granted'[d].accounts = granted[d].accounts \ {a}
    <2> SUFFICES ASSUME NEW d \in AppIds
                 PROVE  /\ granted'[d] \in Grants /\ granted'[d].sources = granted[d].sources
                        /\ granted[d].sources # {} =>
                             granted'[d].accounts = granted[d].accounts \ {a}
      OBVIOUS
    <2>1. granted[d] \in Grants
      BY DEF ConnectionsInv
    <2>2. CASE granted[d].accounts = {a}
      <3>1. granted[d].sources = {}
        BY <1>1, <2>2, OfOneApp
      <3> QED  BY <1>1, <2>2, <3>1 DEF NoGrant, Grants
    <2>3. CASE granted[d].accounts # {a}
      <3>1. granted'[d] = [granted[d] EXCEPT !.accounts = @ \ {a}]
        BY <1>1, <2>3
      <3> QED  BY <2>1, <3>1 DEF Grants
    <2> QED  BY <2>2, <2>3
  <1>4. DOMAIN dapps' = DOMAIN dapps
    BY <1>1
  <1>5. granted' \in [AppIds -> Grants] /\ AreApps(dapps)'
    BY <1>1, <1>2, <1>3, <1>4 DEF ConnectionsInv, AreApps
  <1>6. Agrees(dapps)' /\ Agrees(dappsStored)'
    <2>1. Agrees(dapps)'
      <3> SUFFICES ASSUME NEW d \in AppIds
                   PROVE  /\ (d \in DOMAIN dapps' /\ dapps'[d].sources # {})
                               <=> granted'[d].sources # {}
                          /\ granted'[d].sources # {} =>
                               /\ dapps'[d].sources = granted'[d].sources
                               /\ dapps'[d].accounts \cap inWallet' = granted'[d].accounts
        BY DEF Agrees
      <3>1. /\ d \in DOMAIN dapps' => dapps'[d].sources = granted'[d].sources
            /\ d \notin DOMAIN dapps' => granted'[d].sources = {}
        BY <1>2, <1>3, <1>4, OfOneApp
      <3>2. granted[d].sources # {} =>
              /\ d \in DOMAIN dapps /\ dapps[d].accounts = granted[d].accounts
              /\ dapps[d].accounts \in SUBSET inWallet
        BY OfOneApp
      <3> QED  BY <1>1, <1>2, <1>3, <1>4, <3>1, <3>2
    <2>2. Agrees(dappsStored)'
      BY <1>1, <1>3 DEF ConnectionsInv, Agrees
    <2> QED  BY <2>1, <2>2
  <1>7. \A d \in DOMAIN dapps' : /\ dapps'[d].accounts \subseteq inWallet'
                                 /\ dapps'[d].connected <=> dapps'[d].sources # {}
    BY <1>1, <1>2, <1>4 DEF ConnectionsInv
  <1> QED  BY <1>1, <1>5, <1>6, <1>7 DEF ConnectionsInv, AreApps

\* A restart that finds no account that is gone.
LEMMA ReloadInv ==
    ASSUME ConnectionsEnvironment = {}, ConnectionsInv, NEW newer \in BOOLEAN,
           Reload(newer)
    PROVE  ConnectionsInv'
  <1>1. /\ dapps' = [d \in DOMAIN dappsStored |->
                      [dappsStored[d] EXCEPT !.connected = dappsStored[d].sources # {}]]
        /\ \A d \in DOMAIN dappsStored : dappsStored[d].accounts \subseteq inWallet
        /\ toConnect' = {} /\ UNCHANGED <<dappsStored, inWallet, granted>>
    BY DEF Reload
  <1>2. \A d \in DOMAIN dapps' :
          /\ dapps'[d] \in Apps /\ dapps'[d].sources = dappsStored[d].sources
          /\ dapps'[d].accounts = dappsStored[d].accounts
          /\ dapps'[d].connected <=> dapps'[d].sources # {}
    <2>1. ASSUME NEW a \in Apps, NEW b \in BOOLEAN
          PROVE  LET s == [a EXCEPT !.connected = b]
                 IN  /\ s \in Apps /\ s.sources = a.sources /\ s.accounts = a.accounts
                     /\ s.connected = b
      BY DEF Apps
    <2>2. ASSUME NEW d \in DOMAIN dapps'
          PROVE  /\ dappsStored[d] \in Apps /\ (dappsStored[d].sources # {}) \in BOOLEAN
                 /\ dapps'[d] = [dappsStored[d] EXCEPT !.connected = dappsStored[d].sources # {}]
      BY <1>1 DEF ConnectionsInv, AreApps
    <2> QED
      <3> SUFFICES ASSUME NEW d \in DOMAIN dapps'
                   PROVE  /\ dapps'[d] \in Apps /\ dapps'[d].sources = dappsStored[d].sources
                          /\ dapps'[d].accounts = dappsStored[d].accounts
                          /\ dapps'[d].connected <=> dapps'[d].sources # {}
        OBVIOUS
      <3> DEFINE b == dappsStored[d].sources # {}
      <3>1. b \in BOOLEAN /\ dappsStored[d] \in Apps
            /\ dapps'[d] = [dappsStored[d] EXCEPT !.connected = b]
        BY <2>2
      <3>2. b <=> dappsStored[d].sources # {}
        OBVIOUS
      <3> HIDE DEF b
      <3>3. /\ dapps'[d] \in Apps /\ dapps'[d].sources = dappsStored[d].sources
            /\ dapps'[d].accounts = dappsStored[d].accounts /\ dapps'[d].connected = b
        BY <2>1, <3>1
      <3> QED  BY <3>2, <3>3
  <1>3. DOMAIN dapps' = DOMAIN dappsStored
    BY <1>1
  <1>4. AreApps(dapps)'
    BY <1>2, <1>3 DEF ConnectionsInv, AreApps
  <1>5. Agrees(dapps)' /\ Agrees(dappsStored)'
    <2>1. Agrees(dappsStored)'
      BY <1>1 DEF ConnectionsInv, Agrees
    <2>2. \A d \in AppIds :
            /\ (d \in DOMAIN dapps' /\ dapps'[d].sources # {})
                 <=> (d \in DOMAIN dappsStored' /\ dappsStored'[d].sources # {})
            /\ d \in DOMAIN dapps' =>
                 /\ dapps'[d].sources = dappsStored'[d].sources
                 /\ dapps'[d].accounts = dappsStored'[d].accounts
      BY <1>1, <1>2, <1>3
    <2> QED  BY <2>1, <2>2 DEF Agrees
  <1>6. \A d \in DOMAIN dapps' : /\ dapps'[d].accounts \subseteq inWallet'
                                 /\ dapps'[d].connected <=> dapps'[d].sources # {}
    BY <1>1, <1>2, <1>3
  <1> QED  BY <1>1, <1>4, <1>5, <1>6 DEF ConnectionsInv, AreApps

LEMMA NextConnectionsInv ==
    ASSUME ConnectionsEnvironment = {}, ConnectionsInv,
           [ConnectionsNext]_connectionVars
    PROVE  ConnectionsInv'
  <1>1. CASE \/ CatalogueCurrent \/ AskLists \/ ListsFail \/ RetryTicks \/ MarkCurrent
             \/ OpenView \/ CloseView \/ UNCHANGED connectionVars
    <2>1. UNCHANGED appVars
      BY <1>1 DEF CatalogueCurrent, AskLists, ListsFail, RetryTicks, MarkCurrent,
                  OpenView, CloseView, connectionVars
    <2>2. UNCHANGED <<dapps, dappsStored, inWallet, granted>> /\ toConnect' = toConnect
      BY <2>1 DEF appVars
    <2> QED  BY <2>2, AppsUnchanged DEF ConnectionsInv
  <1>2. CASE StoreApps
    BY <1>2 DEF StoreApps, ConnectionsInv, Agrees, AreApps
  <1>3. ASSUME NEW d \in AppIds, ShowRequest(d) PROVE ConnectionsInv'
    <2>1. /\ UNCHANGED <<dapps, dappsStored, inWallet, granted>>
          /\ toConnect' = {[id |-> d, custom |-> d \in DOMAIN dapps => dapps[d].custom]}
      BY <1>3 DEF ShowRequest
    <2>2. d \in DOMAIN dapps => dapps[d].custom \in BOOLEAN
      BY OfOneApp
    <2>3. toConnect' \subseteq [id : AppIds, custom : BOOLEAN]
      BY <2>1, <2>2
    <2> QED  BY <2>1, <2>3, AppsUnchanged
  <1>4. CASE DismissRequest
    BY <1>4, AppsUnchanged DEF DismissRequest
  <1>5. ASSUME NEW over \in {{"injected"}, {"wc"}, Channels}, DisconnectAll(over)
        PROVE  ConnectionsInv'
    <2>1. over \in SUBSET Channels
      BY DEF Channels
    <2> QED  BY <1>5, <2>1, DisconnectAllInv
  <1>6. CASE \E newer \in BOOLEAN : Reload(newer)
    BY <1>6, ReloadInv
  <1>7. CASE \E a \in AppAccounts : RemoveAccountData(a)
    BY <1>7, RemoveAccountInv
  <1>8. CASE \E S \in SUBSET AppIds : ReplaceApps(S)
    BY <1>8, ReplaceAppsInv
  <1>9. CASE \/ \E S \in SUBSET inWallet : ConnectApp(S)
             \/ \E d \in AppIds : ConnectByWc(d)
    BY <1>9, ConnectInv
  <1>10. ASSUME NEW d \in AppIds,
                \/ \E S \in SUBSET inWallet : LimitApp(d, S)
                \/ \E c \in Channels : DisconnectSource(d, c)
                \/ RemoveApp(d)
         PROVE  ConnectionsInv'
    BY <1>10, ChangeInv
  <1>11. CASE \E d \in AppIds : ShowRequest(d) \/ ConnectByWc(d) \/ RemoveApp(d)
    BY <1>3, <1>9, <1>10, <1>11, Zenon
  <1>12. CASE \E S \in SUBSET inWallet : ConnectApp(S) \/ (\E d \in AppIds : LimitApp(d, S))
    BY <1>9, <1>10, <1>12, Zenon
  <1>13. CASE \E d \in AppIds, c \in Channels : DisconnectSource(d, c)
    BY <1>10, <1>13, Zenon
  <1> QED
    BY <1>1, <1>2, <1>4, <1>5, <1>6, <1>7, <1>8, <1>11, <1>12, <1>13, Zenon
       DEF ConnectionsNext

LEMMA InitConnectionsInv == ConnectionsInit => ConnectionsInv
  <1> SUFFICES ASSUME ConnectionsInit PROVE ConnectionsInv
    OBVIOUS
  <1> DEFINE none == App({}, FALSE, {})
  <1>1. /\ none \in Apps /\ none.sources = {} /\ none.accounts = {}
        /\ none.connected <=> FALSE
    <2>1. none = [sources |-> {}, connected |-> FALSE, custom |-> FALSE, accounts |-> {}]
      BY DEF App
    <2> HIDE DEF none
    <2> QED  BY <2>1 DEF Apps
  <1>2. /\ dapps = [d \in Predefined |-> none] /\ dappsStored = dapps
        /\ toConnect = {} /\ inWallet = AppAccounts
        /\ granted = [d \in AppIds |-> NoGrant]
    BY DEF ConnectionsInit
  <1> HIDE DEF none
  <1>3. AreApps(dapps)
    BY <1>1, <1>2, ConnectionsAssumption DEF AreApps
  <1>4. granted \in [AppIds -> Grants]
    BY <1>2 DEF NoGrant, Grants
  <1>5. Agrees(dapps)
    BY <1>1, <1>2 DEF Agrees, NoGrant
  <1> QED  BY <1>1, <1>2, <1>3, <1>4, <1>5, StoredAsTheyAre

\* An app has exactly the permissions the user granted, for any apps, accounts,
\* catalogues and restarts, if the accounts that are removed are among others an
\* app sees and no restart comes before their removal is stored.
THEOREM ConnectedAsGrantedHolds ==
    ASSUME ConnectionsEnvironment = {}
    PROVE  ConnectionsSpec => []ConnectedAsGranted
  <1>1. ConnectionsInit => ConnectionsInv
    BY InitConnectionsInv
  <1>2. ConnectionsInv /\ [ConnectionsNext]_connectionVars => ConnectionsInv'
    BY NextConnectionsInv
  <1>3. ConnectionsInv => ConnectedAsGranted
    BY OfOneApp DEF ConnectionsInv, ConnectedAsGranted, HasPermission
  <1> QED  BY <1>1, <1>2, <1>3, PTL DEF ConnectionsSpec

\* The maps of apps are functions, whatever a step makes of them.
IsMap(m) == m = [d \in DOMAIN m |-> m[d]]

LEMMA NextMaps ==
    ASSUME IsMap(dapps), IsMap(dappsStored), [ConnectionsNext]_connectionVars
    PROVE  IsMap(dapps)' /\ IsMap(dappsStored)'
  <1>1. ASSUME NEW d, NEW a, SetApp(d, a) PROVE IsMap(dapps)' /\ IsMap(dappsStored)'
    BY <1>1 DEF SetApp, IsMap
  <1>2. ASSUME NEW d, DeleteApp(d) PROVE IsMap(dapps)' /\ IsMap(dappsStored)'
    BY <1>2 DEF DeleteApp, IsMap
  <1>3. ASSUME NEW d, NEW s, NEW a, UpdateApp(d, s, a)
        PROVE  IsMap(dapps)' /\ IsMap(dappsStored)'
    BY <1>1, <1>2, <1>3 DEF UpdateApp
  <1>4. ASSUME NEW d, NEW c, NEW h, NEW a, AddApp(d, c, h, a)
        PROVE  IsMap(dapps)' /\ IsMap(dappsStored)'
    BY <1>1, <1>3, <1>4 DEF AddApp
  <1>5. ASSUME UNCHANGED <<dapps, dappsStored>> PROVE IsMap(dapps)' /\ IsMap(dappsStored)'
    BY <1>5 DEF IsMap
  <1>6. CASE \/ CatalogueCurrent \/ AskLists \/ ListsFail \/ RetryTicks \/ MarkCurrent
             \/ OpenView \/ CloseView \/ DismissRequest \/ (\E d \in AppIds : ShowRequest(d))
             \/ UNCHANGED connectionVars
    BY <1>5, <1>6 DEF CatalogueCurrent, AskLists, ListsFail, RetryTicks, MarkCurrent, OpenView,
       CloseView, DismissRequest, ShowRequest, connectionVars, appVars
  <1>7. ASSUME NEW listed \in SUBSET AppIds, ReplaceApps(listed)
        PROVE  IsMap(dapps)' /\ IsMap(dappsStored)'
    BY <1>7 DEF ReplaceApps, IsMap
  <1>8. CASE StoreApps
    BY <1>8 DEF StoreApps, IsMap
  <1>9. ASSUME NEW d \in AppIds, ConnectByWc(d) \/ RemoveApp(d)
        PROVE  IsMap(dapps)' /\ IsMap(dappsStored)'
    BY <1>2, <1>4, <1>9 DEF ConnectByWc, RemoveApp
  <1>10. ASSUME NEW S \in SUBSET inWallet, ConnectApp(S) \/ \E d \in AppIds : LimitApp(d, S)
         PROVE  IsMap(dapps)' /\ IsMap(dappsStored)'
    BY <1>3, <1>4, <1>10 DEF ConnectApp, LimitApp
  <1>11. ASSUME NEW d \in AppIds, NEW c \in Channels, DisconnectSource(d, c)
         PROVE  IsMap(dapps)' /\ IsMap(dappsStored)'
    BY <1>3, <1>11 DEF DisconnectSource
  <1>12. ASSUME NEW over, DisconnectAll(over) PROVE IsMap(dapps)' /\ IsMap(dappsStored)'
    BY <1>12 DEF DisconnectAll, IsMap
  <1>13. ASSUME NEW a, RemoveAccountData(a) PROVE IsMap(dapps)' /\ IsMap(dappsStored)'
    BY <1>13 DEF RemoveAccountData, IsMap
  <1>14. ASSUME NEW updated, Reload(updated) PROVE IsMap(dapps)' /\ IsMap(dappsStored)'
    BY <1>14 DEF Reload, IsMap
  <1> QED
    BY <1>6, <1>7, <1>8, <1>9, <1>10, <1>11, <1>12, <1>13, <1>14 DEF ConnectionsNext

\* The lists are not asked for again once the retries are used up: the interval
\* runs, and a fetch that counts begins, only while there is one left.
RetriesInv ==
    /\ fetchAt \in {"over", "version", "lists", "statuses", "mark"}
    /\ shouldRetry \in BOOLEAN /\ retryRuns \in BOOLEAN /\ popup \in BOOLEAN
    /\ upToDate \in BOOLEAN /\ attempts \in 0..RETRIES /\ reloads \in 0..MAX_RELOADS
    /\ fetchAt = "over" /\ retryRuns => attempts < RETRIES
    /\ fetchAt = "version" /\ (retryRuns \/ shouldRetry) => attempts < RETRIES
    /\ fetchAt \in {"statuses", "mark"} => ~retryRuns /\ ~shouldRetry

LEMMA NextRetriesInv ==
    ASSUME RetriesInv, [ConnectionsNext]_connectionVars
    PROVE  RetriesInv'
  <1>0. /\ RETRIES \in Nat \ {0} /\ attempts \in 0..RETRIES
        /\ fetchAt \in {"over", "version", "lists", "statuses", "mark"}
        /\ shouldRetry \in BOOLEAN /\ retryRuns \in BOOLEAN /\ popup \in BOOLEAN
        /\ upToDate \in BOOLEAN /\ reloads \in 0..MAX_RELOADS /\ MAX_RELOADS \in Nat
        /\ fetchAt = "over" /\ retryRuns => attempts < RETRIES
        /\ fetchAt = "version" /\ (retryRuns \/ shouldRetry) => attempts < RETRIES
        /\ fetchAt \in {"statuses", "mark"} => ~retryRuns /\ ~shouldRetry
    BY ConnectionsAssumption DEF RetriesInv
  <1>1. ASSUME UNCHANGED <<catalogueVars, popup, reloads>> PROVE RetriesInv'
    BY <1>1 DEF RetriesInv, catalogueVars
  <1>2. CASE CatalogueCurrent
    BY <1>0, <1>2 DEF RetriesInv, CatalogueCurrent
  <1>3. CASE AskLists
    <2>1. attempts' \in 0..RETRIES
      BY <1>0, <1>3 DEF AskLists
    <2> QED  BY <1>0, <1>3, <2>1 DEF RetriesInv, AskLists
  <1>4. CASE ListsFail
    <2>1. /\ fetchAt' = "over" /\ shouldRetry' = TRUE /\ retryRuns' = (attempts = 0 /\ ~popup)
          /\ upToDate' = upToDate /\ attempts' = attempts /\ popup' = popup
          /\ reloads' = reloads
      BY <1>4 DEF ListsFail
    <2>2. attempts = 0 => attempts < RETRIES
      BY <1>0
    <2>3. /\ attempts' \in 0..RETRIES /\ reloads' \in 0..MAX_RELOADS
          /\ upToDate' \in BOOLEAN /\ popup' \in BOOLEAN /\ retryRuns' \in BOOLEAN
          /\ retryRuns' => attempts' < RETRIES
      BY <1>0, <2>1, <2>2, Zenon
    <2> QED  BY <2>1, <2>3, Zenon DEF RetriesInv
  <1>5. CASE RetryTicks
    BY <1>0, <1>5 DEF RetriesInv, RetryTicks
  <1>6. ASSUME NEW listed, ReplaceApps(listed) PROVE RetriesInv'
    BY <1>0, <1>6 DEF RetriesInv, ReplaceApps
  <1>7. CASE StoreApps \/ MarkCurrent
    <2>1. /\ UNCHANGED <<shouldRetry, retryRuns, attempts, popup, reloads>>
          /\ upToDate' \in {upToDate, TRUE}
          /\ fetchAt \in {"statuses", "mark"} /\ fetchAt' \in {"mark", "over"}
      BY <1>7 DEF StoreApps, MarkCurrent
    <2>2. ~retryRuns' /\ ~shouldRetry' /\ fetchAt' # "version" /\ upToDate' \in BOOLEAN
      BY <1>0, <2>1
    <2> QED  BY <1>0, <2>1, <2>2 DEF RetriesInv
  <1>8. CASE OpenView
    BY <1>0, <1>8 DEF RetriesInv, OpenView
  <1>9. CASE CloseView
    <2>1. /\ popup' = FALSE /\ UNCHANGED <<upToDate, fetchAt, shouldRetry, attempts, reloads>>
          /\ retryRuns' \in BOOLEAN
          /\ retryRuns' => retryRuns \/ (shouldRetry /\ attempts < RETRIES)
      BY <1>0, <1>9 DEF CloseView
    <2> QED  BY <1>0, <2>1 DEF RetriesInv
  <1>10. ASSUME NEW updated \in BOOLEAN, Reload(updated) PROVE RetriesInv'
    <2>1. /\ reloads' \in 0..MAX_RELOADS /\ upToDate' \in BOOLEAN /\ fetchAt' = "version"
          /\ popup' = FALSE /\ shouldRetry' = FALSE /\ attempts' = 0 /\ retryRuns' = FALSE
      BY <1>0, <1>10 DEF Reload
    <2>2. attempts' \in 0..RETRIES /\ attempts' < RETRIES
      BY <1>0, <2>1
    <2> QED  BY <2>1, <2>2, Zenon DEF RetriesInv
  <1>11. CASE \/ \E d \in AppIds : ShowRequest(d) \/ ConnectByWc(d) \/ RemoveApp(d)
              \/ \E S \in SUBSET inWallet : ConnectApp(S) \/ (\E d \in AppIds : LimitApp(d, S))
              \/ DismissRequest
              \/ \E d \in AppIds, c \in Channels : DisconnectSource(d, c)
              \/ \E over \in {{"injected"}, {"wc"}, Channels} : DisconnectAll(over)
              \/ \E a \in AppAccounts : RemoveAccountData(a)
              \/ UNCHANGED connectionVars
    BY <1>1, <1>11 DEF ShowRequest, ConnectByWc, RemoveApp, ConnectApp, LimitApp, DismissRequest,
       DisconnectSource, DisconnectAll, RemoveAccountData, connectionVars
  <1> QED
    BY <1>2, <1>3, <1>4, <1>5, <1>6, <1>7, <1>8, <1>9, <1>10, <1>11 DEF ConnectionsNext

\* Apps, grants and the catalogue keep their types, and the lists are asked for at
\* most RETRIES times after they failed (#retryFetchAndUpdateInterval), however
\* the user opens and closes the wallet.
THEOREM ConnectionsTypeCorrect ==
    ASSUME ConnectionsEnvironment = {}
    PROVE  ConnectionsSpec => []ConnectionsTypeOK
  <1> DEFINE Inv == ConnectionsInv /\ IsMap(dapps) /\ IsMap(dappsStored) /\ RetriesInv
  <1>1. ConnectionsInit => Inv
    <2>1. ConnectionsInit => IsMap(dapps) /\ IsMap(dappsStored)
      BY DEF ConnectionsInit, IsMap
    <2>2. ASSUME ConnectionsInit PROVE RetriesInv
      <3>1. attempts \in 0..RETRIES /\ reloads \in 0..MAX_RELOADS /\ attempts < RETRIES
        BY <2>2, ConnectionsAssumption DEF ConnectionsInit
      <3> QED  BY <2>2, <3>1 DEF ConnectionsInit, RetriesInv
    <2> QED  BY <2>1, <2>2, InitConnectionsInv
  <1>2. Inv /\ [ConnectionsNext]_connectionVars => Inv'
    BY NextConnectionsInv, NextMaps, NextRetriesInv
  <1>3. Inv => ConnectionsTypeOK
    <2>1. ASSUME NEW m, AreApps(m), IsMap(m) PROVE m \in AppMaps
      <3>1. m \in [DOMAIN m -> Apps] /\ DOMAIN m \in SUBSET AppIds
        BY <2>1 DEF AreApps, IsMap
      <3> QED  BY <3>1 DEF AppMaps
    <2> QED  BY <2>1 DEF ConnectionsInv, RetriesInv, ConnectionsTypeOK
  <1> QED  BY <1>1, <1>2, <1>3, PTL DEF ConnectionsSpec

-----------------------------------------------------------------------------
(* All of them together.                                                   *)

\* What is proved of each module holds of their composition.
LEMMA InfraImplements ==
    InfraSpec => /\ Spec /\ VaultSpec /\ StorageSpec /\ MessageSpec /\ RequestsSpec
                 /\ PickerSpec /\ ConnectionsSpec
  <1>1. InfraInit => /\ Init /\ VaultInit /\ StorageInit /\ MessageInit /\ RequestsInit
                     /\ PickerInit /\ ConnectionsInit
    BY DEF InfraInit
  <1>2. [InfraNext]_<<focus, vars, vaultVars, storageVars, messageVars, requestVars,
                      pickerVars, connectionVars>>
          => /\ [Next]_vars /\ [VaultNext]_vaultVars /\ [StorageNext]_storageVars
             /\ [MessageNext]_messageVars /\ [RequestsNext]_requestVars
             /\ [PickerNext]_pickerVars /\ [ConnectionsNext]_connectionVars
    BY DEF InfraNext
  <1> QED
    BY <1>1, <1>2, PTL DEF InfraSpec, Spec, VaultSpec, StorageSpec, MessageSpec, RequestsSpec,
       PickerSpec, ConnectionsSpec

\* All variables of these modules have their types, for any bounds, secrets, keys,
\* origins of the storage, messages, dapps and accounts.
THEOREM InfraTypesCorrect ==
    ASSUME RequestsEnvironment = {}, PickerEnvironment = {}, ConnectionsEnvironment = {}
    PROVE  InfraSpec => []InfraTypeOK
  <1>1. RequestsSpec => []RequestsTypeOK
    BY RequestsTypeCorrect
  <1>2. PickerSpec => []PickerTypeOK
    BY PickerTypeCorrect
  <1>3. ConnectionsSpec => []ConnectionsTypeOK
    BY ConnectionsTypeCorrect
  <1>4. InfraTypeOK <=> /\ TypeOK /\ VaultTypeOK /\ StorageTypeOK /\ MessageTypeOK
                        /\ RequestsTypeOK /\ PickerTypeOK /\ ConnectionsTypeOK
    BY DEF InfraTypeOK
  <1> QED
    BY <1>1, <1>2, <1>3, <1>4, InfraImplements, KeystoreTypeCorrect, VaultTypeCorrect,
       StorageTypeCorrect, MessageTypeCorrect, PTL
=============================================================================
