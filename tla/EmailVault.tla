------------------------------ MODULE EmailVault ------------------------------
(***************************************************************************)
(* EmailVaultController: a second secret that opens the keystore is kept   *)
(* by a remote vault, behind an email address, to set a new password when  *)
(* the old one is forgotten.                                               *)
(*                                                                         *)
(* Every handler is guarded by withStatus, so one runs at a time.  It may  *)
(* wait minutes for the user to confirm the email, and it calls handlers   *)
(* of the keystore, which report their errors and return as if they had    *)
(* done what they were asked for.                                          *)
(*                                                                         *)
(* One email address and one keystore, that has a password.  The keystore  *)
(* is here its secrets and its lock; module Keystore has its handlers.     *)
(* Left out: syncing keys between devices, and banners.                    *)
(***************************************************************************)
EXTENDS Naturals

CONSTANT MAX_UPLOADS \* bound on the recovery secrets that are generated
ASSUME UploadsAssumption == MAX_UPLOADS \in Nat \ {0}

VARIABLES secrets,   \* keystoreSecrets: the value and main key of each
          openedBy,  \* the main key in memory
          vault,     \* the recovery secret the vault has, 0 for none
          uploads,   \* recovery secrets generated
          known,     \* emailVaultStates, as of the last answer
          magicKey,  \* a confirmed magic link key that did not expire
          session,   \* a session key
          stop,      \* #shouldStopConfirmationPolling
          flags,     \* the #is... flags that are set: "waiting", "uploading", "removing"
          task,       \* the handler that runs
          cancelled  \* the user cancelled it while it waited for the email

keystoreVars == <<secrets, openedBy>>
emailVars == <<known, magicKey, session, stop, flags>>
vaultVars == <<keystoreVars, emailVars, vault, uploads, task, cancelled>>

Ids == {"password", "recovery"}
Kinds == {"info", "upload", "remove", "recover"}
NoTask == [kind |-> "none", pc |-> "idle"]
Pcs == {"info", "infoEmail", "email", "ready", "local", "remote", "read", "unlock",
        "drop", "add", "lastInfo", "lastEmail"}
NoSecret == [value |-> 0, mk |-> 0]

\* The main key the stored keys are encrypted with, and any later one.
TheirMainKey == 1
OtherMainKey == 2

VaultTypeOK ==
    /\ secrets \in [Ids -> [value : 0..MAX_UPLOADS + 1, mk : 0..OtherMainKey]]
    /\ openedBy \in 0..OtherMainKey
    /\ vault \in 0..uploads /\ uploads \in 0..MAX_UPLOADS
    /\ known \in {"unknown", "disabled", "enabled"}
    /\ magicKey \in BOOLEAN /\ session \in BOOLEAN /\ stop \in BOOLEAN
    /\ flags \subseteq {"waiting", "uploading", "removing"}
    /\ task \in [kind : Kinds, pc : Pcs] \cup {NoTask}
    /\ cancelled \in BOOLEAN /\ (cancelled => task # NoTask)

\* The user's password, whatever it is, has the value one.
VaultInit ==
    /\ secrets = [password |-> [value |-> 1, mk |-> TheirMainKey], recovery |-> NoSecret]
    /\ openedBy = TheirMainKey /\ vault = 0 /\ uploads = 0
    /\ known = "unknown" /\ magicKey = FALSE /\ session = FALSE
    /\ stop = FALSE /\ flags = {} /\ task = NoTask /\ cancelled = FALSE

-----------------------------------------------------------------------------
(* The keystore: what its handlers do when they are not refused.           *)

\* addSecret with leaveUnlocked = FALSE; the first secret of a keystore gets a
\* new main key.
AddVaultSecret(id, value) ==
    LET first == \A i \in Ids : secrets[i] = NoSecret
        added == secrets[id] = NoSecret /\ (openedBy # 0 \/ first)
        mk == IF openedBy # 0 THEN openedBy ELSE OtherMainKey
    IN /\ secrets' = IF added THEN [secrets EXCEPT ![id] = [value |-> value, mk |-> mk]]
                     ELSE secrets
       /\ UNCHANGED openedBy

RemoveVaultSecret(id) ==
    /\ secrets' = [secrets EXCEPT ![id] = NoSecret]
    /\ UNCHANGED openedBy

\* unlockWithSecret
OpenKeystore(id, value) ==
    /\ openedBy' = IF value # 0 /\ secrets[id].value = value THEN secrets[id].mk ELSE openedBy
    /\ UNCHANGED secrets

-----------------------------------------------------------------------------
(* Steps of the handlers.                                                  *)

GoOn(pc) == task' = [task EXCEPT !.pc = pc] /\ UNCHANGED cancelled
EndTask(left) == task' = NoTask /\ cancelled' = FALSE /\ flags' = left

\* The handler throws: the removal resets its flag in a finally, the upload
\* leaves it set.
ThrowTask == EndTask(flags \ {"removing"})

\* withStatus lets one handler run; an upload or a removal asks for the
\* vault first when nothing is known of it. The screens that start these two
\* are behind the lock.
CallVault(kind) ==
    /\ task = NoTask /\ UNCHANGED cancelled
    /\ kind = "recover" => known = "enabled" /\ magicKey
    /\ kind \in {"upload", "remove"} => openedBy # 0
    /\ task' = [kind |-> kind,
               pc |-> IF kind = "recover" THEN "read"
                      ELSE IF kind = "info" \/ known = "unknown" THEN "info" ELSE "ready"]
    /\ UNCHANGED <<keystoreVars, emailVars, vault, uploads>>

\* #getEmailVaultInfo returned to the handler.
AfterInfo ==
    IF task.kind # "info" /\ task.pc \in {"info", "infoEmail"}
    THEN GoOn("ready") /\ flags' = flags \ {"waiting"}
    ELSE EndTask({})

\* #getEmailVaultInfo with a key: the relayer answers, or not, or it answers
\* and then gives no session key.
InfoAnswers(answer) ==
    /\ task.pc \in {"info", "lastInfo"} /\ (session \/ magicKey)
    /\ \/ answer = "ok" /\ AfterInfo
          /\ known' = (IF vault # 0 THEN "enabled" ELSE "disabled") /\ session' = TRUE
       \/ answer = "fails" /\ AfterInfo /\ UNCHANGED <<known, session>>
       \/ answer = "noSession" /\ ~session /\ ThrowTask /\ UNCHANGED session
          /\ known' = (IF vault # 0 THEN "enabled" ELSE "disabled")
    /\ UNCHANGED <<keystoreVars, magicKey, stop, vault, uploads>>

\* handleMagicLinkKey begins to wait for the user's email.
AwaitEmail(pc) == GoOn(pc) /\ stop' = FALSE /\ flags' = flags \cup {"waiting"}

InfoNeedsEmail ==
    /\ task.pc \in {"info", "lastInfo"} /\ ~session /\ ~magicKey
    /\ AwaitEmail(IF task.pc = "info" THEN "infoEmail" ELSE "lastEmail")
    /\ UNCHANGED <<keystoreVars, known, magicKey, session, vault, uploads>>

\* The handler has a magic link key.
Proceed ==
    \/ task.kind = "upload" /\ GoOn("local") /\ flags' = (flags \ {"waiting"}) \cup {"uploading"}
    \/ task.kind = "remove" /\ GoOn("remote") /\ flags' = (flags \ {"waiting"}) \cup {"removing"}

\* A confirmation that was cancelled, or gave up, is not asked for again.
VaultReady ==
    /\ task.pc = "ready"
    /\ \/ magicKey /\ ~(task.kind = "upload" /\ stop) /\ Proceed /\ UNCHANGED stop
       \/ ~magicKey /\ ~stop /\ AwaitEmail("email")
       \/ stop /\ (~magicKey \/ task.kind = "upload")
          /\ EndTask(flags \ {"uploading"}) /\ UNCHANGED stop
    /\ UNCHANGED <<keystoreVars, known, magicKey, session, vault, uploads>>

AwaitsEmail == task.pc \in {"infoEmail", "email", "lastEmail"}

\* Mutant: an answer that was under way when the user cancelled counts.
AnswerCountsAlways == TRUE

\* Whether handleMagicLinkKey takes the answer of its polling.
AnswerCounts == ~stop

\* The user opened the link, and the poll sees it.
EmailConfirmed ==
    /\ AwaitsEmail /\ AnswerCounts
    /\ magicKey' = TRUE /\ session' \in {session, TRUE}
    /\ IF task.pc = "email" THEN Proceed
       ELSE /\ GoOn(IF task.pc = "infoEmail" THEN "info" ELSE "lastInfo")
            /\ flags' = flags \ {"waiting"}
    /\ UNCHANGED <<keystoreVars, known, stop, vault, uploads>>

\* The poll is answered that the email is not confirmed yet, also when the
\* user cancelled since it was sent.
PollAnswered ==
    /\ AwaitsEmail /\ flags' = flags \cup {"waiting"}
    /\ UNCHANGED <<keystoreVars, known, magicKey, session, stop, vault, uploads, task, cancelled>>

\* The polling ends without the key: it was stopped, it failed, or it took
\* three minutes, which counts as a cancellation.
EmailNotConfirmed ==
    /\ AwaitsEmail
    /\ stop' \in {stop, TRUE}
    /\ IF task.pc = "email" THEN EndTask({}) ELSE AfterInfo
    /\ UNCHANGED <<keystoreVars, known, magicKey, session, vault, uploads>>

\* cancelEmailConfirmation
CancelEmail ==
    /\ "waiting" \in flags
    /\ stop' = TRUE /\ flags' = flags \ {"waiting"} /\ cancelled' = (task # NoTask)
    /\ UNCHANGED <<keystoreVars, known, magicKey, session, vault, uploads, task>>

-----------------------------------------------------------------------------
(* #uploadKeyStoreSecret, #removeKeyStoreSecret and #recoverKeyStore.      *)

AddRecoverySecret ==
    /\ task.kind = "upload" /\ task.pc = "local" /\ uploads < MAX_UPLOADS
    /\ uploads' = uploads + 1 /\ AddVaultSecret("recovery", uploads')
    /\ GoOn("remote")
    /\ UNCHANGED <<emailVars, vault>>

\* A relayer that fails may have stored the secret.
UploadAnswered(answer) ==
    /\ task.kind = "upload" /\ task.pc = "remote"
    /\ vault' \in IF answer = "ok" THEN {uploads} ELSE {vault, uploads}
    /\ IF answer = "ok" THEN GoOn("lastInfo") /\ UNCHANGED flags ELSE ThrowTask
    /\ UNCHANGED <<keystoreVars, known, magicKey, session, stop, uploads>>

RemovalAnswered(answer) ==
    /\ task.kind = "remove" /\ task.pc = "remote"
    /\ vault' \in IF answer = "ok" THEN {0} ELSE {vault, 0}
    /\ IF answer = "ok" THEN GoOn("local") /\ UNCHANGED flags ELSE ThrowTask
    /\ UNCHANGED <<keystoreVars, known, magicKey, session, stop, uploads>>

DropRecoverySecret ==
    /\ task.kind = "remove" /\ task.pc = "local"
    /\ RemoveVaultSecret("recovery") /\ GoOn("lastInfo")
    /\ UNCHANGED <<emailVars, vault, uploads>>

\* The vault gives its secret, or the handler returns.
RecoverySecretRead(answer) ==
    /\ task.pc = "read"
    /\ IF answer = "ok" /\ vault # 0 THEN GoOn("unlock") /\ UNCHANGED flags
       ELSE EndTask(flags)
    /\ UNCHANGED <<keystoreVars, known, magicKey, session, stop, vault, uploads>>

UnlockWithRecovery ==
    /\ task.pc = "unlock" /\ OpenKeystore("recovery", vault) /\ GoOn("drop")
    /\ UNCHANGED <<emailVars, vault, uploads>>

DropPassword ==
    /\ task.pc = "drop" /\ RemoveVaultSecret("password") /\ GoOn("add")
    /\ UNCHANGED <<emailVars, vault, uploads>>

AddPassword ==
    /\ task.pc = "add" /\ AddVaultSecret("password", 1) /\ EndTask(flags)
    /\ UNCHANGED <<known, magicKey, session, stop, vault, uploads>>

-----------------------------------------------------------------------------
(* Around the handlers.                                                    *)

UnlockWithPassword ==
    /\ OpenKeystore("password", 1)
    /\ UNCHANGED <<emailVars, vault, uploads, task, cancelled>>

\* MainController.lock cleans the magic link and session keys too.
LockWallet ==
    /\ openedBy' = 0 /\ magicKey' = FALSE /\ session' = FALSE
    /\ UNCHANGED <<secrets, known, stop, flags, vault, uploads, task, cancelled>>

MagicKeyExpires ==
    /\ magicKey' = FALSE
    /\ UNCHANGED <<keystoreVars, known, session, stop, flags, vault, uploads, task, cancelled>>

\* Secrets, magic link keys and what is known of the vault are stored.
RestartVault ==
    /\ openedBy' = 0 /\ session' = FALSE /\ stop' = FALSE
    /\ EndTask({})
    /\ UNCHANGED <<secrets, known, magicKey, vault, uploads>>

VaultNext ==
    \/ \E kind \in Kinds : CallVault(kind)
    \/ \E answer \in {"ok", "fails", "noSession"} : InfoAnswers(answer)
    \/ InfoNeedsEmail \/ VaultReady \/ EmailConfirmed \/ PollAnswered
    \/ EmailNotConfirmed \/ CancelEmail
    \/ AddRecoverySecret \/ DropRecoverySecret
    \/ \E answer \in {"ok", "fails"} :
         UploadAnswered(answer) \/ RemovalAnswered(answer) \/ RecoverySecretRead(answer)
    \/ UnlockWithRecovery \/ DropPassword \/ AddPassword
    \/ UnlockWithPassword \/ LockWallet \/ MagicKeyExpires \/ RestartVault

VaultSpec == VaultInit /\ [][VaultNext]_vaultVars

-----------------------------------------------------------------------------
\* A handler whose confirmation the user cancelled changes neither the
\* keystore's secrets nor the vault, also when the link is opened at that
\* moment (handleMagicLinkKey, #uploadKeyStoreSecret, #removeKeyStoreSecret).
CancelledStoresNothing == [][cancelled => UNCHANGED <<secrets, vault>>]_vaultVars

\* Some secret that the user can give opens the main key of the stored keys:
\* the password, or the vault's secret. "Once we are here - it means we pass
\* all the above validations, and we are ready to change the keystore password
\* secret" (#recoverKeyStore).
KeystoreReachable ==
    \/ secrets["password"].mk = TheirMainKey
    \/ secrets["recovery"].mk = TheirMainKey /\ secrets["recovery"].value = vault
=============================================================================
