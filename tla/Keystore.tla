------------------------------- MODULE Keystore -------------------------------
(***************************************************************************)
(* KeystoreController: the private keys and seeds of the wallet, encrypted *)
(* with one main key, which is stored encrypted under each of several      *)
(* secrets (password, biometrics, recovery).                               *)
(*                                                                         *)
(* Handlers are asynchronous: each derives a key with scrypt or encrypts   *)
(* with WebCrypto before it goes on, and others run meanwhile, so a        *)
(* handler is a process with one action per stretch between awaits.  mem   *)
(* is the controller's state, disk the storage.  The storage queue applies *)
(* writes in the order they are issued; a write is applied here when it is *)
(* issued, and a crash that loses the queue's tail is one that comes       *)
(* earlier.                                                                *)
(*                                                                         *)
(* A ciphertext is the number of the main key that opens it and its cipher *)
(* (the legacy CTR or GCM); metadata, labels and error messages are left   *)
(* out, and so are the temporary seed and updateKeyPreferences, which runs *)
(* alone and rewrites labels only.                                         *)
(***************************************************************************)
EXTENDS Integers, FiniteSets

CONSTANTS SecretIds,        \* "password" among them
          Values,           \* what users type and the recovery flow generates
          Keys,             \* internal keys (address and type)
          ExternalKeys,     \* hardware wallet keys, stored without a private key
          Seeds,
          Scenarios         \* what is explored: see Scenario below

ASSUME PasswordAssumption == "password" \in SecretIds
\* The type of a key, internal or not, is part of what names it.
ASSUME KindsAssumption == Keys \cap ExternalKeys = {}

None == 0      \* the main key while locked
Destroyed == -1 \* a ciphertext no main key opens

Ciphers == {"ctr", "gcm"}
SecretEntries == [id : SecretIds, value : Values, cipher : Ciphers, mk : Nat]
KeyRecords == [name : Keys, cipher : Ciphers, mk : Nat \cup {Destroyed}]
                \cup [name : ExternalKeys, cipher : {"none"}, mk : {None}]
SeedRecords == [name : Seeds, cipher : Ciphers, mk : Nat]
Contents == [secrets : SUBSET SecretEntries, keys : SUBSET KeyRecords, seeds : SUBSET SeedRecords]

\* A storage the program starts on, the methods called, and bounds on the
\* calls, the locks and the restarts.
Scenario == [disk : Contents, callable : SUBSET STRING, calls : Nat, locks : Nat, crashes : Nat]
ASSUME ScenariosAssumption == Scenarios \subseteq Scenario

VARIABLES disk, mem,
          mainKey,       \* #mainKey
          generated,     \* main keys generated so far
          ready,         \* isReadyToStoreKeys
          pending,       \* #internal- and #externalKeysToAddOnKeystoreReady
          proc,          \* the handlers in flight
          adding,        \* the #addKeys calls in flight
          scenario,      \* the scenario explored, which no step changes
          calls, locks, crashes  \* so far

counters == <<scenario, calls, locks, crashes>>
vars == <<disk, mem, mainKey, generated, ready, pending, proc, adding, counters>>

Methods == {"unlockWithSecret", "addSecret", "changeKeystorePassword", "addSeed"}

\* A handler between two awaits: where it is, its arguments, and the state it
\* read before and will write later.
Idle == [pc |-> "idle"]
Proc(pc, id, value, next) ==
    [pc |-> pc, id |-> id, value |-> value, next |-> next,
     secrets |-> {}, keys |-> {}, seeds |-> {}, mk |-> None]

Names(S) == {r.name : r \in S}
Entries(id) == {s \in mem.secrets : s.id = id}

Init ==
    /\ scenario \in Scenarios
    /\ disk = scenario.disk
    /\ mem = disk
    /\ mainKey = None
    /\ generated = IF disk.secrets = {} THEN 0 ELSE 1
    /\ ready = (disk.secrets # {})
    /\ pending = [internal |-> {}, external |-> {}]
    /\ proc = [m \in Methods |-> Idle]
    /\ adding = {}
    /\ calls = 0 /\ locks = 0 /\ crashes = 0

-----------------------------------------------------------------------------
(* withStatus: a handler that allows concurrent actions starts unless it    *)
(* runs already, the others only when no wrapped handler runs.              *)

InFlight(m) == proc[m].pc # "idle"
NothingInFlight == (\A m \in Methods : ~InFlight(m)) /\ (\A a \in adding : ~a.wrapped)

Call == calls < scenario.calls /\ calls' = calls + 1 /\ UNCHANGED <<scenario, locks, crashes>>

Become(m, p) == proc' = [proc EXCEPT ![m] = p]
At(m, pc) == proc[m].pc = pc
Fail(m) == Become(m, Idle)

-----------------------------------------------------------------------------
(* #unlockWithSecret                                                        *)

\* The secret entry is looked up before scrypt runs.
BeginUnlock(m, id, value, next) ==
    \E e \in Entries(id) :
        Become(m, [Proc("derive", id, value, next) EXCEPT !.secrets = {e}])

UnlockWithSecret(id, value) ==
    /\ Call
    /\ ~InFlight("unlockWithSecret")
    /\ BeginUnlock("unlockWithSecret", id, value, value)
    /\ UNCHANGED <<disk, mem, mainKey, generated, ready, pending, adding>>

\* The end of #unlockWithSecret, which changeKeystorePassword goes on from.
EndUnlock(m) ==
    IF m = "changeKeystorePassword" THEN Proc("check", "password", proc[m].next, proc[m].next)
                                    ELSE Idle

\* migrateStoredPayloadsToGCM.  CTR is not authenticated: a key record of
\* another main key is rewritten as rubbish, a seed fails the mnemonic check.
MigratedKeys(mk) ==
    {IF r.cipher = "ctr" THEN [r EXCEPT !.cipher = "gcm", !.mk = IF @ = mk THEN mk ELSE Destroyed]
                         ELSE r : r \in mem.keys}
MigratedSeeds(mk) ==
    {IF r.cipher = "ctr" /\ r.mk = mk THEN [r EXCEPT !.cipher = "gcm"] ELSE r : r \in mem.seeds}
HasMigrated(mk) == MigratedKeys(mk) # mem.keys \/ MigratedSeeds(mk) # mem.seeds

\* p, about to re-encrypt the stored payloads with the main key mk.
Migrating(p, mk, pc) ==
    [p EXCEPT !.pc = pc, !.keys = MigratedKeys(mk), !.seeds = MigratedSeeds(mk),
              !.mk = IF HasMigrated(mk) THEN mk ELSE None]

WrongSecret(m) ==
    /\ At(m, "derive")
    /\ \A e \in proc[m].secrets : e.value # proc[m].value
    /\ Fail(m)
    /\ UNCHANGED <<disk, mem, mainKey, generated, ready, pending, adding, counters>>

\* A CTR entry gives the main key, and is re-encrypted with GCM among the
\* secrets of this moment.
OpenWithLegacySecret(m) ==
    /\ At(m, "derive")
    /\ \E e \in proc[m].secrets :
        /\ e.value = proc[m].value /\ e.cipher = "ctr"
        /\ mainKey' = e.mk
        /\ Become(m, [proc[m] EXCEPT !.pc = "migrateSecret",
              !.secrets = {IF s.id = e.id THEN [e EXCEPT !.cipher = "gcm"] ELSE s : s \in mem.secrets}])
    /\ UNCHANGED <<disk, mem, generated, ready, pending, adding, counters>>

\* Mutant: an unlock with a GCM secret does not take up a migration again.
OpenWithoutRetry(m) ==
    /\ At(m, "derive")
    /\ \E e \in proc[m].secrets :
        /\ e.value = proc[m].value /\ e.cipher = "gcm"
        /\ mainKey' = e.mk
        /\ Become(m, EndUnlock(m))
    /\ UNCHANGED <<disk, mem, generated, ready, pending, adding, counters>>

OpenWithSecret(m) ==
    /\ At(m, "derive")
    /\ \E e \in proc[m].secrets :
        /\ e.value = proc[m].value /\ e.cipher = "gcm"
        /\ mainKey' = e.mk
        /\ Become(m, IF HasMigrated(e.mk) THEN Migrating(proc[m], e.mk, "persistKeys")
                                          ELSE EndUnlock(m))
    /\ UNCHANGED <<disk, mem, generated, ready, pending, adding, counters>>

\* The secret is re-encrypted; a lock since then makes the migration throw,
\* which #unlockWithSecret catches.
SecretMigrated(m) ==
    /\ At(m, "migrateSecret")
    /\ Become(m, IF mainKey = None THEN EndUnlock(m) ELSE Migrating(proc[m], mainKey, "persistSecrets"))
    /\ UNCHANGED <<disk, mem, mainKey, generated, ready, pending, adding, counters>>

\* #persistMigratedKeystoreData, one action up to each await: every list is
\* stored first and replaces the one in memory when the write is done.
PersistSecrets(m) ==
    /\ At(m, "persistSecrets")
    /\ disk' = [disk EXCEPT !.secrets = proc[m].secrets]
    /\ Become(m, [proc[m] EXCEPT !.pc = "secretsStored"])
    /\ UNCHANGED <<mem, mainKey, generated, ready, pending, adding, counters>>

PersistKeys(m) ==
    /\ \/ At(m, "persistKeys") /\ UNCHANGED mem
       \/ At(m, "secretsStored") /\ proc[m].mk # None /\ mem' = [mem EXCEPT !.secrets = proc[m].secrets]
    /\ disk' = [disk EXCEPT !.keys = proc[m].keys]
    /\ Become(m, [proc[m] EXCEPT !.pc = "keysStored"])
    /\ UNCHANGED <<mainKey, generated, ready, pending, adding, counters>>

OnlySecretMigrated(m) ==
    /\ At(m, "secretsStored") /\ proc[m].mk = None
    /\ mem' = [mem EXCEPT !.secrets = proc[m].secrets]
    /\ Become(m, EndUnlock(m))
    /\ UNCHANGED <<disk, mainKey, generated, ready, pending, adding, counters>>

PersistSeeds(m) ==
    /\ At(m, "keysStored")
    /\ mem' = [mem EXCEPT !.keys = proc[m].keys]
    /\ disk' = [disk EXCEPT !.seeds = proc[m].seeds]
    /\ Become(m, [proc[m] EXCEPT !.pc = "seedsStored"])
    /\ UNCHANGED <<mainKey, generated, ready, pending, adding, counters>>

SeedsPersisted(m) ==
    /\ At(m, "seedsStored")
    /\ mem' = [mem EXCEPT !.seeds = proc[m].seeds]
    /\ Become(m, EndUnlock(m))
    /\ UNCHANGED <<disk, mainKey, generated, ready, pending, adding, counters>>

UnlockStep(m) ==
    \/ WrongSecret(m) \/ OpenWithLegacySecret(m) \/ OpenWithSecret(m) \/ SecretMigrated(m)
    \/ PersistSecrets(m) \/ PersistKeys(m) \/ OnlySecretMigrated(m)
    \/ PersistSeeds(m) \/ SeedsPersisted(m)

-----------------------------------------------------------------------------
(* #addSecret, #removeSecret and changeKeystorePassword                     *)

\* Mutant: a locked keystore with secrets generates a main key too.
BeginAddSecretLocked(m, id, value, leaveUnlocked) ==
    /\ Entries(id) = {}
    /\ LET mk == IF mainKey # None THEN mainKey ELSE generated + 1 IN
        /\ generated' = IF mainKey # None THEN generated ELSE mk
        /\ mainKey' = IF mainKey = None /\ ~leaveUnlocked THEN None ELSE mk
        /\ Become(m, [Proc("deriveNew", id, value, value) EXCEPT !.mk = mk])

\* The checks before scrypt.  Without secrets, a locked keystore generates a
\* new main key, which stays in memory if leaveUnlocked.
BeginAddSecret(m, id, value, leaveUnlocked) ==
    /\ Entries(id) = {}
    /\ mainKey # None \/ mem.secrets = {}
    /\ LET mk == IF mainKey # None THEN mainKey ELSE generated + 1 IN
        /\ generated' = IF mainKey # None THEN generated ELSE mk
        /\ mainKey' = IF mainKey = None /\ ~leaveUnlocked THEN None ELSE mk
        /\ Become(m, [Proc("deriveNew", id, value, value) EXCEPT !.mk = mk])

AddSecret(id, value, leaveUnlocked) ==
    /\ Call
    /\ ~InFlight("addSecret")
    /\ BeginAddSecret("addSecret", id, value, leaveUnlocked)
    /\ UNCHANGED <<disk, mem, ready, pending, adding>>

\* The secret joins the list as it is after scrypt.
PushSecret(m) ==
    /\ At(m, "deriveNew")
    /\ LET p == proc[m]
           secrets == mem.secrets \cup {[id |-> p.id, value |-> p.value, cipher |-> "gcm", mk |-> p.mk]}
       IN  /\ mem' = [mem EXCEPT !.secrets = secrets]
           /\ disk' = [disk EXCEPT !.secrets = secrets]
           /\ Become(m, [p EXCEPT !.pc = "secretStored"])
    /\ UNCHANGED <<mainKey, generated, ready, pending, adding, counters>>

\* Mutant: an external key is stored with a private key.
ExternalRecordsWithKey(names) ==
    {[name |-> k, cipher |-> "ctr", mk |-> None] : k \in names \ Names(mem.keys)}

\* The records of external keys that are not stored yet.
ExternalRecords(names) ==
    {[name |-> k, cipher |-> "none", mk |-> None] : k \in names \ Names(mem.keys)}

\* isReadyToStoreKeys = true starts to add the keys that waited for it, the
\* internal and the external ones at once; the internal ones take longer.
BecomeReady(m) ==
    /\ At(m, "secretStored")
    /\ ready' = TRUE
    /\ LET external == ExternalRecords(pending.external)
       IN  /\ mem' = [mem EXCEPT !.keys = @ \cup external]
           /\ disk' = IF external = {} THEN disk ELSE [disk EXCEPT !.keys = mem.keys \cup external]
    /\ adding' = IF pending.internal = {} \/ mainKey = None THEN adding
                 ELSE adding \cup {[names |-> pending.internal, keys |-> mem.keys,
                                    mk |-> mainKey, wrapped |-> FALSE]}
    /\ Fail(m)
    /\ UNCHANGED <<mainKey, generated, pending, counters>>

Without(id) == {s \in mem.secrets : s.id # id}

DropSecret(id) ==
    /\ Entries(id) # {}
    /\ mem' = [mem EXCEPT !.secrets = Without(id)]
    /\ disk' = [disk EXCEPT !.secrets = Without(id)]

RemoveSecret(id) ==
    /\ Call
    /\ NothingInFlight
    /\ DropSecret(id)
    /\ UNCHANGED <<mainKey, generated, ready, pending, proc, adding>>

\* With the old password it is verified by a full unlock; without it (after a
\* recovery) the keystore only has to be unlocked.
ChangeKeystorePassword(old, new) ==
    /\ Call
    /\ NothingInFlight
    /\ \/ BeginUnlock("changeKeystorePassword", "password", old, new)
       \/ Become("changeKeystorePassword", Proc("check", "password", new, new))
    /\ UNCHANGED <<disk, mem, mainKey, generated, ready, pending, adding>>

RemoveOldPassword ==
    LET m == "changeKeystorePassword" IN
    /\ At(m, "check")
    /\ \/ mainKey # None /\ DropSecret("password") /\ Become(m, [proc[m] EXCEPT !.pc = "removed"])
       \/ (mainKey = None \/ Entries("password") = {}) /\ Fail(m) /\ UNCHANGED <<disk, mem>>
    /\ UNCHANGED <<mainKey, generated, ready, pending, adding, counters>>

AddNewPassword ==
    LET m == "changeKeystorePassword" IN
    /\ At(m, "removed")
    /\ \/ BeginAddSecret(m, "password", proc[m].value, TRUE)
       \/ /\ Entries("password") # {} \/ (mainKey = None /\ mem.secrets # {})
          /\ Fail(m) /\ UNCHANGED <<mainKey, generated>>
    /\ UNCHANGED <<disk, mem, ready, pending, adding, counters>>

-----------------------------------------------------------------------------
(* Keys and seeds                                                           *)

StoreKeys(keys) ==
    /\ mem' = [mem EXCEPT !.keys = keys]
    /\ disk' = [disk EXCEPT !.keys = keys]

StoreSeeds(seeds) ==
    /\ mem' = [mem EXCEPT !.seeds = seeds]
    /\ disk' = [disk EXCEPT !.seeds = seeds]

\* Mutant: the guard against a second addKeys is missing.
AddKeysUnguarded(names) ==
    /\ Call
    /\ \/ /\ ~ready
          /\ pending' = [pending EXCEPT !.internal = @ \cup names]
          /\ UNCHANGED adding
       \/ /\ ready /\ mainKey # None
          /\ adding' = adding \cup {[names |-> names, keys |-> mem.keys,
                                     mk |-> mainKey, wrapped |-> TRUE]}
          /\ UNCHANGED pending
    /\ UNCHANGED <<disk, mem, mainKey, generated, ready, proc>>

\* Mutant: keys do not wait for the first secret.
AddKeysUnready(names) ==
    /\ Call
    /\ \A a \in adding : ~a.wrapped
    /\ mainKey # None
    /\ adding' = adding \cup {[names |-> names, keys |-> mem.keys,
                               mk |-> mainKey, wrapped |-> TRUE]}
    /\ UNCHANGED <<disk, mem, mainKey, generated, ready, pending, proc>>

\* #addKeys reads the list of keys before it encrypts the new ones.
AddKeys(names) ==
    /\ Call
    /\ \A a \in adding : ~a.wrapped
    /\ \/ /\ ~ready
          /\ pending' = [pending EXCEPT !.internal = @ \cup names]
          /\ UNCHANGED adding
       \/ /\ ready /\ mainKey # None
          /\ adding' = adding \cup {[names |-> names, keys |-> mem.keys,
                                     mk |-> mainKey, wrapped |-> TRUE]}
          /\ UNCHANGED pending
    /\ UNCHANGED <<disk, mem, mainKey, generated, ready, proc>>

KeysEncrypted(a) ==
    /\ adding' = adding \ {a}
    /\ LET new == {[name |-> k, cipher |-> "gcm", mk |-> a.mk] : k \in a.names \ Names(a.keys)}
       IN  IF new = {} THEN UNCHANGED <<disk, mem>> ELSE StoreKeys(a.keys \cup new)
    /\ UNCHANGED <<mainKey, generated, ready, pending, proc, counters>>

AddKeysExternallyStored(names) ==
    /\ Call
    /\ \/ /\ ~ready
          /\ pending' = [pending EXCEPT !.external = @ \cup names]
          /\ UNCHANGED <<disk, mem>>
       \/ /\ ready
          /\ ~ names \subseteq Names(mem.keys)
          /\ StoreKeys(mem.keys \cup ExternalRecords(names))
          /\ UNCHANGED pending
    /\ UNCHANGED <<mainKey, generated, ready, proc, adding>>

RemoveKey(k) ==
    /\ Call
    /\ mainKey # None
    /\ k \in Names(mem.keys)
    /\ StoreKeys({r \in mem.keys : r.name # k})
    /\ UNCHANGED <<mainKey, generated, ready, pending, proc, adding>>

\* updateKeystoreKeys reads the list of keys from the storage again.
UpdateKeystoreKeys ==
    /\ Call
    /\ disk.keys # mem.keys
    /\ mem' = [mem EXCEPT !.keys = disk.keys]
    /\ UNCHANGED <<disk, mainKey, generated, ready, pending, proc, adding>>

\* #addSeed compares with the stored seeds, which takes decryptions, encrypts
\* with the main key it finds after that, and adds to the list as it is then.
AddSeed(s) ==
    /\ Call
    /\ ~InFlight("addSeed")
    /\ mainKey # None
    /\ s \notin Names(mem.seeds)
    /\ Become("addSeed", [pc |-> "compare", seed |-> s, mk |-> None])
    /\ UNCHANGED <<disk, mem, mainKey, generated, ready, pending, adding>>

SeedCompared ==
    /\ At("addSeed", "compare")
    /\ Become("addSeed", IF mainKey = None THEN Idle
                         ELSE [proc["addSeed"] EXCEPT !.pc = "encrypt", !.mk = mainKey])
    /\ UNCHANGED <<disk, mem, mainKey, generated, ready, pending, adding, counters>>

SeedEncrypted ==
    /\ At("addSeed", "encrypt")
    /\ LET p == proc["addSeed"]
       IN  StoreSeeds(mem.seeds \cup {[name |-> p.seed, cipher |-> "gcm", mk |-> p.mk]})
    /\ Fail("addSeed")
    /\ UNCHANGED <<mainKey, generated, ready, pending, adding, counters>>

UpdateSeed ==
    /\ Call
    /\ disk.seeds # mem.seeds
    /\ StoreSeeds(mem.seeds)
    /\ UNCHANGED <<mainKey, generated, ready, pending, proc, adding>>

DeleteSeed(s) ==
    /\ Call
    /\ NothingInFlight
    /\ s \in Names(mem.seeds)
    /\ StoreSeeds({r \in mem.seeds : r.name # s})
    /\ UNCHANGED <<mainKey, generated, ready, pending, proc, adding>>

-----------------------------------------------------------------------------
Lock ==
    /\ locks < scenario.locks /\ locks' = locks + 1
    /\ mainKey # None
    /\ mainKey' = None
    /\ UNCHANGED <<disk, mem, generated, ready, pending, proc, adding, scenario, calls, crashes>>

\* The browser ends the background worker at any time; #load follows.
Crash ==
    /\ crashes < scenario.crashes /\ crashes' = crashes + 1
    /\ mem' = disk
    /\ mainKey' = None
    /\ ready' = (disk.secrets # {})
    /\ pending' = [internal |-> {}, external |-> {}]
    /\ proc' = [m \in Methods |-> Idle]
    /\ adding' = {}
    /\ UNCHANGED <<disk, generated, scenario, calls, locks>>

HandlerStep ==
    \/ \E m \in {"unlockWithSecret", "changeKeystorePassword"} : UnlockStep(m)
    \/ \E m \in {"addSecret", "changeKeystorePassword"} : PushSecret(m) \/ BecomeReady(m)
    \/ RemoveOldPassword \/ AddNewPassword
    \/ \E a \in adding : KeysEncrypted(a)
    \/ SeedCompared \/ SeedEncrypted

\* The callers remove a secret only while another one is stored: the recovery
\* removes the password it replaces, the clean-up of the email vault its own.
SecretCalls ==
    \/ \E id \in SecretIds, v \in Values :
          \/ "unlockWithSecret" \in scenario.callable /\ UnlockWithSecret(id, v)
          \/ "addSecret" \in scenario.callable /\ \E leave \in BOOLEAN : AddSecret(id, v, leave)
    \/ \E id \in SecretIds :
          "removeSecret" \in scenario.callable /\ Without(id) # {} /\ RemoveSecret(id)
    \/ \E old, new \in Values :
          "changeKeystorePassword" \in scenario.callable /\ ChangeKeystorePassword(old, new)

PayloadCalls ==
    \/ \E names \in (SUBSET Keys) \ {{}} : "addKeys" \in scenario.callable /\ AddKeys(names)
    \/ \E names \in (SUBSET ExternalKeys) \ {{}} :
          "addKeysExternallyStored" \in scenario.callable /\ AddKeysExternallyStored(names)
    \/ \E k \in Keys \cup ExternalKeys : "removeKey" \in scenario.callable /\ RemoveKey(k)
    \/ "updateKeystoreKeys" \in scenario.callable /\ UpdateKeystoreKeys
    \/ \E s \in Seeds : \/ "addSeed" \in scenario.callable /\ AddSeed(s)
                        \/ "deleteSeed" \in scenario.callable /\ DeleteSeed(s)
    \/ "updateSeed" \in scenario.callable /\ UpdateSeed

Next == HandlerStep \/ SecretCalls \/ PayloadCalls \/ Lock \/ Crash

Spec == Init /\ [][Next]_vars

\* Every scrypt derivation and every encryption ends.
FairSpec == Spec /\ WF_vars(HandlerStep)

-----------------------------------------------------------------------------
(* Properties                                                               *)

Steps == {"derive", "migrateSecret", "persistSecrets", "persistKeys", "secretsStored",
          "keysStored", "seedsStored", "check", "removed", "deriveNew", "secretStored"}
HandlerState ==
    [pc : Steps, id : SecretIds, value : Values, next : Values, secrets : SUBSET SecretEntries,
     keys : SUBSET KeyRecords, seeds : SUBSET SeedRecords, mk : Nat]
SeedState == [pc : {"compare", "encrypt"}, seed : Seeds, mk : Nat]
AddingState == [names : SUBSET Keys, keys : SUBSET KeyRecords, mk : Nat, wrapped : BOOLEAN]

\* Every variable has its type: the lists hold only entries of their kind.
TypeOK ==
    /\ disk \in Contents /\ mem \in Contents
    /\ mainKey \in Nat /\ generated \in Nat
    /\ ready \in BOOLEAN
    /\ pending \in [internal : SUBSET Keys, external : SUBSET ExternalKeys]
    /\ proc \in [Methods -> {Idle} \cup HandlerState \cup SeedState]
    /\ \A m \in Methods \ {"addSeed"} : proc[m] \in {Idle} \cup HandlerState
    /\ proc["addSeed"] \in {Idle} \cup SeedState
    /\ adding \in SUBSET AddingState
    /\ scenario \in Scenarios
    /\ calls \in Nat /\ locks \in Nat /\ crashes \in Nat

Ciphertexts(contents) ==
    {r \in contents.keys \cup contents.seeds : r.cipher # "none"}
Openers(contents) == {s.mk : s \in contents.secrets}

\* What is stored can be recovered after a restart: every encrypted key and
\* seed in the storage opens with a main key that a stored secret opens.
KeysRecoverable == \A r \in Ciphertexts(disk) : r.mk \in Openers(disk)

\* There is one main key: the key in memory, the one behind every secret and
\* the one behind every key and seed are the same.
OneMainKey ==
    LET used == Openers(mem) \cup Openers(disk) \cup (IF mainKey = None THEN {} ELSE {mainKey})
                  \cup {r.mk : r \in Ciphertexts(mem) \cup Ciphertexts(disk)}
    IN  \A a, b \in used : a = b

\* An unlock that is over has left no payload in the legacy, unauthenticated
\* cipher, whatever interrupted the migrations before it.
MigrationComplete ==
    mainKey # None /\ (\A m \in Methods : ~InFlight(m))
        => \A r \in Ciphertexts(mem) : r.cipher = "gcm"

\* A keystore that locks, or is started again, can be opened with a secret.
RecoverableWhenLocked == mainKey = None => KeysRecoverable

\* Between password changes what is stored can be recovered.
ChangingPassword == proc["changeKeystorePassword"].pc \in {"removed", "deriveNew"}
RecoverableBetweenChanges == ChangingPassword \/ KeysRecoverable

\* The same of internal keys, unless keys had to wait for the first secret:
\* withStatus alone keeps two #addKeys from overwriting one another.
InternalKeysStay ==
    [][pending.internal = {} =>
        \A k \in (Names(disk.keys) \ Names(disk'.keys)) \cap Keys : RemoveKey(k)]_vars
=============================================================================
