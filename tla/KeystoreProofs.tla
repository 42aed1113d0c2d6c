---------------------------- MODULE KeystoreProofs ----------------------------
(***************************************************************************)
(* What is proved of Keystore, for any secrets, keys and seeds, any storage *)
(* the program starts on, and any bounds: the types; that there is one main *)
(* key; that what is stored stays readable; that a migration completes; and *)
(* that no internal key is lost.                                            *)
(***************************************************************************)
EXTENDS Keystore, TLAPS

Procs == {Idle} \cup HandlerState
Unlockers == {"unlockWithSecret", "changeKeystorePassword"}
Adders == {"addSecret", "changeKeystorePassword"}
Handlers == Methods \ {"addSeed"}

\* The secrets after the entry e was encrypted again, as OpenWithLegacySecret has them.
Reencrypted(e) == {IF s.id = e.id THEN [e EXCEPT !.cipher = "gcm"] ELSE s : s \in mem.secrets}

ProcTyped ==
    /\ proc \in [Methods -> {Idle} \cup HandlerState \cup SeedState]
    /\ \A m \in Handlers : proc[m] \in Procs
    /\ proc["addSeed"] \in {Idle} \cup SeedState

-----------------------------------------------------------------------------
(* Types.                                                                  *)

LEMMA HandlerNames ==
    /\ Unlockers \subseteq Handlers /\ Adders \subseteq Handlers /\ Handlers \subseteq Methods
    /\ "addSeed" \in Methods /\ "addSeed" \notin Handlers
    /\ {"unlockWithSecret", "addSecret", "changeKeystorePassword"} \subseteq Handlers
  BY DEF Unlockers, Adders, Handlers, Methods

LEMMA BecomeTyped ==
    ASSUME TypeOK, NEW m \in Handlers, NEW p \in Procs, Become(m, p)
    PROVE  ProcTyped'
  BY DEF TypeOK, ProcTyped, Become, Procs, Handlers, Methods

LEMMA InFlightTyped ==
    ASSUME TypeOK, NEW m \in Handlers, NEW pc, At(m, pc), pc # "idle"
    PROVE  proc[m] \in HandlerState
  BY DEF TypeOK, At, Idle, Handlers

LEMMA IdleTyped == Idle \in Procs
  BY DEF Procs

LEMMA NewProcTyped ==
    ASSUME NEW pc \in Steps, NEW id \in SecretIds, NEW value \in Values, NEW next \in Values,
           NEW secrets \in SUBSET SecretEntries, NEW mk \in Nat
    PROVE  /\ Proc(pc, id, value, next) \in HandlerState
           /\ [Proc(pc, id, value, next) EXCEPT !.secrets = secrets] \in HandlerState
           /\ [Proc(pc, id, value, next) EXCEPT !.mk = mk] \in HandlerState
  BY DEF Proc, HandlerState, None

\* A handler of any step but those of a seed keeps the rest of its state.
LEMMA NextProcTyped ==
    ASSUME NEW p \in HandlerState, NEW pc \in Steps, NEW secrets \in SUBSET SecretEntries
    PROVE  /\ [p EXCEPT !.pc = pc] \in HandlerState
           /\ [p EXCEPT !.pc = pc, !.secrets = secrets] \in HandlerState
  BY DEF HandlerState

LEMMA EndUnlockTyped ==
    ASSUME NEW m \in Handlers, proc[m] \in HandlerState, PasswordAssumption
    PROVE  EndUnlock(m) \in Procs
  <1>1. proc[m].next \in Values /\ "check" \in Steps /\ "password" \in SecretIds
    BY PasswordAssumption DEF HandlerState, Steps
  <1> QED  BY <1>1, NewProcTyped, IdleTyped DEF EndUnlock, Procs, Proc, HandlerState, None

LEMMA MigratedTyped ==
    ASSUME TypeOK, NEW mk \in Nat
    PROVE  MigratedKeys(mk) \in SUBSET KeyRecords /\ MigratedSeeds(mk) \in SUBSET SeedRecords
  <1>1. mem.keys \in SUBSET KeyRecords /\ mem.seeds \in SUBSET SeedRecords
    BY DEF TypeOK, Contents
  <1>2. ASSUME NEW r \in mem.keys
        PROVE  (IF r.cipher = "ctr"
                THEN [r EXCEPT !.cipher = "gcm",
                    !.mk = IF @ = mk THEN mk ELSE Destroyed] ELSE r)
                  \in KeyRecords
    BY <1>1, <1>2 DEF KeyRecords, Ciphers
  <1>3. ASSUME NEW r \in mem.seeds
        PROVE  (IF r.cipher = "ctr" /\ r.mk = mk THEN [r EXCEPT !.cipher = "gcm"] ELSE r)
                  \in SeedRecords
    BY <1>1, <1>3 DEF SeedRecords, Ciphers
  <1> QED  BY <1>2, <1>3 DEF MigratedKeys, MigratedSeeds

LEMMA MigratingTyped ==
    ASSUME TypeOK, NEW p \in HandlerState, NEW mk \in Nat, NEW pc \in Steps
    PROVE  Migrating(p, mk, pc) \in HandlerState
  BY MigratedTyped DEF Migrating, HandlerState, None

\* The contents after one list of them was replaced.
LEMMA ContentsTyped ==
    ASSUME NEW c \in Contents
    PROVE  /\ \A secrets \in SUBSET SecretEntries : [c EXCEPT !.secrets = secrets] \in Contents
           /\ \A keys \in SUBSET KeyRecords : [c EXCEPT !.keys = keys] \in Contents
           /\ \A seeds \in SUBSET SeedRecords : [c EXCEPT !.seeds = seeds] \in Contents
  BY DEF Contents

\* What is left to show of a step that neither calls, locks nor crashes.
LEMMA StepTyped ==
    ASSUME TypeOK, disk' \in Contents, mem' \in Contents, mainKey' \in Nat, generated' \in Nat,
           ready' \in BOOLEAN, UNCHANGED pending, ProcTyped', adding' \in SUBSET AddingState,
           UNCHANGED counters
    PROVE  TypeOK'
  BY DEF TypeOK, ProcTyped, counters, Handlers, Procs

LEMMA UnlockStepTyped ==
    ASSUME TypeOK, NEW m \in Unlockers, UnlockStep(m)
    PROVE  TypeOK'
  <1> USE HandlerNames
  <1>0. /\ disk \in Contents /\ mem \in Contents /\ mainKey \in Nat /\ generated \in Nat
        /\ ready \in BOOLEAN /\ adding \in SUBSET AddingState
    BY DEF TypeOK
  <1>1. ASSUME WrongSecret(m) PROVE TypeOK'
    BY <1>0, <1>1, IdleTyped, BecomeTyped, StepTyped DEF WrongSecret, Fail
  <1>2. ASSUME OpenWithLegacySecret(m) PROVE TypeOK'
    <2>1. proc[m] \in HandlerState
      BY <1>2, InFlightTyped DEF OpenWithLegacySecret
    <2>2. PICK e \in proc[m].secrets :
            /\ mainKey' = e.mk
            /\ Become(m, [proc[m] EXCEPT !.pc = "migrateSecret", !.secrets = Reencrypted(e)])
      BY <1>2 DEF OpenWithLegacySecret, Reencrypted
    <2>3. e \in SecretEntries
      BY <2>1 DEF HandlerState
    <2>4. [e EXCEPT !.cipher = "gcm"] \in SecretEntries /\ e.mk \in Nat
      BY <2>3 DEF SecretEntries, Ciphers
    <2>5. Reencrypted(e) \in SUBSET SecretEntries
      BY <1>0, <2>4 DEF Contents, Reencrypted
    <2>6. [proc[m] EXCEPT !.pc = "migrateSecret", !.secrets = Reencrypted(e)] \in Procs
      BY <2>1, <2>5, NextProcTyped DEF Procs, Steps
    <2>7. ProcTyped'
      BY <2>2, <2>6, BecomeTyped
    <2> QED  BY <1>0, <1>2, <2>2, <2>4, <2>7, StepTyped DEF OpenWithLegacySecret
  <1>3. ASSUME OpenWithSecret(m) PROVE TypeOK'
    <2>1. proc[m] \in HandlerState
      BY <1>3, InFlightTyped DEF OpenWithSecret
    <2>2. PICK e \in proc[m].secrets :
            /\ mainKey' = e.mk
            /\ Become(m, IF HasMigrated(e.mk) THEN Migrating(proc[m], e.mk, "persistKeys")
                                              ELSE EndUnlock(m))
      BY <1>3 DEF OpenWithSecret
    <2>3. e.mk \in Nat
      BY <2>1 DEF HandlerState, SecretEntries
    <2>4. Migrating(proc[m], e.mk, "persistKeys") \in Procs /\ EndUnlock(m) \in Procs
      BY <2>1, <2>3, MigratingTyped, EndUnlockTyped, PasswordAssumption DEF Procs, Steps
    <2>5. ProcTyped'
      BY <2>2, <2>4, BecomeTyped
    <2> QED  BY <1>0, <1>3, <2>2, <2>3, <2>5, StepTyped DEF OpenWithSecret
  <1>4. ASSUME SecretMigrated(m) PROVE TypeOK'
    <2>1. proc[m] \in HandlerState
      BY <1>4, InFlightTyped DEF SecretMigrated
    <2>2. Migrating(proc[m], mainKey, "persistSecrets") \in Procs /\ EndUnlock(m) \in Procs
      BY <1>0, <2>1, MigratingTyped, EndUnlockTyped, PasswordAssumption DEF Procs, Steps
    <2>3. ProcTyped'
      BY <1>4, <2>2, BecomeTyped DEF SecretMigrated
    <2> QED  BY <1>0, <1>4, <2>3, StepTyped DEF SecretMigrated
  <1>5. ASSUME PersistSecrets(m) PROVE TypeOK'
    <2>1. proc[m] \in HandlerState
      BY <1>5, InFlightTyped DEF PersistSecrets
    <2>2. ProcTyped'
      BY <1>5, <2>1, NextProcTyped, BecomeTyped DEF PersistSecrets, Procs, Steps
    <2>3. disk' \in Contents
      BY <1>0, <1>5, <2>1, ContentsTyped DEF PersistSecrets, HandlerState
    <2> QED  BY <1>0, <1>5, <2>2, <2>3, StepTyped DEF PersistSecrets
  <1>6. ASSUME PersistKeys(m) PROVE TypeOK'
    <2>1. proc[m] \in HandlerState
      BY <1>6, InFlightTyped DEF PersistKeys
    <2>2. ProcTyped'
      BY <1>6, <2>1, NextProcTyped, BecomeTyped DEF PersistKeys, Procs, Steps
    <2>3. disk' \in Contents /\ mem' \in Contents
      BY <1>0, <1>6, <2>1, ContentsTyped DEF PersistKeys, HandlerState
    <2> QED  BY <1>0, <1>6, <2>2, <2>3, StepTyped DEF PersistKeys
  <1>7. ASSUME OnlySecretMigrated(m) PROVE TypeOK'
    <2>1. proc[m] \in HandlerState
      BY <1>7, InFlightTyped DEF OnlySecretMigrated
    <2>2. ProcTyped'
      BY <1>7, <2>1, EndUnlockTyped, PasswordAssumption, BecomeTyped DEF OnlySecretMigrated
    <2>3. mem' \in Contents
      BY <1>0, <1>7, <2>1, ContentsTyped DEF OnlySecretMigrated, HandlerState
    <2> QED  BY <1>0, <1>7, <2>2, <2>3, StepTyped DEF OnlySecretMigrated
  <1>8. ASSUME PersistSeeds(m) PROVE TypeOK'
    <2>1. proc[m] \in HandlerState
      BY <1>8, InFlightTyped DEF PersistSeeds
    <2>2. ProcTyped'
      BY <1>8, <2>1, NextProcTyped, BecomeTyped DEF PersistSeeds, Procs, Steps
    <2>3. disk' \in Contents /\ mem' \in Contents
      BY <1>0, <1>8, <2>1, ContentsTyped DEF PersistSeeds, HandlerState
    <2> QED  BY <1>0, <1>8, <2>2, <2>3, StepTyped DEF PersistSeeds
  <1>9. ASSUME SeedsPersisted(m) PROVE TypeOK'
    <2>1. proc[m] \in HandlerState
      BY <1>9, InFlightTyped DEF SeedsPersisted
    <2>2. ProcTyped'
      BY <1>9, <2>1, EndUnlockTyped, PasswordAssumption, BecomeTyped DEF SeedsPersisted
    <2>3. mem' \in Contents
      BY <1>0, <1>9, <2>1, ContentsTyped DEF SeedsPersisted, HandlerState
    <2> QED  BY <1>0, <1>9, <2>2, <2>3, StepTyped DEF SeedsPersisted
  <1> QED
    BY <1>1, <1>2, <1>3, <1>4, <1>5, <1>6, <1>7, <1>8, <1>9 DEF UnlockStep

\* What is left to show of a call.
LEMMA CallTyped ==
    ASSUME TypeOK, Call, disk' \in Contents, mem' \in Contents, mainKey' \in Nat,
           generated' \in Nat, ready' \in BOOLEAN,
           pending' \in [internal : SUBSET Keys, external : SUBSET ExternalKeys],
           ProcTyped', adding' \in SUBSET AddingState
    PROVE  TypeOK'
  <1>1. calls' \in Nat /\ UNCHANGED <<scenario, locks, crashes>>
    BY DEF Call, TypeOK
  <1> QED  BY <1>1 DEF TypeOK, ProcTyped, Handlers, Procs

LEMMA ProcKept == ASSUME TypeOK, proc' = proc PROVE ProcTyped'
  BY DEF TypeOK, ProcTyped, Handlers, Procs

\* A handler that was not in flight begins to unlock, or to add a secret.
LEMMA BeginUnlockTyped ==
    ASSUME TypeOK, NEW m \in Handlers, NEW id \in SecretIds, NEW value \in Values,
           NEW next \in Values, BeginUnlock(m, id, value, next)
    PROVE  ProcTyped'
  <1>1. PICK e \in Entries(id) :
          Become(m, [Proc("derive", id, value, next) EXCEPT !.secrets = {e}])
    BY DEF BeginUnlock
  <1>2. {e} \in SUBSET SecretEntries
    BY <1>1 DEF Entries, TypeOK, Contents
  <1>3. [Proc("derive", id, value, next) EXCEPT !.secrets = {e}] \in Procs
    BY <1>2, NewProcTyped DEF Procs, Steps, None
  <1> QED  BY <1>1, <1>3, BecomeTyped

LEMMA BeginAddSecretTyped ==
    ASSUME TypeOK, NEW m \in Handlers, NEW id \in SecretIds, NEW value \in Values,
           NEW leave \in BOOLEAN, BeginAddSecret(m, id, value, leave)
    PROVE  ProcTyped' /\ mainKey' \in Nat /\ generated' \in Nat
  <1> DEFINE mk == IF mainKey # None THEN mainKey ELSE generated + 1
  <1>1. mk \in Nat
    BY DEF TypeOK
  <1>2. Become(m, [Proc("deriveNew", id, value, value) EXCEPT !.mk = mk])
    BY DEF BeginAddSecret
  <1>3. [Proc("deriveNew", id, value, value) EXCEPT !.mk = mk] \in Procs
    BY <1>1, NewProcTyped DEF Procs, Steps
  <1>4. ProcTyped'
    BY <1>2, <1>3, BecomeTyped
  <1>5. mainKey' \in {None, mk} /\ generated' \in {generated, mk}
    BY DEF BeginAddSecret
  <1> QED  BY <1>1, <1>4, <1>5 DEF TypeOK, None

LEMMA ExternalTyped ==
    ASSUME NEW names \in SUBSET ExternalKeys
    PROVE  ExternalRecords(names) \in SUBSET KeyRecords
  BY DEF ExternalRecords, KeyRecords

LEMMA AddStepTyped ==
    ASSUME TypeOK, NEW m \in Adders, PushSecret(m) \/ BecomeReady(m)
    PROVE  TypeOK'
  <1> USE HandlerNames
  <1>0. /\ disk \in Contents /\ mem \in Contents /\ mainKey \in Nat /\ generated \in Nat
        /\ ready \in BOOLEAN /\ adding \in SUBSET AddingState
        /\ pending.internal \in SUBSET Keys /\ pending.external \in SUBSET ExternalKeys
    BY DEF TypeOK
  <1>1. ASSUME PushSecret(m) PROVE TypeOK'
    <2>1. proc[m] \in HandlerState
      BY <1>1, InFlightTyped DEF PushSecret
    <2>2. ProcTyped'
      BY <1>1, <2>1, NextProcTyped, BecomeTyped DEF PushSecret, Procs, Steps
    <2>3. mem.secrets \cup {[id |-> proc[m].id, value |-> proc[m].value, cipher |-> "gcm",
                             mk |-> proc[m].mk]} \in SUBSET SecretEntries
      BY <1>0, <2>1 DEF Contents, HandlerState, SecretEntries, Ciphers
    <2>4. disk' \in Contents /\ mem' \in Contents
      BY <1>0, <1>1, <2>3, ContentsTyped DEF PushSecret
    <2> QED  BY <1>0, <1>1, <2>2, <2>4, StepTyped DEF PushSecret
  <1>2. ASSUME BecomeReady(m) PROVE TypeOK'
    <2>1. ProcTyped'
      BY <1>2, IdleTyped, BecomeTyped DEF BecomeReady, Fail
    <2> DEFINE external == ExternalRecords(pending.external)
    <2>2. mem.keys \cup external \in SUBSET KeyRecords
      BY <1>0, ExternalTyped DEF Contents
    <2>3. disk' \in Contents /\ mem' \in Contents
      BY <1>0, <1>2, <2>2, ContentsTyped DEF BecomeReady
    <2>4. [names |-> pending.internal, keys |-> mem.keys, mk |-> mainKey, wrapped |-> FALSE]
            \in AddingState
      BY <1>0 DEF AddingState, Contents
    <2>5. adding' \in SUBSET AddingState
      BY <1>0, <1>2, <2>4 DEF BecomeReady
    <2> QED  BY <1>0, <1>2, <2>1, <2>3, <2>5, StepTyped DEF BecomeReady
  <1> QED  BY <1>1, <1>2

LEMMA DropSecretTyped ==
    ASSUME TypeOK, NEW id, DropSecret(id)
    PROVE  disk' \in Contents /\ mem' \in Contents
  <1>1. Without(id) \in SUBSET SecretEntries
    BY DEF Without, TypeOK, Contents
  <1> QED  BY <1>1, ContentsTyped DEF DropSecret, TypeOK

LEMMA ChangeStepTyped ==
    ASSUME TypeOK, RemoveOldPassword \/ AddNewPassword
    PROVE  TypeOK'
  <1> USE HandlerNames
  <1> DEFINE m == "changeKeystorePassword"
  <1>0. /\ disk \in Contents /\ mem \in Contents /\ mainKey \in Nat /\ generated \in Nat
        /\ ready \in BOOLEAN /\ adding \in SUBSET AddingState
    BY DEF TypeOK
  <1>1. ASSUME RemoveOldPassword PROVE TypeOK'
    <2>1. proc[m] \in HandlerState
      BY <1>1, InFlightTyped DEF RemoveOldPassword
    <2>2. [proc[m] EXCEPT !.pc = "removed"] \in Procs
      BY <2>1, NextProcTyped DEF Procs, Steps
    <2>3. ProcTyped'
      BY <1>1, <2>2, IdleTyped, BecomeTyped DEF RemoveOldPassword, Fail
    <2>4. disk' \in Contents /\ mem' \in Contents
      BY <1>0, <1>1, DropSecretTyped DEF RemoveOldPassword
    <2> QED  BY <1>0, <1>1, <2>3, <2>4, StepTyped DEF RemoveOldPassword
  <1>2. ASSUME AddNewPassword PROVE TypeOK'
    <2>1. proc[m] \in HandlerState
      BY <1>2, InFlightTyped DEF AddNewPassword
    <2>2. proc[m].value \in Values
      BY <2>1 DEF HandlerState
    <2>3. ProcTyped' /\ mainKey' \in Nat /\ generated' \in Nat
      BY <1>0, <1>2, <2>2, PasswordAssumption, BeginAddSecretTyped, IdleTyped, BecomeTyped
         DEF AddNewPassword, Fail
    <2> QED  BY <1>0, <1>2, <2>3, StepTyped DEF AddNewPassword
  <1> QED  BY <1>1, <1>2

\* The list of keys or of seeds is replaced in memory and in the storage.
LEMMA StoreTyped ==
    ASSUME TypeOK,
           \/ \E keys \in SUBSET KeyRecords : StoreKeys(keys)
           \/ \E seeds \in SUBSET SeedRecords : StoreSeeds(seeds)
    PROVE  disk' \in Contents /\ mem' \in Contents
  BY ContentsTyped DEF StoreKeys, StoreSeeds, TypeOK

LEMMA KeysEncryptedTyped ==
    ASSUME TypeOK, NEW a \in adding, KeysEncrypted(a)
    PROVE  TypeOK'
  <1> DEFINE new == {[name |-> k, cipher |-> "gcm",
         mk |-> a.mk] : k \in a.names \ Names(a.keys)}
  <1>1. a \in AddingState
    BY DEF TypeOK
  <1>2. a.keys \cup new \in SUBSET KeyRecords
    BY <1>1 DEF AddingState, KeyRecords, Ciphers
  <1>3. UNCHANGED <<disk, mem>> \/ StoreKeys(a.keys \cup new)
    BY DEF KeysEncrypted
  <1>4. disk' \in Contents /\ mem' \in Contents
    BY <1>2, <1>3, StoreTyped DEF TypeOK
  <1>5. adding' \in SUBSET AddingState /\ ProcTyped'
    BY ProcKept DEF KeysEncrypted, TypeOK
  <1> QED  BY <1>4, <1>5, StepTyped DEF KeysEncrypted, TypeOK

LEMMA SeedStepTyped ==
    ASSUME TypeOK, SeedCompared \/ SeedEncrypted
    PROVE  TypeOK'
  <1>1. "addSeed" \in Methods
    BY HandlerNames
  <1>2. proc["addSeed"] \in SeedState
    BY DEF SeedCompared, SeedEncrypted, At, Idle, TypeOK
  <1>3. /\ disk \in Contents /\ mem \in Contents /\ mainKey \in Nat /\ generated \in Nat
        /\ ready \in BOOLEAN /\ adding \in SUBSET AddingState
    BY DEF TypeOK
  <1>4. [proc["addSeed"] EXCEPT !.pc = "encrypt", !.mk = mainKey] \in SeedState
    BY <1>2, <1>3 DEF SeedState
  <1>5. PICK p \in {Idle} \cup SeedState : Become("addSeed", p)
    BY <1>4 DEF SeedCompared, SeedEncrypted, Fail
  <1>6. ProcTyped'
    BY <1>1, <1>5 DEF Become, TypeOK, ProcTyped, Procs, Handlers
  <1>7. CASE SeedCompared
    BY <1>3, <1>6, <1>7, StepTyped DEF SeedCompared
  <1>8. CASE SeedEncrypted
    <2>1. mem.seeds \cup {[name |-> proc["addSeed"].seed, cipher |-> "gcm",
           mk |-> proc["addSeed"].mk]}
            \in SUBSET SeedRecords
      BY <1>2, <1>3 DEF SeedState, SeedRecords, Contents, Ciphers
    <2>2. disk' \in Contents /\ mem' \in Contents
      BY <1>8, <2>1, StoreTyped DEF SeedEncrypted
    <2> QED  BY <1>3, <1>6, <1>8, <2>2, StepTyped DEF SeedEncrypted
  <1> QED  BY <1>7, <1>8

LEMMA SecretCallsTyped ==
    ASSUME TypeOK, SecretCalls
    PROVE  TypeOK'
  <1> USE HandlerNames
  <1>0. /\ disk \in Contents /\ mem \in Contents /\ mainKey \in Nat /\ generated \in Nat
        /\ ready \in BOOLEAN /\ adding \in SUBSET AddingState
        /\ pending \in [internal : SUBSET Keys, external : SUBSET ExternalKeys]
    BY DEF TypeOK
  <1>1. ASSUME NEW id \in SecretIds, NEW v \in Values, UnlockWithSecret(id, v) PROVE TypeOK'
    <2>1. ProcTyped'
      BY <1>1, BeginUnlockTyped DEF UnlockWithSecret
    <2> QED  BY <1>0, <1>1, <2>1, CallTyped DEF UnlockWithSecret
  <1>2. ASSUME NEW id \in SecretIds, NEW v \in Values, NEW leave \in BOOLEAN,
               AddSecret(id, v, leave)
        PROVE  TypeOK'
    <2>1. ProcTyped' /\ mainKey' \in Nat /\ generated' \in Nat
      BY <1>2, BeginAddSecretTyped DEF AddSecret
    <2> QED  BY <1>0, <1>2, <2>1, CallTyped DEF AddSecret
  <1>3. ASSUME NEW id \in SecretIds, RemoveSecret(id) PROVE TypeOK'
    <2>1. disk' \in Contents /\ mem' \in Contents /\ ProcTyped'
      BY <1>3, DropSecretTyped, ProcKept DEF RemoveSecret
    <2> QED  BY <1>0, <1>3, <2>1, CallTyped DEF RemoveSecret
  <1>4. ASSUME NEW old \in Values, NEW new \in Values, ChangeKeystorePassword(old, new)
        PROVE  TypeOK'
    <2> DEFINE m == "changeKeystorePassword"
    <2>1. Proc("check", "password", new, new) \in Procs
      BY PasswordAssumption, NewProcTyped DEF Procs, Steps
    <2>2. BeginUnlock(m, "password", old, new) \/ Become(m, Proc("check", "password", new, new))
      BY <1>4 DEF ChangeKeystorePassword
    <2>3. ProcTyped'
      BY <2>1, <2>2, PasswordAssumption, BeginUnlockTyped, BecomeTyped
    <2> QED  BY <1>0, <1>4, <2>3, CallTyped DEF ChangeKeystorePassword
  <1> QED  BY <1>1, <1>2, <1>3, <1>4 DEF SecretCalls

LEMMA PayloadCallsTyped ==
    ASSUME TypeOK, PayloadCalls
    PROVE  TypeOK'
  <1>0. /\ disk \in Contents /\ mem \in Contents /\ mainKey \in Nat /\ generated \in Nat
        /\ ready \in BOOLEAN /\ adding \in SUBSET AddingState
        /\ pending \in [internal : SUBSET Keys, external : SUBSET ExternalKeys]
        /\ mem.keys \in SUBSET KeyRecords /\ mem.seeds \in SUBSET SeedRecords
        /\ disk.keys \in SUBSET KeyRecords
    BY DEF TypeOK, Contents
  <1>1. ASSUME NEW names \in SUBSET Keys, AddKeys(names) PROVE TypeOK'
    <2>1. [names |-> names, keys |-> mem.keys, mk |-> mainKey, wrapped |-> TRUE] \in AddingState
      BY <1>0 DEF AddingState
    <2>2. pending' \in [internal : SUBSET Keys, external : SUBSET ExternalKeys]
          /\ adding' \in SUBSET AddingState
      BY <1>0, <1>1, <2>1 DEF AddKeys
    <2> QED  BY <1>0, <1>1, <2>2, ProcKept, CallTyped DEF AddKeys
  <1>2. ASSUME NEW names \in SUBSET ExternalKeys, AddKeysExternallyStored(names) PROVE TypeOK'
    <2>1. mem.keys \cup ExternalRecords(names) \in SUBSET KeyRecords
      BY <1>0, ExternalTyped
    <2>2. disk' \in Contents /\ mem' \in Contents
          /\ pending' \in [internal : SUBSET Keys, external : SUBSET ExternalKeys]
      BY <1>0, <1>2, <2>1, StoreTyped DEF AddKeysExternallyStored
    <2> QED  BY <1>0, <1>2, <2>2, ProcKept, CallTyped DEF AddKeysExternallyStored
  <1>3. ASSUME NEW k, RemoveKey(k) PROVE TypeOK'
    <2>1. {r \in mem.keys : r.name # k} \in SUBSET KeyRecords
      BY <1>0
    <2>2. disk' \in Contents /\ mem' \in Contents
      BY <1>3, <2>1, StoreTyped DEF RemoveKey
    <2> QED  BY <1>0, <1>3, <2>2, ProcKept, CallTyped DEF RemoveKey
  <1>4. CASE UpdateKeystoreKeys
    <2>1. mem' \in Contents
      BY <1>0, <1>4, ContentsTyped DEF UpdateKeystoreKeys
    <2> QED  BY <1>0, <1>4, <2>1, ProcKept, CallTyped DEF UpdateKeystoreKeys
  <1>5. ASSUME NEW s \in Seeds, AddSeed(s) PROVE TypeOK'
    <2>1. [pc |-> "compare", seed |-> s, mk |-> None] \in SeedState
      BY DEF SeedState, None
    <2>2. ProcTyped'
      BY <1>5, <2>1, HandlerNames DEF AddSeed, Become, TypeOK, ProcTyped, Procs, Handlers
    <2> QED  BY <1>0, <1>5, <2>2, CallTyped DEF AddSeed
  <1>6. ASSUME NEW s \in Seeds, DeleteSeed(s) PROVE TypeOK'
    <2>1. {r \in mem.seeds : r.name # s} \in SUBSET SeedRecords
      BY <1>0
    <2>2. disk' \in Contents /\ mem' \in Contents
      BY <1>6, <2>1, StoreTyped DEF DeleteSeed
    <2> QED  BY <1>0, <1>6, <2>2, ProcKept, CallTyped DEF DeleteSeed
  <1>7. CASE UpdateSeed
    <2>1. disk' \in Contents /\ mem' \in Contents
      BY <1>0, <1>7, StoreTyped DEF UpdateSeed
    <2> QED  BY <1>0, <1>7, <2>1, ProcKept, CallTyped DEF UpdateSeed
  <1> QED  BY <1>1, <1>2, <1>3, <1>4, <1>5, <1>6, <1>7 DEF PayloadCalls

LEMMA NextTyped ==
    ASSUME TypeOK, [Next]_vars
    PROVE  TypeOK'
  <1>1. CASE HandlerStep
    BY <1>1, UnlockStepTyped, AddStepTyped, ChangeStepTyped, KeysEncryptedTyped, SeedStepTyped
       DEF HandlerStep, Unlockers, Adders
  <1>2. CASE Lock
    BY <1>2, ProcKept DEF Lock, TypeOK, ProcTyped, Procs, Handlers, None
  <1>3. CASE Crash
    <2>0. proc' = [m \in Methods |-> Idle] /\ Handlers \subseteq Methods
      BY <1>3, HandlerNames DEF Crash
    <2>a. /\ proc' \in [Methods -> {Idle} \cup HandlerState \cup SeedState]
          /\ \A m \in Methods : proc'[m] = Idle
      BY ONLY <2>0
    <2>1. ProcTyped'
      BY <2>0, <2>a, HandlerNames DEF ProcTyped, Procs
    <2>2. pending' \in [internal : SUBSET Keys, external : SUBSET ExternalKeys]
      BY <1>3 DEF Crash
    <2> QED  BY <1>3, <2>1, <2>2 DEF Crash, TypeOK, ProcTyped, Procs, Handlers, None
  <1>4. CASE UNCHANGED vars
    BY <1>4 DEF vars, counters, TypeOK
  <1> QED  BY <1>1, <1>2, <1>3, <1>4, SecretCallsTyped, PayloadCallsTyped DEF Next

LEMMA InitTyped == Init => TypeOK
  <1> SUFFICES ASSUME Init PROVE TypeOK
    OBVIOUS
  <1>1. scenario \in Scenario
    BY ScenariosAssumption DEF Init
  <1>2. disk \in Contents /\ mem \in Contents
    BY <1>1 DEF Init, Scenario
  <1>3. generated \in Nat /\ ready \in BOOLEAN /\ mainKey \in Nat
    BY DEF Init, None
  <1> QED  BY <1>2, <1>3 DEF Init, TypeOK, Methods

\* The lists, the handlers in flight and the counters keep their types, for
\* any storage the keystore starts on and any calls.
THEOREM KeystoreTypeCorrect == Spec => []TypeOK
  BY InitTyped, NextTyped, PTL DEF Spec

-----------------------------------------------------------------------------
(* One main key.                                                            *)

\* Everything the program starts on is encrypted with the same main key;
\* without a secret nothing is encrypted, and no seed is added before the
\* first secret is stored; the password is changed only where nothing locks
\* the keystore or restarts it meanwhile.
Proper(s) ==
    /\ \A e \in s.disk.secrets : e.mk = 1
    /\ \A r \in Ciphertexts(s.disk) : r.mk = 1
    /\ s.disk.secrets = {} =>
          Ciphertexts(s.disk) = {} /\ s.callable \cap {"addSeed", "changeKeystorePassword"} = {}
    /\ "changeKeystorePassword" \in s.callable => s.locks = 0 /\ s.crashes = 0

SecretsOf(S, g) == \A e \in S : e.mk = g
KeysIn(S, g) == \A r \in S : r.cipher = "none" \/ r.mk = g
SeedsOf(S, g) == \A r \in S : r.mk = g
ContentsOf(c, g) == SecretsOf(c.secrets, g) /\ KeysIn(c.keys, g) /\ SeedsOf(c.seeds, g)
ProcOf(p, g) ==
    /\ SecretsOf(p.secrets, g) /\ KeysIn(p.keys, g) /\ SeedsOf(p.seeds, g)
    /\ p.mk \in {None, g}
    /\ p.pc = "deriveNew" => p.mk = g
AddingOf(S, g) == \A a \in S : a.mk = g /\ KeysIn(a.keys, g)

\* What is stored, in memory or in flight is under the last main key.
ProcsOf(g) ==
    /\ \A m \in Handlers : InFlight(m) => ProcOf(proc[m], g)
    /\ At("addSeed", "encrypt") => proc["addSeed"].mk = g
UnderTheLast ==
    /\ ContentsOf(mem, generated) /\ ContentsOf(disk, generated)
    /\ mainKey \in {None, generated}
    /\ ProcsOf(generated)
    /\ AddingOf(adding, generated)

MayChange == "changeKeystorePassword" \in scenario.callable
Changing == MayChange /\ mainKey # None

\* Before the first secret nothing but an addSecret is in flight, and nothing
\* is encrypted: only there does addSecret generate a main key.
Untouched ==
    /\ ~MayChange /\ "addSeed" \notin scenario.callable
    /\ disk.secrets = {} /\ ~ready /\ adding = {}
    /\ \A r \in mem.keys \cup disk.keys : r.cipher = "none"
    /\ mem.seeds = {} /\ disk.seeds = {}
    /\ \A m \in Methods \ {"addSecret"} : ~InFlight(m)
    /\ ~InFlight("addSecret") \/ At("addSecret", "deriveNew")

Migrators == {"migrateSecret", "persistSecrets", "secretsStored"}
SomeSecret ==
    /\ mem.secrets # {} \/ Changing \/ Untouched
    /\ mem.secrets # {} => disk.secrets # {} \/ MayChange
Handled ==
    /\ \A m \in Unlockers : proc[m].pc \in Migrators => proc[m].secrets # {} \/ Changing
    /\ ~MayChange => ~InFlight("changeKeystorePassword")
    /\ "addSeed" \notin scenario.callable => ~InFlight("addSeed")
SecretsStay == SomeSecret /\ Handled

OneKeyInv == TypeOK /\ Proper(scenario) /\ UnderTheLast /\ SecretsStay

LEMMA OneKeySuffices == OneKeyInv => OneMainKey
  <1> SUFFICES ASSUME OneKeyInv PROVE OneMainKey
    OBVIOUS
  <1>1. ASSUME NEW e \in mem.secrets \cup disk.secrets PROVE e.mk = generated
    BY DEF OneKeyInv, UnderTheLast, ContentsOf, SecretsOf
  <1>2. ASSUME NEW r \in Ciphertexts(mem) \cup Ciphertexts(disk) PROVE r.mk = generated
    BY DEF OneKeyInv, UnderTheLast, ContentsOf, KeysIn, SeedsOf, Ciphertexts
  <1>3. mainKey # None => mainKey = generated
    BY DEF OneKeyInv, UnderTheLast
  <1> QED  BY <1>1, <1>2, <1>3 DEF OneMainKey, Openers

LEMMA InitOneKey == ASSUME Init, \A s \in Scenarios : Proper(s) PROVE OneKeyInv
  <1>1. TypeOK /\ Proper(scenario) /\ scenario \in Scenario
    BY InitTyped, ScenariosAssumption DEF Init
  <1>2. generated = 1 \/ (disk.secrets = {} /\ Ciphertexts(disk) = {})
    BY <1>1 DEF Init, Proper
  <1>3. \A r \in disk.seeds : r \in Ciphertexts(disk)
    BY <1>1 DEF TypeOK, Contents, SeedRecords, Ciphers, Ciphertexts
  <1>4. \A r \in disk.keys : r.cipher = "none" \/ r \in Ciphertexts(disk)
    BY DEF Ciphertexts
  <1>5. ContentsOf(disk, generated) /\ ContentsOf(mem, generated)
    BY <1>1, <1>2, <1>3, <1>4 DEF Init, Proper, ContentsOf, SecretsOf, KeysIn, SeedsOf
  <1>6. \A m \in Methods : ~InFlight(m) /\ proc[m].pc = "idle"
    BY DEF Init, InFlight, Idle
  <1>7. UnderTheLast
    BY <1>5, <1>6, HandlerNames DEF Init, UnderTheLast, ProcsOf, AddingOf, At
  <1>8. SecretsStay
    BY <1>1, <1>3, <1>4, <1>6, HandlerNames
       DEF Init, SecretsStay, SomeSecret, Handled, Proper, Untouched, Changing, MayChange,
           Migrators
  <1> QED  BY <1>1, <1>7, <1>8 DEF OneKeyInv

LEMMA BecomeUnder ==
    ASSUME TypeOK, UnderTheLast, generated' = generated, NEW m \in Handlers, NEW p,
           p.pc = "idle" \/ ProcOf(p, generated), Become(m, p)
    PROVE  ProcsOf(generated)'
  <1>1. m \in Methods /\ m # "addSeed" /\ Handlers \subseteq Methods /\ "addSeed" \in Methods
    BY HandlerNames
  <1>2. proc'[m] = p /\ \A n \in Methods : n # m => proc'[n] = proc[n]
    BY <1>1 DEF Become, TypeOK
  <1> QED  BY <1>1, <1>2 DEF UnderTheLast, ProcsOf, InFlight, At

LEMMA ProcsUnder ==
    ASSUME UnderTheLast, UNCHANGED <<proc, generated>>
    PROVE  ProcsOf(generated)'
  BY DEF UnderTheLast, ProcsOf, InFlight, At

\* What is left to show of a step that generates no main key.
LEMMA StepUnder ==
    ASSUME UnderTheLast, ContentsOf(mem', generated), ContentsOf(disk', generated),
           mainKey' \in {None, generated}, generated' = generated,
           ProcsOf(generated)', AddingOf(adding', generated)
    PROVE  UnderTheLast'
  BY DEF UnderTheLast

LEMMA MigratedOf ==
    ASSUME TypeOK, UnderTheLast
    PROVE  KeysIn(MigratedKeys(generated), generated)
           /\ SeedsOf(MigratedSeeds(generated), generated)
  <1>1. mem.keys \in SUBSET KeyRecords /\ mem.seeds \in SUBSET SeedRecords
    BY DEF TypeOK, Contents
  <1>2. ASSUME NEW r \in mem.keys
        PROVE  LET n == IF r.cipher = "ctr"
                        THEN [r EXCEPT !.cipher = "gcm",
                                       !.mk = IF @ = generated THEN generated ELSE Destroyed]
                        ELSE r
               IN  n.cipher = "none" \/ n.mk = generated
    BY <1>1, <1>2 DEF KeyRecords, UnderTheLast, ContentsOf, KeysIn
  <1>3. ASSUME NEW r \in mem.seeds
        PROVE  (IF r.cipher = "ctr" /\ r.mk = generated
                THEN [r EXCEPT !.cipher = "gcm"] ELSE r).mk = generated
    BY <1>1, <1>3 DEF SeedRecords, UnderTheLast, ContentsOf, SeedsOf
  <1>4. KeysIn(MigratedKeys(generated), generated)
    BY <1>2 DEF MigratedKeys, KeysIn
  <1>5. ASSUME NEW n \in MigratedSeeds(generated) PROVE n.mk = generated
    <2>1. PICK r \in mem.seeds : n = IF r.cipher = "ctr" /\ r.mk = generated
                                     THEN [r EXCEPT !.cipher = "gcm"] ELSE r
      BY DEF MigratedSeeds
    <2> QED  BY <1>3, <2>1
  <1> QED  BY <1>4, <1>5 DEF SeedsOf

LEMMA MigratingOf ==
    ASSUME TypeOK, UnderTheLast, NEW m \in Handlers, proc[m] \in HandlerState, InFlight(m),
           NEW pc \in Steps, pc # "deriveNew"
    PROVE  ProcOf(Migrating(proc[m], generated, pc), generated)
  <1>1. SecretsOf(proc[m].secrets, generated)
    BY DEF UnderTheLast, ProcsOf, ProcOf
  <1> QED  BY <1>1, MigratedOf DEF Migrating, HandlerState, ProcOf

LEMMA EndUnlockOf ==
    ASSUME NEW m, NEW g
    PROVE  EndUnlock(m).pc = "idle" \/ ProcOf(EndUnlock(m), g)
  BY DEF EndUnlock, Idle, Proc, ProcOf, SecretsOf, KeysIn, SeedsOf

\* A handler that is in flight refers to nothing but the last main key.
LEMMA FlightOf ==
    ASSUME TypeOK, UnderTheLast, NEW m \in Handlers, NEW pc, At(m, pc), pc # "idle"
    PROVE  proc[m] \in HandlerState /\ InFlight(m) /\ ProcOf(proc[m], generated)
  BY InFlightTyped DEF At, InFlight, UnderTheLast, ProcsOf

LEMMA NextOf ==
    ASSUME NEW p \in HandlerState, NEW g, ProcOf(p, g), NEW pc \in Steps, pc # "deriveNew"
    PROVE  /\ ProcOf([p EXCEPT !.pc = pc], g)
           /\ \A secrets : SecretsOf(secrets, g) =>
                ProcOf([p EXCEPT !.pc = pc, !.secrets = secrets], g)
  BY DEF HandlerState, ProcOf

LEMMA UnlockStepUnder ==
    ASSUME TypeOK, UnderTheLast, NEW m \in Unlockers, UnlockStep(m)
    PROVE  UnderTheLast'
  <1> USE HandlerNames
  <1>0. /\ mem \in Contents /\ disk \in Contents
        /\ ContentsOf(mem, generated) /\ ContentsOf(disk, generated)
        /\ mainKey \in {None, generated} /\ AddingOf(adding, generated)
    BY DEF TypeOK, UnderTheLast
  <1>1. ASSUME WrongSecret(m) PROVE UnderTheLast'
    <2>1. ProcsOf(generated)'
      BY <1>1, BecomeUnder DEF WrongSecret, Fail, Idle
    <2> QED  BY <1>0, <1>1, <2>1, StepUnder DEF WrongSecret
  <1>2. ASSUME OpenWithLegacySecret(m) PROVE UnderTheLast'
    <2>1. proc[m] \in HandlerState /\ ProcOf(proc[m], generated)
      BY <1>2, FlightOf DEF OpenWithLegacySecret
    <2>2. PICK e \in proc[m].secrets :
            /\ mainKey' = e.mk
            /\ Become(m, [proc[m] EXCEPT !.pc = "migrateSecret", !.secrets = Reencrypted(e)])
      BY <1>2 DEF OpenWithLegacySecret, Reencrypted
    <2>3. e.mk = generated /\ e \in SecretEntries
      BY <2>1 DEF ProcOf, SecretsOf, HandlerState
    <2>4. [e EXCEPT !.cipher = "gcm"].mk = generated
      BY <2>3 DEF SecretEntries
    <2>5. SecretsOf(Reencrypted(e), generated)
      BY <1>0, <2>4 DEF ContentsOf, SecretsOf, Reencrypted
    <2>6. ProcOf([proc[m] EXCEPT !.pc = "migrateSecret", !.secrets = Reencrypted(e)], generated)
      BY <2>1, <2>5, NextOf DEF Steps
    <2>7. ProcsOf(generated)'
      BY <1>2, <2>2, <2>6, BecomeUnder DEF OpenWithLegacySecret
    <2> QED  BY <1>0, <1>2, <2>2, <2>3, <2>7, StepUnder DEF OpenWithLegacySecret
  <1>3. ASSUME OpenWithSecret(m) PROVE UnderTheLast'
    <2>1. proc[m] \in HandlerState /\ ProcOf(proc[m], generated) /\ InFlight(m)
      BY <1>3, FlightOf DEF OpenWithSecret
    <2>2. PICK e \in proc[m].secrets :
            /\ mainKey' = e.mk
            /\ Become(m, IF HasMigrated(e.mk) THEN Migrating(proc[m], e.mk, "persistKeys")
                                              ELSE EndUnlock(m))
      BY <1>3 DEF OpenWithSecret
    <2>3. e.mk = generated
      BY <2>1 DEF ProcOf, SecretsOf
    <2>4. ProcOf(Migrating(proc[m], generated, "persistKeys"), generated)
      BY <2>1, MigratingOf DEF Steps
    <2>5. ProcsOf(generated)'
      BY <1>3, <2>2, <2>3, <2>4, EndUnlockOf, BecomeUnder DEF OpenWithSecret
    <2> QED  BY <1>0, <1>3, <2>2, <2>3, <2>5, StepUnder DEF OpenWithSecret
  <1>4. ASSUME SecretMigrated(m) PROVE UnderTheLast'
    <2>1. proc[m] \in HandlerState /\ ProcOf(proc[m], generated) /\ InFlight(m)
      BY <1>4, FlightOf DEF SecretMigrated
    <2>2. ProcOf(Migrating(proc[m], generated, "persistSecrets"), generated)
      BY <2>1, MigratingOf DEF Steps
    <2>3. ProcsOf(generated)'
      BY <1>0, <1>4, <2>2, EndUnlockOf, BecomeUnder DEF SecretMigrated
    <2> QED  BY <1>0, <1>4, <2>3, StepUnder DEF SecretMigrated
  <1>5. ASSUME \/ PersistSecrets(m) \/ PersistKeys(m) \/ OnlySecretMigrated(m)
               \/ PersistSeeds(m) \/ SeedsPersisted(m)
        PROVE  UnderTheLast'
    <2>1. proc[m] \in HandlerState /\ ProcOf(proc[m], generated)
      BY <1>5, FlightOf
         DEF PersistSecrets, PersistKeys, OnlySecretMigrated, PersistSeeds, SeedsPersisted
    <2>2. \/ \E pc \in Steps \ {"deriveNew"} : Become(m, [proc[m] EXCEPT !.pc = pc])
          \/ Become(m, EndUnlock(m))
      BY <1>5 DEF PersistSecrets, PersistKeys, OnlySecretMigrated, PersistSeeds, SeedsPersisted,
                  Steps
    <2>3. generated' = generated
      BY <1>5 DEF PersistSecrets, PersistKeys, OnlySecretMigrated, PersistSeeds, SeedsPersisted
    <2>4. ProcsOf(generated)'
      BY <2>1, <2>2, <2>3, NextOf, EndUnlockOf, BecomeUnder
    <2>5. ContentsOf(mem', generated) /\ ContentsOf(disk', generated)
      BY <1>0, <1>5, <2>1 DEF PersistSecrets, PersistKeys, OnlySecretMigrated, PersistSeeds,
                              SeedsPersisted, ContentsOf, ProcOf, Contents
    <2>6. UNCHANGED <<mainKey, adding>>
      BY <1>5 DEF PersistSecrets, PersistKeys, OnlySecretMigrated, PersistSeeds, SeedsPersisted
    <2> QED  BY <1>0, <2>3, <2>4, <2>5, <2>6, StepUnder
  <1> QED  BY <1>1, <1>2, <1>3, <1>4, <1>5 DEF UnlockStep

LEMMA AddStepUnder ==
    ASSUME TypeOK, UnderTheLast, NEW m \in Adders, PushSecret(m) \/ BecomeReady(m)
    PROVE  UnderTheLast'
  <1> USE HandlerNames
  <1>0. /\ mem \in Contents /\ disk \in Contents
        /\ ContentsOf(mem, generated) /\ ContentsOf(disk, generated)
        /\ mainKey \in {None, generated} /\ AddingOf(adding, generated)
    BY DEF TypeOK, UnderTheLast
  <1>1. ASSUME PushSecret(m) PROVE UnderTheLast'
    <2>1. proc[m] \in HandlerState /\ ProcOf(proc[m], generated) /\ proc[m].mk = generated
      BY <1>1, FlightOf DEF PushSecret, At, ProcOf
    <2>2. ProcsOf(generated)'
      BY <1>1, <2>1, NextOf, BecomeUnder DEF PushSecret, Steps
    <2> DEFINE e == [id |-> proc[m].id, value |-> proc[m].value, cipher |-> "gcm",
                     mk |-> proc[m].mk]
    <2>3. SecretsOf(mem.secrets \cup {e}, generated)
      BY <1>0, <2>1 DEF ContentsOf, SecretsOf
    <2>4. ContentsOf(mem', generated) /\ ContentsOf(disk', generated)
      BY <1>0, <1>1, <2>3 DEF PushSecret, ContentsOf, Contents
    <2> QED  BY <1>0, <1>1, <2>2, <2>4, StepUnder DEF PushSecret
  <1>2. ASSUME BecomeReady(m) PROVE UnderTheLast'
    <2>1. ProcsOf(generated)'
      BY <1>2, BecomeUnder DEF BecomeReady, Fail, Idle
    <2> DEFINE external == ExternalRecords(pending.external)
    <2>2. KeysIn(mem.keys \cup external, generated)
      BY <1>0 DEF ContentsOf, KeysIn, ExternalRecords
    <2>3. ContentsOf(mem', generated) /\ ContentsOf(disk', generated)
      BY <1>0, <1>2, <2>2 DEF BecomeReady, ContentsOf, Contents
    <2>4. AddingOf(adding', generated)
      BY <1>0, <1>2 DEF BecomeReady, AddingOf, ContentsOf
    <2> QED  BY <1>0, <1>2, <2>1, <2>3, <2>4, StepUnder DEF BecomeReady
  <1> QED  BY <1>1, <1>2

\* A main key is generated only where nothing is under another one.
LEMMA BeginAddSecretUnder ==
    ASSUME OneKeyInv, NEW m \in Adders, NEW id, NEW value, NEW leave \in BOOLEAN,
           BeginAddSecret(m, id, value, leave), m = "changeKeystorePassword" => MayChange,
           UNCHANGED <<disk, mem, adding>>
    PROVE  UnderTheLast'
  <1> USE HandlerNames
  <1>0. /\ TypeOK /\ UnderTheLast /\ m \in Handlers
        /\ ContentsOf(mem, generated) /\ ContentsOf(disk, generated)
        /\ mainKey \in {None, generated} /\ AddingOf(adding, generated)
    BY DEF OneKeyInv, UnderTheLast
  <1>1. CASE mainKey # None
    <2>1. generated' = generated /\ mainKey' = mainKey
          /\ Become(m, [Proc("deriveNew", id, value, value) EXCEPT !.mk = mainKey])
      BY <1>1 DEF BeginAddSecret
    <2>2. ProcOf([Proc("deriveNew", id, value, value) EXCEPT !.mk = mainKey], generated)
      BY <1>0, <1>1 DEF Proc, ProcOf, SecretsOf, KeysIn, SeedsOf
    <2>3. ProcsOf(generated)'
      BY <1>0, <2>1, <2>2, BecomeUnder
    <2> QED  BY <1>0, <2>1, <2>3, StepUnder
  <1>2. CASE mainKey = None
    <2>1. Untouched /\ mem.secrets = {}
      BY <1>2 DEF BeginAddSecret, OneKeyInv, SecretsStay, SomeSecret, Changing
    <2>2. m = "addSecret"
      BY <2>1 DEF Untouched, Adders
    <2>3. /\ generated' = generated + 1 /\ mainKey' \in {None, generated'}
          /\ Become(m, [Proc("deriveNew", id, value, value) EXCEPT !.mk = generated'])
      BY <1>2 DEF BeginAddSecret
    <2>4. ContentsOf(mem', generated') /\ ContentsOf(disk', generated')
      BY <2>1 DEF Untouched, ContentsOf, SecretsOf, KeysIn, SeedsOf
    <2>5. ProcOf([Proc("deriveNew", id, value, value) EXCEPT !.mk = generated'], generated')
      BY DEF Proc, ProcOf, SecretsOf, KeysIn, SeedsOf
    <2>6. /\ proc'[m] = [Proc("deriveNew", id, value, value) EXCEPT !.mk = generated']
          /\ \A n \in Methods : n # m => proc'[n] = proc[n] /\ ~InFlight(n)
      BY <1>0, <2>1, <2>2, <2>3 DEF Become, TypeOK, Untouched
    <2>7. \A n \in Handlers : n # m => ~(InFlight(n)')
      BY <2>6 DEF InFlight
    <2>8. proc'["addSeed"].pc = "idle"
      BY <2>2, <2>6 DEF InFlight
    <2>9. ProcsOf(generated)'
      BY <2>5, <2>6, <2>7, <2>8 DEF ProcsOf, At
    <2>10. AddingOf(adding, generated)'
      BY <2>1 DEF Untouched, AddingOf
    <2> QED  BY <2>3, <2>4, <2>9, <2>10 DEF UnderTheLast
  <1> QED  BY <1>1, <1>2

\* Removing secrets, and replacing a list of keys or of seeds.
LEMMA StoreUnder ==
    ASSUME TypeOK, UnderTheLast,
           \/ \E id : DropSecret(id)
           \/ \E keys : KeysIn(keys, generated) /\ StoreKeys(keys)
           \/ \E seeds : SeedsOf(seeds, generated) /\ StoreSeeds(seeds)
    PROVE  ContentsOf(mem', generated) /\ ContentsOf(disk', generated)
  <1>0. /\ mem \in Contents /\ disk \in Contents
        /\ ContentsOf(mem, generated) /\ ContentsOf(disk, generated)
    BY DEF TypeOK, UnderTheLast
  <1>1. ASSUME NEW id, DropSecret(id)
        PROVE  ContentsOf(mem', generated) /\ ContentsOf(disk', generated)
    <2>1. SecretsOf(Without(id), generated)
      BY <1>0 DEF ContentsOf, SecretsOf, Without
    <2> QED  BY <1>0, <1>1, <2>1 DEF DropSecret, ContentsOf, Contents
  <1>2. ASSUME NEW keys, KeysIn(keys, generated), StoreKeys(keys)
        PROVE  ContentsOf(mem', generated) /\ ContentsOf(disk', generated)
    BY <1>0, <1>2 DEF StoreKeys, ContentsOf, Contents
  <1>3. ASSUME NEW seeds, SeedsOf(seeds, generated), StoreSeeds(seeds)
        PROVE  ContentsOf(mem', generated) /\ ContentsOf(disk', generated)
    BY <1>0, <1>3 DEF StoreSeeds, ContentsOf, Contents
  <1> QED  BY <1>1, <1>2, <1>3

LEMMA ChangeStepUnder ==
    ASSUME OneKeyInv, RemoveOldPassword \/ AddNewPassword
    PROVE  UnderTheLast'
  <1> USE HandlerNames
  <1> DEFINE m == "changeKeystorePassword"
  <1>0. /\ TypeOK /\ UnderTheLast /\ mem \in Contents /\ disk \in Contents
        /\ ContentsOf(mem, generated) /\ ContentsOf(disk, generated)
        /\ mainKey \in {None, generated} /\ AddingOf(adding, generated)
    BY DEF OneKeyInv, TypeOK, UnderTheLast
  <1>1. proc[m] \in HandlerState /\ ProcOf(proc[m], generated) /\ InFlight(m)
    BY <1>0, FlightOf DEF RemoveOldPassword, AddNewPassword
  <1>2. CASE RemoveOldPassword
    <2>1. ProcOf([proc[m] EXCEPT !.pc = "removed"], generated)
      BY <1>1, NextOf DEF Steps
    <2>2. ProcsOf(generated)'
      BY <1>0, <1>2, <2>1, BecomeUnder DEF RemoveOldPassword, Fail, Idle
    <2>3. ContentsOf(mem', generated) /\ ContentsOf(disk', generated)
      BY <1>0, <1>2, StoreUnder DEF RemoveOldPassword
    <2> QED  BY <1>0, <1>2, <2>2, <2>3, StepUnder DEF RemoveOldPassword
  <1>3. CASE AddNewPassword
    <2>1. CASE BeginAddSecret(m, "password", proc[m].value, TRUE)
      <3>1. MayChange
        BY <1>1 DEF OneKeyInv, SecretsStay, Handled
      <3> QED  BY <1>3, <2>1, <3>1, BeginAddSecretUnder DEF AddNewPassword, Adders
    <2>2. CASE Fail(m) /\ UNCHANGED <<mainKey, generated>>
      <3>1. ProcsOf(generated)'
        BY <1>0, <2>2, BecomeUnder DEF Fail, Idle
      <3> QED  BY <1>0, <1>3, <2>2, <3>1, StepUnder DEF AddNewPassword
    <2> QED  BY <1>3, <2>1, <2>2 DEF AddNewPassword
  <1> QED  BY <1>2, <1>3

LEMMA KeysEncryptedUnder ==
    ASSUME TypeOK, UnderTheLast, NEW a \in adding, KeysEncrypted(a)
    PROVE  UnderTheLast'
  <1> DEFINE new == {[name |-> k, cipher |-> "gcm",
         mk |-> a.mk] : k \in a.names \ Names(a.keys)}
  <1>1. a.mk = generated /\ KeysIn(a.keys, generated)
    BY DEF UnderTheLast, AddingOf
  <1>2. KeysIn(a.keys \cup new, generated)
    BY <1>1 DEF KeysIn
  <1>3. ContentsOf(mem', generated) /\ ContentsOf(disk', generated)
    BY <1>2, StoreUnder DEF KeysEncrypted, UnderTheLast
  <1>4. ProcsOf(generated)' /\ AddingOf(adding', generated)
    BY ProcsUnder DEF KeysEncrypted, UnderTheLast, AddingOf
  <1> QED  BY <1>3, <1>4, StepUnder DEF KeysEncrypted, UnderTheLast

LEMMA SeedStepUnder ==
    ASSUME TypeOK, UnderTheLast, SeedCompared \/ SeedEncrypted
    PROVE  UnderTheLast'
  <1>0. /\ ContentsOf(mem, generated) /\ ContentsOf(disk, generated) /\ generated' = generated
        /\ mainKey \in {None, generated} /\ AddingOf(adding, generated)
        /\ UNCHANGED <<mainKey, adding>>
    BY DEF UnderTheLast, SeedCompared, SeedEncrypted
  <1>1. proc["addSeed"] \in SeedState
    BY DEF SeedCompared, SeedEncrypted, At, Idle, TypeOK
  <1>2. PICK p : /\ Become("addSeed", p)
                 /\ p.pc = "encrypt" => p.mk = generated
    <2>1. CASE SeedCompared
      <3> DEFINE q == IF mainKey = None THEN Idle
                      ELSE [proc["addSeed"] EXCEPT !.pc = "encrypt", !.mk = mainKey]
      <3>1. Become("addSeed", q)
        BY <2>1 DEF SeedCompared
      <3>2. q.pc = "encrypt" => q.mk = generated
        BY <1>0, <1>1 DEF SeedState, Idle
      <3> HIDE DEF q
      <3> QED  BY <3>1, <3>2
    <2>2. CASE SeedEncrypted
      BY <2>2 DEF SeedEncrypted, Fail, Idle
    <2> QED  BY <2>1, <2>2
  <1>3. /\ proc'["addSeed"] = p
        /\ \A n \in Handlers : proc'[n] = proc[n]
    BY <1>2, HandlerNames DEF Become, TypeOK
  <1>4. ProcsOf(generated)'
    BY <1>0, <1>2, <1>3 DEF ProcsOf, UnderTheLast, InFlight, At
  <1>5. ContentsOf(mem', generated) /\ ContentsOf(disk', generated)
    <2>1. CASE SeedCompared
      BY <1>0, <2>1 DEF SeedCompared
    <2>2. CASE SeedEncrypted
      <3>1. proc["addSeed"].mk = generated
        BY <2>2 DEF SeedEncrypted, UnderTheLast, ProcsOf
      <3>2. SeedsOf(mem.seeds \cup {[name |-> proc["addSeed"].seed, cipher |-> "gcm",
                                      mk |-> proc["addSeed"].mk]}, generated)
        BY <1>0, <3>1 DEF ContentsOf, SeedsOf
      <3> QED  BY <2>2, <3>2, StoreUnder DEF SeedEncrypted
    <2> QED  BY <2>1, <2>2
  <1> QED  BY <1>0, <1>4, <1>5, StepUnder

LEMMA SecretCallsUnder ==
    ASSUME OneKeyInv, SecretCalls
    PROVE  UnderTheLast'
  <1> USE HandlerNames
  <1>0. /\ TypeOK /\ UnderTheLast /\ mem \in Contents /\ disk \in Contents
        /\ ContentsOf(mem, generated) /\ ContentsOf(disk, generated)
        /\ mainKey \in {None, generated} /\ AddingOf(adding, generated)
    BY DEF OneKeyInv, TypeOK, UnderTheLast
  <1>1. ASSUME NEW m \in Unlockers, NEW id, NEW value, NEW next,
               BeginUnlock(m, id, value, next), generated' = generated
        PROVE  ProcsOf(generated)'
    <2>1. PICK e \in Entries(id) :
            Become(m, [Proc("derive", id, value, next) EXCEPT !.secrets = {e}])
      BY <1>1 DEF BeginUnlock
    <2>2. e.mk = generated
      BY <1>0 DEF Entries, ContentsOf, SecretsOf
    <2>3. ProcOf([Proc("derive", id, value, next) EXCEPT !.secrets = {e}], generated)
      BY <2>2 DEF Proc, ProcOf, SecretsOf, KeysIn, SeedsOf
    <2> QED  BY <1>0, <1>1, <2>1, <2>3, BecomeUnder
  <1>2. ASSUME NEW id, NEW v, UnlockWithSecret(id, v) PROVE UnderTheLast'
    <2>1. ProcsOf(generated)'
      BY <1>1, <1>2 DEF UnlockWithSecret, Unlockers
    <2> QED  BY <1>0, <1>2, <2>1, StepUnder DEF UnlockWithSecret
  <1>3. ASSUME NEW id, NEW v, NEW leave \in BOOLEAN, AddSecret(id, v, leave) PROVE UnderTheLast'
    BY <1>3, BeginAddSecretUnder DEF AddSecret, Adders
  <1>4. ASSUME NEW id, RemoveSecret(id) PROVE UnderTheLast'
    <2>1. ContentsOf(mem', generated) /\ ContentsOf(disk', generated) /\ ProcsOf(generated)'
      BY <1>0, <1>4, StoreUnder, ProcsUnder DEF RemoveSecret
    <2> QED  BY <1>0, <1>4, <2>1, StepUnder DEF RemoveSecret
  <1>5. ASSUME NEW old, NEW new, ChangeKeystorePassword(old, new) PROVE UnderTheLast'
    <2> DEFINE m == "changeKeystorePassword"
    <2>1. ProcOf(Proc("check", "password", new, new), generated)
      BY DEF Proc, ProcOf, SecretsOf, KeysIn, SeedsOf
    <2>2. BeginUnlock(m, "password", old, new) \/ Become(m, Proc("check", "password", new, new))
      BY <1>5 DEF ChangeKeystorePassword
    <2>3. ProcsOf(generated)'
      BY <1>0, <1>1, <1>5, <2>1, <2>2, BecomeUnder DEF ChangeKeystorePassword, Unlockers
    <2> QED  BY <1>0, <1>5, <2>3, StepUnder DEF ChangeKeystorePassword
  <1> QED  BY <1>2, <1>3, <1>4, <1>5 DEF SecretCalls

LEMMA PayloadCallsUnder ==
    ASSUME TypeOK, UnderTheLast, PayloadCalls
    PROVE  UnderTheLast'
  <1>0. /\ mem \in Contents /\ disk \in Contents
        /\ ContentsOf(mem, generated) /\ ContentsOf(disk, generated)
        /\ mainKey \in {None, generated} /\ AddingOf(adding, generated)
    BY DEF TypeOK, UnderTheLast
  <1>1. ASSUME NEW names, AddKeys(names) PROVE UnderTheLast'
    <2>1. AddingOf(adding', generated)
      BY <1>0, <1>1 DEF AddKeys, AddingOf, ContentsOf
    <2> QED  BY <1>0, <1>1, <2>1, ProcsUnder, StepUnder DEF AddKeys
  <1>2. ASSUME NEW names, AddKeysExternallyStored(names) PROVE UnderTheLast'
    <2>1. KeysIn(mem.keys \cup ExternalRecords(names), generated)
      BY <1>0 DEF ContentsOf, KeysIn, ExternalRecords
    <2>2. ContentsOf(mem', generated) /\ ContentsOf(disk', generated)
      BY <1>0, <1>2, <2>1, StoreUnder DEF AddKeysExternallyStored
    <2> QED  BY <1>0, <1>2, <2>2, ProcsUnder, StepUnder DEF AddKeysExternallyStored
  <1>3. ASSUME NEW k, RemoveKey(k) PROVE UnderTheLast'
    <2>1. KeysIn({r \in mem.keys : r.name # k}, generated)
      BY <1>0 DEF ContentsOf, KeysIn
    <2>2. ContentsOf(mem', generated) /\ ContentsOf(disk', generated)
      BY <1>3, <2>1, StoreUnder DEF RemoveKey
    <2> QED  BY <1>0, <1>3, <2>2, ProcsUnder, StepUnder DEF RemoveKey
  <1>4. CASE UpdateKeystoreKeys
    <2>1. ContentsOf(mem', generated)
      BY <1>0, <1>4 DEF UpdateKeystoreKeys, ContentsOf, Contents
    <2> QED  BY <1>0, <1>4, <2>1, ProcsUnder, StepUnder DEF UpdateKeystoreKeys
  <1>5. ASSUME NEW s, AddSeed(s) PROVE UnderTheLast'
    <2>1. /\ proc'["addSeed"] = [pc |-> "compare", seed |-> s, mk |-> None]
          /\ \A n \in Handlers : proc'[n] = proc[n]
      BY <1>5, HandlerNames DEF AddSeed, Become, TypeOK
    <2>2. ProcsOf(generated)'
      BY <1>5, <2>1 DEF AddSeed, ProcsOf, UnderTheLast, InFlight, At
    <2> QED  BY <1>0, <1>5, <2>2, StepUnder DEF AddSeed
  <1>6. ASSUME NEW s, DeleteSeed(s) PROVE UnderTheLast'
    <2>1. SeedsOf({r \in mem.seeds : r.name # s}, generated)
      BY <1>0 DEF ContentsOf, SeedsOf
    <2>2. ContentsOf(mem', generated) /\ ContentsOf(disk', generated)
      BY <1>6, <2>1, StoreUnder DEF DeleteSeed
    <2> QED  BY <1>0, <1>6, <2>2, ProcsUnder, StepUnder DEF DeleteSeed
  <1>7. CASE UpdateSeed
    <2>1. ContentsOf(mem', generated) /\ ContentsOf(disk', generated)
      BY <1>0, <1>7, StoreUnder DEF UpdateSeed, ContentsOf
    <2> QED  BY <1>0, <1>7, <2>1, ProcsUnder, StepUnder DEF UpdateSeed
  <1> QED  BY <1>1, <1>2, <1>3, <1>4, <1>5, <1>6, <1>7 DEF PayloadCalls

LEMMA NextUnder ==
    ASSUME OneKeyInv, [Next]_vars
    PROVE  UnderTheLast'
  <1>0. TypeOK /\ UnderTheLast
    BY DEF OneKeyInv
  <1>1. CASE HandlerStep
    BY <1>0, <1>1, UnlockStepUnder, AddStepUnder, ChangeStepUnder, KeysEncryptedUnder,
       SeedStepUnder DEF HandlerStep, Unlockers, Adders
  <1>2. CASE Lock
    BY <1>0, <1>2, ProcsUnder DEF Lock, UnderTheLast
  <1>3. CASE Crash
    <2>1. proc' = [m \in Methods |-> Idle]
      BY <1>3 DEF Crash
    <2>2. \A m \in Methods : proc'[m].pc = "idle"
      BY ONLY <2>1 DEF Idle
    <2>3. ProcsOf(generated)'
      BY <2>2, HandlerNames DEF ProcsOf, InFlight, At
    <2> QED  BY <1>0, <1>3, <2>3 DEF Crash, UnderTheLast, AddingOf
  <1>4. CASE UNCHANGED vars
    BY <1>0, <1>4, ProcsUnder DEF vars, UnderTheLast
  <1> QED  BY <1>0, <1>1, <1>2, <1>3, <1>4, SecretCallsUnder, PayloadCallsUnder DEF Next

\* A step of a handler that may run, and that keeps an unlocked keystore so.
LEMMA BecomeStay ==
    ASSUME TypeOK, Handled, scenario' = scenario, Changing => Changing', NEW m \in Handlers,
        NEW p,
           m = "changeKeystorePassword" => MayChange, Become(m, p),
           p.pc \in Migrators => p.secrets # {} \/ Changing'
    PROVE  Handled'
  <1>1. /\ m \in Methods /\ m # "addSeed" /\ Unlockers \subseteq Methods
        /\ "addSeed" \in Methods /\ "changeKeystorePassword" \in Methods
    BY HandlerNames
  <1>2. proc'[m] = p /\ \A n \in Methods : n # m => proc'[n] = proc[n]
    BY <1>1 DEF Become, TypeOK
  <1> QED  BY <1>1, <1>2 DEF Handled, InFlight, MayChange

LEMMA ProcsStay ==
    ASSUME Handled, UNCHANGED <<scenario, proc>>, Changing => Changing'
    PROVE  Handled'
  BY DEF Handled, InFlight, MayChange

LEMMA SecretsKept ==
    ASSUME SomeSecret, scenario' = scenario, mem'.secrets = mem.secrets,
           disk'.secrets = disk.secrets, Changing => Changing', Untouched => Untouched'
    PROVE  SomeSecret'
  BY DEF SomeSecret, MayChange

LEMMA UnlockStepStay ==
    ASSUME OneKeyInv, NEW m \in Unlockers, UnlockStep(m)
    PROVE  SecretsStay'
  <1> USE HandlerNames
  <1>0. /\ TypeOK /\ UnderTheLast /\ SomeSecret /\ Handled /\ m \in Handlers /\ m # "addSecret"
        /\ mem \in Contents /\ disk \in Contents
    BY DEF OneKeyInv, SecretsStay, TypeOK, Unlockers
  <1>1. proc[m] \in HandlerState /\ InFlight(m) /\ ProcOf(proc[m], generated)
    BY <1>0, FlightOf DEF UnlockStep, WrongSecret, OpenWithLegacySecret, OpenWithSecret,
       SecretMigrated, PersistSecrets, PersistKeys, OnlySecretMigrated, PersistSeeds,
           SeedsPersisted
  <1>2. /\ mem.secrets # {} \/ Changing
        /\ m = "changeKeystorePassword" => MayChange
    BY <1>0, <1>1 DEF SomeSecret, Untouched, Handled, Handlers
  <1>3. scenario' = scenario
    BY DEF UnlockStep, WrongSecret, OpenWithLegacySecret, OpenWithSecret, SecretMigrated,
       PersistSecrets, PersistKeys, OnlySecretMigrated, PersistSeeds, SeedsPersisted, counters
  <1>4. ASSUME NEW e \in proc[m].secrets PROVE e.mk = generated
    BY <1>1 DEF ProcOf, SecretsOf
  <1>5. Changing => Changing'
    BY <1>0, <1>3, <1>4 DEF UnlockStep, WrongSecret, OpenWithLegacySecret, OpenWithSecret,
       SecretMigrated, PersistSecrets, PersistKeys, OnlySecretMigrated, PersistSeeds,
       SeedsPersisted, UnderTheLast, Changing, MayChange
  <1>6. /\ mem'.secrets = mem.secrets \/ (At(m, "secretsStored") /\
         mem'.secrets = proc[m].secrets)
        /\ \/ disk'.secrets = disk.secrets
           \/ At(m, "persistSecrets") /\ disk'.secrets = proc[m].secrets /\
               mem'.secrets = mem.secrets
    BY <1>0 DEF UnlockStep, WrongSecret, OpenWithLegacySecret, OpenWithSecret, SecretMigrated,
       PersistSecrets, PersistKeys, OnlySecretMigrated, PersistSeeds, SeedsPersisted, Contents
  <1>7. proc[m].pc \in Migrators => proc[m].secrets # {} \/ Changing
    BY <1>0 DEF Handled
  <1>8. SomeSecret'
    BY <1>0, <1>2, <1>3, <1>5, <1>6, <1>7 DEF SomeSecret, Changing, MayChange, At, Migrators
  <1>9. EndUnlock(m).pc \notin Migrators
    BY DEF EndUnlock, Idle, Proc, Migrators
  <1>10. ASSUME NEW mk, NEW pc \in Steps
         PROVE  Migrating(proc[m], mk, pc).pc = pc /\
             Migrating(proc[m], mk, pc).secrets = proc[m].secrets
    BY <1>1, <1>10 DEF Migrating, HandlerState
  <1>11. Handled'
    <2>1. CASE OpenWithLegacySecret(m)
      <3>1. PICK e \in proc[m].secrets :
              Become(m, [proc[m] EXCEPT !.pc = "migrateSecret", !.secrets = Reencrypted(e)])
        BY <2>1 DEF OpenWithLegacySecret, Reencrypted
      <3>2. Reencrypted(e) # {} \/ Changing'
        BY <1>2, <1>5 DEF Reencrypted
      <3>3. [proc[m] EXCEPT !.pc = "migrateSecret", !.secrets = Reencrypted(e)].secrets
              = Reencrypted(e)
        BY <1>1 DEF HandlerState
      <3> QED  BY <1>0, <1>2, <1>3, <1>5, <3>1, <3>2, <3>3, BecomeStay
    <2>2. CASE SecretMigrated(m)
      <3>1. /\ proc[m].secrets # {} \/ Changing
            /\ Migrating(proc[m], mainKey, "persistSecrets").secrets = proc[m].secrets
        BY <1>7, <1>10, <2>2 DEF SecretMigrated, At, Migrators, Steps
      <3> QED  BY <1>0, <1>2, <1>3, <1>5, <1>9, <2>2, <3>1, BecomeStay DEF SecretMigrated
    <2>3. CASE PersistSecrets(m)
      <3>1. /\ proc[m].secrets # {} \/ Changing
            /\ [proc[m] EXCEPT !.pc = "secretsStored"].secrets = proc[m].secrets
        BY <1>1, <1>7, <2>3 DEF PersistSecrets, At, Migrators, HandlerState
      <3> QED  BY <1>0, <1>2, <1>3, <1>5, <2>3, <3>1, BecomeStay DEF PersistSecrets
    <2>4. CASE OpenWithSecret(m)
      <3>1. PICK e \in proc[m].secrets :
              Become(m, IF HasMigrated(e.mk) THEN Migrating(proc[m], e.mk, "persistKeys")
                                             ELSE EndUnlock(m))
        BY <2>4 DEF OpenWithSecret
      <3>2. Migrating(proc[m], e.mk, "persistKeys").pc \notin Migrators
        BY <1>10 DEF Migrators, Steps
      <3> QED  BY <1>0, <1>2, <1>3, <1>5, <1>9, <3>1, <3>2, BecomeStay
    <2>5. ASSUME NEW pc \in {"keysStored", "seedsStored"}, Become(m, [proc[m] EXCEPT !.pc = pc])
          PROVE  Handled'
      <3>1. [proc[m] EXCEPT !.pc = pc].pc \notin Migrators
        BY <1>1 DEF HandlerState, Migrators
      <3> QED  BY <1>0, <1>2, <1>3, <1>5, <2>5, <3>1, BecomeStay
    <2>6. CASE WrongSecret(m)
      <3>1. Become(m, Idle) /\ Idle.pc \notin Migrators
        BY <2>6 DEF WrongSecret, Fail, Idle, Migrators
      <3> QED  BY <1>0, <1>2, <1>3, <1>5, <3>1, BecomeStay
    <2>7. CASE OnlySecretMigrated(m) \/ SeedsPersisted(m)
      BY <1>0, <1>2, <1>3, <1>5, <1>9, <2>7, BecomeStay DEF OnlySecretMigrated, SeedsPersisted
    <2>8. CASE PersistKeys(m) \/ PersistSeeds(m)
      BY <2>5, <2>8 DEF PersistKeys, PersistSeeds
    <2> QED  BY <2>1, <2>2, <2>3, <2>4, <2>6, <2>7, <2>8 DEF UnlockStep
  <1> QED  BY <1>8, <1>11 DEF SecretsStay

\* An addSecret ends, or a password change adds its secret.
LEMMA AddStepStay ==
    ASSUME OneKeyInv, NEW m \in Adders, PushSecret(m) \/ BecomeReady(m)
    PROVE  SecretsStay'
  <1> USE HandlerNames
  <1>0. /\ TypeOK /\ UnderTheLast /\ SomeSecret /\ Handled /\ m \in Handlers
        /\ mem \in Contents /\ disk \in Contents
    BY DEF OneKeyInv, SecretsStay, TypeOK
  <1>1. proc[m] \in HandlerState /\ InFlight(m)
    BY <1>0, FlightOf DEF PushSecret, BecomeReady
  <1>2. /\ m = "changeKeystorePassword" => MayChange
        /\ scenario' = scenario /\ (Changing => Changing')
    BY <1>0, <1>1 DEF Handled, PushSecret, BecomeReady, counters, Changing, MayChange
  <1>3. CASE PushSecret(m)
    <2>1. mem'.secrets # {} /\ disk'.secrets # {}
      BY <1>0, <1>3 DEF PushSecret, Contents
    <2>2. [proc[m] EXCEPT !.pc = "secretStored"].pc \notin Migrators
      BY <1>1 DEF HandlerState, Migrators
    <2>3. Handled'
      BY <1>0, <1>2, <1>3, <2>2, BecomeStay DEF PushSecret
    <2> QED  BY <2>1, <2>3 DEF SecretsStay, SomeSecret
  <1>4. CASE BecomeReady(m)
    <2>1. ~Untouched
      BY <1>1, <1>4 DEF Untouched, BecomeReady, At, Adders, Handlers
    <2>2. mem'.secrets = mem.secrets /\ disk'.secrets = disk.secrets
      BY <1>0, <1>4 DEF BecomeReady, Contents
    <2>3. Become(m, Idle) /\ Idle.pc \notin Migrators
      BY <1>4 DEF BecomeReady, Fail, Idle, Migrators
    <2>4. Handled'
      BY <1>0, <1>2, <2>3, BecomeStay
    <2> QED  BY <1>0, <1>2, <2>1, <2>2, <2>4, SecretsKept DEF SecretsStay
  <1> QED  BY <1>3, <1>4

LEMMA ChangeStepStay ==
    ASSUME OneKeyInv, RemoveOldPassword \/ AddNewPassword
    PROVE  SecretsStay'
  <1> USE HandlerNames
  <1> DEFINE m == "changeKeystorePassword"
  <1>0. /\ TypeOK /\ UnderTheLast /\ SomeSecret /\ Handled
        /\ mem \in Contents /\ disk \in Contents /\ mainKey \in {None, generated}
    BY DEF OneKeyInv, SecretsStay, TypeOK, UnderTheLast
  <1>1. proc[m] \in HandlerState /\ InFlight(m)
    BY <1>0, FlightOf DEF RemoveOldPassword, AddNewPassword
  <1>2. MayChange /\ ~Untouched /\ scenario' = scenario
    BY <1>0, <1>1 DEF Handled, Untouched, RemoveOldPassword, AddNewPassword, counters
  <1>3. MayChange'
    BY <1>2 DEF MayChange
  <1>4. Changing => Changing'
    BY <1>2, <1>3 DEF Changing, RemoveOldPassword, AddNewPassword, BeginAddSecret
  <1>5. Handled'
    <2>1. /\ [proc[m] EXCEPT !.pc = "removed"].pc \notin Migrators
          /\ Idle.pc \notin Migrators
          /\ \A value, mk : [Proc("deriveNew", "password", value, value) EXCEPT !.mk = mk].pc
                              \notin Migrators
      BY <1>1 DEF HandlerState, Migrators, Idle, Proc
    <2>2. \/ Become(m, [proc[m] EXCEPT !.pc = "removed"])
          \/ Become(m, Idle)
          \/ \E value, mk : Become(m, [Proc("deriveNew", "password", value,
              value) EXCEPT !.mk = mk])
      BY DEF RemoveOldPassword, AddNewPassword, BeginAddSecret, Fail
    <2> QED  BY <1>0, <1>2, <1>4, <2>1, <2>2, BecomeStay
  <1>6. SomeSecret'
    <2>1. CASE RemoveOldPassword
      BY <1>0, <1>2, <1>3, <2>1 DEF RemoveOldPassword, SomeSecret, Changing
    <2>2. CASE AddNewPassword
      BY <1>0, <1>2, <1>4, <2>2, SecretsKept DEF AddNewPassword
    <2> QED  BY <2>1, <2>2
  <1> QED  BY <1>5, <1>6 DEF SecretsStay

LEMMA PayloadStepStay ==
    ASSUME OneKeyInv, (\E a \in adding : KeysEncrypted(a)) \/ SeedCompared \/ SeedEncrypted
    PROVE  SecretsStay'
  <1>0. /\ TypeOK /\ SomeSecret /\ Handled /\ mem \in Contents /\ disk \in Contents
    BY DEF OneKeyInv, SecretsStay, TypeOK
  <1>1. ~Untouched
    BY HandlerNames DEF Untouched, SeedCompared, SeedEncrypted, At, InFlight
  <1>2. /\ UNCHANGED <<scenario, mainKey>>
        /\ mem'.secrets = mem.secrets /\ disk'.secrets = disk.secrets
    BY <1>0 DEF KeysEncrypted, SeedCompared, SeedEncrypted, StoreKeys, StoreSeeds, Contents,
        counters
  <1>3. \A n \in Handlers : proc'[n] = proc[n]
    BY <1>0, HandlerNames DEF KeysEncrypted, SeedCompared, SeedEncrypted, Fail, Become, TypeOK
  <1>4. InFlight("addSeed")' => InFlight("addSeed")
    BY DEF KeysEncrypted, SeedCompared, SeedEncrypted, At, InFlight
  <1>5. Changing => Changing'
    BY <1>2 DEF Changing, MayChange
  <1>6. Handled'
    BY <1>0, <1>2, <1>3, <1>4, <1>5, HandlerNames DEF Handled, InFlight, MayChange
  <1> QED  BY <1>0, <1>1, <1>2, <1>5, <1>6, SecretsKept DEF SecretsStay

LEMMA SecretCallsStay ==
    ASSUME OneKeyInv, SecretCalls
    PROVE  SecretsStay'
  <1> USE HandlerNames
  <1>0. /\ TypeOK /\ UnderTheLast /\ SomeSecret /\ Handled
        /\ mem \in Contents /\ disk \in Contents /\ mainKey \in {None, generated}
    BY DEF OneKeyInv, SecretsStay, TypeOK, UnderTheLast
  <1>1. ASSUME NEW m \in Unlockers, NEW id, NEW value, NEW next,
               BeginUnlock(m, id, value, next), m = "changeKeystorePassword" => MayChange,
               UNCHANGED <<scenario, disk, mem, mainKey>>
        PROVE  SecretsStay'
    <2>1. PICK e \in Entries(id) :
            Become(m, [Proc("derive", id, value, next) EXCEPT !.secrets = {e}])
      BY <1>1 DEF BeginUnlock
    <2>2. ~Untouched \/ Untouched
      OBVIOUS
    <2>3. mem.secrets # {} /\ (Changing => Changing')
      BY <1>1, <2>1 DEF Entries, Changing, MayChange
    <2>4. [Proc("derive", id, value, next) EXCEPT !.secrets = {e}].pc \notin Migrators
      BY DEF Proc, Migrators
    <2>5. Handled'
      BY <1>0, <1>1, <2>1, <2>3, <2>4, BecomeStay
    <2> QED  BY <1>0, <1>1, <2>3, <2>5 DEF SecretsStay, SomeSecret, MayChange
  <1>2. ASSUME NEW id, NEW v, UnlockWithSecret(id, v) PROVE SecretsStay'
    BY <1>1, <1>2 DEF UnlockWithSecret, Call, Unlockers
  <1>3. ASSUME NEW id, NEW v, NEW leave \in BOOLEAN, AddSecret(id, v, leave) PROVE SecretsStay'
    <2> DEFINE m == "addSecret"
    <2>1. PICK mk : Become(m, [Proc("deriveNew", id, v, v) EXCEPT !.mk = mk])
      BY <1>3 DEF AddSecret, BeginAddSecret
    <2>2. scenario' = scenario /\ (Changing => Changing')
      BY <1>3 DEF AddSecret, BeginAddSecret, Call, Changing, MayChange
    <2>3. [Proc("deriveNew", id, v, v) EXCEPT !.mk = mk].pc = "deriveNew"
      BY DEF Proc
    <2>4. Handled'
      BY <1>0, <2>1, <2>2, <2>3, BecomeStay DEF Migrators
    <2>5. proc'[m].pc = "deriveNew" /\ \A n \in Methods \ {m} : proc'[n] = proc[n]
      BY <1>0, <2>1, <2>3 DEF Become, TypeOK
    <2>6. Untouched => Untouched'
      BY <1>3, <2>2, <2>5 DEF Untouched, AddSecret, MayChange, InFlight, At
    <2> QED  BY <1>0, <1>3, <2>2, <2>4, <2>6, SecretsKept DEF AddSecret, SecretsStay
  <1>4. ASSUME NEW id, Without(id) # {}, RemoveSecret(id) PROVE SecretsStay'
    <2>1. /\ UNCHANGED <<scenario, mainKey, proc>> /\ (Changing => Changing')
          /\ mem'.secrets = Without(id) /\ disk'.secrets = Without(id)
      BY <1>0, <1>4 DEF RemoveSecret, DropSecret, Call, Changing, MayChange, Contents
    <2> QED  BY <1>0, <1>4, <2>1, ProcsStay DEF SecretsStay, SomeSecret
  <1>5. ASSUME NEW old, NEW new, MayChange, ChangeKeystorePassword(old, new) PROVE SecretsStay'
    <2> DEFINE m == "changeKeystorePassword"
    <2>1. UNCHANGED <<scenario, disk, mem, mainKey>> /\ (Changing => Changing') /\ ~Untouched
      BY <1>5 DEF ChangeKeystorePassword, Call, Changing, MayChange, Untouched
    <2>2. CASE BeginUnlock(m, "password", old, new)
      BY <1>1, <1>5, <2>1, <2>2 DEF Unlockers
    <2>3. CASE Become(m, Proc("check", "password", new, new))
      <3>1. Proc("check", "password", new, new).pc \notin Migrators
        BY DEF Proc, Migrators
      <3>2. Handled'
        BY <1>0, <1>5, <2>1, <2>3, <3>1, BecomeStay
      <3> QED  BY <1>0, <2>1, <3>2, SecretsKept DEF SecretsStay
    <2> QED  BY <1>5, <2>2, <2>3 DEF ChangeKeystorePassword
  <1> QED  BY <1>2, <1>3, <1>4, <1>5 DEF SecretCalls, MayChange

LEMMA PayloadCallsStay ==
    ASSUME OneKeyInv, PayloadCalls
    PROVE  SecretsStay'
  <1>0. /\ TypeOK /\ SomeSecret /\ Handled /\ mem \in Contents /\ disk \in Contents
    BY DEF OneKeyInv, SecretsStay, TypeOK
  <1>1. ASSUME NEW s, "addSeed" \in scenario.callable, AddSeed(s) PROVE SecretsStay'
    <2>1. /\ UNCHANGED <<scenario, disk, mem, mainKey>> /\ ~Untouched
          /\ \A n \in Handlers : proc'[n] = proc[n]
      BY <1>0, <1>1, HandlerNames DEF AddSeed, Call, Become, TypeOK, Untouched
    <2>2. Changing => Changing'
      BY <2>1 DEF Changing, MayChange
    <2>3. Handled'
      BY <1>0, <1>1, <2>1, <2>2, HandlerNames DEF Handled, InFlight, MayChange
    <2> QED  BY <1>0, <2>1, <2>2, <2>3, SecretsKept DEF SecretsStay
  <1>2. ASSUME \/ \E names : AddKeys(names) \/ AddKeysExternallyStored(names)
               \/ \E k : RemoveKey(k)
               \/ UpdateKeystoreKeys \/ (\E s : DeleteSeed(s)) \/ UpdateSeed
        PROVE  SecretsStay'
    <2>1. /\ UNCHANGED <<scenario, mainKey, proc, ready>>
          /\ mem'.secrets = mem.secrets /\ disk'.secrets = disk.secrets
      BY <1>0, <1>2 DEF AddKeys, AddKeysExternallyStored, RemoveKey, UpdateKeystoreKeys,
          DeleteSeed,
         UpdateSeed, StoreKeys, StoreSeeds, Call, Contents
    <2>2. Changing => Changing'
      BY <2>1 DEF Changing, MayChange
    <2>3. ASSUME Untouched PROVE Untouched'
      <3>1. adding' = {}
        BY <1>2, <2>3 DEF Untouched, AddKeys, AddKeysExternallyStored, RemoveKey,
           UpdateKeystoreKeys, DeleteSeed, UpdateSeed
      <3>2. mem'.keys \cup disk'.keys \subseteq mem.keys \cup disk.keys
        BY <1>0, <1>2, <2>3 DEF Untouched, AddKeys, AddKeysExternallyStored, RemoveKey,
           UpdateKeystoreKeys, DeleteSeed, UpdateSeed, StoreKeys, StoreSeeds, Contents
      <3>3. mem'.seeds = {} /\ disk'.seeds = {}
        BY <1>0, <1>2, <2>3 DEF Untouched, AddKeys, AddKeysExternallyStored, RemoveKey,
           UpdateKeystoreKeys, DeleteSeed, UpdateSeed, StoreKeys, StoreSeeds, Contents
      <3> QED  BY <2>1, <2>3, <3>1, <3>2, <3>3 DEF Untouched, MayChange, InFlight, At
    <2> QED  BY <1>0, <2>1, <2>2, <2>3, ProcsStay, SecretsKept DEF SecretsStay
  <1> QED  BY <1>1, <1>2 DEF PayloadCalls

LEMMA LockStay ==
    ASSUME OneKeyInv, Lock \/ Crash \/ UNCHANGED vars
    PROVE  SecretsStay'
  <1>0. /\ TypeOK /\ SomeSecret /\ Handled /\ Proper(scenario)
        /\ mem \in Contents /\ disk \in Contents
    BY DEF OneKeyInv, SecretsStay, TypeOK
  <1>1. ASSUME Lock \/ Crash PROVE ~MayChange
    <2>1. locks < scenario.locks \/ crashes < scenario.crashes
      BY <1>1 DEF Lock, Crash
    <2>2. locks \in Nat /\ crashes \in Nat
      BY <1>0 DEF TypeOK
    <2> QED  BY <1>0, <2>1, <2>2 DEF Proper, MayChange
  <1>2. CASE Lock
    <2>1. /\ UNCHANGED <<scenario, proc, mem, disk, adding, ready>> /\ ~Changing
      BY <1>1, <1>2 DEF Lock, Changing
    <2>2. Untouched => Untouched'
      BY <2>1 DEF Untouched, MayChange, InFlight, At
    <2> QED  BY <1>0, <2>1, <2>2, ProcsStay, SecretsKept DEF SecretsStay
  <1>3. CASE Crash
    <2>1. /\ scenario' = scenario /\ ~MayChange /\ disk' = disk /\ mem' = disk /\ adding' = {}
          /\ ready' = (disk.secrets # {}) /\ proc' = [m \in Methods |-> Idle]
      BY <1>1, <1>3 DEF Crash
    <2>2. \A m \in Methods : proc'[m].pc = "idle"
      BY ONLY <2>1 DEF Idle
    <2>3. Handled'
      BY <2>2, HandlerNames DEF Handled, InFlight, Migrators
    <2>4. CASE disk.secrets # {}
      BY <2>1, <2>3, <2>4 DEF SecretsStay, SomeSecret
    <2>5. CASE disk.secrets = {}
      <3>1. Untouched
        BY <1>0, <2>1, <2>5 DEF SomeSecret, Changing
      <3>2. Untouched'
        BY <2>1, <2>2, <3>1, HandlerNames DEF Untouched, MayChange, InFlight
      <3> QED  BY <2>1, <2>3, <2>5, <3>2 DEF SecretsStay, SomeSecret
    <2> QED  BY <2>4, <2>5
  <1>4. CASE UNCHANGED vars
    <2>1. UNCHANGED <<scenario, proc, mem, disk, adding, ready, mainKey>>
      BY <1>4 DEF vars, counters
    <2>2. (Untouched => Untouched') /\ (Changing => Changing')
      BY <2>1 DEF Untouched, Changing, MayChange, InFlight, At
    <2> QED  BY <1>0, <2>1, <2>2, ProcsStay, SecretsKept DEF SecretsStay
  <1> QED  BY <1>2, <1>3, <1>4

LEMMA NextOneKey == OneKeyInv /\ [Next]_vars => OneKeyInv'
  <1> SUFFICES ASSUME OneKeyInv, [Next]_vars PROVE OneKeyInv'
    OBVIOUS
  <1>1. TypeOK'
    BY NextTyped DEF OneKeyInv
  <1>2. UnderTheLast'
    BY NextUnder
  <1>3. SecretsStay'
    <2>1. CASE HandlerStep
      BY <2>1, UnlockStepStay, AddStepStay, ChangeStepStay, PayloadStepStay
         DEF HandlerStep, Unlockers, Adders
    <2> QED  BY <2>1, SecretCallsStay, PayloadCallsStay, LockStay DEF Next
  <1>4. scenario' = scenario
    <2>1. CASE HandlerStep
      BY <2>1 DEF HandlerStep, UnlockStep, WrongSecret, OpenWithLegacySecret, OpenWithSecret,
         SecretMigrated, PersistSecrets, PersistKeys, OnlySecretMigrated, PersistSeeds,
         SeedsPersisted, PushSecret, BecomeReady, RemoveOldPassword, AddNewPassword,
         KeysEncrypted, SeedCompared, SeedEncrypted, counters
    <2>2. CASE SecretCalls
      BY <2>2 DEF SecretCalls, UnlockWithSecret, AddSecret, RemoveSecret,
          ChangeKeystorePassword, Call
    <2>3. CASE PayloadCalls
      BY <2>3 DEF PayloadCalls, AddKeys, AddKeysExternallyStored, RemoveKey, UpdateKeystoreKeys,
         AddSeed, DeleteSeed, UpdateSeed, Call
    <2> QED  BY <2>1, <2>2, <2>3 DEF Next, Lock, Crash, vars, counters
  <1>5. Proper(scenario)'
    BY <1>4 DEF OneKeyInv, Proper
  <1> QED  BY <1>1, <1>2, <1>3, <1>5 DEF OneKeyInv

\* The main key in memory and the ones behind every secret, key and seed, in
\* memory and in the storage, are one and the same, whatever handlers run
\* together and whenever the program is locked or restarted, from any proper
\* storage: addSecret generates a main key only where nothing has one yet.
THEOREM OneMainKeyHolds ==
    ASSUME \A s \in Scenarios : Proper(s)
    PROVE  Spec => []OneMainKey
  <1>1. Init => OneKeyInv
    BY InitOneKey
  <1> QED  BY <1>1, NextOneKey, OneKeySuffices, PTL DEF Spec

LEMMA OneKeyRecoverable ==
    ASSUME OneKeyInv, ~MayChange
    PROVE  KeysRecoverable
  <1>0. /\ UnderTheLast /\ SomeSecret /\ disk \in Contents
    BY DEF OneKeyInv, SecretsStay, TypeOK
  <1>1. ASSUME NEW r \in Ciphertexts(disk) PROVE r.mk = generated /\ ~Untouched
    BY <1>0 DEF UnderTheLast, ContentsOf, KeysIn, SeedsOf, Ciphertexts, Untouched
  <1>2. ASSUME NEW r \in Ciphertexts(disk) PROVE r.mk \in Openers(disk)
    <2>1. PICK e \in disk.secrets : TRUE
      BY <1>0, <1>1 DEF SomeSecret, Changing
    <2>2. e.mk = generated
      BY <1>0 DEF UnderTheLast, ContentsOf, SecretsOf
    <2> QED  BY <1>1, <2>1, <2>2 DEF Openers
  <1> QED  BY <1>2 DEF KeysRecoverable

\* Where the password is not changed, every key and seed in the storage opens
\* with a stored secret at every moment, so also after a restart between any
\* two writes of a migration and of any other handler.
THEOREM RecoverableHolds ==
    ASSUME \A s \in Scenarios : Proper(s) /\ "changeKeystorePassword" \notin s.callable
    PROVE  Spec => []RecoverableBetweenChanges
  <1>1. Init => OneKeyInv
    BY InitOneKey
  <1>2. OneKeyInv => RecoverableBetweenChanges
    BY OneKeyRecoverable DEF OneKeyInv, TypeOK, MayChange, RecoverableBetweenChanges
  <1> QED  BY <1>1, <1>2, NextOneKey, PTL DEF Spec

-----------------------------------------------------------------------------
(* An unlock leaves no payload in the legacy cipher.                       *)

KeyWriters == {"addKeys", "addKeysExternallyStored", "removeKey"}
WritesKeys == scenario.callable \cap KeyWriters # {}

\* No payload of the legacy cipher.
Clean(S) == \A r \in S : r.cipher # "ctr"
CleanContents(c) == Clean(c.keys) /\ Clean(c.seeds)

\* Keys are added and removed only where the migration is behind.
Migratable(s) == CleanContents(s.disk) \/ s.callable \cap KeyWriters = {}

\* Where keys are added and removed nothing is in the legacy cipher, and
\* elsewhere no key waits to be added.
KeysAside ==
    IF WritesKeys
    THEN CleanContents(mem) /\ CleanContents(disk) /\ \A a \in adding : Clean(a.keys)
    ELSE adding = {} /\ pending.internal = {} /\ pending.external = {}

\* A handler that will re-encrypt the keys in memory, or the seeds.
Persisting == {"persistSecrets", "secretsStored", "persistKeys", "keysStored", "seedsStored"}
WillMigrate(m) ==
    \/ proc[m].pc \in {"migrateSecret", "persistKeys", "keysStored"}
    \/ proc[m].pc \in {"persistSecrets", "secretsStored"} /\ proc[m].mk # None

\* What was re-encrypted is stored before it replaces the list in memory, so
\* that a list read from the storage again is not an older one.
StoredFirst ==
    /\ \A m \in Unlockers : proc[m].pc \in Persisting =>
          /\ Clean(proc[m].keys) /\ Clean(proc[m].seeds)
          /\ proc[m].pc \in {"keysStored", "seedsStored"} => Clean(disk.keys)
    /\ Clean(mem.keys) => Clean(disk.keys)

\* While the keystore is unlocked somebody is migrating what is left.
BeingMigrated ==
    mainKey # None =>
        /\ Clean(mem.keys) \/ \E m \in Unlockers : WillMigrate(m)
        /\ Clean(mem.seeds) \/ \E m \in Unlockers : WillMigrate(m) \/ proc[m].pc = "seedsStored"

MigrationInv == KeysAside /\ StoredFirst /\ BeingMigrated

LEMMA CleanUnion ==
    ASSUME NEW S, NEW T, Clean(S), Clean(T)
    PROVE  Clean(S \cup T)
  BY DEF Clean

LEMMA MigratedClean ==
    ASSUME OneKeyInv
    PROVE  /\ Clean(MigratedKeys(generated)) /\ Clean(MigratedSeeds(generated))
           /\ ~HasMigrated(generated) => CleanContents(mem)
  <1>1. /\ mem.keys \in SUBSET KeyRecords /\ mem.seeds \in SUBSET SeedRecords
        /\ SeedsOf(mem.seeds, generated)
    BY DEF OneKeyInv, TypeOK, Contents, UnderTheLast, ContentsOf
  <1>2. ASSUME NEW r \in mem.keys
        PROVE  (IF r.cipher = "ctr"
                THEN [r EXCEPT !.cipher = "gcm",
                               !.mk = IF @ = generated THEN generated ELSE Destroyed]
                ELSE r).cipher # "ctr"
    BY <1>1, <1>2 DEF KeyRecords
  <1>3. ASSUME NEW r \in mem.seeds
        PROVE  (IF r.cipher = "ctr" /\ r.mk = generated THEN [r EXCEPT !.cipher = "gcm"]
                ELSE r).cipher # "ctr"
    BY <1>1, <1>3 DEF SeedRecords, SeedsOf
  <1>4. ASSUME NEW n \in MigratedKeys(generated) PROVE n.cipher # "ctr"
    <2>1. PICK r \in mem.keys :
             n = IF r.cipher = "ctr"
                 THEN [r EXCEPT !.cipher = "gcm",
                                !.mk = IF @ = generated THEN generated ELSE Destroyed]
                 ELSE r
      BY DEF MigratedKeys
    <2> QED  BY <1>2, <2>1
  <1>5. ASSUME NEW n \in MigratedSeeds(generated) PROVE n.cipher # "ctr"
    <2>1. PICK r \in mem.seeds :
             n = IF r.cipher = "ctr" /\ r.mk = generated THEN [r EXCEPT !.cipher = "gcm"] ELSE r
      BY DEF MigratedSeeds
    <2> QED  BY <1>3, <2>1
  <1>6. Clean(MigratedKeys(generated)) /\ Clean(MigratedSeeds(generated))
    BY <1>4, <1>5 DEF Clean
  <1> QED  BY <1>6 DEF HasMigrated, CleanContents

LEMMA InitMigration ==
    ASSUME Init, \A s \in Scenarios : Migratable(s)
    PROVE  MigrationInv
  <1>1. disk = scenario.disk /\ mem = disk /\ mainKey = None /\ adding = {}
        /\ pending = [internal |-> {}, external |-> {}] /\ Migratable(scenario)
    BY DEF Init
  <1>2. \A m \in Unlockers : proc[m].pc = "idle"
    BY HandlerNames DEF Init, Idle
  <1>3. KeysAside
    BY <1>1 DEF KeysAside, WritesKeys, Migratable
  <1>4. StoredFirst
    BY <1>1, <1>2 DEF StoredFirst, Persisting
  <1> QED  BY <1>1, <1>3, <1>4 DEF MigrationInv, BeingMigrated

\* What a step other than a crash does to the payloads: a list that has no
\* legacy cipher keeps none.
KeepsClean ==
    /\ Clean(mem.keys) => Clean(mem'.keys)
    /\ Clean(mem.seeds) => Clean(mem'.seeds)
    /\ Clean(disk.keys) => Clean(disk'.keys)
    /\ Clean(mem'.keys) => Clean(mem.keys) \/ Clean(disk'.keys)
    /\ WritesKeys => Clean(disk'.seeds) /\ \A a \in adding' : Clean(a.keys)
    /\ ~WritesKeys => UNCHANGED <<adding, pending>>

LEMMA KeysStayAside ==
    ASSUME KeysAside, KeepsClean, scenario' = scenario
    PROVE  KeysAside'
  BY DEF KeysAside, KeepsClean, WritesKeys, CleanContents

\* A step that touches no handler that migrates.
LEMMA MigrationKept ==
    ASSUME MigrationInv, KeepsClean, scenario' = scenario,
           mainKey' \in {None, mainKey} \/ CleanContents(mem),
           \A m \in Unlockers :
              \/ proc'[m] = proc[m]
              \/ /\ proc[m].pc \notin Persisting \cup {"migrateSecret"}
                 /\ proc'[m].pc \notin Persisting \cup {"migrateSecret"}
    PROVE  MigrationInv'
  <1>1. \A m \in Unlockers :
           \/ proc'[m] = proc[m]
           \/ ~WillMigrate(m) /\ proc[m].pc # "seedsStored" /\ proc'[m].pc \notin Persisting
    BY DEF WillMigrate, Persisting
  <1>2. KeysAside'
    BY KeysStayAside DEF MigrationInv
  <1>3. StoredFirst'
    BY <1>1 DEF MigrationInv, StoredFirst, KeepsClean
  <1>4. \A m \in Unlockers : /\ WillMigrate(m) => WillMigrate(m)'
                             /\ proc[m].pc = "seedsStored" => proc'[m].pc = "seedsStored"
    BY <1>1 DEF WillMigrate
  <1>5. BeingMigrated'
    <2> SUFFICES ASSUME mainKey' # None
                 PROVE  /\ Clean(mem'.keys) \/ \E m \in Unlockers : WillMigrate(m)'
                        /\ Clean(mem'.seeds)
                           \/ \E m \in Unlockers : WillMigrate(m)' \/ proc'[m].pc = "seedsStored"
      BY DEF BeingMigrated
    <2>1. CASE mainKey' = mainKey
      BY <1>4, <2>1 DEF MigrationInv, BeingMigrated, KeepsClean
    <2>2. CASE CleanContents(mem)
      BY <2>2 DEF KeepsClean, CleanContents
    <2> QED  BY <2>1, <2>2
  <1> QED  BY <1>2, <1>3, <1>5 DEF MigrationInv

\* A step of the handler m that goes on from p to q, and leaves the others.
LEMMA HandlerMigrates ==
    ASSUME TypeOK, MigrationInv, KeepsClean, scenario' = scenario, NEW m \in Unlockers, NEW q,
           Become(m, q),
           q.pc \in Persisting =>
              /\ Clean(q.keys) /\ Clean(q.seeds)
              /\ q.pc \in {"keysStored", "seedsStored"} => Clean(disk'.keys),
           mainKey' # None => mainKey' = mainKey \/ CleanContents(mem) \/ q.pc \in {"migrateSecret", "persistKeys"},
           WillMigrate(m) /\ mainKey' # None =>
              Clean(mem'.keys) \/ q.pc \in {"migrateSecret", "persistKeys", "keysStored"}
                               \/ (q.pc \in {"persistSecrets", "secretsStored"} /\ q.mk # None),
           (WillMigrate(m) \/ proc[m].pc = "seedsStored") /\ mainKey' # None =>
              Clean(mem'.seeds) \/ q.pc \in {"migrateSecret", "persistKeys", "keysStored", "seedsStored"}
                                \/ (q.pc \in {"persistSecrets", "secretsStored"} /\ q.mk # None)
    PROVE  MigrationInv'
  <1>1. proc'[m] = q /\ \A n \in Unlockers : n # m => proc'[n] = proc[n]
    BY HandlerNames DEF Become, TypeOK
  <1>2. KeysAside'
    BY KeysStayAside DEF MigrationInv
  <1>3. StoredFirst'
    BY <1>1 DEF MigrationInv, StoredFirst, KeepsClean
  <1>4. /\ \A n \in Unlockers : n # m /\ WillMigrate(n) => WillMigrate(n)'
        /\ WillMigrate(m)' <=>
              \/ q.pc \in {"migrateSecret", "persistKeys", "keysStored"}
              \/ q.pc \in {"persistSecrets", "secretsStored"} /\ q.mk # None
    BY <1>1 DEF WillMigrate
  <1>5. BeingMigrated'
    <2> SUFFICES ASSUME mainKey' # None
                 PROVE  /\ Clean(mem'.keys) \/ \E n \in Unlockers : WillMigrate(n)'
                        /\ Clean(mem'.seeds)
                           \/ \E n \in Unlockers : WillMigrate(n)' \/ proc'[n].pc = "seedsStored"
      BY DEF BeingMigrated
    <2>1. CASE q.pc \in {"migrateSecret", "persistKeys"}
      BY <1>4, <2>1
    <2>2. CASE CleanContents(mem)
      BY <2>2 DEF KeepsClean, CleanContents
    <2>3. CASE mainKey' = mainKey
      <3>1. Clean(mem.keys) \/ \E n \in Unlockers : WillMigrate(n)
        BY <2>3 DEF MigrationInv, BeingMigrated
      <3>2. Clean(mem.seeds) \/ \E n \in Unlockers : WillMigrate(n) \/ proc[n].pc = "seedsStored"
        BY <2>3 DEF MigrationInv, BeingMigrated
      <3>3. Clean(mem'.keys) \/ \E n \in Unlockers : WillMigrate(n)'
        BY <1>4, <3>1 DEF KeepsClean
      <3>4. Clean(mem'.seeds)
            \/ \E n \in Unlockers : WillMigrate(n)' \/ proc'[n].pc = "seedsStored"
        BY <1>1, <1>4, <3>2 DEF KeepsClean
      <3> QED  BY <3>3, <3>4
    <2> QED  BY <2>1, <2>2, <2>3
  <1> QED  BY <1>2, <1>3, <1>5 DEF MigrationInv

\* A step that leaves the payloads.
LEMMA PayloadsKept ==
    ASSUME MigrationInv, UNCHANGED <<mem, disk, adding, pending>>
    PROVE  KeepsClean
  BY DEF MigrationInv, KeysAside, StoredFirst, KeepsClean, CleanContents

LEMMA UnlockStepMigrates ==
    ASSUME OneKeyInv, MigrationInv, NEW m \in Unlockers, UnlockStep(m)
    PROVE  MigrationInv'
  <1> USE HandlerNames
  <1>0. /\ TypeOK /\ UnderTheLast /\ mem \in Contents /\ disk \in Contents
        /\ mainKey \in {None, generated}
    BY DEF OneKeyInv, TypeOK, UnderTheLast
  <1>10. EndUnlock(m).pc \in {"idle", "check"}
    BY DEF EndUnlock, Idle, Proc
  <1>1. ASSUME WrongSecret(m) PROVE MigrationInv'
    <2>1. KeepsClean
      BY <1>1, PayloadsKept DEF WrongSecret
    <2> QED
      BY <1>0, <1>1, <2>1, HandlerMigrates
         DEF WrongSecret, At, Fail, Idle, Persisting, WillMigrate, counters
  <1>2. ASSUME OpenWithLegacySecret(m) PROVE MigrationInv'
    <2>1. PICK e \in proc[m].secrets :
            Become(m, [proc[m] EXCEPT !.pc = "migrateSecret", !.secrets = Reencrypted(e)])
      BY <1>2 DEF OpenWithLegacySecret, Reencrypted
    <2> DEFINE q == [proc[m] EXCEPT !.pc = "migrateSecret", !.secrets = Reencrypted(e)]
    <2>2. q.pc = "migrateSecret"
      BY <1>0, <1>2, FlightOf DEF OpenWithLegacySecret, HandlerState
    <2>3. KeepsClean /\ scenario' = scenario
      BY <1>2, PayloadsKept DEF OpenWithLegacySecret, counters
    <2> HIDE DEF q
    <2> QED  BY <1>0, <2>1, <2>2, <2>3, HandlerMigrates DEF Persisting, q
  <1>3. ASSUME OpenWithSecret(m) PROVE MigrationInv'
    <2>1. proc[m] \in HandlerState /\ ProcOf(proc[m], generated) /\ proc[m].pc = "derive"
      BY <1>0, <1>3, FlightOf DEF OpenWithSecret, At
    <2>2. PICK e \in proc[m].secrets :
            Become(m, IF HasMigrated(e.mk) THEN Migrating(proc[m], e.mk, "persistKeys")
                                           ELSE EndUnlock(m))
      BY <1>3 DEF OpenWithSecret
    <2>3. e.mk = generated
      BY <2>1 DEF ProcOf, SecretsOf
    <2>4. KeepsClean /\ scenario' = scenario
      BY <1>3, PayloadsKept DEF OpenWithSecret, counters
    <2>5. CASE HasMigrated(generated)
      <3> DEFINE q == Migrating(proc[m], generated, "persistKeys")
      <3>1. q.pc = "persistKeys" /\ q.keys = MigratedKeys(generated)
            /\ q.seeds = MigratedSeeds(generated)
        BY <2>1 DEF Migrating, HandlerState
      <3>2. Clean(q.keys) /\ Clean(q.seeds)
        BY <3>1, MigratedClean
      <3>3. Become(m, q)
        BY <2>2, <2>3, <2>5
      <3> HIDE DEF q
      <3> QED  BY <1>0, <2>4, <3>1, <3>2, <3>3, HandlerMigrates
    <2>6. CASE ~HasMigrated(generated)
      <3>1. CleanContents(mem)
        BY <2>6, MigratedClean
      <3>2. Become(m, EndUnlock(m))
        BY <2>2, <2>3, <2>6
      <3> QED
        BY <1>0, <1>10, <2>1, <2>4, <3>1, <3>2, HandlerMigrates DEF Persisting, WillMigrate
    <2> QED  BY <2>5, <2>6
  <1>4. ASSUME SecretMigrated(m) PROVE MigrationInv'
    <2>1. proc[m] \in HandlerState
      BY <1>0, <1>4, FlightOf DEF SecretMigrated
    <2>2. KeepsClean /\ scenario' = scenario /\ mainKey' = mainKey
      BY <1>4, PayloadsKept DEF SecretMigrated, counters
    <2>3. CASE mainKey = None
      <3>1. Become(m, EndUnlock(m))
        BY <1>4, <2>3 DEF SecretMigrated
      <3> QED  BY <1>0, <1>10, <2>2, <2>3, <3>1, HandlerMigrates DEF Persisting
    <2>4. CASE mainKey # None
      <3> DEFINE q == Migrating(proc[m], generated, "persistSecrets")
      <3>1. mainKey = generated
        BY <1>0, <2>4
      <3>2. /\ q.pc = "persistSecrets" /\ q.keys = MigratedKeys(generated)
            /\ q.seeds = MigratedSeeds(generated)
            /\ HasMigrated(generated) => q.mk # None
        BY <2>1, <2>4, <3>1 DEF Migrating, HandlerState
      <3>3. Clean(q.keys) /\ Clean(q.seeds) /\ (HasMigrated(generated) \/ CleanContents(mem))
        BY <3>2, MigratedClean
      <3>4. Become(m, q)
        BY <1>4, <2>4, <3>1 DEF SecretMigrated
      <3> HIDE DEF q
      <3>5. UNCHANGED mem
        BY <1>4 DEF SecretMigrated
      <3> QED
        BY <1>0, <2>2, <3>2, <3>3, <3>4, <3>5, HandlerMigrates DEF CleanContents
    <2> QED  BY <2>3, <2>4
  <1>5. ASSUME PersistSecrets(m) PROVE MigrationInv'
    <2> DEFINE p == proc[m]
               q == [p EXCEPT !.pc = "secretsStored"]
    <2>1. p \in HandlerState /\ p.pc = "persistSecrets"
      BY <1>0, <1>5, FlightOf DEF PersistSecrets, At
    <2>2. q.pc = "secretsStored" /\ q.keys = p.keys /\ q.seeds = p.seeds /\ q.mk = p.mk
      BY <2>1 DEF HandlerState
    <2>3. Clean(p.keys) /\ Clean(p.seeds)
      BY <2>1 DEF MigrationInv, StoredFirst, Persisting
    <2>4. /\ UNCHANGED <<mem, adding, pending, scenario, mainKey>> /\ Become(m, q)
          /\ disk'.keys = disk.keys /\ disk'.seeds = disk.seeds
      BY <1>0, <1>5 DEF PersistSecrets, counters, Contents
    <2>5. KeepsClean
      BY <2>4 DEF MigrationInv, KeysAside, StoredFirst, KeepsClean, CleanContents
    <2>6. WillMigrate(m) => q.mk # None
      BY <2>1, <2>2 DEF WillMigrate
    <2> HIDE DEF q
    <2> QED  BY <1>0, <2>1, <2>2, <2>3, <2>4, <2>5, <2>6, HandlerMigrates
  <1>6. ASSUME PersistKeys(m) PROVE MigrationInv'
    <2> DEFINE p == proc[m]
               q == [p EXCEPT !.pc = "keysStored"]
    <2>1. p \in HandlerState /\ p.pc \in {"persistKeys", "secretsStored"}
      BY <1>0, <1>6, FlightOf DEF PersistKeys, At
    <2>2. q.pc = "keysStored" /\ q.keys = p.keys /\ q.seeds = p.seeds
      BY <2>1 DEF HandlerState
    <2>3. Clean(p.keys) /\ Clean(p.seeds)
      BY <2>1 DEF MigrationInv, StoredFirst, Persisting
    <2>4. /\ UNCHANGED <<adding, pending, scenario, mainKey>> /\ Become(m, q)
          /\ mem'.keys = mem.keys /\ mem'.seeds = mem.seeds
          /\ disk'.keys = p.keys /\ disk'.seeds = disk.seeds
      BY <1>0, <1>6 DEF PersistKeys, counters, Contents
    <2>5. KeepsClean
      BY <2>3, <2>4 DEF MigrationInv, KeysAside, StoredFirst, KeepsClean, CleanContents
    <2> HIDE DEF q
    <2> QED  BY <1>0, <2>2, <2>3, <2>4, <2>5, HandlerMigrates
  <1>7. ASSUME OnlySecretMigrated(m) PROVE MigrationInv'
    <2>1. proc[m].pc = "secretsStored" /\ proc[m].mk = None
      BY <1>7 DEF OnlySecretMigrated, At
    <2>2. /\ UNCHANGED <<disk, adding, pending, scenario, mainKey>> /\ Become(m, EndUnlock(m))
          /\ mem'.keys = mem.keys /\ mem'.seeds = mem.seeds
      BY <1>0, <1>7 DEF OnlySecretMigrated, counters, Contents
    <2>3. KeepsClean
      BY <2>2 DEF MigrationInv, KeysAside, StoredFirst, KeepsClean, CleanContents
    <2> QED  BY <1>0, <1>10, <2>1, <2>2, <2>3, HandlerMigrates DEF Persisting, WillMigrate
  <1>8. ASSUME PersistSeeds(m) PROVE MigrationInv'
    <2> DEFINE p == proc[m]
               q == [p EXCEPT !.pc = "seedsStored"]
    <2>1. p \in HandlerState /\ p.pc = "keysStored"
      BY <1>0, <1>8, FlightOf DEF PersistSeeds, At
    <2>2. q.pc = "seedsStored" /\ q.keys = p.keys /\ q.seeds = p.seeds
      BY <2>1 DEF HandlerState
    <2>3. Clean(p.keys) /\ Clean(p.seeds) /\ Clean(disk.keys)
      BY <2>1 DEF MigrationInv, StoredFirst, Persisting
    <2>4. /\ UNCHANGED <<adding, pending, scenario, mainKey>> /\ Become(m, q)
          /\ mem'.keys = p.keys /\ mem'.seeds = mem.seeds
          /\ disk'.keys = disk.keys /\ disk'.seeds = p.seeds
      BY <1>0, <1>8 DEF PersistSeeds, counters, Contents
    <2>5. KeepsClean
      BY <2>3, <2>4 DEF MigrationInv, KeysAside, StoredFirst, KeepsClean, CleanContents
    <2> HIDE DEF q
    <2> QED  BY <1>0, <2>2, <2>3, <2>4, <2>5, HandlerMigrates
  <1>9. ASSUME SeedsPersisted(m) PROVE MigrationInv'
    <2>1. proc[m].pc = "seedsStored"
      BY <1>9 DEF SeedsPersisted, At
    <2>2. Clean(proc[m].seeds)
      BY <2>1 DEF MigrationInv, StoredFirst, Persisting
    <2>3. /\ UNCHANGED <<disk, adding, pending, scenario, mainKey>> /\ Become(m, EndUnlock(m))
          /\ mem'.keys = mem.keys /\ mem'.seeds = proc[m].seeds
      BY <1>0, <1>9 DEF SeedsPersisted, counters, Contents
    <2>4. KeepsClean
      BY <2>2, <2>3 DEF MigrationInv, KeysAside, StoredFirst, KeepsClean, CleanContents
    <2> QED  BY <1>0, <1>10, <2>1, <2>2, <2>3, <2>4, HandlerMigrates DEF Persisting, WillMigrate
  <1> QED  BY <1>1, <1>2, <1>3, <1>4, <1>5, <1>6, <1>7, <1>8, <1>9 DEF UnlockStep

\* A handler that does not migrate, before a step or after it.
LEMMA OthersMigrate ==
    ASSUME TypeOK, NEW m \in Methods, NEW q, Become(m, q),
           m \in Unlockers => /\ proc[m].pc \notin Persisting \cup {"migrateSecret"}
                              /\ q.pc \notin Persisting \cup {"migrateSecret"}
    PROVE  \A n \in Unlockers :
              \/ proc'[n] = proc[n]
              \/ /\ proc[n].pc \notin Persisting \cup {"migrateSecret"}
                 /\ proc'[n].pc \notin Persisting \cup {"migrateSecret"}
  BY HandlerNames DEF Become, TypeOK

\* External keys are stored without a private key, in no cipher.
LEMMA ExternalClean ==
    ASSUME NEW names
    PROVE  Clean(ExternalRecords(names))
  BY DEF ExternalRecords, Clean

LEMMA AddStepMigrates ==
    ASSUME OneKeyInv, MigrationInv, NEW m \in Adders, PushSecret(m) \/ BecomeReady(m)
    PROVE  MigrationInv'
  <1> USE HandlerNames
  <1>0. TypeOK /\ mem \in Contents /\ disk \in Contents /\ m \in Methods
    BY DEF OneKeyInv, TypeOK
  <1>1. CASE PushSecret(m)
    <2> DEFINE p == proc[m]
               q == [p EXCEPT !.pc = "secretStored"]
    <2>1. p.pc = "deriveNew" /\ q.pc = "secretStored"
      BY <1>0, <1>1, FlightOf, InFlightTyped DEF PushSecret, At, HandlerState
    <2>2. Become(m, q)
      BY <1>1 DEF PushSecret
    <2>3. /\ UNCHANGED <<adding, pending, scenario, mainKey>>
          /\ mem'.keys = mem.keys /\ mem'.seeds = mem.seeds
          /\ disk'.keys = disk.keys /\ disk'.seeds = disk.seeds
      BY <1>0, <1>1 DEF PushSecret, counters, Contents
    <2>4. KeepsClean
      BY <2>3 DEF MigrationInv, KeysAside, StoredFirst, KeepsClean, CleanContents
    <2> HIDE DEF q
    <2>5. \A n \in Unlockers :
             \/ proc'[n] = proc[n]
             \/ /\ proc[n].pc \notin Persisting \cup {"migrateSecret"}
                /\ proc'[n].pc \notin Persisting \cup {"migrateSecret"}
      BY <1>0, <2>1, <2>2, OthersMigrate DEF Persisting
    <2> QED  BY <2>3, <2>4, <2>5, MigrationKept
  <1>2. CASE BecomeReady(m)
    <2> DEFINE external == ExternalRecords(pending.external)
    <2>1. proc[m].pc = "secretStored" /\ Become(m, Idle) /\ Idle.pc = "idle"
      BY <1>2 DEF BecomeReady, At, Fail, Idle
    <2>2. /\ UNCHANGED <<pending, scenario, mainKey>>
          /\ mem'.keys = mem.keys \cup external /\ mem'.seeds = mem.seeds
          /\ disk'.seeds = disk.seeds
          /\ disk'.keys = IF external = {} THEN disk.keys ELSE mem.keys \cup external
          /\ adding' = IF pending.internal = {} \/ mainKey = None THEN adding
                       ELSE adding \cup {[names |-> pending.internal, keys |-> mem.keys,
                                          mk |-> mainKey, wrapped |-> FALSE]}
      BY <1>0, <1>2 DEF BecomeReady, counters, Contents
    <2>3. Clean(external)
      BY ExternalClean
    <2>4. KeepsClean
      <3>1. CASE WritesKeys
        <4>1. Clean(mem.keys) /\ Clean(mem.seeds) /\ Clean(disk.keys) /\ Clean(disk.seeds)
              /\ \A a \in adding : Clean(a.keys)
          BY <3>1 DEF MigrationInv, KeysAside, CleanContents
        <4>2. Clean(mem'.keys) /\ Clean(disk'.keys)
          BY <2>2, <2>3, <4>1, CleanUnion
        <4>3. \A a \in adding' : Clean(a.keys)
          BY <2>2, <4>1
        <4> QED  BY <2>2, <3>1, <4>1, <4>2, <4>3 DEF KeepsClean
      <3>2. CASE ~WritesKeys
        <4>1. pending.external = {} /\ pending.internal = {}
          BY <3>2 DEF MigrationInv, KeysAside
        <4>2. external = {}
          BY <4>1 DEF ExternalRecords
        <4> QED
          BY <2>2, <3>2, <4>1, <4>2 DEF KeepsClean
      <3> QED  BY <3>1, <3>2
    <2>5. \A n \in Unlockers :
             \/ proc'[n] = proc[n]
             \/ /\ proc[n].pc \notin Persisting \cup {"migrateSecret"}
                /\ proc'[n].pc \notin Persisting \cup {"migrateSecret"}
      BY <1>0, <2>1, OthersMigrate DEF Persisting
    <2> QED  BY <2>2, <2>4, <2>5, MigrationKept
  <1> QED  BY <1>1, <1>2

\* A main key is generated only where nothing is encrypted yet.
LEMMA GeneratedClean ==
    ASSUME OneKeyInv, NEW m, NEW id, NEW value, NEW leave, BeginAddSecret(m, id, value, leave)
    PROVE  mainKey' \in {None, mainKey} \/ CleanContents(mem)
  <1>1. CASE mainKey # None
    BY <1>1 DEF BeginAddSecret
  <1>2. CASE mainKey = None
    <2>1. mem.secrets = {}
      BY <1>2 DEF BeginAddSecret
    <2>2. Untouched
      BY <1>2, <2>1 DEF OneKeyInv, SecretsStay, SomeSecret, Changing
    <2> QED  BY <2>2 DEF Untouched, CleanContents, Clean
  <1> QED  BY <1>1, <1>2

LEMMA BegunAddSecret ==
    ASSUME OneKeyInv, MigrationInv, NEW m \in Adders, NEW id, NEW value, NEW leave \in BOOLEAN,
           BeginAddSecret(m, id, value, leave), UNCHANGED <<disk, mem, adding, pending, scenario>>,
           m \in Unlockers => proc[m].pc \notin Persisting \cup {"migrateSecret"}
    PROVE  MigrationInv'
  <1>1. TypeOK /\ m \in Methods
    BY HandlerNames DEF OneKeyInv
  <1>2. PICK mk : Become(m, [Proc("deriveNew", id, value, value) EXCEPT !.mk = mk])
    BY DEF BeginAddSecret
  <1> DEFINE q == [Proc("deriveNew", id, value, value) EXCEPT !.mk = mk]
  <1>3. q.pc = "deriveNew" /\ Become(m, q)
    BY <1>2 DEF Proc
  <1> HIDE DEF q
  <1>4. \A n \in Unlockers :
           \/ proc'[n] = proc[n]
           \/ /\ proc[n].pc \notin Persisting \cup {"migrateSecret"}
              /\ proc'[n].pc \notin Persisting \cup {"migrateSecret"}
    BY <1>1, <1>3, OthersMigrate DEF Persisting
  <1> QED  BY <1>4, GeneratedClean, PayloadsKept, MigrationKept

LEMMA ChangeStepMigrates ==
    ASSUME OneKeyInv, MigrationInv, RemoveOldPassword \/ AddNewPassword
    PROVE  MigrationInv'
  <1> USE HandlerNames
  <1> DEFINE m == "changeKeystorePassword"
  <1>0. TypeOK /\ mem \in Contents /\ disk \in Contents /\ m \in Methods /\ m \in Adders
    BY DEF OneKeyInv, TypeOK, Adders
  <1>1. CASE RemoveOldPassword
    <2>1. proc[m].pc = "check"
      BY <1>1 DEF RemoveOldPassword, At
    <2>2. proc[m] \in HandlerState
      BY <1>0, <1>1, InFlightTyped DEF RemoveOldPassword
    <2>3. PICK q : Become(m, q) /\ q.pc \in {"removed", "idle"}
      BY <1>1, <2>2 DEF RemoveOldPassword, Fail, Idle, HandlerState
    <2>4. /\ UNCHANGED <<adding, pending, scenario, mainKey>>
          /\ mem'.keys = mem.keys /\ mem'.seeds = mem.seeds
          /\ disk'.keys = disk.keys /\ disk'.seeds = disk.seeds
      BY <1>0, <1>1 DEF RemoveOldPassword, DropSecret, counters, Contents
    <2>5. KeepsClean
      BY <2>4 DEF MigrationInv, KeysAside, StoredFirst, KeepsClean, CleanContents
    <2>6. \A n \in Unlockers :
             \/ proc'[n] = proc[n]
             \/ /\ proc[n].pc \notin Persisting \cup {"migrateSecret"}
                /\ proc'[n].pc \notin Persisting \cup {"migrateSecret"}
      BY <1>0, <2>1, <2>3, OthersMigrate DEF Persisting
    <2> QED  BY <2>4, <2>5, <2>6, MigrationKept
  <1>2. CASE AddNewPassword
    <2>1. proc[m].pc = "removed" /\ UNCHANGED <<disk, mem, adding, pending, scenario>>
      BY <1>2 DEF AddNewPassword, At, counters
    <2>2. CASE BeginAddSecret(m, "password", proc[m].value, TRUE)
      BY <1>0, <2>1, <2>2, BegunAddSecret DEF Persisting
    <2>3. CASE Become(m, Idle) /\ mainKey' = mainKey
      <3>1. \A n \in Unlockers :
               \/ proc'[n] = proc[n]
               \/ /\ proc[n].pc \notin Persisting \cup {"migrateSecret"}
                  /\ proc'[n].pc \notin Persisting \cup {"migrateSecret"}
        BY <1>0, <2>1, <2>3, OthersMigrate DEF Persisting, Idle
      <3> QED  BY <2>1, <2>3, <3>1, PayloadsKept, MigrationKept
    <2> QED  BY <1>2, <2>2, <2>3 DEF AddNewPassword, Fail
  <1> QED  BY <1>1, <1>2

\* Of the other handlers and calls it matters only that none migrates and
\* that none brings the legacy cipher back.
LEMMA KeysEncryptedMigrates ==
    ASSUME OneKeyInv, MigrationInv, NEW a \in adding, KeysEncrypted(a)
    PROVE  MigrationInv'
  <1>0. mem \in Contents /\ disk \in Contents
    BY DEF OneKeyInv, TypeOK
  <1> DEFINE new == {[name |-> k, cipher |-> "gcm", mk |-> a.mk] : k \in a.names \ Names(a.keys)}
  <1>1. /\ adding' = adding \ {a} /\ UNCHANGED <<mainKey, pending, proc, scenario>>
        /\ \/ UNCHANGED <<disk, mem>>
           \/ /\ mem'.keys = a.keys \cup new /\ mem'.seeds = mem.seeds
              /\ disk'.keys = a.keys \cup new /\ disk'.seeds = disk.seeds
    BY <1>0 DEF KeysEncrypted, StoreKeys, counters, Contents
  <1>2. WritesKeys /\ CleanContents(mem) /\ CleanContents(disk) /\ \A b \in adding : Clean(b.keys)
    BY DEF MigrationInv, KeysAside
  <1>3. Clean(a.keys \cup new)
    BY <1>2 DEF Clean
  <1>4. KeepsClean
    BY <1>1, <1>2, <1>3 DEF KeepsClean, CleanContents
  <1> QED  BY <1>1, <1>4, MigrationKept

LEMMA SeedStepMigrates ==
    ASSUME OneKeyInv, MigrationInv, SeedCompared \/ SeedEncrypted
    PROVE  MigrationInv'
  <1>0. TypeOK /\ mem \in Contents /\ disk \in Contents
    BY DEF OneKeyInv, TypeOK
  <1>1. PICK q : Become("addSeed", q)
    BY DEF SeedCompared, SeedEncrypted, Fail
  <1>2. \A n \in Unlockers : proc'[n] = proc[n]
    BY <1>0, <1>1, HandlerNames DEF Become, TypeOK
  <1>3. UNCHANGED <<mainKey, pending, adding, scenario>>
    BY DEF SeedCompared, SeedEncrypted, counters
  <1>4. KeepsClean
    <2>1. CASE UNCHANGED <<mem, disk>>
      BY <1>3, <2>1, PayloadsKept
    <2>2. CASE SeedEncrypted
      <3> DEFINE seeds == mem.seeds \cup {[name |-> proc["addSeed"].seed, cipher |-> "gcm",
                                           mk |-> proc["addSeed"].mk]}
      <3>1. /\ mem'.keys = mem.keys /\ mem'.seeds = seeds
            /\ disk'.keys = disk.keys /\ disk'.seeds = seeds
        BY <1>0, <2>2 DEF SeedEncrypted, StoreSeeds, Contents
      <3>2. Clean(mem.seeds) => Clean(seeds)
        BY DEF Clean
      <3> QED
        BY <1>3, <3>1, <3>2
           DEF MigrationInv, KeysAside, StoredFirst, KeepsClean, CleanContents
    <2> QED  BY <2>1, <2>2 DEF SeedCompared
  <1> QED  BY <1>2, <1>3, <1>4, MigrationKept

LEMMA SecretCallsMigrate ==
    ASSUME OneKeyInv, MigrationInv, SecretCalls
    PROVE  MigrationInv'
  <1> USE HandlerNames
  <1>0. TypeOK /\ mem \in Contents /\ disk \in Contents
    BY DEF OneKeyInv, TypeOK
  <1>1. ASSUME NEW m \in Unlockers, NEW q, q.pc \in {"derive", "check"}, Become(m, q), ~InFlight(m),
               UNCHANGED <<disk, mem, mainKey, pending, adding, scenario>>
        PROVE  MigrationInv'
    <2>1. \A n \in Unlockers :
             \/ proc'[n] = proc[n]
             \/ /\ proc[n].pc \notin Persisting \cup {"migrateSecret"}
                /\ proc'[n].pc \notin Persisting \cup {"migrateSecret"}
      BY <1>0, <1>1, OthersMigrate DEF InFlight, Persisting
    <2> QED  BY <1>1, <2>1, PayloadsKept, MigrationKept
  <1>2. ASSUME NEW m, NEW id, NEW value, NEW next, BeginUnlock(m, id, value, next)
        PROVE  \E q : q.pc = "derive" /\ Become(m, q)
    <2>1. PICK e \in Entries(id) :
            Become(m, [Proc("derive", id, value, next) EXCEPT !.secrets = {e}])
      BY <1>2 DEF BeginUnlock
    <2>2. [Proc("derive", id, value, next) EXCEPT !.secrets = {e}].pc = "derive"
      BY DEF Proc
    <2> QED  BY <2>1, <2>2
  <1>3. ASSUME NEW id, NEW v, UnlockWithSecret(id, v) PROVE MigrationInv'
    <2>1. "unlockWithSecret" \in Unlockers
      BY DEF Unlockers
    <2>2. PICK q : q.pc = "derive" /\ Become("unlockWithSecret", q)
      BY <1>2, <1>3 DEF UnlockWithSecret
    <2> QED  BY <1>1, <1>3, <2>1, <2>2 DEF UnlockWithSecret, Call
  <1>4. ASSUME NEW id, NEW v, NEW leave \in BOOLEAN, AddSecret(id, v, leave) PROVE MigrationInv'
    BY <1>4, BegunAddSecret DEF AddSecret, Adders, Unlockers, Call
  <1>5. ASSUME NEW id, RemoveSecret(id) PROVE MigrationInv'
    <2>1. /\ UNCHANGED <<mainKey, pending, proc, adding, scenario>>
          /\ mem'.keys = mem.keys /\ mem'.seeds = mem.seeds
          /\ disk'.keys = disk.keys /\ disk'.seeds = disk.seeds
      BY <1>0, <1>5 DEF RemoveSecret, DropSecret, Call, Contents
    <2>2. KeepsClean
      BY <2>1 DEF MigrationInv, KeysAside, StoredFirst, KeepsClean, CleanContents
    <2> QED  BY <2>1, <2>2, MigrationKept
  <1>6. ASSUME NEW old, NEW new, ChangeKeystorePassword(old, new) PROVE MigrationInv'
    <2>1. "changeKeystorePassword" \in Unlockers /\ ~InFlight("changeKeystorePassword")
      BY <1>6 DEF Unlockers, ChangeKeystorePassword, NothingInFlight, Methods
    <2>2. PICK q : q.pc \in {"derive", "check"} /\ Become("changeKeystorePassword", q)
      BY <1>2, <1>6 DEF ChangeKeystorePassword, Proc
    <2> QED  BY <1>1, <1>6, <2>1, <2>2 DEF ChangeKeystorePassword, Call
  <1> QED  BY <1>3, <1>4, <1>5, <1>6 DEF SecretCalls

LEMMA PayloadCallsMigrate ==
    ASSUME OneKeyInv, MigrationInv, PayloadCalls
    PROVE  MigrationInv'
  <1>0. TypeOK /\ mem \in Contents /\ disk \in Contents
    BY DEF OneKeyInv, TypeOK
  <1>8. ASSUME KeepsClean, UNCHANGED <<mainKey, proc, scenario>> PROVE MigrationInv'
    BY <1>8, MigrationKept
  <1>9. WritesKeys => Clean(mem.keys) /\ Clean(mem.seeds) /\ Clean(disk.keys) /\ Clean(disk.seeds)
                       /\ \A a \in adding : Clean(a.keys)
    BY DEF MigrationInv, KeysAside, CleanContents
  <1>1. ASSUME NEW names, "addKeys" \in scenario.callable, AddKeys(names) PROVE MigrationInv'
    <2>1. WritesKeys
      BY <1>1 DEF WritesKeys, KeyWriters
    <2>2. KeepsClean
      BY <1>1, <1>9, <2>1 DEF AddKeys, KeepsClean
    <2> QED  BY <1>1, <1>8, <2>2 DEF AddKeys, Call
  <1>2. ASSUME NEW names, "addKeysExternallyStored" \in scenario.callable,
               AddKeysExternallyStored(names)
        PROVE  MigrationInv'
    <2>1. WritesKeys
      BY <1>2 DEF WritesKeys, KeyWriters
    <2>2. Clean(mem.keys \cup ExternalRecords(names))
      BY <1>9, <2>1, ExternalClean, CleanUnion
    <2>3. /\ mem'.keys \in {mem.keys, mem.keys \cup ExternalRecords(names)}
          /\ disk'.keys \in {disk.keys, mem.keys \cup ExternalRecords(names)}
          /\ mem'.seeds = mem.seeds /\ disk'.seeds = disk.seeds /\ adding' = adding
      BY <1>0, <1>2 DEF AddKeysExternallyStored, StoreKeys, Contents
    <2>4. KeepsClean
      BY <1>9, <2>1, <2>2, <2>3 DEF KeepsClean
    <2> QED  BY <1>2, <1>8, <2>4 DEF AddKeysExternallyStored, Call
  <1>3. ASSUME NEW k, "removeKey" \in scenario.callable, RemoveKey(k) PROVE MigrationInv'
    <2>1. WritesKeys
      BY <1>3 DEF WritesKeys, KeyWriters
    <2> DEFINE left == {r \in mem.keys : r.name # k}
    <2>2. Clean(left)
      BY <1>9, <2>1 DEF Clean
    <2>3. /\ mem'.keys = left /\ disk'.keys = left
          /\ mem'.seeds = mem.seeds /\ disk'.seeds = disk.seeds /\ adding' = adding
      BY <1>0, <1>3 DEF RemoveKey, StoreKeys, Contents
    <2>4. KeepsClean
      BY <1>9, <2>1, <2>2, <2>3 DEF KeepsClean
    <2> QED  BY <1>3, <1>8, <2>4 DEF RemoveKey, Call
  <1>4. CASE UpdateKeystoreKeys
    <2>1. /\ mem'.keys = disk.keys /\ mem'.seeds = mem.seeds
          /\ UNCHANGED <<disk, adding, pending>>
      BY <1>0, <1>4 DEF UpdateKeystoreKeys, Contents
    <2>2. KeepsClean
      BY <1>9, <2>1 DEF KeepsClean, MigrationInv, StoredFirst
    <2> QED  BY <1>4, <1>8, <2>2 DEF UpdateKeystoreKeys, Call
  <1>5. ASSUME NEW s, AddSeed(s) PROVE MigrationInv'
    <2>1. \A n \in Unlockers : proc'[n] = proc[n]
      BY <1>0, <1>5, HandlerNames DEF AddSeed, Become, TypeOK
    <2>2. UNCHANGED <<mem, disk, mainKey, pending, adding, scenario>>
      BY <1>5 DEF AddSeed, Call
    <2> QED  BY <2>1, <2>2, PayloadsKept, MigrationKept
  <1>6. ASSUME NEW s, DeleteSeed(s) PROVE MigrationInv'
    <2> DEFINE left == {r \in mem.seeds : r.name # s}
    <2>1. Clean(mem.seeds) => Clean(left)
      BY DEF Clean
    <2>2. /\ mem'.keys = mem.keys /\ disk'.keys = disk.keys
          /\ mem'.seeds = left /\ disk'.seeds = left /\ UNCHANGED <<adding, pending>>
      BY <1>0, <1>6 DEF DeleteSeed, StoreSeeds, Contents
    <2>3. KeepsClean
      BY <1>9, <2>1, <2>2 DEF KeepsClean, MigrationInv, StoredFirst
    <2> QED  BY <1>6, <1>8, <2>3 DEF DeleteSeed, Call
  <1>7. CASE UpdateSeed
    <2>1. /\ mem'.keys = mem.keys /\ disk'.keys = disk.keys
          /\ mem'.seeds = mem.seeds /\ disk'.seeds = mem.seeds /\ UNCHANGED <<adding, pending>>
      BY <1>0, <1>7 DEF UpdateSeed, StoreSeeds, Contents
    <2>2. KeepsClean
      BY <1>9, <2>1 DEF KeepsClean, MigrationInv, StoredFirst
    <2> QED  BY <1>7, <1>8, <2>2 DEF UpdateSeed, Call
  <1> QED  BY <1>1, <1>2, <1>3, <1>4, <1>5, <1>6, <1>7 DEF PayloadCalls

LEMMA NextMigrates ==
    ASSUME OneKeyInv, MigrationInv, [Next]_vars
    PROVE  MigrationInv'
  <1>1. CASE HandlerStep
    BY <1>1, UnlockStepMigrates, AddStepMigrates, ChangeStepMigrates, KeysEncryptedMigrates,
       SeedStepMigrates DEF HandlerStep, Unlockers, Adders
  <1>2. CASE Lock
    <2>1. UNCHANGED <<mem, disk, adding, pending, proc, scenario>> /\ mainKey' = None
      BY <1>2 DEF Lock
    <2> QED  BY <2>1, PayloadsKept, MigrationKept
  <1>3. CASE Crash
    <2>1. /\ mem' = disk /\ disk' = disk /\ mainKey' = None /\ adding' = {} /\ scenario' = scenario
          /\ pending' = [internal |-> {}, external |-> {}]
          /\ proc' = [m \in Methods |-> Idle]
      BY <1>3 DEF Crash
    <2>2. \A m \in Methods : proc'[m].pc = "idle"
      BY ONLY <2>1 DEF Idle
    <2>3. KeysAside'
      BY <2>1 DEF MigrationInv, KeysAside, WritesKeys
    <2>4. StoredFirst'
      BY <2>1, <2>2, HandlerNames DEF StoredFirst, Persisting
    <2> QED  BY <2>1, <2>3, <2>4 DEF MigrationInv, BeingMigrated
  <1>4. CASE UNCHANGED vars
    <2>1. UNCHANGED <<mem, disk, adding, pending, proc, scenario, mainKey>>
      BY <1>4 DEF vars, counters
    <2> QED  BY <2>1, PayloadsKept, MigrationKept
  <1> QED  BY <1>1, <1>2, <1>3, <1>4, SecretCallsMigrate, PayloadCallsMigrate DEF Next

\* Once an unlock is over no payload is in the legacy, unauthenticated cipher,
\* whatever locks, restarts and other handlers interrupted the migrations
\* before it (#unlockWithSecret, migrateStoredPayloadsToGCM), where keys are
\* added and removed only after the migration.
THEOREM MigrationCompleteHolds ==
    ASSUME \A s \in Scenarios : Proper(s) /\ Migratable(s)
    PROVE  Spec => []MigrationComplete
  <1>1. Init => OneKeyInv /\ MigrationInv
    BY InitOneKey, InitMigration
  <1>2. OneKeyInv /\ MigrationInv /\ [Next]_vars => (OneKeyInv /\ MigrationInv)'
    BY NextOneKey, NextMigrates
  <1>3. OneKeyInv /\ MigrationInv => MigrationComplete
    <2> SUFFICES ASSUME OneKeyInv, MigrationInv, mainKey # None,
                        \A m \in Methods : ~InFlight(m), NEW r \in Ciphertexts(mem)
                 PROVE  r.cipher = "gcm"
      BY DEF MigrationComplete
    <2>1. \A m \in Unlockers : proc[m].pc = "idle"
      BY HandlerNames DEF InFlight
    <2>2. Clean(mem.keys) /\ Clean(mem.seeds)
      BY <2>1 DEF MigrationInv, BeingMigrated, WillMigrate
    <2>3. mem.keys \subseteq KeyRecords /\ mem.seeds \subseteq SeedRecords
      BY DEF OneKeyInv, TypeOK, Contents
    <2> QED  BY <2>2, <2>3 DEF Ciphertexts, Clean, KeyRecords, SeedRecords, Ciphers
  <1> QED  BY <1>1, <1>2, <1>3, PTL DEF Spec

-----------------------------------------------------------------------------
(* Internal keys stay in the storage until they are removed.               *)

\* p, a handler that stores migrated keys, does not lose a key.
StoresAllKeys(p) ==
    p.pc \in Persisting =>
        IF WritesKeys THEN p.pc \in {"persistSecrets", "secretsStored"} /\ p.mk = None
                      ELSE Names(p.keys) = Names(disk.keys)

\* Where keys are added and removed nothing is migrated; where something is,
\* every list of keys has the same names.
ListsAgree ==
    /\ IF WritesKeys THEN mem.keys = disk.keys ELSE Names(mem.keys) = Names(disk.keys)
    /\ \A m \in Unlockers : StoresAllKeys(proc[m])

\* Where no key waits for the first secret at most one #addKeys is in flight,
\* and it knows of every internal key that is stored.
OneAdding ==
    WritesKeys /\ pending.internal = {} =>
        /\ \A a, b \in adding : a = b
        /\ \A a \in adding : a.wrapped /\ Names(disk.keys) \cap Keys \subseteq Names(a.keys)

KeysInv == ListsAgree /\ OneAdding

\* A step that loses no internal key.
KeepsKeys == pending.internal = {} => Names(disk.keys) \cap Keys \subseteq Names(disk'.keys)

LEMMA InitKeys == Init => KeysInv
  <1> SUFFICES ASSUME Init PROVE KeysInv
    OBVIOUS
  <1>1. mem = disk /\ adding = {}
    BY DEF Init
  <1>2. \A m \in Unlockers : proc[m].pc = "idle"
    BY HandlerNames DEF Init, Idle
  <1> QED  BY <1>1, <1>2 DEF KeysInv, ListsAgree, OneAdding, StoresAllKeys, Persisting

LEMMA MigratedNames ==
    ASSUME TypeOK, NEW mk
    PROVE  /\ Names(MigratedKeys(mk)) = Names(mem.keys)
           /\ CleanContents(mem) => ~HasMigrated(mk)
  <1> DEFINE New(r) == IF r.cipher = "ctr"
                       THEN [r EXCEPT !.cipher = "gcm", !.mk = IF @ = mk THEN mk ELSE Destroyed]
                       ELSE r
             NewSeed(r) == IF r.cipher = "ctr" /\ r.mk = mk THEN [r EXCEPT !.cipher = "gcm"] ELSE r
  <1>1. MigratedKeys(mk) = {New(r) : r \in mem.keys}
    BY DEF MigratedKeys
  <1>2. \A r \in mem.keys : New(r).name = r.name /\ (r.cipher # "ctr" => New(r) = r)
    BY DEF TypeOK, Contents, KeyRecords
  <1>3. MigratedSeeds(mk) = {NewSeed(r) : r \in mem.seeds}
    BY DEF MigratedSeeds
  <1>4. \A r \in mem.seeds : r.cipher # "ctr" => NewSeed(r) = r
    OBVIOUS
  <1> HIDE DEF New, NewSeed
  <1>5. Names(MigratedKeys(mk)) = Names(mem.keys)
    BY <1>1, <1>2 DEF Names
  <1>6. CleanContents(mem) => MigratedKeys(mk) = mem.keys /\ MigratedSeeds(mk) = mem.seeds
    BY <1>1, <1>2, <1>3, <1>4 DEF CleanContents, Clean
  <1> QED  BY <1>5, <1>6 DEF HasMigrated

\* A step that leaves the lists of keys, and what stores them.
LEMMA KeysUntouched ==
    ASSUME KeysInv, UNCHANGED <<adding, pending, scenario>>,
           mem'.keys = mem.keys, disk'.keys = disk.keys,
           \A m \in Unlockers : proc'[m] = proc[m] \/ proc'[m].pc \notin Persisting
    PROVE  KeysInv' /\ KeepsKeys
  <1>1. WritesKeys' <=> WritesKeys
    BY DEF WritesKeys
  <1>2. \A m \in Unlockers : StoresAllKeys(proc[m])'
    BY <1>1 DEF KeysInv, ListsAgree, StoresAllKeys
  <1>3. ListsAgree'
    BY <1>1, <1>2 DEF KeysInv, ListsAgree
  <1>4. OneAdding'
    BY <1>1 DEF KeysInv, OneAdding
  <1> QED  BY <1>3, <1>4 DEF KeysInv, KeepsKeys

\* A step of the unlocker m that goes on to q.
LEMMA UnlockerKeeps ==
    ASSUME TypeOK, KeysInv, NEW m \in Unlockers, NEW q, Become(m, q),
           UNCHANGED <<adding, pending, scenario>>,
           WritesKeys =>
              /\ mem'.keys = mem.keys /\ disk'.keys = disk.keys
              /\ q.pc \in Persisting => q.pc \in {"persistSecrets", "secretsStored"} /\ q.mk = None,
           ~WritesKeys =>
              /\ Names(mem'.keys) = Names(mem.keys) /\ Names(disk'.keys) = Names(disk.keys)
              /\ q.pc \in Persisting => Names(q.keys) = Names(disk.keys)
    PROVE  KeysInv' /\ KeepsKeys
  <1>1. proc'[m] = q /\ \A n \in Unlockers : n # m => proc'[n] = proc[n]
    BY HandlerNames DEF Become, TypeOK
  <1>2. WritesKeys' <=> WritesKeys
    BY DEF WritesKeys
  <1>3. Names(disk'.keys) = Names(disk.keys)
    OBVIOUS
  <1>4. \A n \in Unlockers : StoresAllKeys(proc[n])'
    BY <1>1, <1>2, <1>3 DEF KeysInv, ListsAgree, StoresAllKeys
  <1>5. ListsAgree'
    BY <1>2, <1>4 DEF KeysInv, ListsAgree
  <1>6. OneAdding'
    BY <1>2, <1>3 DEF KeysInv, OneAdding
  <1> QED  BY <1>3, <1>5, <1>6 DEF KeysInv, KeepsKeys

\* What an unlock is about to store after it looked for payloads to migrate.
LEMMA AboutToStore ==
    ASSUME TypeOK, MigrationInv, KeysInv, NEW p \in HandlerState, NEW mk, NEW pc
    PROVE  LET q == Migrating(p, mk, pc)
           IN  /\ q.pc = pc /\ q.keys = MigratedKeys(mk)
               /\ Names(q.keys) = Names(mem.keys)
               /\ WritesKeys => q.mk = None /\ ~HasMigrated(mk)
  <1>1. WritesKeys => ~HasMigrated(mk)
    BY MigratedNames DEF MigrationInv, KeysAside
  <1> QED  BY <1>1, MigratedNames DEF Migrating, HandlerState

LEMMA UnlockStepKeepsKeys ==
    ASSUME OneKeyInv, MigrationInv, KeysInv, NEW m \in Unlockers, UnlockStep(m)
    PROVE  KeysInv' /\ KeepsKeys
  <1> USE HandlerNames
  <1>0. /\ TypeOK /\ UnderTheLast /\ mem \in Contents /\ disk \in Contents
    BY DEF OneKeyInv, TypeOK
  <1>10. EndUnlock(m).pc \notin Persisting /\ Idle.pc \notin Persisting
    BY DEF EndUnlock, Idle, Proc, Persisting
  <1>11. ~WritesKeys => Names(mem.keys) = Names(disk.keys)
    BY DEF KeysInv, ListsAgree
  <1>1. ASSUME WrongSecret(m) PROVE KeysInv' /\ KeepsKeys
    BY <1>0, <1>1, <1>10, UnlockerKeeps DEF WrongSecret, Fail, counters
  <1>2. ASSUME OpenWithLegacySecret(m) PROVE KeysInv' /\ KeepsKeys
    <2>1. PICK e \in proc[m].secrets :
            Become(m, [proc[m] EXCEPT !.pc = "migrateSecret", !.secrets = Reencrypted(e)])
      BY <1>2 DEF OpenWithLegacySecret, Reencrypted
    <2> DEFINE q == [proc[m] EXCEPT !.pc = "migrateSecret", !.secrets = Reencrypted(e)]
    <2>2. q.pc \notin Persisting
      BY <1>0, <1>2, FlightOf DEF OpenWithLegacySecret, HandlerState, Persisting
    <2>3. UNCHANGED <<disk, mem, adding, pending, scenario>>
      BY <1>2 DEF OpenWithLegacySecret, counters
    <2> HIDE DEF q
    <2> QED  BY <1>0, <2>1, <2>2, <2>3, UnlockerKeeps DEF q
  <1>3. ASSUME OpenWithSecret(m) PROVE KeysInv' /\ KeepsKeys
    <2>1. proc[m] \in HandlerState
      BY <1>0, <1>3, FlightOf DEF OpenWithSecret
    <2>2. PICK e \in proc[m].secrets :
            Become(m, IF HasMigrated(e.mk) THEN Migrating(proc[m], e.mk, "persistKeys")
                                           ELSE EndUnlock(m))
      BY <1>3 DEF OpenWithSecret
    <2>3. UNCHANGED <<disk, mem, adding, pending, scenario>>
      BY <1>3 DEF OpenWithSecret, counters
    <2>4. CASE HasMigrated(e.mk)
      <3> DEFINE q == Migrating(proc[m], e.mk, "persistKeys")
      <3>1. Names(q.keys) = Names(mem.keys) /\ ~WritesKeys
        BY <1>0, <2>1, <2>4, AboutToStore
      <3>2. Become(m, q)
        BY <2>2, <2>4
      <3> HIDE DEF q
      <3> QED  BY <1>0, <1>11, <2>3, <3>1, <3>2, UnlockerKeeps
    <2>5. CASE ~HasMigrated(e.mk)
      BY <1>0, <1>10, <2>2, <2>3, <2>5, UnlockerKeeps
    <2> QED  BY <2>4, <2>5
  <1>4. ASSUME SecretMigrated(m) PROVE KeysInv' /\ KeepsKeys
    <2>1. proc[m] \in HandlerState
      BY <1>0, <1>4, FlightOf DEF SecretMigrated
    <2>2. UNCHANGED <<disk, mem, adding, pending, scenario>>
      BY <1>4 DEF SecretMigrated, counters
    <2>3. CASE mainKey = None
      BY <1>0, <1>4, <1>10, <2>2, <2>3, UnlockerKeeps DEF SecretMigrated
    <2>4. CASE mainKey # None
      <3> DEFINE q == Migrating(proc[m], mainKey, "persistSecrets")
      <3>1. Names(q.keys) = Names(mem.keys) /\ q.pc = "persistSecrets" /\ (WritesKeys => q.mk = None)
        BY <1>0, <2>1, AboutToStore
      <3>2. Become(m, q)
        BY <1>4, <2>4 DEF SecretMigrated
      <3> HIDE DEF q
      <3> QED  BY <1>0, <1>11, <2>2, <3>1, <3>2, UnlockerKeeps
    <2> QED  BY <2>3, <2>4
  <1>5. ASSUME NEW pc \in Persisting, NEW next \in Persisting, At(m, pc),
               Become(m, [proc[m] EXCEPT !.pc = next]),
               next \in {"persistSecrets", "secretsStored"} \/ ~WritesKeys,
               UNCHANGED <<adding, pending, scenario>>,
               mem'.keys \in {mem.keys, proc[m].keys}, disk'.keys \in {disk.keys, proc[m].keys},
               WritesKeys => mem'.keys = mem.keys /\ disk'.keys = disk.keys
        PROVE  KeysInv' /\ KeepsKeys
    <2> DEFINE q == [proc[m] EXCEPT !.pc = next]
    <2>1. proc[m] \in HandlerState /\ proc[m].pc \in Persisting
      BY <1>0, <1>5, FlightOf DEF Persisting, At
    <2>2. q.pc = next /\ q.keys = proc[m].keys /\ q.mk = proc[m].mk
      BY <2>1 DEF HandlerState
    <2>3. StoresAllKeys(proc[m])
      BY DEF KeysInv, ListsAgree
    <2> HIDE DEF q
    <2> QED  BY <1>0, <1>5, <1>11, <2>1, <2>2, <2>3, UnlockerKeeps DEF StoresAllKeys, q
  <1>6. ASSUME PersistSecrets(m) PROVE KeysInv' /\ KeepsKeys
    <2>1. /\ UNCHANGED <<mem, adding, pending, scenario>> /\ disk'.keys = disk.keys
      BY <1>0, <1>6 DEF PersistSecrets, counters, Contents
    <2> QED  BY <1>5, <1>6, <2>1 DEF PersistSecrets, Persisting
  <1>7. ASSUME PersistKeys(m) PROVE KeysInv' /\ KeepsKeys
    <2>1. /\ UNCHANGED <<adding, pending, scenario>> /\ mem'.keys = mem.keys
          /\ disk'.keys = proc[m].keys
      BY <1>0, <1>7 DEF PersistKeys, counters, Contents
    <2>2. StoresAllKeys(proc[m])
      BY DEF KeysInv, ListsAgree
    <2>3. ~WritesKeys
      BY <1>7, <2>2 DEF PersistKeys, StoresAllKeys, Persisting, At
    <2>4. \E pc \in Persisting : At(m, pc)
      BY <1>7 DEF PersistKeys, Persisting
    <2> QED  BY <1>5, <1>7, <2>1, <2>3, <2>4 DEF PersistKeys, Persisting
  <1>8. ASSUME OnlySecretMigrated(m) PROVE KeysInv' /\ KeepsKeys
    <2>1. UNCHANGED <<disk, adding, pending, scenario>> /\ mem'.keys = mem.keys
      BY <1>0, <1>8 DEF OnlySecretMigrated, counters, Contents
    <2> QED  BY <1>0, <1>8, <1>10, <2>1, UnlockerKeeps DEF OnlySecretMigrated
  <1>9. ASSUME PersistSeeds(m) PROVE KeysInv' /\ KeepsKeys
    <2>1. UNCHANGED <<adding, pending, scenario>> /\ mem'.keys = proc[m].keys
          /\ disk'.keys = disk.keys
      BY <1>0, <1>9 DEF PersistSeeds, counters, Contents
    <2>2. StoresAllKeys(proc[m])
      BY DEF KeysInv, ListsAgree
    <2>3. ~WritesKeys
      BY <1>9, <2>2 DEF PersistSeeds, StoresAllKeys, Persisting, At
    <2> QED  BY <1>5, <1>9, <2>1, <2>3 DEF PersistSeeds, Persisting
  <1>12. ASSUME SeedsPersisted(m) PROVE KeysInv' /\ KeepsKeys
    <2>1. UNCHANGED <<disk, adding, pending, scenario>> /\ mem'.keys = mem.keys
      BY <1>0, <1>12 DEF SeedsPersisted, counters, Contents
    <2> QED  BY <1>0, <1>10, <1>12, <2>1, UnlockerKeeps DEF SeedsPersisted
  <1> QED  BY <1>1, <1>2, <1>3, <1>4, <1>6, <1>7, <1>8, <1>9, <1>12 DEF UnlockStep

\* A step that writes the list of keys, in memory and in the storage, and
\* adds no internal key to it.
LEMMA KeysWritten ==
    ASSUME KeysInv, WritesKeys, UNCHANGED <<pending, scenario>>, mem'.keys = disk'.keys,
           \A m \in Unlockers : proc'[m] = proc[m] \/ proc'[m].pc \notin Persisting,
           pending.internal = {} =>
              adding' = adding /\ Names(disk'.keys) \cap Keys \subseteq Names(disk.keys)
    PROVE  KeysInv'
  <1>1. WritesKeys'
    BY DEF WritesKeys
  <1>2. \A m \in Unlockers : StoresAllKeys(proc[m])'
    BY <1>1 DEF KeysInv, ListsAgree, StoresAllKeys
  <1>3. ListsAgree'
    BY <1>1, <1>2 DEF ListsAgree
  <1>4. OneAdding'
    <2> SUFFICES ASSUME pending.internal = {}
                 PROVE  /\ \A a, b \in adding : a = b
                        /\ \A a \in adding :
                              a.wrapped /\ Names(disk'.keys) \cap Keys \subseteq Names(a.keys)
      BY DEF OneAdding
    <2> QED  BY DEF KeysInv, OneAdding
  <1> QED  BY <1>3, <1>4 DEF KeysInv

\* The records of external keys name no internal one.
LEMMA ExternalNames ==
    ASSUME NEW names \in SUBSET ExternalKeys
    PROVE  Names(mem.keys \cup ExternalRecords(names)) \cap Keys = Names(mem.keys) \cap Keys
  <1>1. \A r \in ExternalRecords(names) : r.name \notin Keys
    BY KindsAssumption DEF ExternalRecords
  <1> HIDE DEF ExternalRecords
  <1> QED  BY <1>1 DEF Names

LEMMA AddStepKeepsKeys ==
    ASSUME OneKeyInv, MigrationInv, KeysInv, NEW m \in Adders, PushSecret(m) \/ BecomeReady(m)
    PROVE  KeysInv' /\ KeepsKeys
  <1> USE HandlerNames
  <1>0. TypeOK /\ mem \in Contents /\ disk \in Contents /\ m \in Methods
    BY DEF OneKeyInv, TypeOK
  <1>1. CASE PushSecret(m)
    <2> DEFINE q == [proc[m] EXCEPT !.pc = "secretStored"]
    <2>1. q.pc = "secretStored" /\ Become(m, q)
      BY <1>0, <1>1, FlightOf, InFlightTyped DEF PushSecret, At, HandlerState
    <2>2. /\ UNCHANGED <<adding, pending, scenario>>
          /\ mem'.keys = mem.keys /\ disk'.keys = disk.keys
      BY <1>0, <1>1 DEF PushSecret, counters, Contents
    <2> HIDE DEF q
    <2>3. \A n \in Unlockers : proc'[n] = proc[n] \/ proc'[n].pc \notin Persisting
      BY <1>0, <2>1 DEF Become, TypeOK, Persisting
    <2> QED  BY <2>2, <2>3, KeysUntouched
  <1>2. CASE BecomeReady(m)
    <2> DEFINE external == ExternalRecords(pending.external)
    <2>1. \A n \in Unlockers : proc'[n] = proc[n] \/ proc'[n].pc \notin Persisting
      BY <1>0, <1>2 DEF BecomeReady, Fail, Become, TypeOK, Persisting, Idle
    <2>2. /\ UNCHANGED <<pending, scenario>>
          /\ mem'.keys = mem.keys \cup external
          /\ disk'.keys = IF external = {} THEN disk.keys ELSE mem.keys \cup external
          /\ pending.internal = {} => adding' = adding
      BY <1>0, <1>2 DEF BecomeReady, counters, Contents
    <2>3. CASE WritesKeys
      <3>1. mem.keys = disk.keys
        BY <2>3 DEF KeysInv, ListsAgree
      <3>2. pending.external \in SUBSET ExternalKeys
        BY <1>0 DEF TypeOK
      <3>3. Names(mem.keys \cup external) \cap Keys = Names(mem.keys) \cap Keys
        BY <3>2, ExternalNames
      <3> HIDE DEF external
      <3>4. mem'.keys = disk'.keys /\ disk'.keys = mem.keys \cup external
        BY <2>2, <3>1
      <3> QED  BY <2>1, <2>2, <2>3, <3>1, <3>3, <3>4, KeysWritten DEF KeepsKeys
    <2>4. CASE ~WritesKeys
      <3>1. external = {} /\ pending.internal = {}
        BY <2>4 DEF MigrationInv, KeysAside, ExternalRecords
      <3> QED  BY <2>1, <2>2, <3>1, KeysUntouched
    <2> QED  BY <2>3, <2>4
  <1> QED  BY <1>1, <1>2

\* The handlers that leave the lists of keys.
LEMMA OthersKeepKeys ==
    ASSUME TypeOK, KeysInv, NEW m \in Methods, NEW q, Become(m, q),
           m \in Unlockers => q.pc \notin Persisting,
           UNCHANGED <<adding, pending, scenario>>,
           mem'.keys = mem.keys, disk'.keys = disk.keys
    PROVE  KeysInv' /\ KeepsKeys
  <1>1. \A n \in Unlockers : proc'[n] = proc[n] \/ proc'[n].pc \notin Persisting
    BY HandlerNames DEF Become, TypeOK
  <1> QED  BY <1>1, KeysUntouched

LEMMA BegunAddSecretKeepsKeys ==
    ASSUME TypeOK, KeysInv, NEW m \in Adders, NEW id, NEW value, NEW leave,
           BeginAddSecret(m, id, value, leave), UNCHANGED <<disk, mem, adding, pending, scenario>>
    PROVE  KeysInv' /\ KeepsKeys
  <1>1. PICK mk : Become(m, [Proc("deriveNew", id, value, value) EXCEPT !.mk = mk])
    BY DEF BeginAddSecret
  <1> DEFINE q == [Proc("deriveNew", id, value, value) EXCEPT !.mk = mk]
  <1>2. q.pc = "deriveNew" /\ Become(m, q)
    BY <1>1 DEF Proc
  <1> HIDE DEF q
  <1> QED  BY <1>2, HandlerNames, OthersKeepKeys DEF Persisting

LEMMA ChangeStepKeepsKeys ==
    ASSUME OneKeyInv, KeysInv, RemoveOldPassword \/ AddNewPassword
    PROVE  KeysInv' /\ KeepsKeys
  <1> USE HandlerNames
  <1> DEFINE m == "changeKeystorePassword"
  <1>0. TypeOK /\ mem \in Contents /\ disk \in Contents /\ m \in Methods /\ m \in Adders
    BY DEF OneKeyInv, TypeOK, Adders
  <1>1. CASE RemoveOldPassword
    <2>1. proc[m] \in HandlerState
      BY <1>0, <1>1, InFlightTyped DEF RemoveOldPassword
    <2>2. PICK q : Become(m, q) /\ q.pc \in {"removed", "idle"}
      BY <1>1, <2>1 DEF RemoveOldPassword, Fail, Idle, HandlerState
    <2>3. /\ UNCHANGED <<adding, pending, scenario>>
          /\ mem'.keys = mem.keys /\ disk'.keys = disk.keys
      BY <1>0, <1>1 DEF RemoveOldPassword, DropSecret, counters, Contents
    <2> QED  BY <1>0, <2>2, <2>3, OthersKeepKeys DEF Persisting
  <1>2. CASE AddNewPassword
    <2>1. UNCHANGED <<disk, mem, adding, pending, scenario>>
      BY <1>2 DEF AddNewPassword, counters
    <2>2. CASE BeginAddSecret(m, "password", proc[m].value, TRUE)
      BY <1>0, <2>1, <2>2, BegunAddSecretKeepsKeys
    <2>3. CASE Become(m, Idle)
      BY <1>0, <2>1, <2>3, OthersKeepKeys DEF Persisting, Idle
    <2> QED  BY <1>2, <2>2, <2>3 DEF AddNewPassword, Fail
  <1> QED  BY <1>1, <1>2

\* #addKeys writes its list of keys, and the new ones: it knows all the
\* internal keys stored, unless some waited for the first secret.
LEMMA KeysEncryptedKeepsKeys ==
    ASSUME OneKeyInv, MigrationInv, KeysInv, NEW a \in adding, KeysEncrypted(a)
    PROVE  KeysInv' /\ KeepsKeys
  <1>0. mem \in Contents /\ disk \in Contents
    BY DEF OneKeyInv, TypeOK
  <1> DEFINE new == {[name |-> k, cipher |-> "gcm", mk |-> a.mk] : k \in a.names \ Names(a.keys)}
  <1>1. /\ adding' = adding \ {a} /\ UNCHANGED <<pending, proc, scenario>>
        /\ \/ UNCHANGED <<disk, mem>>
           \/ mem'.keys = a.keys \cup new /\ disk'.keys = a.keys \cup new
    BY <1>0 DEF KeysEncrypted, StoreKeys, counters, Contents
  <1>2. WritesKeys /\ mem.keys = disk.keys
    BY DEF MigrationInv, KeysAside, KeysInv, ListsAgree
  <1>3. Names(a.keys) \subseteq Names(a.keys \cup new)
    BY DEF Names
  <1> HIDE DEF new
  <1>4. WritesKeys' /\ mem'.keys = disk'.keys
    BY <1>1, <1>2 DEF WritesKeys
  <1>5. ListsAgree'
    BY <1>1, <1>2, <1>4 DEF KeysInv, ListsAgree, StoresAllKeys
  <1>6. pending.internal = {} => adding' = {}
    BY <1>1, <1>2 DEF KeysInv, OneAdding
  <1>7. OneAdding'
    BY <1>1, <1>6 DEF OneAdding
  <1>8. KeepsKeys
    BY <1>1, <1>2, <1>3 DEF KeepsKeys, KeysInv, OneAdding
  <1> QED  BY <1>5, <1>7, <1>8 DEF KeysInv

LEMMA SeedStepKeepsKeys ==
    ASSUME OneKeyInv, KeysInv, SeedCompared \/ SeedEncrypted
    PROVE  KeysInv' /\ KeepsKeys
  <1>0. TypeOK /\ mem \in Contents /\ disk \in Contents
    BY DEF OneKeyInv, TypeOK
  <1>1. PICK q : Become("addSeed", q)
    BY DEF SeedCompared, SeedEncrypted, Fail
  <1>2. UNCHANGED <<pending, adding, scenario>>
    BY DEF SeedCompared, SeedEncrypted, counters
  <1>3. mem'.keys = mem.keys /\ disk'.keys = disk.keys
    BY <1>0 DEF SeedCompared, SeedEncrypted, StoreSeeds, Contents
  <1>4. "addSeed" \in Methods /\ "addSeed" \notin Unlockers
    BY HandlerNames
  <1> QED  BY <1>0, <1>1, <1>2, <1>3, <1>4, OthersKeepKeys

LEMMA SecretCallsKeepKeys ==
    ASSUME OneKeyInv, KeysInv, SecretCalls
    PROVE  KeysInv' /\ KeepsKeys
  <1> USE HandlerNames
  <1>0. TypeOK /\ mem \in Contents /\ disk \in Contents
    BY DEF OneKeyInv, TypeOK
  <1>1. ASSUME NEW m \in Unlockers, NEW q, q.pc \in {"derive", "check"}, Become(m, q),
               UNCHANGED <<disk, mem, pending, adding, scenario>>
        PROVE  KeysInv' /\ KeepsKeys
    BY <1>0, <1>1, OthersKeepKeys DEF Persisting
  <1>2. ASSUME NEW m, NEW id, NEW value, NEW next, BeginUnlock(m, id, value, next)
        PROVE  \E q : q.pc = "derive" /\ Become(m, q)
    <2>1. PICK e \in Entries(id) :
            Become(m, [Proc("derive", id, value, next) EXCEPT !.secrets = {e}])
      BY <1>2 DEF BeginUnlock
    <2>2. [Proc("derive", id, value, next) EXCEPT !.secrets = {e}].pc = "derive"
      BY DEF Proc
    <2> QED  BY <2>1, <2>2
  <1>3. ASSUME NEW id, NEW v, UnlockWithSecret(id, v) PROVE KeysInv' /\ KeepsKeys
    <2>1. "unlockWithSecret" \in Unlockers
      BY DEF Unlockers
    <2>2. PICK q : q.pc = "derive" /\ Become("unlockWithSecret", q)
      BY <1>2, <1>3 DEF UnlockWithSecret
    <2> QED  BY <1>1, <1>3, <2>1, <2>2 DEF UnlockWithSecret, Call
  <1>4. ASSUME NEW id, NEW v, NEW leave, AddSecret(id, v, leave) PROVE KeysInv' /\ KeepsKeys
    BY <1>0, <1>4, BegunAddSecretKeepsKeys DEF AddSecret, Adders, Call
  <1>5. ASSUME NEW id, RemoveSecret(id) PROVE KeysInv' /\ KeepsKeys
    <2>1. /\ UNCHANGED <<pending, proc, adding, scenario>>
          /\ mem'.keys = mem.keys /\ disk'.keys = disk.keys
      BY <1>0, <1>5 DEF RemoveSecret, DropSecret, Call, Contents
    <2> QED  BY <2>1, KeysUntouched
  <1>6. ASSUME NEW old, NEW new, ChangeKeystorePassword(old, new) PROVE KeysInv' /\ KeepsKeys
    <2>1. "changeKeystorePassword" \in Unlockers
      BY DEF Unlockers
    <2>2. PICK q : q.pc \in {"derive", "check"} /\ Become("changeKeystorePassword", q)
      BY <1>2, <1>6 DEF ChangeKeystorePassword, Proc
    <2> QED  BY <1>1, <1>6, <2>1, <2>2 DEF ChangeKeystorePassword, Call
  <1> QED  BY <1>3, <1>4, <1>5, <1>6 DEF SecretCalls

\* A step loses no internal key but the one it removes.
LosesNoOther ==
    pending.internal = {} =>
        \A k \in (Names(disk.keys) \ Names(disk'.keys)) \cap Keys : RemoveKey(k)

LEMMA PayloadCallsKeepKeys ==
    ASSUME OneKeyInv, MigrationInv, KeysInv, PayloadCalls
    PROVE  KeysInv' /\ LosesNoOther
  <1>0. TypeOK /\ mem \in Contents /\ disk \in Contents
    BY DEF OneKeyInv, TypeOK
  <1>8. KeepsKeys => LosesNoOther
    BY DEF KeepsKeys, LosesNoOther
  <1>9. WritesKeys => mem.keys = disk.keys
    BY DEF KeysInv, ListsAgree
  <1>1. ASSUME NEW names \in (SUBSET Keys) \ {{}}, "addKeys" \in scenario.callable, AddKeys(names)
        PROVE  KeysInv' /\ LosesNoOther
    <2>1. WritesKeys /\ WritesKeys' /\ UNCHANGED <<disk, mem, proc, scenario>>
      BY <1>1 DEF WritesKeys, KeyWriters, AddKeys, Call
    <2>2. ListsAgree'
      BY <2>1 DEF KeysInv, ListsAgree, StoresAllKeys
    <2>3. CASE pending' = [pending EXCEPT !.internal = @ \cup names]
      <3>1. pending'.internal # {}
        BY <1>0, <1>1, <2>3 DEF TypeOK
      <3>2. OneAdding'
        BY <3>1 DEF OneAdding
      <3>3. KeepsKeys
        BY <2>1 DEF KeepsKeys
      <3> QED  BY <1>8, <2>2, <3>2, <3>3 DEF KeysInv
    <2>4. CASE /\ pending' = pending
               /\ adding' = adding \cup {[names |-> names, keys |-> mem.keys,
                                          mk |-> mainKey, wrapped |-> TRUE]}
      <3> DEFINE new == [names |-> names, keys |-> mem.keys, mk |-> mainKey, wrapped |-> TRUE]
      <3>1. new.wrapped /\ new.keys = disk.keys
        BY <1>9, <2>1
      <3>2. pending.internal = {} => adding = {}
        BY <1>1, <2>1 DEF AddKeys, KeysInv, OneAdding
      <3>3. pending.internal = {} => adding' = {new}
        BY <2>4, <3>2
      <3> HIDE DEF new
      <3>4. ASSUME pending.internal = {}
            PROVE  \A a \in adding' : a = new
        BY <3>3, <3>4
      <3>5. OneAdding'
        BY <2>1, <2>4, <3>1, <3>4 DEF OneAdding
      <3> QED  BY <1>8, <2>1, <2>2, <3>5 DEF KeysInv, KeepsKeys
    <2> QED  BY <1>1, <2>3, <2>4 DEF AddKeys
  <1>2. ASSUME NEW names \in SUBSET ExternalKeys, "addKeysExternallyStored" \in scenario.callable,
               AddKeysExternallyStored(names)
        PROVE  KeysInv' /\ LosesNoOther
    <2>1. WritesKeys
      BY <1>2 DEF WritesKeys, KeyWriters
    <2>2. UNCHANGED <<proc, adding, scenario>>
      BY <1>2 DEF AddKeysExternallyStored, Call
    <2>3. CASE /\ pending' = pending
               /\ mem'.keys = mem.keys \cup ExternalRecords(names)
               /\ disk'.keys = mem.keys \cup ExternalRecords(names)
      <3>1. Names(disk'.keys) \cap Keys = Names(disk.keys) \cap Keys
        BY <1>9, <2>1, <2>3, ExternalNames
      <3> QED  BY <1>8, <2>1, <2>2, <2>3, <3>1, KeysWritten DEF KeepsKeys
    <2>4. CASE /\ UNCHANGED <<disk, mem>>
               /\ pending' = [pending EXCEPT !.external = @ \cup names]
      <3>1. pending'.internal = pending.internal
        BY <1>0, <2>4 DEF TypeOK
      <3>2. WritesKeys'
        BY <2>1, <2>2 DEF WritesKeys
      <3> QED
        BY <1>8, <2>1, <2>2, <2>4, <3>1, <3>2
           DEF KeysInv, ListsAgree, StoresAllKeys, OneAdding, KeepsKeys
    <2> QED
      BY <1>0, <1>2, <2>3, <2>4 DEF AddKeysExternallyStored, StoreKeys, Contents
  <1>3. ASSUME NEW k, "removeKey" \in scenario.callable, RemoveKey(k)
        PROVE  KeysInv' /\ LosesNoOther
    <2> DEFINE left == {r \in mem.keys : r.name # k}
    <2>1. WritesKeys
      BY <1>3 DEF WritesKeys, KeyWriters
    <2>2. /\ mem'.keys = left /\ disk'.keys = left /\ UNCHANGED <<proc, pending, adding, scenario>>
      BY <1>0, <1>3 DEF RemoveKey, StoreKeys, Contents, Call
    <2>3. Names(left) = Names(disk.keys) \ {k}
      BY <1>9, <2>1 DEF Names
    <2> HIDE DEF left
    <2>4. KeysInv'
      BY <2>1, <2>2, <2>3, KeysWritten
    <2>5. \A l \in Names(disk.keys) \ Names(disk'.keys) : l = k
      BY <2>2, <2>3
    <2> QED  BY <1>3, <2>4, <2>5 DEF LosesNoOther
  <1>4. CASE UpdateKeystoreKeys
    <2>1. /\ mem'.keys = disk.keys /\ UNCHANGED <<disk, proc, pending, adding, scenario>>
      BY <1>0, <1>4 DEF UpdateKeystoreKeys, Contents, Call
    <2>2. ~WritesKeys /\ ~WritesKeys'
      BY <1>4, <1>9, <2>1 DEF UpdateKeystoreKeys, WritesKeys
    <2> QED
      BY <1>8, <2>1, <2>2 DEF KeysInv, ListsAgree, StoresAllKeys, OneAdding, KeepsKeys
  <1>5. ASSUME NEW s, AddSeed(s) PROVE KeysInv' /\ LosesNoOther
    <2>1. UNCHANGED <<mem, disk, pending, adding, scenario>>
      BY <1>5 DEF AddSeed, Call
    <2>2. \E q : Become("addSeed", q)
      BY <1>5 DEF AddSeed
    <2> QED  BY <1>0, <1>8, <2>1, <2>2, HandlerNames, OthersKeepKeys
  <1>6. ASSUME (\E s : DeleteSeed(s)) \/ UpdateSeed PROVE KeysInv' /\ LosesNoOther
    <2>1. /\ mem'.keys = mem.keys /\ disk'.keys = disk.keys
          /\ UNCHANGED <<proc, pending, adding, scenario>>
      BY <1>0, <1>6 DEF DeleteSeed, UpdateSeed, StoreSeeds, Contents, Call
    <2> QED  BY <1>8, <2>1, KeysUntouched
  <1> QED  BY <1>1, <1>2, <1>3, <1>4, <1>5, <1>6 DEF PayloadCalls

LEMMA NextKeys ==
    ASSUME OneKeyInv, MigrationInv, KeysInv, [Next]_vars
    PROVE  KeysInv' /\ LosesNoOther
  <1>0. KeepsKeys => LosesNoOther
    BY DEF KeepsKeys, LosesNoOther
  <1>1. CASE HandlerStep
    <2>1. KeysInv' /\ KeepsKeys
      BY <1>1, UnlockStepKeepsKeys, AddStepKeepsKeys, ChangeStepKeepsKeys, KeysEncryptedKeepsKeys,
         SeedStepKeepsKeys DEF HandlerStep, Unlockers, Adders
    <2> QED  BY <1>0, <2>1
  <1>2. CASE Lock \/ UNCHANGED vars
    <2>1. UNCHANGED <<mem, disk, adding, pending, proc, scenario>>
      BY <1>2 DEF Lock, vars, counters
    <2> QED  BY <1>0, <2>1, KeysUntouched
  <1>3. CASE Crash
    <2>1. mem' = disk /\ disk' = disk /\ adding' = {} /\ proc' = [m \in Methods |-> Idle]
      BY <1>3 DEF Crash
    <2>2. \A m \in Methods : proc'[m].pc = "idle"
      BY ONLY <2>1 DEF Idle
    <2> QED
      BY <1>0, <2>1, <2>2, HandlerNames
         DEF KeysInv, ListsAgree, OneAdding, StoresAllKeys, Persisting, KeepsKeys
  <1>4. CASE SecretCalls
    BY <1>0, <1>4, SecretCallsKeepKeys
  <1> QED  BY <1>1, <1>2, <1>3, <1>4, PayloadCallsKeepKeys DEF Next

\* An internal key leaves the storage only when it is removed: no migration,
\* no #addKeys and no key added meanwhile writes a list without it, where keys
\* are added and removed only after the migration and none had to wait for
\* the first secret.
THEOREM InternalKeysStayHolds ==
    ASSUME \A s \in Scenarios : Proper(s) /\ Migratable(s)
    PROVE  Spec => InternalKeysStay
  <1>1. Init => OneKeyInv /\ MigrationInv /\ KeysInv
    BY InitOneKey, InitMigration, InitKeys
  <1>2. OneKeyInv /\ MigrationInv /\ KeysInv /\ [Next]_vars
        => (OneKeyInv /\ MigrationInv /\ KeysInv)'
    BY NextOneKey, NextMigrates, NextKeys
  <1>3. OneKeyInv /\ MigrationInv /\ KeysInv /\ [Next]_vars
        => [pending.internal = {} =>
              \A k \in (Names(disk.keys) \ Names(disk'.keys)) \cap Keys : RemoveKey(k)]_vars
    BY NextKeys DEF LosesNoOther
  <1> QED  BY <1>1, <1>2, <1>3, PTL DEF Spec, InternalKeysStay
=============================================================================
