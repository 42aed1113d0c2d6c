----------------------------- MODULE MC_Keystore -----------------------------
(***************************************************************************)
(* Instances of Keystore for TLC: the storages a run starts on and the     *)
(* methods it calls.                                                       *)
(***************************************************************************)
EXTENDS Keystore

Secret(id, value, cipher) == [id |-> id, value |-> value, cipher |-> cipher, mk |-> 1]
Payload(name, cipher) == [name |-> name, cipher |-> cipher, mk |-> 1]

Empty == [secrets |-> {}, keys |-> {}, seeds |-> {}]

\* A version before GCM, with a second secret; a migration of the secret that
\* a crash cut short; and a migration the password went through and the
\* second secret did not.
Legacy == [secrets |-> {Secret("password", "v1", "ctr"), Secret("recovery", "v2", "ctr")},
           keys |-> {Payload("k1", "ctr")}, seeds |-> {Payload("s1", "ctr")}]
HalfMigrated == [Legacy EXCEPT !.secrets = {Secret("password", "v1", "gcm")}]
OneSecretMigrated ==
    [secrets |-> {Secret("password", "v1", "gcm"), Secret("recovery", "v2", "ctr")},
     keys |-> {Payload("k1", "gcm")}, seeds |-> {Payload("s1", "gcm")}]
Current == [OneSecretMigrated EXCEPT !.secrets = {Secret("password", "v1", "gcm")}]

MigrationCalls == {"unlockWithSecret", "addSecret", "removeSecret", "addSeed", "updateSeed",
                   "deleteSeed", "updateKeystoreKeys"}
KeyCalls == {"unlockWithSecret", "addSecret", "addKeys", "removeKey", "updateKeystoreKeys"}
ChangeCalls == {"unlockWithSecret", "addSecret", "removeSecret", "changeKeystorePassword",
                "addSeed", "deleteSeed"}
FirstSecretCalls == {"unlockWithSecret", "addSecret", "addKeys", "addKeysExternallyStored", "removeKey"}

Explore(contents, callable, callBound, lockBound, crashBound) ==
    [disk |-> contents, callable |-> callable,
     calls |-> callBound, locks |-> lockBound, crashes |-> crashBound]

AllScenarios ==
    {Explore(contents, MigrationCalls, 5, 1, 1) : contents \in {Legacy, HalfMigrated, OneSecretMigrated}}
        \cup {Explore(Current, KeyCalls, 5, 1, 1),
              Explore(Empty, FirstSecretCalls, 5, 1, 1),
              Explore(Current, ChangeCalls, 5, 0, 0)}

ChangeAndCrash == {Explore(Current, ChangeCalls, 3, 0, 1)}
=============================================================================
