------------------------------- MODULE Storage -------------------------------
(***************************************************************************)
(* StorageController: the migrations of what earlier versions stored, run  *)
(* at every start before anybody reads, and the queue of writes.           *)
(*                                                                         *)
(* A migration reads what it needs at once, stores its results one key     *)
(* after the other and is then marked as passed; a restart may come before *)
(* any of these writes.  Of a stored value only its format is modelled.    *)
(*                                                                         *)
(* Left out: migrations that only remove a key nobody reads, and the       *)
(* association of keys with the legacy seed.                               *)
(***************************************************************************)
EXTENDS Naturals, SequencesExt

CONSTANTS StorageOrigins, \* what is stored at the first start, and the migrations passed
          MAX_RESTARTS, MAX_WRITES

ASSUME StorageBoundsAssumption == MAX_RESTARTS \in Nat /\ MAX_WRITES \in Nat \ {0}

VARIABLES db,        \* the format of each value that migrations are about
          passed,    \* passedMigrations
          origin,    \* what was stored and passed at the first start
          boot,      \* "off", "migrating" or "ready"
          migration, \* the writes the current migration has left
          restarts,
          cut,       \* the Unrepeatable migrations that a restart interrupted
          stored,    \* the latest write to another key that is stored
          asked,     \* calls of set so far; the n-th one stores n
          queue,     \* #storageUpdateQueue: writes that wait
          reader,    \* a call of get that waits
          answer,    \* what it returned, and the writes called before it
          lostWrites \* writes that failed or were never made

migrationVars == <<db, passed, origin, boot, migration, restarts, cut>>
queueVars == <<stored, asked, queue, reader, answer, lostWrites>>
storageVars == <<migrationVars, queueVars>>

Migrations == <<"networkPreferences", "accountPreferences", "seeds", "keyPreferences",
                "keyMeta", "tokens", "chainIds", "accountFlags", "dapps", "vaultCache",
                "banners", "sources", "domains">>
Renewed == {"seeds", "keyMeta", "accountFlags", "vaultCache", "banners", "domains"}
\* Run again on what they left, these lose data.
Unrepeatable == {"tokens", "chainIds", "dapps"}
Formats ==
    [networkPreferences : {"none", "old"}, networks : {"none", "named", "chained"},
     accountPreferences : {"none", "old"}, accounts : {"none", "old", "new"},
     keyPreferences : {"none", "old"}, keys : {"none", "unlabelled", "labelled"},
     tokenPreferences : {"none", "mixed", "named", "chained", "lost"},
     customTokens : {"none", "named", "chained", "lost"},
     history : {"none", "named", "chained", "lost"},
     dapps : {"none", "old"}, dappsV2 : {"none", "flagged", "sourced"},
     renewed : SUBSET Renewed]

ASSUME OriginsAssumption ==
    \A o \in StorageOrigins : o.db \in Formats /\ o.passed \subseteq ToSet(Migrations)

NoReader == [floor |-> 0, left |-> 0, waits |-> FALSE]

StorageTypeOK ==
    /\ db \in Formats /\ origin \in StorageOrigins
    /\ passed \subseteq ToSet(Migrations)
    /\ boot \in {"off", "migrating", "ready"}
    /\ migration.runs \in BOOLEAN /\ (migration.runs => boot = "migrating")
    /\ restarts \in 0..MAX_RESTARTS /\ cut \subseteq Unrepeatable
    /\ stored \in 0..asked /\ asked \in 0..MAX_WRITES
    /\ \A i \in 1..Len(queue) : queue[i] \in 1..asked
    /\ reader \in [floor : 0..asked, left : 0..Len(queue), waits : BOOLEAN]
    /\ answer \in [floor : 0..asked, value : 0..asked]
    /\ lostWrites \subseteq 1..asked

NoMigration == [runs |-> FALSE]

StorageInit ==
    /\ origin \in StorageOrigins /\ db = origin.db /\ passed = origin.passed
    /\ boot = "off" /\ migration = NoMigration /\ restarts = 0 /\ cut = {}
    /\ stored = 0 /\ asked = 0 /\ queue = <<>> /\ reader = NoReader
    /\ answer = [floor |-> 0, value |-> 0] /\ lostWrites = {}

-----------------------------------------------------------------------------
(* What each migration writes, from what it reads in d.                    *)

Put(k, v) == [key |-> k, value |-> v]
Erase(k) == Put(k, "none")
Written(d, w) == [d EXCEPT ![w.key] = w.value]

NetworkPreferencesToNetworks(d) ==
    IF d.networks = "none" /\ d.networkPreferences = "old"
    THEN <<Put("networks", "named"), Erase("networkPreferences")>> ELSE <<>>

\* Of an empty list of accounts only the preferences go; otherwise it throws.
AccountPreferencesToAccounts(d) ==
    IF d.accountPreferences = "old" THEN <<Erase("accountPreferences")>> ELSE <<>>
Throws(d, m) ==
    m = "accountPreferences" /\ d.accountPreferences = "old" /\ d.accounts # "none"

\* Mutant: the labels are removed before the keys have them.
RemoveKeyPreferencesFirst(d) ==
    IF d.keyPreferences = "old"
    THEN <<Erase("keyPreferences"),
           Put("keys", IF d.keys = "none" THEN "none" ELSE "labelled")>> ELSE <<>>

KeyPreferencesToKeystoreKeys(d) ==
    IF d.keyPreferences = "old"
    THEN <<Put("keys", IF d.keys = "none" THEN "none" ELSE "labelled"),
           Erase("keyPreferences")>> ELSE <<>>

TokenPreferences(d) ==
    IF d.tokenPreferences = "mixed"
    THEN <<Put("tokenPreferences", "named"), Put("customTokens", "named")>> ELSE <<>>

\* Networks that lost their ids give their chain to no key.
Rekeyed(d, v) ==
    IF v = "none" THEN v ELSE IF d.networks = "named" /\ v = "named" THEN "chained" ELSE "lost"

NetworkIdToChainId(d) ==
    IF d.networks = "none" THEN <<>>
    ELSE <<Put("networks", "chained"), Put("customTokens", Rekeyed(d, d.customTokens)),
           Put("tokenPreferences", Rekeyed(d, d.tokenPreferences)),
           Put("history", Rekeyed(d, d.history))>>

LegacyDappsToDappsV2(d) ==
    <<Put("dappsV2", IF d.dapps = "old" THEN "flagged" ELSE "none"), Erase("dapps")>>

DappsAddConnectionSources(d) ==
    IF d.dappsV2 = "flagged" THEN <<Put("dappsV2", "sourced")>> ELSE <<>>

\* A value is stored again in its new format, when it has the old one.
Renew(d, k) == <<Put("renewed", d.renewed \cup {k})>>

Plan(d, m) ==
    CASE m = "networkPreferences" -> NetworkPreferencesToNetworks(d)
      [] m = "accountPreferences" -> AccountPreferencesToAccounts(d)
      [] m = "keyPreferences" -> KeyPreferencesToKeystoreKeys(d)
      [] m = "tokens" -> TokenPreferences(d)
      [] m = "chainIds" -> NetworkIdToChainId(d)
      [] m = "dapps" -> LegacyDappsToDappsV2(d)
      [] m = "sources" -> DappsAddConnectionSources(d)
      [] m \in Renewed -> Renew(d, m)

-----------------------------------------------------------------------------
(* #loadMigrations                                                         *)

Ahead == {i \in DOMAIN Migrations : Migrations[i] \notin passed}
NextMigration == Migrations[CHOOSE i \in Ahead : \A j \in Ahead : i <= j]

\* The constructor reads passedMigrations.
StartWallet ==
    /\ boot = "off" /\ boot' = "migrating"
    /\ UNCHANGED <<db, passed, origin, migration, restarts, cut, queueVars>>

\* A migration begins, or throws and the ones after it do not run.
BeginMigration ==
    /\ boot = "migrating" /\ ~migration.runs /\ Ahead # {}
    /\ IF Throws(db, NextMigration)
       THEN boot' = "ready" /\ UNCHANGED migration
       ELSE migration' = [runs |-> TRUE, writes |-> Plan(db, NextMigration)] /\ UNCHANGED boot
    /\ UNCHANGED <<db, passed, origin, restarts, cut, queueVars>>

MigrationWrites ==
    /\ migration.runs /\ migration.writes # <<>>
    /\ db' = Written(db, Head(migration.writes))
    /\ migration' = [migration EXCEPT !.writes = Tail(migration.writes)]
    /\ UNCHANGED <<passed, origin, boot, restarts, cut, queueVars>>

\* #markMigrationPassed
MarkPassed ==
    /\ migration.runs /\ migration.writes = <<>>
    /\ passed' = passed \cup {NextMigration} /\ migration' = NoMigration
    /\ UNCHANGED <<db, origin, boot, restarts, cut, queueVars>>

MigrationsEnd ==
    /\ boot = "migrating" /\ Ahead = {} /\ boot' = "ready"
    /\ UNCHANGED <<db, passed, origin, migration, restarts, cut, queueVars>>

\* The browser or the system ends the wallet: what waits is lost.
RestartWallet ==
    /\ boot # "off" /\ restarts < MAX_RESTARTS
    /\ boot' = "off" /\ migration' = NoMigration /\ restarts' = restarts + 1
    /\ cut' = cut \cup {m \in Unrepeatable : migration.runs /\ m = NextMigration}
    /\ queue' = <<>> /\ reader' = NoReader /\ lostWrites' = lostWrites \cup ToSet(queue)
    /\ UNCHANGED <<db, passed, origin, stored, asked, answer>>

-----------------------------------------------------------------------------
(* The queue.  Calls made before the migrations end go on in their order.  *)

StorageSet ==
    /\ boot # "off" /\ asked < MAX_WRITES
    /\ asked' = asked + 1 /\ queue' = Append(queue, asked')
    /\ UNCHANGED <<stored, reader, answer, lostWrites, migrationVars>>

\* A write that fails is only reported on the console.
QueueWrites(ok) ==
    /\ boot = "ready" /\ queue # <<>> /\ queue' = Tail(queue)
    /\ IF ok THEN stored' = Head(queue) /\ UNCHANGED lostWrites
       ELSE lostWrites' = lostWrites \cup {Head(queue)} /\ UNCHANGED stored
    /\ reader' = [reader EXCEPT !.left = IF reader.left = 0 THEN 0 ELSE reader.left - 1]
    /\ UNCHANGED <<asked, answer, migrationVars>>

\* Mutant: get does not wait for the queue.
AwaitedNothing == 0

\* What a call of get waits for: the queue as it is when the call goes on.
AwaitedWrites == Len(queue)

StorageGet ==
    /\ boot # "off" /\ ~reader.waits
    /\ reader' = [floor |-> asked, left |-> AwaitedWrites, waits |-> TRUE]
    /\ UNCHANGED <<stored, asked, queue, answer, lostWrites, migrationVars>>

GetReturns ==
    /\ boot = "ready" /\ reader.waits /\ reader.left = 0
    /\ answer' = [floor |-> reader.floor, value |-> stored] /\ reader' = NoReader
    /\ UNCHANGED <<stored, asked, queue, lostWrites, migrationVars>>

StorageNext ==
    \/ StartWallet \/ BeginMigration \/ MigrationWrites \/ MarkPassed \/ MigrationsEnd
    \/ RestartWallet \/ StorageSet \/ StorageGet \/ GetReturns
    \/ \E ok \in BOOLEAN : QueueWrites(ok)

StorageSpec == StorageInit /\ [][StorageNext]_storageVars

-----------------------------------------------------------------------------
\* What the writes of a plan, no two of the same key, make of d.
Applied(d, writes) ==
    [k \in DOMAIN d |->
        IF \E i \in DOMAIN writes : writes[i].key = k
        THEN writes[CHOOSE i \in DOMAIN writes : writes[i].key = k].value ELSE d[k]]

\* What the first start has made of the origin after each migration when
\* nothing ends the wallet.
Uninterrupted ==
    LET after[n \in 0..Len(Migrations)] ==
        IF n = 0 THEN [db |-> origin.db, thrown |-> FALSE]
        ELSE LET r == after[n - 1]
                 m == Migrations[n]
             IN  IF m \in origin.passed THEN r
                 ELSE IF r.thrown \/ Throws(r.db, m) THEN [r EXCEPT !.thrown = TRUE]
                 ELSE [r EXCEPT !.db = Applied(r.db, Plan(r.db, m))]
    IN  after
AsIfUninterrupted == Uninterrupted[Len(Migrations)].db

Agree(ks) == \A k \in ks : db[k] = AsIfUninterrupted[k]

\* When anybody reads it, what a user cannot get back (networks, accounts, keys
\* with their labels, seeds) is what it would be without any restart, and so is
\* everything else, unless the restart interrupted one of the Unrepeatable
\* migrations (#loadMigrations).
MigrationsKeepData ==
    boot = "ready" =>
        /\ Agree({"networks", "accounts", "keys", "renewed"})
        /\ cut = {} => Agree({"customTokens", "tokenPreferences", "history", "dappsV2"})

\* A read returns the latest write called before it, or a later one, unless
\* that write failed or the wallet ended before it (get, set).
ReadsLatestWrite == \A v \in 1..answer.floor : v \in lostWrites \/ v <= answer.value
=============================================================================
