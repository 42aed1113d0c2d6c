---------------------------- MODULE StorageProofs ----------------------------
(***************************************************************************)
(* What the storage promises, for any number of restarts, writes and       *)
(* reads, and for anything an earlier version may have left: a read        *)
(* returns the latest write, the migrations lose nothing, and what is      *)
(* stored has the formats they know.                                       *)
(***************************************************************************)
EXTENDS Storage, SequenceTheorems, WellFoundedInduction, TLAPS

-----------------------------------------------------------------------------
(* The induction theorems of the library are of no use to the provers,     *)
(* which cannot instantiate the operator they take; but a set of           *)
(* counterexamples has a least one, and that is enough.                    *)

\* A set of numbers has a least one.
LEMMA Least ==
    ASSUME NEW T \in SUBSET Nat, T # {}
    PROVE  \E m \in T : \A k \in T : m <= k
  <1> DEFINE R == OpToRel(<, Nat)
  <1>1. IsWellFoundedOn(R, Nat)
    BY NatLessThanWellFounded
  <1>2. \A x, y \in Nat : <<x, y>> \in R <=> x < y
    BY DEF OpToRel
  <1> HIDE DEF R
  <1>3. PICK m \in T : \A k \in T : ~ (<<k, m>> \in R)
    BY <1>1, WFMin
  <1>4. ASSUME NEW k \in T PROVE m <= k
    <2>1. ~ (k < m) /\ k \in Nat /\ m \in Nat
      BY <1>2, <1>3
    <2> QED  BY <2>1
  <1> QED  BY <1>4

-----------------------------------------------------------------------------
(* The storage: a read returns the latest write called before it.  The     *)
(* queue holds, in their order, the writes that are neither stored nor     *)
(* lost, and what a reader waits for is enough of it.                      *)

Settled(v) == v \in lostWrites \/ v <= stored

QueueInv ==
    /\ asked \in Nat /\ stored \in Nat /\ stored <= asked
    /\ queue \in Seq(Nat)
    /\ \A i \in 1..Len(queue) : stored < queue[i] /\ queue[i] <= asked
    /\ \A i, j \in 1..Len(queue) : i < j => queue[i] < queue[j]
    /\ \A v \in 1..asked : Settled(v) \/ \E i \in 1..Len(queue) : queue[i] = v

ReaderInv ==
    /\ reader \in [floor : Nat, left : Nat, waits : BOOLEAN]
    /\ reader.floor <= asked /\ reader.left <= Len(queue)
    /\ reader.waits => \A v \in 1..reader.floor :
          Settled(v) \/ \E i \in 1..reader.left : queue[i] = v

AnswerInv ==
    /\ answer \in [floor : Nat, value : Nat] /\ answer.floor <= asked
    /\ ReadsLatestWrite

StorageInv == QueueInv /\ ReaderInv /\ AnswerInv

LEMMA InitStorageInv == StorageInit => StorageInv
  BY DEF StorageInit, StorageInv, QueueInv, ReaderInv, AnswerInv, ReadsLatestWrite, NoReader,
         Settled

\* What does not touch the queue.
LEMMA QueueUnchanged == StorageInv /\ UNCHANGED queueVars => StorageInv'
  BY DEF queueVars, StorageInv, QueueInv, ReaderInv, AnswerInv, ReadsLatestWrite, Settled

LEMMA RestartKeepsQueue ==
    ASSUME StorageInv, RestartWallet
    PROVE  StorageInv'
  <1>1. /\ queue' = <<>> /\ reader' = NoReader /\ lostWrites' = lostWrites \cup ToSet(queue)
        /\ UNCHANGED <<stored, asked, answer>>
    BY DEF RestartWallet
  <1>2. ASSUME NEW v \in 1..asked
        PROVE  Settled(v)'
    <2>1. Settled(v) \/ \E i \in 1..Len(queue) : queue[i] = v
      BY DEF StorageInv, QueueInv
    <2>2. DOMAIN queue = 1..Len(queue)
      BY DEF StorageInv, QueueInv
    <2>3. (\E i \in 1..Len(queue) : queue[i] = v) => v \in ToSet(queue)
      BY <2>2 DEF ToSet
    <2> QED  BY <1>1, <2>1, <2>3 DEF Settled
  <1>3. QueueInv'
    BY <1>1, <1>2 DEF StorageInv, QueueInv
  <1>4. ReaderInv'
    BY <1>1 DEF StorageInv, QueueInv, ReaderInv, NoReader
  <1>5. AnswerInv'
    BY <1>1 DEF StorageInv, QueueInv, AnswerInv, ReadsLatestWrite
  <1> QED  BY <1>3, <1>4, <1>5 DEF StorageInv

LEMMA SetKeepsQueue ==
    ASSUME StorageInv, StorageSet
    PROVE  StorageInv'
  <1>1. /\ asked' = asked + 1 /\ queue' = Append(queue, asked + 1)
        /\ UNCHANGED <<stored, reader, answer, lostWrites>>
    BY DEF StorageSet
  <1>2. /\ asked \in Nat /\ stored \in Nat /\ stored <= asked /\ queue \in Seq(Nat)
        /\ \A i \in 1..Len(queue) : stored < queue[i] /\ queue[i] <= asked
        /\ \A i, j \in 1..Len(queue) : i < j => queue[i] < queue[j]
        /\ \A v \in 1..asked : Settled(v) \/ \E i \in 1..Len(queue) : queue[i] = v
    BY DEF StorageInv, QueueInv
  <1>3. /\ queue' \in Seq(Nat) /\ Len(queue') = Len(queue) + 1
        /\ queue'[Len(queue) + 1] = asked + 1
        /\ \A i \in 1..Len(queue) : queue'[i] = queue[i]
        /\ Len(queue) \in Nat
    BY <1>1, <1>2
  <1>4. \A v : Settled(v)' <=> Settled(v)
    BY <1>1 DEF Settled
  <1>5. \A v \in 1..asked' : Settled(v)' \/ \E i \in 1..Len(queue') : queue'[i] = v
    <2> SUFFICES ASSUME NEW v \in 1..asked + 1
                 PROVE  Settled(v) \/ \E i \in 1..Len(queue) + 1 : queue'[i] = v
      BY <1>1, <1>3, <1>4
    <2>1. CASE v = asked + 1
      BY <2>1, <1>3
    <2>2. CASE v \in 1..asked
      BY <2>2, <1>2, <1>3
    <2> QED  BY <2>1, <2>2, <1>2
  <1>6. \A i \in 1..Len(queue') : stored' < queue'[i] /\ queue'[i] <= asked'
    BY <1>1, <1>2, <1>3
  <1>7. \A i, j \in 1..Len(queue') : i < j => queue'[i] < queue'[j]
    <2> SUFFICES ASSUME NEW i \in 1..Len(queue) + 1, NEW j \in 1..Len(queue) + 1, i < j
                 PROVE  queue'[i] < queue'[j]
      BY <1>3
    <2>1. i \in 1..Len(queue)
      BY <1>3
    <2>2. CASE j \in 1..Len(queue)
      BY ONLY <2>1, <2>2, <1>2, <1>3, i < j
    <2>3. CASE j = Len(queue) + 1
      <3>1. queue'[i] = queue[i] /\ queue[i] <= asked /\ queue[i] \in Nat
        BY <2>1, <1>2, <1>3
      <3>2. queue'[j] = asked + 1 /\ asked \in Nat
        BY <2>3, <1>2, <1>3
      <3> QED  BY ONLY <3>1, <3>2
    <2> QED  BY <1>3, <2>2, <2>3
  <1>8. QueueInv'
    BY <1>1, <1>2, <1>3, <1>5, <1>6, <1>7 DEF QueueInv
  <1>9. ReaderInv'
    BY <1>1, <1>2, <1>3, <1>4 DEF StorageInv, ReaderInv
  <1>10. AnswerInv'
    BY <1>1, <1>2 DEF StorageInv, AnswerInv, ReadsLatestWrite
  <1> QED  BY <1>8, <1>9, <1>10 DEF StorageInv

LEMMA WriteKeepsQueue ==
    ASSUME StorageInv, NEW ok \in BOOLEAN, QueueWrites(ok)
    PROVE  StorageInv'
  <1> DEFINE Done(v) == v \in lostWrites' \/ v <= stored'
  <1>1. /\ queue # <<>> /\ queue' = Tail(queue)
        /\ IF ok THEN stored' = Head(queue) /\ lostWrites' = lostWrites
           ELSE lostWrites' = lostWrites \cup {Head(queue)} /\ stored' = stored
        /\ reader' = [reader EXCEPT !.left = IF reader.left = 0 THEN 0 ELSE reader.left - 1]
        /\ UNCHANGED <<asked, answer>>
    BY DEF QueueWrites
  <1>2. /\ asked \in Nat /\ stored \in Nat /\ stored <= asked /\ queue \in Seq(Nat)
        /\ \A i \in 1..Len(queue) : stored < queue[i] /\ queue[i] <= asked
        /\ \A i, j \in 1..Len(queue) : i < j => queue[i] < queue[j]
        /\ \A v \in 1..asked : Settled(v) \/ \E i \in 1..Len(queue) : queue[i] = v
    BY DEF StorageInv, QueueInv
  <1>3. /\ queue' \in Seq(Nat) /\ Len(queue) \in Nat \ {0} /\ Len(queue') = Len(queue) - 1
        /\ \A i \in 1..Len(queue') : queue'[i] = queue[i + 1]
        /\ Head(queue) = queue[1]
    BY <1>1, <1>2
  <1>11. queue[1] \in Nat /\ stored < queue[1] /\ queue[1] <= asked
    <2>1. 1 \in 1..Len(queue)
      BY <1>3
    <2> QED  BY <2>1, <1>2
  <1>12. \A i \in 1..Len(queue') : i + 1 \in 1..Len(queue) /\ i + 1 > 1
    BY <1>3
  <1>4. stored' \in Nat /\ stored <= stored' /\ lostWrites \subseteq lostWrites'
    <2>1. \/ stored' = stored /\ lostWrites' = lostWrites \cup {Head(queue)}
          \/ stored' = queue[1] /\ lostWrites' = lostWrites
      BY <1>1, <1>3
    <2>2. stored \in Nat
      BY <1>2
    <2> QED  BY ONLY <2>1, <2>2, <1>11
  <1>5. Done(queue[1])
    BY <1>1, <1>3, <1>11
  <1>6. \A v \in Nat : Settled(v) => Done(v)
    BY <1>2, <1>4 DEF Settled
  \* What was at one place of the queue is settled or one place further on.
  <1>7. \A i \in 1..Len(queue) :
           Done(queue[i]) \/ (i > 1 /\ i - 1 \in 1..Len(queue') /\ queue'[i - 1] = queue[i])
    <2> TAKE i \in 1..Len(queue)
    <2>1. CASE i = 1
      BY <2>1, <1>5
    <2>2. CASE i > 1
      <3>1. i - 1 \in 1..Len(queue') /\ i = (i - 1) + 1
        BY <2>2, <1>3
      <3> QED  BY <2>2, <3>1, <1>3
    <2> QED  BY <2>1, <2>2
  <1>8. QueueInv'
    <2>1. stored' <= asked'
      BY <1>1, <1>2, <1>3, <1>11
    <2>2. \A i \in 1..Len(queue') : stored' < queue'[i] /\ queue'[i] <= asked'
      <3> TAKE i \in 1..Len(queue')
      <3>1. 1 < i + 1 /\ i + 1 \in 1..Len(queue) /\ 1 \in 1..Len(queue)
        BY <1>3, <1>12
      <3>2. queue[1] < queue[i + 1] /\ stored < queue[i + 1] /\ queue[i + 1] <= asked
        BY <3>1, <1>2
      <3> QED  BY <3>2, <1>1, <1>3
    <2>3. \A i, j \in 1..Len(queue') : i < j => queue'[i] < queue'[j]
      <3> TAKE i, j \in 1..Len(queue')
      <3>1. i + 1 \in 1..Len(queue) /\ j + 1 \in 1..Len(queue) /\ (i < j => i + 1 < j + 1)
        BY <1>3, <1>12
      <3>2. queue'[i] = queue[i + 1] /\ queue'[j] = queue[j + 1]
        BY <1>3
      <3>3. i < j => queue[i + 1] < queue[j + 1]
        BY <3>1, <1>2
      <3> QED  BY <3>2, <3>3
    <2>4. \A v \in 1..asked' : Done(v) \/ \E i \in 1..Len(queue') : queue'[i] = v
      <3> TAKE v \in 1..asked'
      <3>1. v \in Nat /\ (Settled(v) \/ \E i \in 1..Len(queue) : queue[i] = v)
        BY <1>1, <1>2
      <3>2. CASE Settled(v)
        BY <1>6, <3>1, <3>2
      <3>3. CASE \E i \in 1..Len(queue) : queue[i] = v
        BY <1>7, <3>3
      <3> QED  BY <3>1, <3>2, <3>3
    <2>5. asked' \in Nat /\ stored' \in Nat /\ queue' \in Seq(Nat)
      BY <1>1, <1>2, <1>3, <1>4
    <2>6. \A v \in 1..asked' : Settled(v)' \/ \E i \in 1..Len(queue') : queue'[i] = v
      BY <2>4 DEF Settled
    <2> HIDE DEF Done
    <2> QED  BY <2>1, <2>2, <2>3, <2>5, <2>6 DEF QueueInv
  <1>9. ReaderInv'
    <2>1. /\ reader \in [floor : Nat, left : Nat, waits : BOOLEAN]
          /\ reader.floor <= asked /\ reader.left <= Len(queue)
          /\ reader.waits => \A v \in 1..reader.floor :
                Settled(v) \/ \E i \in 1..reader.left : queue[i] = v
      BY DEF StorageInv, ReaderInv
    <2>2. /\ reader' \in [floor : Nat, left : Nat, waits : BOOLEAN]
          /\ reader'.floor = reader.floor /\ reader'.waits = reader.waits
          /\ reader'.left = IF reader.left = 0 THEN 0 ELSE reader.left - 1
      BY <1>1, <2>1
    <2>3. ASSUME reader.waits, NEW v \in 1..reader.floor
          PROVE  Done(v) \/ \E i \in 1..reader'.left : queue'[i] = v
      <3>1. CASE Settled(v)
        BY <3>1, <2>1, <1>6
      <3>2. ASSUME NEW i \in 1..reader.left, queue[i] = v
            PROVE  Done(v) \/ \E j \in 1..reader'.left : queue'[j] = v
        <4>1. i \in 1..Len(queue)
          BY <2>1, <1>3
        <4>2. CASE i > 1 /\ i - 1 \in 1..Len(queue') /\ queue'[i - 1] = queue[i]
          <5>1. i - 1 \in 1..reader'.left
            BY <4>2, <2>1, <2>2
          <5> QED  BY <5>1, <4>2, <3>2
        <4> QED  BY <4>1, <4>2, <1>7, <3>2
      <3> QED  BY <3>1, <3>2, <2>1, <2>3
    <2> QED  BY <1>1, <1>3, <2>1, <2>2, <2>3 DEF ReaderInv, Settled
  <1>10. AnswerInv'
    BY <1>1, <1>2, <1>4 DEF StorageInv, AnswerInv, ReadsLatestWrite
  <1> QED  BY <1>8, <1>9, <1>10 DEF StorageInv

\* A reader is given all that is waiting when it asks.
LEMMA GetKeepsQueue ==
    ASSUME StorageInv, StorageGet
    PROVE  StorageInv'
  <1>1. /\ reader' = [floor |-> asked, left |-> Len(queue), waits |-> TRUE]
        /\ UNCHANGED <<stored, asked, queue, answer, lostWrites>>
    BY DEF StorageGet, AwaitedWrites
  <1>2. QueueInv'
    BY <1>1 DEF StorageInv, QueueInv, Settled
  <1>3. ReaderInv'
    BY <1>1 DEF StorageInv, QueueInv, ReaderInv, Settled
  <1>4. AnswerInv'
    BY <1>1 DEF StorageInv, AnswerInv, ReadsLatestWrite
  <1> QED  BY <1>2, <1>3, <1>4 DEF StorageInv

LEMMA ReturnKeepsQueue ==
    ASSUME StorageInv, GetReturns
    PROVE  StorageInv'
  <1>1. /\ reader.waits /\ reader.left = 0 /\ reader' = NoReader
        /\ answer' = [floor |-> reader.floor, value |-> stored]
        /\ UNCHANGED <<stored, asked, queue, lostWrites>>
    BY DEF GetReturns
  <1>2. QueueInv'
    BY <1>1 DEF StorageInv, QueueInv, Settled
  <1>3. ReaderInv'
    BY <1>1 DEF StorageInv, QueueInv, ReaderInv, NoReader
  <1>4. AnswerInv'
    BY <1>1 DEF StorageInv, QueueInv, ReaderInv, AnswerInv, ReadsLatestWrite, Settled
  <1> QED  BY <1>2, <1>3, <1>4 DEF StorageInv

LEMMA NextStorageInv == StorageInv /\ [StorageNext]_storageVars => StorageInv'
  <1> SUFFICES ASSUME StorageInv, [StorageNext]_storageVars
               PROVE  StorageInv'
    OBVIOUS
  <1>1. CASE StartWallet \/ BeginMigration \/ MigrationWrites \/ MarkPassed \/ MigrationsEnd
    <2>1. UNCHANGED queueVars
      BY <1>1 DEF StartWallet, BeginMigration, MigrationWrites, MarkPassed, MigrationsEnd
    <2> QED  BY <2>1, QueueUnchanged
  <1>2. CASE RestartWallet
    BY <1>2, RestartKeepsQueue
  <1>3. CASE StorageSet
    BY <1>3, SetKeepsQueue
  <1>4. CASE StorageGet
    BY <1>4, GetKeepsQueue
  <1>5. CASE GetReturns
    BY <1>5, ReturnKeepsQueue
  <1>6. CASE \E ok \in BOOLEAN : QueueWrites(ok)
    BY <1>6, WriteKeepsQueue
  <1>7. CASE UNCHANGED storageVars
    BY <1>7, QueueUnchanged DEF storageVars
  <1> QED  BY <1>1, <1>2, <1>3, <1>4, <1>5, <1>6, <1>7 DEF StorageNext

\* The inductive invariant holds in every reachable state.
THEOREM StorageInvariance == StorageSpec => []StorageInv
  BY InitStorageInv, NextStorageInv, PTL DEF StorageSpec

\* A read returns the latest write called before it, or a later one, unless
\* that write failed or the wallet ended before it, however many writes,
\* reads and restarts there are (get, set, #storageUpdateQueue).
THEOREM ReadsLatestWriteHolds == StorageSpec => []ReadsLatestWrite
  BY StorageInvariance, PTL DEF StorageInv, AnswerInv

-----------------------------------------------------------------------------
(* What the migrations make of what is stored.                             *)

StoredKeys == {"networkPreferences", "networks", "accountPreferences", "accounts",
               "keyPreferences", "keys", "tokenPreferences", "customTokens", "history",
               "dapps", "dappsV2", "renewed"}
Data == {"customTokens", "tokenPreferences", "history", "dapps", "dappsV2"}
Core == {"networks", "accounts", "keys", "renewed", "keyPreferences", "accountPreferences"}

\* Something is stored under each key.
IsStore(d) == d = [k \in StoredKeys |-> d[k]]

\* What users cannot get back is the same in d and e, and so is the rest if
\* whole, up to preferences that are not read once there are networks.
Same(d, e, whole) ==
    /\ \A k \in Core : d[k] = e[k]
    /\ d["networks"] = "none" => d["networkPreferences"] = e["networkPreferences"]
    /\ whole => \A k \in Data : d[k] = e[k]

\* d after the first n writes of the plan P.
Partly(d, P, n) ==
    [k \in DOMAIN d |->
        IF \E i \in 1..n : P[i].key = k
        THEN P[CHOOSE i \in 1..n : P[i].key = k].value ELSE d[k]]

\* No two writes of the plan are of the same key, and there are all these keys.
IsPlan(P) ==
    /\ DOMAIN P = 1..Len(P) /\ Len(P) \in Nat
    /\ \A i \in 1..Len(P) : P[i].key \in StoredKeys
    /\ \A i, j \in 1..Len(P) : P[i].key = P[j].key => i = j

MigrationNames == {Migrations[i] : i \in DOMAIN Migrations}

LEMMA MigrationsAre ==
    /\ DOMAIN Migrations = 1..13 /\ Len(Migrations) = 13
    /\ \A i, j \in 1..13 : Migrations[i] = Migrations[j] => i = j
    /\ MigrationNames = {"networkPreferences", "accountPreferences", "keyPreferences", "tokens",
                "chainIds", "dapps", "sources"} \cup Renewed
    /\ Unrepeatable \subseteq MigrationNames
  <1>1. DOMAIN Migrations = 1..13 /\ Len(Migrations) = 13
    BY DEF Migrations
  <1>2. \A i, j \in 1..13 : Migrations[i] = Migrations[j] => i = j
    BY DEF Migrations
  <1>3. MigrationNames = {"networkPreferences", "accountPreferences", "keyPreferences", "tokens",
                "chainIds", "dapps", "sources"} \cup Renewed
    <2>1. MigrationNames = {Migrations[1], Migrations[2], Migrations[3], Migrations[4], Migrations[5],
                   Migrations[6], Migrations[7], Migrations[8], Migrations[9], Migrations[10],
                   Migrations[11], Migrations[12], Migrations[13]}
      BY <1>1 DEF MigrationNames
    <2> QED  BY <2>1 DEF Migrations, Renewed
  <1> QED  BY <1>1, <1>2, <1>3 DEF Unrepeatable

\* The plan of each migration.
LEMMA Plans ==
    ASSUME NEW d
    PROVE  /\ Plan(d, "networkPreferences") = NetworkPreferencesToNetworks(d)
           /\ Plan(d, "accountPreferences") = AccountPreferencesToAccounts(d)
           /\ Plan(d, "keyPreferences") = KeyPreferencesToKeystoreKeys(d)
           /\ Plan(d, "tokens") = TokenPreferences(d)
           /\ Plan(d, "chainIds") = NetworkIdToChainId(d)
           /\ Plan(d, "dapps") = LegacyDappsToDappsV2(d)
           /\ Plan(d, "sources") = DappsAddConnectionSources(d)
           /\ \A m \in Renewed : Plan(d, m) = Renew(d, m)
  BY DEF Plan, Renewed

\* The writes of a plan one after the other.
LEMMA PartlySteps ==
    ASSUME NEW d, IsStore(d), NEW P, IsPlan(P)
    PROVE  /\ Partly(d, P, 0) = d
           /\ Partly(d, P, Len(P)) = Applied(d, P)
           /\ \A n \in 0..Len(P) : IsStore(Partly(d, P, n))
           /\ \A n \in 0..(Len(P) - 1) :
                Partly(d, P, n + 1) = Written(Partly(d, P, n), P[n + 1])
  <1>1. d = [k \in StoredKeys |-> d[k]] /\ DOMAIN d = StoredKeys
    BY DEF IsStore
  <1>2. Partly(d, P, 0) = d
    <2>1. Partly(d, P, 0) = [k \in StoredKeys |-> d[k]]
      BY <1>1 DEF Partly
    <2> QED  BY <1>1, <2>1
  <1>3. Partly(d, P, Len(P)) = Applied(d, P)
    BY DEF Partly, Applied, IsPlan
  <1>4. ASSUME NEW n \in 0..Len(P) PROVE IsStore(Partly(d, P, n))
    BY <1>1 DEF IsStore, Partly
  <1>5. ASSUME NEW n \in 0..(Len(P) - 1)
        PROVE  Partly(d, P, n + 1) = Written(Partly(d, P, n), P[n + 1])
    <2> DEFINE before == Partly(d, P, n)
               after == Partly(d, P, n + 1)
    <2>0. n \in Nat /\ n + 1 \in 1..Len(P) /\ Len(P) \in Nat /\ n \in 0..Len(P)
      BY DEF IsPlan
    <2>1. before = [k \in StoredKeys |-> before[k]] /\ after = [k \in StoredKeys |-> after[k]]
      BY <1>1 DEF Partly
    <2>2. ASSUME NEW k \in StoredKeys, k # P[n + 1].key PROVE after[k] = before[k]
      <3>1. \A i \in 1..(n + 1) : P[i].key = k => i \in 1..n
        BY <2>0, <2>2
      <3>2. \A i \in 1..n : i \in 1..(n + 1)
        BY <2>0
      <3>3. \A i : (i \in 1..(n + 1) /\ P[i].key = k) <=> (i \in 1..n /\ P[i].key = k)
        BY <3>1, <3>2
      <3>4. (CHOOSE i : i \in 1..(n + 1) /\ P[i].key = k)
              = (CHOOSE i : i \in 1..n /\ P[i].key = k)
        BY <3>3
      <3>5. (\E i \in 1..(n + 1) : P[i].key = k) <=> (\E i \in 1..n : P[i].key = k)
        BY <3>3
      <3>6. (CHOOSE i \in 1..(n + 1) : P[i].key = k)
              = (CHOOSE i \in 1..n : P[i].key = k)
        BY <3>3
      <3> QED  BY <1>1, <3>5, <3>6 DEF Partly
    <2>3. after[P[n + 1].key] = P[n + 1].value
      <3>0. n + 1 \in 1..(n + 1) /\ P[n + 1].key \in StoredKeys
        BY <2>0 DEF IsPlan
      <3> DEFINE c == CHOOSE i \in 1..(n + 1) : P[i].key = P[n + 1].key
      <3>1. c \in 1..(n + 1) /\ P[c].key = P[n + 1].key
        BY <3>0
      <3>2. c \in 1..Len(P)
        BY <2>0, <3>1
      <3>3. c = n + 1
        BY <2>0, <3>1, <3>2 DEF IsPlan
      <3>4. \E i \in 1..(n + 1) : P[i].key = P[n + 1].key
        BY <3>0
      <3>5. after[P[n + 1].key] = P[c].value
        BY <1>1, <3>0, <3>4 DEF Partly
      <3> HIDE DEF c
      <3> QED  BY <3>3, <3>5
    <2> HIDE DEF before, after
    <2>4. [before EXCEPT ![P[n + 1].key] = P[n + 1].value]
            = [k \in StoredKeys |-> after[k]]
      BY <2>1, <2>2, <2>3
    <2> QED  BY <2>1, <2>4 DEF before, after, Written
  <1> QED  BY <1>2, <1>3, <1>4, <1>5

\* What one write makes of d.
LEMMA WrittenIs ==
    ASSUME NEW d, IsStore(d), NEW a \in StoredKeys, NEW v
    PROVE  /\ IsStore(Written(d, Put(a, v)))
           /\ Written(d, Put(a, v))[a] = v
           /\ \A k \in StoredKeys : k # a => Written(d, Put(a, v))[k] = d[k]
  <1>1. Put(a, v).key = a /\ Put(a, v).value = v
    BY DEF Put
  <1>2. DOMAIN d = StoredKeys
    BY DEF IsStore
  <1> QED  BY <1>1, <1>2 DEF Written, IsStore

\* The plans with no write, with one, two and four.
LEMMA NoWrites == ASSUME NEW d, IsStore(d) PROVE IsPlan(<<>>) /\ Applied(d, <<>>) = d
  <1>1. IsPlan(<<>>)
    BY DEF IsPlan
  <1> QED  BY <1>1, PartlySteps

LEMMA OneWrite ==
    ASSUME NEW d, IsStore(d), NEW w, w.key \in StoredKeys
    PROVE  IsPlan(<<w>>) /\ Applied(d, <<w>>) = Written(d, w)
  <1> DEFINE P == <<w>>
  <1>1. Len(P) = 1 /\ DOMAIN P = 1..1 /\ P[1] = w
    OBVIOUS
  <1>2. IsPlan(P)
    BY <1>1 DEF IsPlan
  <1>3. 0 \in 0..(Len(P) - 1)
    BY <1>1
  <1> HIDE DEF P
  <1>4. \A n \in 0..(Len(P) - 1) : Partly(d, P, n + 1) = Written(Partly(d, P, n), P[n + 1])
    BY <1>2, PartlySteps
  <1>5. Partly(d, P, 0) = d /\ Partly(d, P, Len(P)) = Applied(d, P)
    BY <1>2, PartlySteps
  <1>6. Partly(d, P, 1) = Written(d, w)
    BY <1>1, <1>3, <1>4, <1>5
  <1>7. IsPlan(P) /\ Applied(d, P) = Written(d, w)
    BY <1>1, <1>2, <1>5, <1>6
  <1> QED  BY <1>7 DEF P

LEMMA TwoWrites ==
    ASSUME NEW d, IsStore(d), NEW w1, NEW w2, w1.key \in StoredKeys, w2.key \in StoredKeys,
           w1.key # w2.key
    PROVE  /\ IsPlan(<<w1, w2>>)
           /\ Partly(d, <<w1, w2>>, 0) = d
           /\ Partly(d, <<w1, w2>>, 1) = Written(d, w1)
           /\ Applied(d, <<w1, w2>>) = Written(Written(d, w1), w2)
  <1> DEFINE P == <<w1, w2>>
  <1>1. Len(P) = 2 /\ DOMAIN P = 1..2 /\ P[1] = w1 /\ P[2] = w2
    OBVIOUS
  <1>2. IsPlan(P)
    BY <1>1 DEF IsPlan
  <1>3. 0 \in 0..(Len(P) - 1) /\ 1 \in 0..(Len(P) - 1)
    BY <1>1
  <1> HIDE DEF P
  <1>4. \A n \in 0..(Len(P) - 1) : Partly(d, P, n + 1) = Written(Partly(d, P, n), P[n + 1])
    BY <1>2, PartlySteps
  <1>5. Partly(d, P, 0) = d /\ Partly(d, P, Len(P)) = Applied(d, P)
    BY <1>2, PartlySteps
  <1>6. Partly(d, P, 1) = Written(d, w1)
    BY <1>1, <1>3, <1>4, <1>5
  <1>7. Partly(d, P, 2) = Written(Written(d, w1), w2)
    BY <1>1, <1>3, <1>4, <1>6
  <1>8. IsPlan(P) /\ Partly(d, P, 0) = d /\ Partly(d, P, 1) = Written(d, w1)
        /\ Applied(d, P) = Written(Written(d, w1), w2)
    BY <1>1, <1>2, <1>5, <1>6, <1>7
  <1> QED  BY <1>8 DEF P

LEMMA FourWrites ==
    ASSUME NEW d, IsStore(d), NEW w1, NEW w2, NEW w3, NEW w4,
           w1.key = "networks", w2.key = "customTokens", w3.key = "tokenPreferences",
           w4.key = "history"
    PROVE  LET P == <<w1, w2, w3, w4>>
           IN  /\ IsPlan(P) /\ Len(P) = 4
               /\ Partly(d, P, 0) = d /\ Partly(d, P, 1) = Written(d, w1)
               /\ Partly(d, P, 2) = Written(Written(d, w1), w2)
               /\ Partly(d, P, 3) = Written(Written(Written(d, w1), w2), w3)
               /\ Applied(d, P) = Written(Written(Written(Written(d, w1), w2), w3), w4)
  <1> DEFINE P == <<w1, w2, w3, w4>>
  <1>1. Len(P) = 4 /\ DOMAIN P = 1..4 /\ P[1] = w1 /\ P[2] = w2 /\ P[3] = w3 /\ P[4] = w4
    OBVIOUS
  <1> HIDE DEF P
  <1>2. IsPlan(P)
    <2>1. \A i \in 1..4 : i = 1 \/ i = 2 \/ i = 3 \/ i = 4
      OBVIOUS
    <2> QED  BY <1>1, <2>1 DEF IsPlan, StoredKeys
  <1>3. 0 \in 0..(Len(P) - 1) /\ 1 \in 0..(Len(P) - 1) /\ 2 \in 0..(Len(P) - 1)
        /\ 3 \in 0..(Len(P) - 1)
    BY <1>1
  <1>4. \A n \in 0..(Len(P) - 1) : Partly(d, P, n + 1) = Written(Partly(d, P, n), P[n + 1])
    BY <1>2, PartlySteps
  <1>5. Partly(d, P, 0) = d /\ Partly(d, P, Len(P)) = Applied(d, P)
    BY <1>2, PartlySteps
  <1>6. Partly(d, P, 1) = Written(d, w1)
    BY <1>1, <1>3, <1>4, <1>5
  <1>7. Partly(d, P, 2) = Written(Written(d, w1), w2)
    BY <1>1, <1>3, <1>4, <1>6
  <1>8. Partly(d, P, 3) = Written(Written(Written(d, w1), w2), w3)
    BY <1>1, <1>3, <1>4, <1>7
  <1>9. Partly(d, P, 4) = Written(Written(Written(Written(d, w1), w2), w3), w4)
    BY <1>1, <1>3, <1>4, <1>8
  <1> QED  BY <1>1, <1>2, <1>5, <1>6, <1>7, <1>8, <1>9 DEF P

\* What a whole migration makes of d.
Migrated(d, m) == Applied(d, Plan(d, m))

\* The keys of ks have other values in e than in d, at most.
OnlyDiffer(d, e, ks) == \A k \in StoredKeys : k \notin ks => e[k] = d[k]

LEMMA StoredKeysAre ==
    /\ "networks" \in StoredKeys /\ "networkPreferences" \in StoredKeys
    /\ "accountPreferences" \in StoredKeys /\ "accounts" \in StoredKeys
    /\ "keyPreferences" \in StoredKeys /\ "keys" \in StoredKeys
    /\ "tokenPreferences" \in StoredKeys /\ "customTokens" \in StoredKeys
    /\ "history" \in StoredKeys /\ "dapps" \in StoredKeys
    /\ "dappsV2" \in StoredKeys /\ "renewed" \in StoredKeys
    /\ Core \subseteq StoredKeys /\ Data \subseteq StoredKeys
  BY DEF StoredKeys, Core, Data

LEMMA OneIs ==
    ASSUME NEW d, IsStore(d), NEW a \in StoredKeys, NEW v
    PROVE  LET e == Applied(d, <<Put(a, v)>>)
           IN  IsStore(e) /\ e[a] = v /\ OnlyDiffer(d, e, {a})
  <1>1. Put(a, v).key \in StoredKeys
    BY DEF Put
  <1>2. Applied(d, <<Put(a, v)>>) = Written(d, Put(a, v))
    BY <1>1, OneWrite
  <1> QED  BY <1>2, WrittenIs DEF OnlyDiffer

LEMMA TwoAre ==
    ASSUME NEW d, IsStore(d), NEW a \in StoredKeys, NEW v, NEW b \in StoredKeys, NEW w, a # b
    PROVE  LET P == <<Put(a, v), Put(b, w)>>
               e == Applied(d, P)
           IN  /\ IsPlan(P) /\ Partly(d, P, 0) = d
               /\ Partly(d, P, 1) = Written(d, Put(a, v))
               /\ IsStore(e) /\ e[a] = v /\ e[b] = w /\ OnlyDiffer(d, e, {a, b})
  <1> DEFINE P == <<Put(a, v), Put(b, w)>>
  <1>1. Put(a, v).key = a /\ Put(b, w).key = b
    BY DEF Put
  <1>2. /\ IsPlan(P) /\ Partly(d, P, 0) = d
        /\ Partly(d, P, 1) = Written(d, Put(a, v))
        /\ Applied(d, P) = Written(Written(d, Put(a, v)), Put(b, w))
    BY <1>1, TwoWrites
  <1> HIDE DEF P
  <1>3. /\ IsStore(Written(d, Put(a, v))) /\ Written(d, Put(a, v))[a] = v
        /\ OnlyDiffer(d, Written(d, Put(a, v)), {a})
    BY WrittenIs DEF OnlyDiffer
  <1>4. /\ IsStore(Applied(d, P)) /\ Applied(d, P)[b] = w
        /\ OnlyDiffer(Written(d, Put(a, v)), Applied(d, P), {b})
    BY <1>2, <1>3, WrittenIs DEF OnlyDiffer
  <1>5. Applied(d, P)[a] = v /\ OnlyDiffer(d, Applied(d, P), {a, b})
    BY <1>3, <1>4 DEF OnlyDiffer
  <1> QED  BY <1>2, <1>4, <1>5 DEF P

\* The fields each migration changes.
LEMMA NetworksMigrated ==
    ASSUME NEW d, IsStore(d)
    PROVE  LET e == Migrated(d, "networkPreferences")
           IN  /\ IsPlan(Plan(d, "networkPreferences")) /\ IsStore(e)
               /\ IF d["networks"] = "none" /\ d["networkPreferences"] = "old"
                  THEN /\ e["networks"] = "named"
                       /\ OnlyDiffer(d, e, {"networks", "networkPreferences"})
                  ELSE e = d
  <1>1. CASE d["networks"] = "none" /\ d["networkPreferences"] = "old"
    <2>1. Plan(d, "networkPreferences") = <<Put("networks", "named"), Put("networkPreferences", "none")>>
      BY <1>1, Plans DEF NetworkPreferencesToNetworks, Erase
    <2>2. "networks" # "networkPreferences"
      OBVIOUS
    <2> QED  BY <1>1, <2>1, <2>2, TwoAre, StoredKeysAre DEF Migrated
  <1>2. CASE ~(d["networks"] = "none" /\ d["networkPreferences"] = "old")
    <2>1. Plan(d, "networkPreferences") = <<>>
      BY <1>2, Plans DEF NetworkPreferencesToNetworks
    <2> QED  BY <1>2, <2>1, NoWrites DEF Migrated
  <1> QED  BY <1>1, <1>2

LEMMA AccountsMigrated ==
    ASSUME NEW d, IsStore(d)
    PROVE  LET e == Migrated(d, "accountPreferences")
           IN  /\ IsPlan(Plan(d, "accountPreferences")) /\ IsStore(e)
               /\ IF d["accountPreferences"] = "old"
                  THEN /\ e["accountPreferences"] = "none"
                       /\ OnlyDiffer(d, e, {"accountPreferences"})
                  ELSE e = d
  <1>1. CASE d["accountPreferences"] = "old"
    <2>1. Plan(d, "accountPreferences") = <<Put("accountPreferences", "none")>>
      BY <1>1, Plans DEF AccountPreferencesToAccounts, Erase
    <2>2. Put("accountPreferences", "none").key \in StoredKeys
      BY StoredKeysAre DEF Put
    <2> QED  BY <1>1, <2>1, <2>2, OneIs, OneWrite, StoredKeysAre DEF Migrated
  <1>2. CASE d["accountPreferences"] # "old"
    <2>1. Plan(d, "accountPreferences") = <<>>
      BY <1>2, Plans DEF AccountPreferencesToAccounts
    <2> QED  BY <1>2, <2>1, NoWrites DEF Migrated
  <1> QED  BY <1>1, <1>2

LabelledKeys(d) == IF d["keys"] = "none" THEN "none" ELSE "labelled"

LEMMA KeysMigrated ==
    ASSUME NEW d, IsStore(d)
    PROVE  LET e == Migrated(d, "keyPreferences")
           IN  /\ IsPlan(Plan(d, "keyPreferences")) /\ IsStore(e)
               /\ IF d["keyPreferences"] = "old"
                  THEN /\ e["keyPreferences"] = "none" /\ e["keys"] = LabelledKeys(d)
                       /\ OnlyDiffer(d, e, {"keys", "keyPreferences"})
                  ELSE e = d
  <1>1. CASE d["keyPreferences"] = "old"
    <2>1. Plan(d, "keyPreferences") = <<Put("keys", LabelledKeys(d)), Put("keyPreferences", "none")>>
      BY <1>1, Plans DEF KeyPreferencesToKeystoreKeys, Erase, LabelledKeys
    <2>2. "keys" # "keyPreferences"
      OBVIOUS
    <2> QED  BY <1>1, <2>1, <2>2, TwoAre, StoredKeysAre DEF Migrated
  <1>2. CASE d["keyPreferences"] # "old"
    <2>1. Plan(d, "keyPreferences") = <<>>
      BY <1>2, Plans DEF KeyPreferencesToKeystoreKeys
    <2> QED  BY <1>2, <2>1, NoWrites DEF Migrated
  <1> QED  BY <1>1, <1>2

LEMMA TokensMigrated ==
    ASSUME NEW d, IsStore(d)
    PROVE  LET e == Migrated(d, "tokens")
           IN  /\ IsPlan(Plan(d, "tokens")) /\ IsStore(e)
               /\ IF d["tokenPreferences"] = "mixed"
                  THEN /\ e["tokenPreferences"] = "named" /\ e["customTokens"] = "named"
                       /\ OnlyDiffer(d, e, {"tokenPreferences", "customTokens"})
                  ELSE e = d
  <1>1. CASE d["tokenPreferences"] = "mixed"
    <2>1. Plan(d, "tokens") = <<Put("tokenPreferences", "named"), Put("customTokens", "named")>>
      BY <1>1, Plans DEF TokenPreferences
    <2>2. "tokenPreferences" # "customTokens"
      OBVIOUS
    <2> QED  BY <1>1, <2>1, <2>2, TwoAre, StoredKeysAre DEF Migrated
  <1>2. CASE d["tokenPreferences"] # "mixed"
    <2>1. Plan(d, "tokens") = <<>>
      BY <1>2, Plans DEF TokenPreferences
    <2> QED  BY <1>2, <2>1, NoWrites DEF Migrated
  <1> QED  BY <1>1, <1>2

FlaggedDapps(d) == IF d["dapps"] = "old" THEN "flagged" ELSE "none"

LEMMA DappsMigrated ==
    ASSUME NEW d, IsStore(d)
    PROVE  LET e == Migrated(d, "dapps")
           IN  /\ IsPlan(Plan(d, "dapps")) /\ IsStore(e)
               /\ e["dapps"] = "none" /\ e["dappsV2"] = FlaggedDapps(d)
               /\ OnlyDiffer(d, e, {"dapps", "dappsV2"})
  <1>1. Plan(d, "dapps") = <<Put("dappsV2", FlaggedDapps(d)), Put("dapps", "none")>>
    BY Plans DEF LegacyDappsToDappsV2, Erase, FlaggedDapps
  <1>2. "dappsV2" # "dapps" /\ {"dapps", "dappsV2"} = {"dappsV2", "dapps"}
    OBVIOUS
  <1> QED  BY <1>1, <1>2, TwoAre, StoredKeysAre DEF Migrated

LEMMA SourcesMigrated ==
    ASSUME NEW d, IsStore(d)
    PROVE  LET e == Migrated(d, "sources")
           IN  /\ IsPlan(Plan(d, "sources")) /\ IsStore(e)
               /\ IF d["dappsV2"] = "flagged"
                  THEN e["dappsV2"] = "sourced" /\ OnlyDiffer(d, e, {"dappsV2"})
                  ELSE e = d
  <1>1. CASE d["dappsV2"] = "flagged"
    <2>1. Plan(d, "sources") = <<Put("dappsV2", "sourced")>>
      BY <1>1, Plans DEF DappsAddConnectionSources
    <2>2. Put("dappsV2", "sourced").key \in StoredKeys
      BY StoredKeysAre DEF Put
    <2> QED  BY <1>1, <2>1, <2>2, OneIs, OneWrite, StoredKeysAre DEF Migrated
  <1>2. CASE d["dappsV2"] # "flagged"
    <2>1. Plan(d, "sources") = <<>>
      BY <1>2, Plans DEF DappsAddConnectionSources
    <2> QED  BY <1>2, <2>1, NoWrites DEF Migrated
  <1> QED  BY <1>1, <1>2

LEMMA RenewedMigrated ==
    ASSUME NEW d, IsStore(d), NEW m \in Renewed
    PROVE  LET e == Migrated(d, m)
           IN  /\ IsPlan(Plan(d, m)) /\ IsStore(e)
               /\ e["renewed"] = d["renewed"] \cup {m}
               /\ OnlyDiffer(d, e, {"renewed"})
  <1> DEFINE v == d["renewed"] \cup {m}
  <1>1. Plan(d, m) = <<Put("renewed", v)>>
    BY Plans DEF Renew
  <1>2. Put("renewed", v).key \in StoredKeys
    BY StoredKeysAre DEF Put
  <1> HIDE DEF v
  <1>3. /\ IsPlan(Plan(d, m)) /\ IsStore(Migrated(d, m))
        /\ Migrated(d, m)["renewed"] = v /\ OnlyDiffer(d, Migrated(d, m), {"renewed"})
    BY <1>1, <1>2, OneIs, OneWrite, StoredKeysAre DEF Migrated
  <1> QED  BY <1>3 DEF v

LEMMA ChainsMigrated ==
    ASSUME NEW d, IsStore(d)
    PROVE  LET e == Migrated(d, "chainIds")
           IN  /\ IsPlan(Plan(d, "chainIds")) /\ IsStore(e)
               /\ IF d["networks"] = "none" THEN e = d
                  ELSE /\ e["networks"] = "chained"
                       /\ e["customTokens"] = Rekeyed(d, d["customTokens"])
                       /\ e["tokenPreferences"] = Rekeyed(d, d["tokenPreferences"])
                       /\ e["history"] = Rekeyed(d, d["history"])
                       /\ OnlyDiffer(d, e, {"networks", "customTokens", "tokenPreferences", "history"})
  <1>1. CASE d["networks"] = "none"
    <2>1. Plan(d, "chainIds") = <<>>
      BY <1>1, Plans DEF NetworkIdToChainId
    <2> QED  BY <1>1, <2>1, NoWrites DEF Migrated
  <1>2. CASE d["networks"] # "none"
    <2> DEFINE w1 == Put("networks", "chained")
               w2 == Put("customTokens", Rekeyed(d, d["customTokens"]))
               w3 == Put("tokenPreferences", Rekeyed(d, d["tokenPreferences"]))
               w4 == Put("history", Rekeyed(d, d["history"]))
               d1 == Written(d, w1)
               d2 == Written(d1, w2)
               d3 == Written(d2, w3)
               e == Written(d3, w4)
    <2>1. Plan(d, "chainIds") = <<w1, w2, w3, w4>>
      BY <1>2, Plans DEF NetworkIdToChainId
    <2>2. /\ w1.key = "networks" /\ w2.key = "customTokens" /\ w3.key = "tokenPreferences"
          /\ w4.key = "history"
      BY DEF Put
    <2>3. IsPlan(Plan(d, "chainIds")) /\ Migrated(d, "chainIds") = e
      <3> HIDE DEF w1, w2, w3, w4
      <3> QED  BY <2>1, <2>2, FourWrites DEF Migrated
    <2>4. IsStore(d1) /\ d1["networks"] = "chained" /\ OnlyDiffer(d, d1, {"networks"})
      BY WrittenIs, StoredKeysAre DEF OnlyDiffer
    <2> HIDE DEF d1
    <2>5. /\ IsStore(d2) /\ d2["customTokens"] = Rekeyed(d, d["customTokens"])
          /\ OnlyDiffer(d1, d2, {"customTokens"})
      BY <2>4, WrittenIs, StoredKeysAre DEF OnlyDiffer
    <2> HIDE DEF d2
    <2>6. /\ IsStore(d3) /\ d3["tokenPreferences"] = Rekeyed(d, d["tokenPreferences"])
          /\ OnlyDiffer(d2, d3, {"tokenPreferences"})
      BY <2>5, WrittenIs, StoredKeysAre DEF OnlyDiffer
    <2> HIDE DEF d3
    <2>7. /\ IsStore(e) /\ e["history"] = Rekeyed(d, d["history"])
          /\ OnlyDiffer(d3, e, {"history"})
      BY <2>6, WrittenIs, StoredKeysAre DEF OnlyDiffer
    <2> HIDE DEF e
    <2>8. e["networks"] = "chained" /\ e["customTokens"] = Rekeyed(d, d["customTokens"])
          /\ e["tokenPreferences"] = Rekeyed(d, d["tokenPreferences"])
      BY <2>4, <2>5, <2>6, <2>7, StoredKeysAre DEF OnlyDiffer
    <2>9. OnlyDiffer(d, e, {"networks", "customTokens", "tokenPreferences", "history"})
      BY <2>4, <2>5, <2>6, <2>7 DEF OnlyDiffer
    <2> QED  BY <1>2, <2>3, <2>7, <2>8, <2>9
  <1> QED  BY <1>1, <1>2

-----------------------------------------------------------------------------
(* A migration makes the same of what is the same, and it makes of what it *)
(* left when it was interrupted what it would have made.                   *)

LEMMA SameIs ==
    ASSUME NEW d, NEW e, NEW whole \in BOOLEAN
    PROVE  Same(d, e, whole) <=>
             /\ d["networks"] = e["networks"] /\ d["accounts"] = e["accounts"]
             /\ d["keys"] = e["keys"] /\ d["renewed"] = e["renewed"]
             /\ d["keyPreferences"] = e["keyPreferences"]
             /\ d["accountPreferences"] = e["accountPreferences"]
             /\ (d["networks"] = "none" => d["networkPreferences"] = e["networkPreferences"])
             /\ (whole => /\ d["customTokens"] = e["customTokens"]
                          /\ d["tokenPreferences"] = e["tokenPreferences"]
                          /\ d["history"] = e["history"]
                          /\ d["dapps"] = e["dapps"] /\ d["dappsV2"] = e["dappsV2"])
  <1>1. (\A k \in Core : d[k] = e[k]) <=>
             /\ d["networks"] = e["networks"] /\ d["accounts"] = e["accounts"]
             /\ d["keys"] = e["keys"] /\ d["renewed"] = e["renewed"]
             /\ d["keyPreferences"] = e["keyPreferences"]
             /\ d["accountPreferences"] = e["accountPreferences"]
    BY DEF Core
  <1>2. (\A k \in Data : d[k] = e[k]) <=>
             /\ d["customTokens"] = e["customTokens"]
             /\ d["tokenPreferences"] = e["tokenPreferences"]
             /\ d["history"] = e["history"]
             /\ d["dapps"] = e["dapps"] /\ d["dappsV2"] = e["dappsV2"]
    BY DEF Data
  <1> QED  BY <1>1, <1>2 DEF Same

LEMMA SameIf ==
    ASSUME NEW d, NEW e, NEW whole,
           \A k \in StoredKeys : k # "networkPreferences" => d[k] = e[k],
           d["networks"] = "none" => d["networkPreferences"] = e["networkPreferences"]
    PROVE  Same(d, e, whole)
  <1>1. \A k \in Core \cup Data : k \in StoredKeys /\ k # "networkPreferences"
    BY DEF Core, Data, StoredKeys
  <1> QED  BY <1>1 DEF Same

LEMMA SameBack ==
    ASSUME NEW d, NEW e, NEW whole \in BOOLEAN, Same(d, e, whole)
    PROVE  Same(e, d, whole)
  BY SameIs

LEMMA SameOn ==
    ASSUME NEW d, NEW e, NEW f, NEW whole \in BOOLEAN, Same(d, e, whole), Same(e, f, whole)
    PROVE  Same(d, f, whole)
  BY SameIs

LEMMA SameLess ==
    ASSUME NEW d, NEW e, NEW whole \in BOOLEAN, NEW less \in BOOLEAN, Same(d, e, whole),
           less => whole
    PROVE  Same(d, e, less)
  BY SameIs

LEMMA SameSelf == ASSUME NEW d, NEW whole \in BOOLEAN PROVE Same(d, d, whole)
  BY SameIs

LEMMA ThrowsIs ==
    ASSUME NEW d, NEW e, NEW whole \in BOOLEAN, Same(d, e, whole), NEW m
    PROVE  Throws(d, m) <=> Throws(e, m)
  BY SameIs DEF Throws

LEMMA OnlyDifferIs ==
    ASSUME NEW d, NEW e, NEW ks, OnlyDiffer(d, e, ks)
    PROVE  /\ "networks" \notin ks => e["networks"] = d["networks"]
           /\ "accounts" \notin ks => e["accounts"] = d["accounts"]
           /\ "keys" \notin ks => e["keys"] = d["keys"]
           /\ "renewed" \notin ks => e["renewed"] = d["renewed"]
           /\ "keyPreferences" \notin ks => e["keyPreferences"] = d["keyPreferences"]
           /\ "accountPreferences" \notin ks => e["accountPreferences"] = d["accountPreferences"]
           /\ "networkPreferences" \notin ks => e["networkPreferences"] = d["networkPreferences"]
           /\ "customTokens" \notin ks => e["customTokens"] = d["customTokens"]
           /\ "tokenPreferences" \notin ks => e["tokenPreferences"] = d["tokenPreferences"]
           /\ "history" \notin ks => e["history"] = d["history"]
           /\ "dapps" \notin ks => e["dapps"] = d["dapps"]
           /\ "dappsV2" \notin ks => e["dappsV2"] = d["dappsV2"]
  BY StoredKeysAre DEF OnlyDiffer

\* Of what is the same a migration makes the same.
LEMMA MigratesTheSame ==
    ASSUME NEW d, NEW e, IsStore(d), IsStore(e), NEW whole \in BOOLEAN, Same(d, e, whole),
           NEW m \in MigrationNames
    PROVE  Same(Migrated(d, m), Migrated(e, m), whole)
  <1>1. d["networks"] = e["networks"] /\ d["accounts"] = e["accounts"]
        /\ d["keys"] = e["keys"] /\ d["renewed"] = e["renewed"]
        /\ d["keyPreferences"] = e["keyPreferences"]
        /\ d["accountPreferences"] = e["accountPreferences"]
        /\ (d["networks"] = "none" => d["networkPreferences"] = e["networkPreferences"])
        /\ (whole => /\ d["customTokens"] = e["customTokens"]
                     /\ d["tokenPreferences"] = e["tokenPreferences"]
                     /\ d["history"] = e["history"]
                     /\ d["dapps"] = e["dapps"] /\ d["dappsV2"] = e["dappsV2"])
    BY SameIs
  <1>2. CASE m = "networkPreferences"
    <2>1. \A f, g : OnlyDiffer(f, g, {"networks", "networkPreferences"}) =>
            \A k \in StoredKeys \ {"networks", "networkPreferences"} : g[k] = f[k]
      BY DEF OnlyDiffer
    <2> QED  BY <1>1, <1>2, <2>1, NetworksMigrated, SameIs, StoredKeysAre
  <1>3. CASE m = "accountPreferences"
    <2>1. \A f, g : OnlyDiffer(f, g, {"accountPreferences"}) =>
            \A k \in StoredKeys \ {"accountPreferences"} : g[k] = f[k]
      BY DEF OnlyDiffer
    <2> QED  BY <1>1, <1>3, <2>1, AccountsMigrated, SameIs, StoredKeysAre
  <1>4. CASE m = "keyPreferences"
    <2>1. \A f, g : OnlyDiffer(f, g, {"keys", "keyPreferences"}) =>
            \A k \in StoredKeys \ {"keys", "keyPreferences"} : g[k] = f[k]
      BY DEF OnlyDiffer
    <2> QED  BY <1>1, <1>4, <2>1, KeysMigrated, SameIs, StoredKeysAre DEF LabelledKeys
  <1>5. CASE m = "tokens"
    <2>1. \A f, g : OnlyDiffer(f, g, {"tokenPreferences", "customTokens"}) =>
            \A k \in StoredKeys \ {"tokenPreferences", "customTokens"} : g[k] = f[k]
      BY DEF OnlyDiffer
    <2> QED  BY <1>1, <1>5, <2>1, TokensMigrated, SameIs, StoredKeysAre
  <1>6. CASE m = "chainIds"
    <2>1. \A f, g : OnlyDiffer(f, g, {"networks", "customTokens", "tokenPreferences", "history"}) =>
            \A k \in StoredKeys \ {"networks", "customTokens", "tokenPreferences", "history"} : g[k] = f[k]
      BY DEF OnlyDiffer
    <2> QED  BY <1>1, <1>6, <2>1, ChainsMigrated, SameIs, StoredKeysAre DEF Rekeyed
  <1>7. CASE m = "dapps"
    <2>1. \A f, g : OnlyDiffer(f, g, {"dapps", "dappsV2"}) =>
            \A k \in StoredKeys \ {"dapps", "dappsV2"} : g[k] = f[k]
      BY DEF OnlyDiffer
    <2> QED  BY <1>1, <1>7, <2>1, DappsMigrated, SameIs, StoredKeysAre DEF FlaggedDapps
  <1>8. CASE m = "sources"
    <2>1. \A f, g : OnlyDiffer(f, g, {"dappsV2"}) =>
            \A k \in StoredKeys \ {"dappsV2"} : g[k] = f[k]
      BY DEF OnlyDiffer
    <2> QED  BY <1>1, <1>8, <2>1, SourcesMigrated, SameIs, StoredKeysAre
  <1>9. CASE m \in Renewed
    <2>1. \A f, g : OnlyDiffer(f, g, {"renewed"}) => \A k \in StoredKeys \ {"renewed"} : g[k] = f[k]
      BY DEF OnlyDiffer
    <2>2. /\ Migrated(d, m)["renewed"] = d["renewed"] \cup {m}
          /\ Migrated(e, m)["renewed"] = e["renewed"] \cup {m}
          /\ \A k \in StoredKeys \ {"renewed"} : /\ Migrated(d, m)[k] = d[k]
                                               /\ Migrated(e, m)[k] = e[k]
      BY <1>9, <2>1, RenewedMigrated
    <2> QED  BY <1>1, <2>2, SameIs, StoredKeysAre
  <1> QED  BY <1>2, <1>3, <1>4, <1>5, <1>6, <1>7, <1>8, <1>9, MigrationsAre

\* A migration that ran to its end changes nothing when it runs again, or
\* nothing users cannot get back.
LEMMA MigratesTwice ==
    ASSUME NEW d, IsStore(d), NEW m \in MigrationNames
    PROVE  Same(Migrated(Migrated(d, m), m), Migrated(d, m), m \notin Unrepeatable)
  <1> DEFINE e == Migrated(d, m)
  <1>1. CASE m = "networkPreferences"
    <2>1. Migrated(e, m) = e
      BY <1>1, NetworksMigrated
    <2> QED  BY <2>1, SameIs
  <1>2. CASE m = "accountPreferences"
    <2>1. Migrated(e, m) = e
      BY <1>2, AccountsMigrated
    <2> QED  BY <2>1, SameIs
  <1>3. CASE m = "keyPreferences"
    <2>1. Migrated(e, m) = e
      BY <1>3, KeysMigrated
    <2> QED  BY <2>1, SameIs
  <1>4. CASE m = "tokens"
    <2>1. Migrated(e, m) = e
      BY <1>4, TokensMigrated
    <2> QED  BY <2>1, SameIs
  <1>5. CASE m = "chainIds"
    <2>1. m \in Unrepeatable
      BY <1>5 DEF Unrepeatable
    <2>2. CASE d["networks"] = "none"
      <3>1. Migrated(e, m) = e
        BY <1>5, <2>2, ChainsMigrated
      <3> QED  BY <3>1, SameIs
    <2>3. CASE d["networks"] # "none"
      <3>1. /\ IsStore(e) /\ e["networks"] = "chained"
        BY <1>5, <2>3, ChainsMigrated
      <3>2. /\ Migrated(e, m)["networks"] = "chained"
            /\ OnlyDiffer(e, Migrated(e, m), {"networks", "customTokens", "tokenPreferences", "history"})
        BY <1>5, <3>1, ChainsMigrated
      <3> HIDE DEF e
      <3>3. Same(Migrated(e, m), e, FALSE)
        BY <3>1, <3>2, SameIs, StoredKeysAre DEF OnlyDiffer
      <3> QED  BY <2>1, <3>3 DEF e
    <2> QED  BY <2>2, <2>3
  <1>6. CASE m = "dapps"
    <2>1. m \in Unrepeatable
      BY <1>6 DEF Unrepeatable
    <2>2. IsStore(e)
      BY <1>6, DappsMigrated
    <2>3. OnlyDiffer(e, Migrated(e, m), {"dapps", "dappsV2"})
      BY <1>6, <2>2, DappsMigrated
    <2> HIDE DEF e
    <2>4. Same(Migrated(e, m), e, FALSE)
      BY <2>3, SameIs, StoredKeysAre DEF OnlyDiffer
    <2> QED  BY <2>1, <2>4 DEF e
  <1>7. CASE m = "sources"
    <2>1. Migrated(e, m) = e
      BY <1>7, SourcesMigrated
    <2> QED  BY <2>1, SameIs
  <1>8. CASE m \in Renewed
    <2>1. /\ IsStore(e) /\ e["renewed"] = d["renewed"] \cup {m}
      BY <1>8, RenewedMigrated
    <2>2. /\ Migrated(e, m)["renewed"] = e["renewed"] \cup {m}
          /\ OnlyDiffer(e, Migrated(e, m), {"renewed"})
      BY <1>8, <2>1, RenewedMigrated
    <2>3. Migrated(e, m)["renewed"] = e["renewed"]
      BY <2>1, <2>2
    <2> HIDE DEF e
    <2>4. Same(Migrated(e, m), e, TRUE) /\ Same(Migrated(e, m), e, FALSE)
      BY <2>2, <2>3, SameIs, StoredKeysAre DEF OnlyDiffer
    <2> QED  BY <2>4 DEF e
  <1> QED  BY <1>1, <1>2, <1>3, <1>4, <1>5, <1>6, <1>7, <1>8, MigrationsAre

\* What an interrupted migration left is migrated as if it were not, or what
\* users cannot get back is.
LEMMA NetworksResume ==
    ASSUME NEW d, IsStore(d), d["networks"] = "none", d["networkPreferences"] = "old"
    PROVE  LET P == Plan(d, "networkPreferences")
               e == Partly(d, P, 1)
           IN  /\ Len(P) = 2
               /\ Same(Migrated(e, "networkPreferences"), Migrated(d, "networkPreferences"), TRUE)
  <1> DEFINE w1 == Put("networks", "named")
             w2 == Put("networkPreferences", "none")
             e == Written(d, w1)
  <1>1. Plan(d, "networkPreferences") = <<w1, w2>>
    BY Plans DEF NetworkPreferencesToNetworks, Erase
  <1>2. Partly(d, <<w1, w2>>, 1) = e
    <2>1. /\ w1.key = "networks" /\ w2.key = "networkPreferences"
          /\ w1.key # w2.key /\ w1.key \in StoredKeys /\ w2.key \in StoredKeys
      BY StoredKeysAre DEF Put
    <2> HIDE DEF w1, w2
    <2> QED  BY <2>1, TwoWrites
  <1>3. IsStore(e) /\ e["networks"] = "named" /\ OnlyDiffer(d, e, {"networks"})
    BY WrittenIs, StoredKeysAre DEF OnlyDiffer
  <1>4. Len(<<w1, w2>>) = 2
    OBVIOUS
  <1> HIDE DEF e
  <1>5. Migrated(e, "networkPreferences") = e
    BY <1>3, NetworksMigrated
  <1>6. /\ Migrated(d, "networkPreferences")["networks"] = "named"
        /\ OnlyDiffer(d, Migrated(d, "networkPreferences"), {"networks", "networkPreferences"})
    BY NetworksMigrated
  <1>7. Same(e, Migrated(d, "networkPreferences"), TRUE)
    <2>1. \A k \in StoredKeys \ {"networks", "networkPreferences"} :
            e[k] = d[k] /\ Migrated(d, "networkPreferences")[k] = d[k]
      BY <1>3, <1>6 DEF OnlyDiffer
    <2>2. ASSUME NEW g, g["networks"] = "named",
                 \A k \in StoredKeys \ {"networks", "networkPreferences"} : e[k] = g[k]
          PROVE  Same(e, g, TRUE)
      <3>1. \A k \in StoredKeys : k # "networkPreferences" => e[k] = g[k]
        BY <1>3, <2>2
      <3>2. e["networks"] # "none"
        BY <1>3
      <3> QED  BY <3>1, <3>2, SameIf
    <2> QED  BY <1>6, <2>1, <2>2
  <1> QED  BY <1>1, <1>2, <1>4, <1>5, <1>7

LEMMA KeysResume ==
    ASSUME NEW d, IsStore(d), d["keyPreferences"] = "old"
    PROVE  LET P == Plan(d, "keyPreferences")
               e == Partly(d, P, 1)
           IN  /\ Len(P) = 2
               /\ Same(Migrated(e, "keyPreferences"), Migrated(d, "keyPreferences"), TRUE)
  <1> DEFINE w1 == Put("keys", LabelledKeys(d))
             w2 == Put("keyPreferences", "none")
             e == Written(d, w1)
  <1>1. Plan(d, "keyPreferences") = <<w1, w2>>
    BY Plans DEF KeyPreferencesToKeystoreKeys, Erase, LabelledKeys
  <1>2. Partly(d, <<w1, w2>>, 1) = e
    <2>1. /\ w1.key = "keys" /\ w2.key = "keyPreferences"
          /\ w1.key # w2.key /\ w1.key \in StoredKeys /\ w2.key \in StoredKeys
      BY StoredKeysAre DEF Put
    <2> HIDE DEF w1, w2
    <2> QED  BY <2>1, TwoWrites
  <1>3. IsStore(e) /\ e["keys"] = LabelledKeys(d) /\ OnlyDiffer(d, e, {"keys"})
    BY WrittenIs, StoredKeysAre DEF OnlyDiffer
  <1>4. Len(<<w1, w2>>) = 2
    OBVIOUS
  <1> HIDE DEF e
  <1>5. e["keyPreferences"] = "old" /\ LabelledKeys(e) = LabelledKeys(d)
    BY <1>3, StoredKeysAre DEF OnlyDiffer, LabelledKeys
  <1>6. /\ Migrated(d, "keyPreferences")["keyPreferences"] = "none"
        /\ Migrated(d, "keyPreferences")["keys"] = LabelledKeys(d)
        /\ OnlyDiffer(d, Migrated(d, "keyPreferences"), {"keys", "keyPreferences"})
    BY KeysMigrated
  <1>7. /\ Migrated(e, "keyPreferences")["keyPreferences"] = "none"
        /\ Migrated(e, "keyPreferences")["keys"] = LabelledKeys(d)
        /\ OnlyDiffer(e, Migrated(e, "keyPreferences"), {"keys", "keyPreferences"})
    BY <1>3, <1>5, KeysMigrated
  <1>8. Same(Migrated(e, "keyPreferences"), Migrated(d, "keyPreferences"), TRUE)
    <2>1. \A k \in StoredKeys \ {"keys", "keyPreferences"} :
            Migrated(e, "keyPreferences")[k] = Migrated(d, "keyPreferences")[k]
      BY <1>3, <1>6, <1>7 DEF OnlyDiffer
    <2>2. \A k \in StoredKeys :
            Migrated(e, "keyPreferences")[k] = Migrated(d, "keyPreferences")[k]
      BY <1>6, <1>7, <2>1
    <2> QED  BY <2>2, SameIf, StoredKeysAre
  <1> QED  BY <1>1, <1>2, <1>4, <1>8

\* The migrations of tokens and of dapps write nothing of the core.
LEMMA DataMigrated ==
    ASSUME NEW d, NEW e, IsStore(d), IsStore(e), Same(d, e, FALSE), NEW m \in {"tokens", "dapps"}
    PROVE  Same(Migrated(e, m), Migrated(d, m), FALSE) /\ Same(Migrated(d, m), d, FALSE)
  <1>1. ASSUME NEW f, IsStore(f) PROVE Same(Migrated(f, m), f, FALSE)
    <2>1. OnlyDiffer(f, Migrated(f, m), Data)
      <3>1. CASE m = "tokens"
        <4>1. \/ OnlyDiffer(f, Migrated(f, m), {"tokenPreferences", "customTokens"})
              \/ Migrated(f, m) = f
          BY <1>1, <3>1, TokensMigrated
        <4> QED  BY <4>1 DEF OnlyDiffer, Data
      <3>2. CASE m = "dapps"
        <4>1. OnlyDiffer(f, Migrated(f, m), {"dapps", "dappsV2"})
          BY <1>1, <3>2, DappsMigrated
        <4> QED  BY <4>1 DEF OnlyDiffer, Data
      <3> QED  BY <3>1, <3>2
    <2>2. \A k \in StoredKeys \ Data : Migrated(f, m)[k] = f[k]
      BY <2>1 DEF OnlyDiffer
    <2> QED  BY <2>2, SameIs, StoredKeysAre DEF Data
  <1>2. Same(Migrated(d, m), d, FALSE) /\ Same(Migrated(e, m), e, FALSE)
    BY <1>1
  <1>3. Same(e, d, FALSE) /\ Same(Migrated(e, m), d, FALSE)
    <2>1. Same(e, d, FALSE)
      BY SameBack
    <2> QED  BY <1>2, <2>1, SameOn
  <1>4. Same(d, Migrated(d, m), FALSE)
    BY <1>2, SameBack
  <1> QED  BY <1>2, <1>3, <1>4, SameOn

\* The migration to chain ids has written the networks first.
LEMMA ChainsResume ==
    ASSUME NEW d, IsStore(d), d["networks"] # "none", NEW n \in 1..3
    PROVE  LET P == Plan(d, "chainIds")
               e == Partly(d, P, n)
           IN  /\ Len(P) = 4
               /\ Same(Migrated(e, "chainIds"), Migrated(d, "chainIds"), FALSE)
  <1> DEFINE w1 == Put("networks", "chained")
             w2 == Put("customTokens", Rekeyed(d, d["customTokens"]))
             w3 == Put("tokenPreferences", Rekeyed(d, d["tokenPreferences"]))
             w4 == Put("history", Rekeyed(d, d["history"]))
             P == <<w1, w2, w3, w4>>
             d1 == Written(d, w1)
             d2 == Written(d1, w2)
             d3 == Written(d2, w3)
             ks == {"networks", "customTokens", "tokenPreferences", "history"}
  <1>1. Plan(d, "chainIds") = P
    BY Plans DEF NetworkIdToChainId
  <1>2. /\ w1.key = "networks" /\ w2.key = "customTokens" /\ w3.key = "tokenPreferences"
        /\ w4.key = "history"
    BY DEF Put
  <1>3. Len(P) = 4 /\ Partly(d, P, 1) = d1 /\ Partly(d, P, 2) = d2 /\ Partly(d, P, 3) = d3
    <2> HIDE DEF w1, w2, w3, w4
    <2> QED  BY <1>2, FourWrites
  <1> HIDE DEF P
  <1>4. IsStore(d1) /\ d1["networks"] = "chained" /\ OnlyDiffer(d, d1, ks)
    BY WrittenIs, StoredKeysAre DEF OnlyDiffer
  <1> HIDE DEF d1
  <1>5. IsStore(d2) /\ d2["networks"] = "chained" /\ OnlyDiffer(d, d2, ks)
    BY <1>4, WrittenIs, StoredKeysAre DEF OnlyDiffer
  <1> HIDE DEF d2
  <1>6. IsStore(d3) /\ d3["networks"] = "chained" /\ OnlyDiffer(d, d3, ks)
    BY <1>5, WrittenIs, StoredKeysAre DEF OnlyDiffer
  <1> HIDE DEF d3
  <1>7. ASSUME NEW e, IsStore(e), e["networks"] = "chained", OnlyDiffer(d, e, ks)
        PROVE  Same(Migrated(e, "chainIds"), Migrated(d, "chainIds"), FALSE)
    <2>1. /\ Migrated(e, "chainIds")["networks"] = "chained"
          /\ OnlyDiffer(e, Migrated(e, "chainIds"), ks)
      BY <1>7, ChainsMigrated
    <2>2. /\ Migrated(d, "chainIds")["networks"] = "chained"
          /\ OnlyDiffer(d, Migrated(d, "chainIds"), ks)
      BY ChainsMigrated
    <2>3. \A k \in StoredKeys \ ks : Migrated(e, "chainIds")[k] = Migrated(d, "chainIds")[k]
      BY <1>7, <2>1, <2>2 DEF OnlyDiffer
    <2> QED  BY <2>1, <2>2, <2>3, SameIs, StoredKeysAre
  <1>8. n = 1 \/ n = 2 \/ n = 3
    OBVIOUS
  <1> QED  BY <1>1, <1>3, <1>4, <1>5, <1>6, <1>7, <1>8

\* Each migration has a plan and leaves a store.
LEMMA PlansArePlans ==
    ASSUME NEW d, IsStore(d), NEW m \in MigrationNames
    PROVE  IsPlan(Plan(d, m)) /\ IsStore(Migrated(d, m))
  BY NetworksMigrated, AccountsMigrated, KeysMigrated, TokensMigrated, ChainsMigrated,
     DappsMigrated, SourcesMigrated, RenewedMigrated, MigrationsAre

\* The writes of tokens and of dapps.
LEMMA DataPartly ==
    ASSUME NEW d, IsStore(d), NEW m \in {"tokens", "dapps"}
    PROVE  LET P == Plan(d, m)
           IN  /\ Len(P) \in {0, 2}
               /\ Len(P) = 2 => Same(d, Partly(d, P, 1), FALSE) /\ IsStore(Partly(d, P, 1))
  <1>1. ASSUME NEW w1, NEW w2, w1.key \in Data, w2.key \in Data, w1.key # w2.key
        PROVE  Same(d, Partly(d, <<w1, w2>>, 1), FALSE) /\ IsStore(Partly(d, <<w1, w2>>, 1))
    <2>1. w1.key \in StoredKeys /\ w2.key \in StoredKeys
      BY <1>1, StoredKeysAre
    <2>2. Partly(d, <<w1, w2>>, 1) = Written(d, w1)
      BY <1>1, <2>1, TwoWrites
    <2> DEFINE e == Written(d, w1)
    <2>3. IsStore(e) /\ \A k \in StoredKeys \ Data : e[k] = d[k]
      BY <1>1, <2>1 DEF Written, IsStore
    <2> HIDE DEF e
    <2>4. Same(d, e, FALSE)
      BY <2>3, SameIs, StoredKeysAre DEF Data
    <2> QED  BY <2>2, <2>3, <2>4 DEF e
  <1>2. CASE m = "tokens"
    <2> DEFINE w1 == Put("tokenPreferences", "named")
               w2 == Put("customTokens", "named")
    <2>1. w1.key \in Data /\ w2.key \in Data /\ w1.key # w2.key
      BY DEF Put, Data
    <2>2. Plan(d, m) = <<>> \/ Plan(d, m) = <<w1, w2>>
      BY <1>2, Plans DEF TokenPreferences
    <2> HIDE DEF w1, w2
    <2>3. Len(<<w1, w2>>) = 2 /\ Len(<<>>) = 0
      OBVIOUS
    <2>4. CASE Plan(d, m) = <<>>
      <3>1. Len(Plan(d, m)) = 0
        BY <2>3, <2>4
      <3> QED  BY <3>1
    <2>5. CASE Plan(d, m) = <<w1, w2>>
      BY <1>1, <2>1, <2>3, <2>5
    <2> QED  BY <2>2, <2>4, <2>5
  <1>3. CASE m = "dapps"
    <2> DEFINE w1 == Put("dappsV2", FlaggedDapps(d))
               w2 == Put("dapps", "none")
    <2>1. w1.key \in Data /\ w2.key \in Data /\ w1.key # w2.key
      BY DEF Put, Data
    <2>2. Plan(d, m) = <<w1, w2>>
      BY <1>3, Plans DEF LegacyDappsToDappsV2, Erase, FlaggedDapps
    <2> HIDE DEF w1, w2
    <2>3. Len(<<w1, w2>>) = 2
      OBVIOUS
    <2> QED  BY <1>1, <2>1, <2>2, <2>3
  <1> QED  BY <1>2, <1>3

\* The other migrations make one write at most.
LEMMA OneAtMost ==
    ASSUME NEW d, NEW m \in {"accountPreferences", "sources"} \cup Renewed
    PROVE  Len(Plan(d, m)) \in {0, 1}
  <1>1. \A w : Len(<<w>>) = 1 /\ Len(<<>>) = 0
    OBVIOUS
  <1>2. CASE m = "accountPreferences"
    BY <1>1, <1>2, Plans DEF AccountPreferencesToAccounts
  <1>3. CASE m = "sources"
    BY <1>1, <1>3, Plans DEF DappsAddConnectionSources
  <1>4. CASE m \in Renewed
    BY <1>1, <1>4, Plans DEF Renew
  <1> QED  BY <1>2, <1>3, <1>4

\* What a migration that began and was interrupted has left: it does not throw,
\* and it makes of it the same as it would have made without interruption.
LEMMA Resumes ==
    ASSUME NEW d, IsStore(d), NEW m \in MigrationNames, ~Throws(d, m), NEW n \in 0..Len(Plan(d, m))
    PROVE  LET e == Partly(d, Plan(d, m), n)
           IN  /\ IsStore(e) /\ ~Throws(e, m)
               /\ Same(Migrated(e, m), Migrated(d, m), m \notin Unrepeatable)
  <1> DEFINE P == Plan(d, m)
             e == Partly(d, P, n)
  <1>1. IsPlan(P)
    BY PlansArePlans
  <1>2. IsStore(e) /\ Partly(d, P, 0) = d /\ Partly(d, P, Len(P)) = Migrated(d, m)
    <2> HIDE DEF P
    <2>1. \A i \in 0..Len(P) : IsStore(Partly(d, P, i))
      BY <1>1, PartlySteps
    <2>2. Partly(d, P, 0) = d /\ Partly(d, P, Len(P)) = Applied(d, P)
      BY <1>1, PartlySteps
    <2> QED  BY <2>1, <2>2 DEF P, Migrated
  <1>3. n \in Nat /\ Len(P) \in Nat /\ n \in 0..Len(P)
    BY <1>1 DEF IsPlan
  <1>4. (m \notin Unrepeatable) \in BOOLEAN
    OBVIOUS
  <1>5. CASE n = 0
    <2>1. e = d
      BY <1>2, <1>5
    <2> HIDE DEF e
    <2>2. Same(Migrated(e, m), Migrated(d, m), m \notin Unrepeatable)
      BY <1>4, <2>1, SameSelf
    <2> QED  BY <1>2, <2>1, <2>2 DEF e
  <1>6. CASE n = Len(P)
    <2>1. e = Migrated(d, m)
      BY <1>2, <1>6
    <2>2. ~Throws(Migrated(d, m), m)
      <3>1. CASE m = "accountPreferences"
        BY <3>1, AccountsMigrated DEF Throws
      <3> QED  BY <3>1 DEF Throws
    <2> HIDE DEF e
    <2>3. Same(Migrated(e, m), Migrated(d, m), m \notin Unrepeatable)
      BY <2>1, MigratesTwice
    <2> QED  BY <1>2, <2>1, <2>2, <2>3 DEF e
  <1>7. CASE n # 0 /\ n # Len(P)
    <2>0. /\ Len(P) # 0 /\ Len(P) # 1
          /\ (Len(P) = 2 => n = 1) /\ (Len(P) = 4 => n \in 1..3)
      <3>1. \A L \in Nat : \A i \in 0..L : i # 0 /\ i # L =>
              L # 0 /\ L # 1 /\ (L = 2 => i = 1) /\ (L = 4 => i \in 1..3)
        OBVIOUS
      <3> HIDE DEF P, e
      <3> QED  BY <1>3, <1>7, <3>1, Zenon
    <2>1. m \notin {"accountPreferences", "sources"} \cup Renewed
      BY <2>0, OneAtMost
    <2>2. ~Throws(e, m)
      BY <2>1 DEF Throws
    <2>3. CASE m = "networkPreferences"
      <3>1. d["networks"] = "none" /\ d["networkPreferences"] = "old"
        <4>1. Len(<<>>) = 0
          OBVIOUS
        <4> QED  BY <2>0, <2>3, <4>1, Plans DEF NetworkPreferencesToNetworks
      <3>2. Len(P) = 2 /\ Same(Migrated(Partly(d, P, 1), m), Migrated(d, m), TRUE)
        BY <2>3, <3>1, NetworksResume
      <3>3. n = 1
        BY <2>0, <3>2
      <3>4. m \notin Unrepeatable
        BY <2>3 DEF Unrepeatable
      <3> QED  BY <1>2, <2>2, <3>2, <3>3, <3>4
    <2>4. CASE m = "keyPreferences"
      <3>1. d["keyPreferences"] = "old"
        <4>1. Len(<<>>) = 0
          OBVIOUS
        <4> QED  BY <2>0, <2>4, <4>1, Plans DEF KeyPreferencesToKeystoreKeys
      <3>2. Len(P) = 2 /\ Same(Migrated(Partly(d, P, 1), m), Migrated(d, m), TRUE)
        BY <2>4, <3>1, KeysResume
      <3>3. n = 1
        BY <2>0, <3>2
      <3>4. m \notin Unrepeatable
        BY <2>4 DEF Unrepeatable
      <3> QED  BY <1>2, <2>2, <3>2, <3>3, <3>4
    <2>5. CASE m \in {"tokens", "dapps"}
      <3>1. /\ Len(P) \in {0, 2}
            /\ Len(P) = 2 => Same(d, Partly(d, P, 1), FALSE) /\ IsStore(Partly(d, P, 1))
        BY <2>5, DataPartly
      <3>2. Len(P) = 2 /\ n = 1
        <4> HIDE DEF P, e
        <4> QED  BY <2>0, <3>1, Zenon
      <3>3. Same(d, e, FALSE) /\ IsStore(e)
        BY <3>1, <3>2
      <3> HIDE DEF e
      <3>4. Same(Migrated(e, m), Migrated(d, m), FALSE)
        BY <2>5, <3>3, DataMigrated
      <3>5. m \in Unrepeatable
        BY <2>5 DEF Unrepeatable
      <3> QED  BY <1>2, <2>2, <3>3, <3>4, <3>5 DEF e
    <2>6. CASE m = "chainIds"
      <3>1. d["networks"] # "none"
        <4>1. Len(<<>>) = 0
          OBVIOUS
        <4> QED  BY <2>0, <2>6, <4>1, Plans DEF NetworkIdToChainId
      <3>2. Len(P) = 4 /\ \A i \in 1..3 : Same(Migrated(Partly(d, P, i), m), Migrated(d, m), FALSE)
        <4>1. \A i \in 1..3 : /\ Len(Plan(d, "chainIds")) = 4
                              /\ Same(Migrated(Partly(d, Plan(d, "chainIds"), i), "chainIds"),
                                      Migrated(d, "chainIds"), FALSE)
          BY <3>1, ChainsResume
        <4>2. 1 \in 1..3
          OBVIOUS
        <4> QED  BY <2>6, <4>1, <4>2
      <3>3. n \in 1..3
        BY <2>0, <3>2
      <3>4. m \in Unrepeatable
        BY <2>6 DEF Unrepeatable
      <3> QED  BY <1>2, <2>2, <3>2, <3>3, <3>4
    <2> QED  BY <2>1, <2>3, <2>4, <2>5, <2>6, MigrationsAre
  <1> QED  BY <1>5, <1>6, <1>7

-----------------------------------------------------------------------------
(* What the first start has made of the origin after each migration.       *)

\* Some function counts the outcomes f of the first n migrations of o.
Counts(f, o, n) ==
    f = [i \in 0..n |->
            IF i = 0 THEN [db |-> o.db, thrown |-> FALSE]
            ELSE IF Migrations[i] \in o.passed THEN f[i - 1]
            ELSE IF f[i - 1].thrown \/ Throws(f[i - 1].db, Migrations[i])
                 THEN [f[i - 1] EXCEPT !.thrown = TRUE]
            ELSE [f[i - 1] EXCEPT !.db = Applied(f[i - 1].db, Plan(f[i - 1].db, Migrations[i]))]]

LEMMA OutcomesExist ==
    ASSUME NEW o, NEW n \in Nat
    PROVE  \E f : Counts(f, o, n)
  <1> DEFINE T == {m \in Nat : ~ \E f : Counts(f, o, m)}
             Goes(r, i) ==
                IF Migrations[i] \in o.passed THEN r
                ELSE IF r.thrown \/ Throws(r.db, Migrations[i]) THEN [r EXCEPT !.thrown = TRUE]
                ELSE [r EXCEPT !.db = Applied(r.db, Plan(r.db, Migrations[i]))]
             First == [db |-> o.db, thrown |-> FALSE]
  <1>0. \A f, m : Counts(f, o, m) <=>
                    f = [i \in 0..m |-> IF i = 0 THEN First ELSE Goes(f[i - 1], i)]
    BY DEF Counts
  <1> HIDE DEF Goes, First
  <1>1. ASSUME T # {} PROVE FALSE
    <2>1. PICK m \in T : \A k \in T : m <= k
      BY <1>1, Least
    <2>2. CASE m = 0
      <3>1. [i \in 0..0 |-> First] = [i \in 0..0 |-> IF i = 0 THEN First
                                        ELSE Goes([j \in 0..0 |-> First][i - 1], i)]
        OBVIOUS
      <3>2. Counts([i \in 0..0 |-> First], o, 0)
        BY <1>0, <3>1
      <3> QED  BY <2>2, <3>2
    <2>3. CASE m # 0
      <3>1. m - 1 \in Nat /\ m - 1 \notin T
        BY <2>1, <2>3
      <3>2. PICK f : Counts(f, o, m - 1)
        BY <3>1
      <3> DEFINE g == [i \in 0..m |-> IF i = m THEN Goes(f[m - 1], m) ELSE f[i]]
      <3>3. \A i \in 0..(m - 1) : f[i] = IF i = 0 THEN First ELSE Goes(f[i - 1], i)
        BY <1>0, <3>2
      <3>4. m \in Nat
        OBVIOUS
      <3>5. Counts(g, o, m)
        <4>1. \A i \in 0..m : g[i] = IF i = 0 THEN First ELSE Goes(g[i - 1], i)
          BY <2>3, <3>3, <3>4
        <4>2. g = [i \in 0..m |-> IF i = 0 THEN First ELSE Goes(g[i - 1], i)]
          BY <4>1
        <4> QED  BY <1>0, <4>2
      <3> QED  BY <3>5
    <2> QED  BY <2>2, <2>3
  <1> QED  BY <1>1

LEMMA OutcomesCounted == Counts(Uninterrupted, origin, 13)
  <1>1. \E f : Counts(f, origin, 13)
    BY OutcomesExist
  <1>2. Uninterrupted = CHOOSE f : Counts(f, origin, 13)
    BY MigrationsAre DEF Uninterrupted, Counts
  <1> QED  BY <1>1, <1>2

After(n) == Uninterrupted[n]

\* Each outcome follows from the one before.
LEMMA OutcomesAre ==
    ASSUME IsStore(origin.db)
    PROVE  /\ After(0).db = origin.db /\ ~After(0).thrown
           /\ \A n \in 0..13 : IsStore(After(n).db)
           /\ \A n \in 1..13 :
                IF Migrations[n] \in origin.passed THEN After(n) = After(n - 1)
                ELSE IF After(n - 1).thrown \/ Throws(After(n - 1).db, Migrations[n])
                     THEN After(n).thrown /\ After(n).db = After(n - 1).db
                ELSE /\ After(n).db = Migrated(After(n - 1).db, Migrations[n])
                     /\ ~After(n).thrown
  <1> DEFINE Goes(r, i) ==
                IF Migrations[i] \in origin.passed THEN r
                ELSE IF r.thrown \/ Throws(r.db, Migrations[i]) THEN [r EXCEPT !.thrown = TRUE]
                ELSE [r EXCEPT !.db = Applied(r.db, Plan(r.db, Migrations[i]))]
             First == [db |-> origin.db, thrown |-> FALSE]
             Right(r) == /\ r = [db |-> r.db, thrown |-> r.thrown]
                         /\ IsStore(r.db) /\ r.thrown \in BOOLEAN
  <1>1. After(0) = First /\ \A n \in 1..13 : After(n) = Goes(After(n - 1), n)
    <2>1. \A n \in 0..13 : Uninterrupted[n] = IF n = 0 THEN First ELSE Goes(Uninterrupted[n - 1], n)
      BY OutcomesCounted DEF Counts
    <2> HIDE DEF First, Goes
    <2> QED  BY <2>1 DEF After
  <1>2. \A n \in 1..13 : Migrations[n] \in MigrationNames
    BY MigrationsAre DEF MigrationNames
  <1>3. ASSUME NEW r, Right(r), NEW n \in 1..13
        PROVE  /\ Right(Goes(r, n))
               /\ IF Migrations[n] \in origin.passed THEN Goes(r, n) = r
                  ELSE IF r.thrown \/ Throws(r.db, Migrations[n])
                       THEN Goes(r, n).thrown /\ Goes(r, n).db = r.db
                  ELSE /\ Goes(r, n).db = Migrated(r.db, Migrations[n])
                       /\ ~Goes(r, n).thrown
    <2>1. CASE Migrations[n] \in origin.passed
      BY <1>3, <2>1
    <2>2. CASE Migrations[n] \notin origin.passed /\ (r.thrown \/ Throws(r.db, Migrations[n]))
      <3>1. Goes(r, n) = [db |-> r.db, thrown |-> TRUE]
        BY <1>3, <2>2
      <3> HIDE DEF Goes
      <3> QED  BY <1>3, <2>2, <3>1
    <2>3. CASE Migrations[n] \notin origin.passed /\ ~(r.thrown \/ Throws(r.db, Migrations[n]))
      <3>1. Goes(r, n) = [db |-> Migrated(r.db, Migrations[n]), thrown |-> r.thrown]
        BY <1>3, <2>3 DEF Migrated
      <3>2. IsStore(Migrated(r.db, Migrations[n]))
        BY <1>2, <1>3, PlansArePlans
      <3> HIDE DEF Goes
      <3> QED  BY <1>3, <2>3, <3>1, <3>2
    <2> QED  BY <2>1, <2>2, <2>3
  <1>4. Right(First)
    OBVIOUS
  <1> HIDE DEF Goes, Right
  <1>5. \A n \in 0..13 : Right(After(n))
    <2> DEFINE T == {n \in Nat : n <= 13 /\ ~Right(After(n))}
    <2>1. ASSUME T # {} PROVE FALSE
      <3>1. PICK m \in T : \A k \in T : m <= k
        BY <2>1, Least
      <3>2. m \in Nat /\ m <= 13 /\ ~Right(After(m))
        BY <3>1
      <3>3. m # 0
        BY <1>1, <1>4, <3>2
      <3>4. m - 1 \in Nat /\ m - 1 <= 13 /\ m \in 1..13 /\ ~(m <= m - 1)
        BY <3>2, <3>3
      <3>5. Right(After(m - 1))
        BY <3>1, <3>4
      <3> QED  BY <1>1, <1>3, <3>2, <3>4, <3>5
    <2> HIDE DEF T
    <2>2. \A n \in 0..13 : n \in Nat /\ n <= 13
      OBVIOUS
    <2> QED  BY <2>1, <2>2 DEF T
  <1>6. \A n \in 0..13 : IsStore(After(n).db)
    BY <1>5 DEF Right
  <1>7. \A n \in 1..13 : n - 1 \in 0..13
    OBVIOUS
  <1>8. \A n \in 1..13 :
                IF Migrations[n] \in origin.passed THEN After(n) = After(n - 1)
                ELSE IF After(n - 1).thrown \/ Throws(After(n - 1).db, Migrations[n])
                     THEN After(n).thrown /\ After(n).db = After(n - 1).db
                ELSE /\ After(n).db = Migrated(After(n - 1).db, Migrations[n])
                     /\ ~After(n).thrown
    BY <1>1, <1>3, <1>5, <1>7
  <1> QED  BY <1>1, <1>6, <1>8

\* Of migrations that had passed before the first start nothing comes.
LEMMA SkipsPassed ==
    ASSUME IsStore(origin.db), NEW p \in 0..13, NEW q \in 0..13, p <= q,
           \A j \in (p + 1)..q : Migrations[j] \in origin.passed
    PROVE  After(q) = After(p)
  <1> DEFINE T == {n \in Nat : p <= n /\ n <= q /\ After(n) # After(p)}
  <1>1. ASSUME T # {} PROVE FALSE
    <2>1. PICK m \in T : \A k \in T : m <= k
      BY <1>1, Least
    <2>2. m \in Nat /\ p <= m /\ m <= q /\ After(m) # After(p)
      BY <2>1
    <2>3. m # p
      BY <2>2
    <2>4. m - 1 \in Nat /\ p <= m - 1 /\ m - 1 <= q /\ m \in 1..13 /\ m \in (p + 1)..q
          /\ ~(m <= m - 1)
      BY <2>2, <2>3
    <2>5. After(m - 1) = After(p)
      BY <2>1, <2>4
    <2>6. After(m) = After(m - 1)
      BY <2>4, OutcomesAre
    <2> QED  BY <2>2, <2>5, <2>6
  <1> HIDE DEF T
  <1>2. q \in Nat /\ q <= q
    OBVIOUS
  <1> QED  BY <1>1, <1>2 DEF T

\* Once a migration has thrown, nothing changes.
LEMMA ThrownSticks ==
    ASSUME IsStore(origin.db), NEW p \in 0..13, After(p).thrown
    PROVE  After(13).db = After(p).db
  <1> DEFINE Stuck(n) == After(n).thrown /\ After(n).db = After(p).db
             T == {n \in Nat : p <= n /\ n <= 13 /\ ~Stuck(n)}
  <1>1. ASSUME T # {} PROVE FALSE
    <2>1. PICK m \in T : \A k \in T : m <= k
      BY <1>1, Least
    <2>2. m \in Nat /\ p <= m /\ m <= 13 /\ ~Stuck(m)
      BY <2>1
    <2>3. m # p
      BY <2>2
    <2>4. m - 1 \in Nat /\ p <= m - 1 /\ m - 1 <= 13 /\ m \in 1..13 /\ ~(m <= m - 1)
      BY <2>2, <2>3
    <2>5. Stuck(m - 1)
      <3> HIDE DEF Stuck
      <3> QED  BY <2>1, <2>4
    <2>6. Stuck(m)
      <3>1. \/ After(m) = After(m - 1)
            \/ After(m).thrown /\ After(m).db = After(m - 1).db
        BY <2>4, <2>5, OutcomesAre
      <3> QED  BY <2>5, <3>1
    <2> QED  BY <2>2, <2>6
  <1> HIDE DEF T, Stuck
  <1>2. 13 \in Nat /\ p <= 13 /\ 13 <= 13
    OBVIOUS
  <1>3. Stuck(13)
    BY <1>1, <1>2 DEF T
  <1> QED  BY <1>3 DEF Stuck

-----------------------------------------------------------------------------
(* The migrations of every start together.                                 *)

\* The writes of P after the first n.
RestOf(P, n) == SubSeq(P, n + 1, Len(P))

LEMMA PlanIsSequence ==
    ASSUME NEW d, NEW m \in MigrationNames
    PROVE  \E S : Plan(d, m) \in Seq(S)
  <1> DEFINE Sequence(P) == \E S : P \in Seq(S)
  <1>1. /\ Sequence(<<>>)
        /\ \A w : Sequence(<<w>>)
        /\ \A w, v : Sequence(<<w, v>>)
        /\ \A w, v, x, y : Sequence(<<w, v, x, y>>)
    <2>1. <<>> \in Seq({})
      OBVIOUS
    <2>2. \A w : <<w>> \in Seq({w})
      OBVIOUS
    <2>3. \A w, v : <<w, v>> \in Seq({w, v})
      OBVIOUS
    <2>4. \A w, v, x, y : <<w, v, x, y>> \in Seq({w, v, x, y})
      OBVIOUS
    <2> QED  BY <2>1, <2>2, <2>3, <2>4
  <1> HIDE DEF Sequence
  <1>2. Sequence(Plan(d, m))
    <2>1. CASE m = "networkPreferences"
      BY <1>1, <2>1, Plans DEF NetworkPreferencesToNetworks
    <2>2. CASE m = "accountPreferences"
      BY <1>1, <2>2, Plans DEF AccountPreferencesToAccounts
    <2>3. CASE m = "keyPreferences"
      BY <1>1, <2>3, Plans DEF KeyPreferencesToKeystoreKeys
    <2>4. CASE m = "tokens"
      BY <1>1, <2>4, Plans DEF TokenPreferences
    <2>5. CASE m = "chainIds"
      BY <1>1, <2>5, Plans DEF NetworkIdToChainId
    <2>6. CASE m = "dapps"
      BY <1>1, <2>6, Plans DEF LegacyDappsToDappsV2
    <2>7. CASE m = "sources"
      BY <1>1, <2>7, Plans DEF DappsAddConnectionSources
    <2>8. CASE m \in Renewed
      <3>1. Plan(d, m) = <<Put("renewed", d.renewed \cup {m})>>
        BY <2>8, Plans DEF Renew
      <3> HIDE DEF Sequence
      <3> QED  BY <1>1, <3>1
    <2> QED  BY <2>1, <2>2, <2>3, <2>4, <2>5, <2>6, <2>7, <2>8, MigrationsAre
  <1> QED  BY <1>2 DEF Sequence

LEMMA LeftIs ==
    ASSUME NEW S, NEW P \in Seq(S), NEW n \in 0..Len(P)
    PROVE  /\ RestOf(P, 0) = P
           /\ RestOf(P, n) = <<>> <=> n = Len(P)
           /\ n # Len(P) => /\ Head(RestOf(P, n)) = P[n + 1]
                            /\ Tail(RestOf(P, n)) = RestOf(P, n + 1)
  <1>0. Len(P) \in Nat /\ n \in Nat
    OBVIOUS
  <1>1. RestOf(P, 0) = P
    BY SubSeqFull DEF RestOf
  <1>2. CASE n = Len(P)
    <2>1. RestOf(P, n) = <<>>
      BY <1>0, <1>2, SubSeqEmpty DEF RestOf
    <2> QED  BY <1>1, <1>2, <2>1
  <1>3. CASE n # Len(P)
    <2>1. n + 1 \in 1..Len(P) /\ Len(P) \in (n + 1)..Len(P)
      BY <1>0, <1>3
    <2>2. Head(RestOf(P, n)) = P[n + 1] /\ Tail(RestOf(P, n)) = RestOf(P, n + 1)
      BY <2>1, HeadTailOfSubSeq DEF RestOf
    <2>3. Len(RestOf(P, n)) # 0
      <3>1. \A i \in (n + 1)..Len(P) : P[i] \in S
        BY <1>0
      <3>2. n + 1 \in Int /\ Len(P) \in Int
        BY <1>0
      <3>3. Len(RestOf(P, n)) = Len(P) - (n + 1) + 1
        BY <2>1, <3>1, <3>2, SubSeqProperties DEF RestOf
      <3> QED  BY <1>0, <1>3, <3>3
    <2>4. RestOf(P, n) # <<>>
      BY <2>3
    <2> QED  BY <1>1, <1>3, <2>2, <2>4
  <1> QED  BY <1>2, <1>3

\* The migration m makes the same of d and e, or throws on both.
AlikeFor(d, e, m, whole) ==
    IF Throws(d, m) THEN Throws(e, m) /\ Same(d, e, whole)
    ELSE ~Throws(e, m) /\ Same(Migrated(d, m), Migrated(e, m), whole)

LEMMA SameIsAlike ==
    ASSUME NEW d, NEW e, IsStore(d), IsStore(e), NEW m \in MigrationNames, NEW whole \in BOOLEAN,
           Same(d, e, whole)
    PROVE  AlikeFor(d, e, m, whole)
  BY ThrowsIs, MigratesTheSame DEF AlikeFor

\* The p-th migration is the next one, and of those after it only the ones
\* that had passed before the first start have passed.
PassedBefore(p) ==
    /\ \A j \in 1..(p - 1) : Migrations[j] \in passed
    /\ p <= 13 => Migrations[p] \notin passed
    /\ \A j \in (p + 1)..13 : Migrations[j] \in passed <=> Migrations[j] \in origin.passed

\* The next migration runs: when it began it had to make the same of d as of
\* the outcome of the ones before it, and the first n of its writes are done.
Running(p, d, n) ==
    LET m == Migrations[p]
    IN  /\ IsStore(d) /\ n \in 0..Len(Plan(d, m)) /\ ~Throws(d, m)
        /\ AlikeFor(d, After(p - 1).db, m, cut = {})
        /\ db = Partly(d, Plan(d, m), n)
        /\ migration = [runs |-> TRUE, writes |-> RestOf(Plan(d, m), n)]

MigrationsType ==
    /\ origin \in StorageOrigins /\ origin.passed \subseteq passed /\ passed \subseteq MigrationNames
    /\ boot \in {"off", "migrating", "ready"}
    /\ migration = NoMigration \/ (migration.runs = TRUE /\ boot = "migrating")
    /\ IsStore(db)

Reached(p) ==
    /\ PassedBefore(p) /\ ~After(p - 1).thrown
    /\ IF p = 14 THEN migration = NoMigration /\ Same(db, After(13).db, cut = {})
       ELSE IF migration.runs THEN \E d, n : Running(p, d, n)
       ELSE /\ AlikeFor(db, After(p - 1).db, Migrations[p], cut = {})
            /\ boot = "ready" => Throws(db, Migrations[p])

MigrationsInv == MigrationsType /\ \E p \in 1..14 : Reached(p)

LEMMA NextIs ==
    ASSUME NEW p \in 1..14, PassedBefore(p)
    PROVE  /\ Ahead = {} <=> p = 14
           /\ p # 14 => NextMigration = Migrations[p]
  <1>0. DOMAIN Migrations = 1..13
    BY MigrationsAre
  <1>1. CASE p = 14
    <2>1. \A j \in 1..13 : j \in 1..(p - 1)
      BY <1>1
    <2> QED  BY <1>0, <1>1, <2>1 DEF Ahead, PassedBefore
  <1>2. CASE p # 14
    <2>0. p \in 1..13 /\ p <= 13
      BY <1>2
    <2>1. p \in Ahead
      BY <1>0, <2>0 DEF Ahead, PassedBefore
    <2>2. \A j \in Ahead : p <= j
      <3>1. ASSUME NEW j \in 1..13, ~(p <= j) PROVE j \in 1..(p - 1)
        BY <2>0, <3>1
      <3> QED  BY <1>0, <3>1 DEF Ahead, PassedBefore
    <2>3. \A i \in Ahead : (\A j \in Ahead : i <= j) => i = p
      <3>1. Ahead \subseteq 1..13
        BY <1>0 DEF Ahead
      <3> QED  BY <2>0, <2>1, <2>2, <3>1
    <2>4. NextMigration = Migrations[p]
      BY <2>1, <2>2, <2>3 DEF NextMigration
    <2> QED  BY <1>2, <2>1, <2>4
  <1> QED  BY <1>1, <1>2

LEMMA OriginsAreStores ==
    ASSUME NEW o \in StorageOrigins
    PROVE  IsStore(o.db) /\ o.passed \subseteq MigrationNames
  <1>1. o.db \in Formats /\ o.passed \subseteq ToSet(Migrations)
    BY OriginsAssumption
  <1>2. ToSet(Migrations) = MigrationNames
    BY DEF ToSet, MigrationNames
  <1>3. IsStore(o.db)
    BY <1>1 DEF Formats, IsStore, StoredKeys
  <1> QED  BY <1>1, <1>2, <1>3

LEMMA OutcomesStay == origin' = origin => \A n : After(n)' = After(n)
  BY DEF After, Uninterrupted

\* There is a next migration, or all have passed.
LEMMA NextExists ==
    ASSUME NEW S, NEW q \in 0..13, \A j \in 1..q : Migrations[j] \in S
    PROVE  \E p \in (q + 1)..14 : /\ \A j \in 1..(p - 1) : Migrations[j] \in S
                                  /\ p <= 13 => Migrations[p] \notin S
  <1> DEFINE T == {j \in Nat : j \in 1..13 /\ Migrations[j] \notin S}
  <1>1. CASE T = {}
    <2>1. \A j \in 1..13 : Migrations[j] \in S
      BY <1>1
    <2>2. 14 \in (q + 1)..14 /\ ~(14 <= 13) /\ 14 - 1 = 13
      OBVIOUS
    <2> QED  BY <2>1, <2>2
  <1>2. CASE T # {}
    <2>1. PICK p \in T : \A k \in T : p <= k
      BY <1>2, Least
    <2>2. p \in 1..13 /\ Migrations[p] \notin S
      BY <2>1
    <2>3. ASSUME NEW j \in 1..(p - 1) PROVE Migrations[j] \in S
      <3>1. j \in Nat /\ j \in 1..13 /\ ~(p <= j)
        BY <2>2
      <3> QED  BY <2>1, <3>1
    <2>4. p \in (q + 1)..14
      BY <2>2
    <2> QED  BY <2>2, <2>3, <2>4
  <1> QED  BY <1>1, <1>2

LEMMA InitMigrationsInv == StorageInit => MigrationsInv
  <1> SUFFICES ASSUME StorageInit PROVE MigrationsInv
    OBVIOUS
  <1>1. /\ origin \in StorageOrigins /\ db = origin.db /\ passed = origin.passed
        /\ boot = "off" /\ migration = NoMigration /\ cut = {}
    BY DEF StorageInit
  <1>2. IsStore(db) /\ passed \subseteq MigrationNames
    BY <1>1, OriginsAreStores
  <1>3. MigrationsType
    BY <1>1, <1>2 DEF MigrationsType
  <1>4. 0 \in 0..13 /\ \A j \in 1..0 : Migrations[j] \in passed
    OBVIOUS
  <1>5. PICK p \in (0 + 1)..14 : /\ \A j \in 1..(p - 1) : Migrations[j] \in passed
                                 /\ p <= 13 => Migrations[p] \notin passed
    BY <1>4, NextExists
  <1>6. p \in 1..14 /\ p - 1 \in 0..13 /\ 0 <= p - 1
    OBVIOUS
  <1>7. After(p - 1) = After(0)
    <2>1. \A j \in (0 + 1)..(p - 1) : Migrations[j] \in origin.passed
      BY <1>1, <1>5
    <2> QED  BY <1>1, <1>2, <1>4, <1>6, <2>1, SkipsPassed
  <1>8. After(p - 1).db = db /\ ~After(p - 1).thrown
    BY <1>1, <1>2, <1>7, OutcomesAre
  <1>9. Same(db, After(p - 1).db, cut = {})
    BY <1>8, SameSelf
  <1>10. Reached(p)
    <2>1. PassedBefore(p)
      BY <1>1, <1>5 DEF PassedBefore
    <2>2. CASE p = 14
      BY <1>1, <1>8, <1>9, <2>1, <2>2 DEF Reached
    <2>3. CASE p # 14
      <3>1. Migrations[p] \in MigrationNames
        BY <1>6, <2>3, MigrationsAre DEF MigrationNames
      <3>2. AlikeFor(db, After(p - 1).db, Migrations[p], cut = {})
        BY <1>2, <1>8, <1>9, <3>1, SameIsAlike
      <3> QED  BY <1>1, <1>8, <2>1, <2>3, <3>2 DEF Reached, NoMigration
    <2> QED  BY <2>2, <2>3
  <1> QED  BY <1>3, <1>6, <1>10 DEF MigrationsInv

LEMMA MigrationsUnchanged ==
    ASSUME MigrationsInv, UNCHANGED <<db, passed, origin, migration, cut>>,
           boot' = boot \/ (boot' \in {"off", "migrating"} /\ migration = NoMigration)
    PROVE  MigrationsInv'
  <1>1. PICK p \in 1..14 : Reached(p)
    BY DEF MigrationsInv
  <1>2. \A n : After(n)' = After(n)
    BY OutcomesStay
  <1>3. Reached(p)'
    <2>1. PassedBefore(p)'
      BY <1>1 DEF Reached, PassedBefore
    <2>2. \A d, n : Running(p, d, n)' <=> Running(p, d, n)
      BY <1>2 DEF Running
    <2> QED  BY <1>1, <1>2, <2>1, <2>2 DEF Reached
  <1>4. MigrationsType'
    BY DEF MigrationsInv, MigrationsType, NoMigration
  <1> QED  BY <1>3, <1>4 DEF MigrationsInv

LEMMA BeginInv == MigrationsInv /\ BeginMigration => MigrationsInv'
  <1> SUFFICES ASSUME MigrationsInv, BeginMigration PROVE MigrationsInv'
    OBVIOUS
  <1>1. PICK p \in 1..14 : Reached(p)
    BY DEF MigrationsInv
  <1>2. PassedBefore(p) /\ p # 14 /\ NextMigration = Migrations[p] /\ p \in 1..13
    <2>1. PassedBefore(p) /\ Ahead # {}
      BY <1>1 DEF Reached, BeginMigration
    <2>2. p # 14 /\ NextMigration = Migrations[p]
      BY <2>1, NextIs
    <2> QED  BY <2>1, <2>2
  <1> DEFINE m == Migrations[p]
  <1>3. /\ boot = "migrating" /\ ~migration.runs
        /\ UNCHANGED <<db, passed, origin, cut>>
    BY DEF BeginMigration
  <1>4. AlikeFor(db, After(p - 1).db, m, cut = {})
    BY <1>1, <1>2, <1>3 DEF Reached
  <1>5. \A n : After(n)' = After(n)
    BY <1>3, OutcomesStay
  <1>6. PassedBefore(p)' /\ ~After(p - 1)'.thrown
    BY <1>1, <1>3, <1>5 DEF Reached, PassedBefore
  <1>7. migration = NoMigration /\ IsStore(db)
    BY <1>3 DEF MigrationsInv, MigrationsType
  <1>8. CASE Throws(db, m)
    <2>1. boot' = "ready" /\ migration' = migration
      BY <1>2, <1>8 DEF BeginMigration
    <2>2. Reached(p)'
      BY <1>2, <1>3, <1>4, <1>5, <1>6, <1>7, <1>8, <2>1 DEF Reached
    <2>3. MigrationsType'
      BY <1>3, <1>7, <2>1 DEF MigrationsInv, MigrationsType, NoMigration
    <2> QED  BY <2>2, <2>3 DEF MigrationsInv
  <1>9. CASE ~Throws(db, m)
    <2>1. migration' = [runs |-> TRUE, writes |-> Plan(db, m)] /\ boot' = boot
      BY <1>2, <1>9 DEF BeginMigration
    <2>2. m \in MigrationNames
      BY <1>2, MigrationsAre DEF MigrationNames
    <2> HIDE DEF m
    <2>3. RestOf(Plan(db, m), 0) = Plan(db, m) /\ 0 \in 0..Len(Plan(db, m))
      <3>1. PICK S : Plan(db, m) \in Seq(S)
        BY <2>2, PlanIsSequence
      <3>2. 0 \in 0..Len(Plan(db, m))
        BY <3>1
      <3> QED  BY <3>1, <3>2, LeftIs
    <2>4. Partly(db, Plan(db, m), 0) = db
      BY <1>7, <2>2, PlansArePlans, PartlySteps
    <2>5. Running(p, db, 0)'
      BY <1>3, <1>4, <1>5, <1>7, <1>9, <2>1, <2>3, <2>4 DEF Running, m
    <2>6. Reached(p)'
      <3>1. \E d, n : Running(p, d, n)'
        BY <1>3, <2>5
      <3>2. migration'.runs
        BY <2>1
      <3> QED  BY <1>2, <1>6, <3>1, <3>2 DEF Reached
    <2>7. MigrationsType'
      BY <1>3, <1>7, <2>1 DEF MigrationsInv, MigrationsType, NoMigration
    <2> QED  BY <2>6, <2>7 DEF MigrationsInv
  <1> QED  BY <1>8, <1>9

LEMMA WritesInv == MigrationsInv /\ MigrationWrites => MigrationsInv'
  <1> SUFFICES ASSUME MigrationsInv, MigrationWrites PROVE MigrationsInv'
    OBVIOUS
  <1>1. PICK p \in 1..14 : Reached(p)
    BY DEF MigrationsInv
  <1> DEFINE m == Migrations[p]
  <1>2. /\ migration.runs /\ migration.writes # <<>>
        /\ db' = Written(db, Head(migration.writes))
        /\ migration' = [migration EXCEPT !.writes = Tail(migration.writes)]
        /\ UNCHANGED <<passed, origin, boot, cut>>
    BY DEF MigrationWrites
  <1>3. p # 14 /\ p \in 1..13 /\ PassedBefore(p) /\ ~After(p - 1).thrown
    BY <1>1, <1>2 DEF Reached, NoMigration
  <1>4. PICK d, n : Running(p, d, n)
    BY <1>1, <1>2, <1>3 DEF Reached
  <1>5. m \in MigrationNames
    BY <1>3, MigrationsAre DEF MigrationNames
  <1> DEFINE P == Plan(d, m)
  <1>6. /\ IsStore(d) /\ n \in 0..Len(P) /\ ~Throws(d, m)
        /\ AlikeFor(d, After(p - 1).db, m, cut = {})
        /\ db = Partly(d, P, n) /\ migration = [runs |-> TRUE, writes |-> RestOf(P, n)]
    BY <1>4 DEF Running
  <1>7. IsPlan(P)
    BY <1>5, <1>6, PlansArePlans
  <1>8. PICK S : P \in Seq(S)
    BY <1>5, PlanIsSequence
  <1> HIDE DEF P, m
  <1>9. n # Len(P) /\ Head(RestOf(P, n)) = P[n + 1] /\ Tail(RestOf(P, n)) = RestOf(P, n + 1)
    <2>1. RestOf(P, n) # <<>>
      BY <1>2, <1>6
    <2> QED  BY <1>6, <1>8, <2>1, LeftIs
  <1>10. n \in 0..(Len(P) - 1) /\ n + 1 \in 0..Len(P)
    <2>1. Len(P) \in Nat /\ n \in 0..Len(P) /\ n # Len(P)
      BY <1>6, <1>7, <1>9 DEF IsPlan
    <2>2. \A L \in Nat : \A i \in 0..L : i # L => i \in 0..(L - 1) /\ i + 1 \in 0..L
      OBVIOUS
    <2> QED  BY <2>1, <2>2, Zenon
  <1>11. db' = Partly(d, P, n + 1)
    <2>1. Partly(d, P, n + 1) = Written(Partly(d, P, n), P[n + 1])
      BY <1>6, <1>7, <1>10, PartlySteps
    <2> QED  BY <1>2, <1>6, <1>9, <2>1
  <1>12. migration' = [runs |-> TRUE, writes |-> RestOf(P, n + 1)]
    BY <1>2, <1>6, <1>9
  <1>13. \A i : After(i)' = After(i)
    BY <1>2, OutcomesStay
  <1>14. Running(p, d, n + 1)'
    BY <1>2, <1>6, <1>10, <1>11, <1>12, <1>13 DEF Running, P, m
  <1>15. Reached(p)'
    <2>1. PassedBefore(p)' /\ ~After(p - 1)'.thrown
      BY <1>2, <1>3, <1>13 DEF PassedBefore
    <2>2. migration'.runs
      BY <1>12
    <2> QED  BY <1>3, <1>14, <2>1, <2>2 DEF Reached
  <1>16. MigrationsType'
    <2>1. IsStore(db')
      BY <1>6, <1>7, <1>10, <1>11, PartlySteps
    <2>2. migration'.runs = TRUE /\ boot' = "migrating"
      BY <1>2, <1>12 DEF MigrationsInv, MigrationsType, NoMigration
    <2> QED  BY <1>2, <2>1, <2>2 DEF MigrationsInv, MigrationsType
  <1> QED  BY <1>15, <1>16 DEF MigrationsInv

LEMMA MarkInv == MigrationsInv /\ MarkPassed => MigrationsInv'
  <1> SUFFICES ASSUME MigrationsInv, MarkPassed PROVE MigrationsInv'
    OBVIOUS
  <1>1. PICK p \in 1..14 : Reached(p)
    BY DEF MigrationsInv
  <1> DEFINE m == Migrations[p]
  <1>2. /\ migration.runs /\ migration.writes = <<>>
        /\ passed' = passed \cup {NextMigration} /\ migration' = NoMigration
        /\ UNCHANGED <<db, origin, boot, cut>>
    BY DEF MarkPassed
  <1>3. p # 14 /\ p \in 1..13 /\ PassedBefore(p) /\ ~After(p - 1).thrown
    BY <1>1, <1>2 DEF Reached, NoMigration
  <1>4. PICK d, n : Running(p, d, n)
    BY <1>1, <1>2, <1>3 DEF Reached
  <1>5. m \in MigrationNames /\ NextMigration = m
    BY <1>3, NextIs, MigrationsAre DEF MigrationNames
  <1>6. /\ IsStore(d) /\ n \in 0..Len(Plan(d, m)) /\ ~Throws(d, m)
        /\ AlikeFor(d, After(p - 1).db, m, cut = {})
        /\ db = Partly(d, Plan(d, m), n)
        /\ migration = [runs |-> TRUE, writes |-> RestOf(Plan(d, m), n)]
    BY <1>4 DEF Running
  <1>7. /\ origin \in StorageOrigins /\ origin.passed \subseteq passed /\ passed \subseteq MigrationNames
        /\ IsStore(db) /\ IsStore(origin.db) /\ boot = "migrating"
    <2>1. migration # NoMigration
      BY <1>2 DEF NoMigration
    <2> QED  BY <2>1, OriginsAreStores DEF MigrationsInv, MigrationsType
  <1>8. db = Migrated(d, m)
    <2>1. n = Len(Plan(d, m))
      <3>1. PICK S : Plan(d, m) \in Seq(S)
        BY <1>5, PlanIsSequence
      <3>2. RestOf(Plan(d, m), n) = <<>>
        BY <1>2, <1>6
      <3> QED  BY <1>6, <3>1, <3>2, LeftIs
    <2>2. IsPlan(Plan(d, m))
      BY <1>5, <1>6, PlansArePlans
    <2> QED  BY <1>6, <2>1, <2>2, PartlySteps DEF Migrated
  <1>9. ~After(p).thrown /\ Same(db, After(p).db, cut = {})
    <2>1. m \notin passed /\ m \notin origin.passed
      BY <1>3, <1>7 DEF PassedBefore
    <2>2. /\ ~Throws(After(p - 1).db, m)
          /\ Same(Migrated(d, m), Migrated(After(p - 1).db, m), cut = {})
      BY <1>6 DEF AlikeFor
    <2>3. After(p).db = Migrated(After(p - 1).db, m) /\ ~After(p).thrown
      BY <1>3, <1>7, <2>1, <2>2, OutcomesAre
    <2> QED  BY <1>8, <2>2, <2>3
  <1>10. \A j \in 1..p : Migrations[j] \in passed'
    <2>1. \A j \in 1..p : j \in 1..(p - 1) \/ j = p
      BY <1>3
    <2> QED  BY <1>2, <1>3, <1>5, <2>1 DEF PassedBefore
  <1>11. PICK q \in (p + 1)..14 : /\ \A j \in 1..(q - 1) : Migrations[j] \in passed'
                                  /\ q <= 13 => Migrations[q] \notin passed'
    <2>1. p \in 0..13
      BY <1>3
    <2> QED  BY <1>10, <2>1, NextExists
  <1>12. q \in 1..14 /\ q - 1 \in 0..13 /\ p \in 0..13 /\ p <= q - 1
    BY <1>3
  <1>13. \A j \in (p + 1)..13 : Migrations[j] \in passed' <=> Migrations[j] \in origin.passed
    <2>1. ASSUME NEW j \in (p + 1)..13 PROVE Migrations[j] # m
      <3>1. j \in 1..13 /\ j # p
        BY <1>3
      <3> QED  BY <1>3, <3>1, MigrationsAre
    <2> QED  BY <1>2, <1>3, <1>5, <2>1 DEF PassedBefore
  <1>14. After(q - 1) = After(p)
    <2>1. \A j \in (p + 1)..(q - 1) : Migrations[j] \in origin.passed
      <3>1. \A j \in (p + 1)..(q - 1) : j \in (p + 1)..13 /\ j \in 1..(q - 1)
        BY <1>3, <1>12
      <3> QED  BY <1>11, <1>13, <3>1
    <2> QED  BY <1>7, <1>12, <2>1, SkipsPassed
  <1>15. \A i : After(i)' = After(i)
    BY <1>2, OutcomesStay
  <1>16. PassedBefore(q)'
    <2>1. \A j \in (q + 1)..13 : j \in (p + 1)..13
      BY <1>3, <1>12
    <2> QED  BY <1>2, <1>11, <1>13, <2>1 DEF PassedBefore
  <1>17. ~After(q - 1).thrown /\ Same(db, After(q - 1).db, cut = {})
    BY <1>9, <1>14
  <1>18. Reached(q)'
    <2>1. CASE q = 14
      <3>1. After(13)' = After(13) /\ q - 1 = 13
        BY <1>15, <2>1
      <3> QED  BY <1>2, <1>15, <1>16, <1>17, <2>1, <3>1 DEF Reached, NoMigration
    <2>2. CASE q # 14
      <3>1. Migrations[q] \in MigrationNames
        BY <1>12, <2>2, MigrationsAre DEF MigrationNames
      <3>2. IsStore(After(q - 1).db)
        BY <1>7, <1>12, OutcomesAre
      <3>3. AlikeFor(db, After(q - 1).db, Migrations[q], cut = {})
        BY <1>7, <1>17, <3>1, <3>2, SameIsAlike
      <3> QED  BY <1>2, <1>7, <1>15, <1>16, <1>17, <2>2, <3>3 DEF Reached, NoMigration
    <2> QED  BY <2>1, <2>2
  <1>19. MigrationsType'
    BY <1>2, <1>5, <1>7 DEF MigrationsType, NoMigration
  <1> QED  BY <1>12, <1>18, <1>19 DEF MigrationsInv

LEMMA RestartInv == MigrationsInv /\ RestartWallet => MigrationsInv'
  <1> SUFFICES ASSUME MigrationsInv, RestartWallet PROVE MigrationsInv'
    OBVIOUS
  <1>1. PICK p \in 1..14 : Reached(p)
    BY DEF MigrationsInv
  <1> DEFINE m == Migrations[p]
  <1>2. /\ boot' = "off" /\ migration' = NoMigration
        /\ cut' = cut \cup {u \in Unrepeatable : migration.runs /\ u = NextMigration}
        /\ UNCHANGED <<db, passed, origin>>
    BY DEF RestartWallet
  <1>3. MigrationsType'
    BY <1>2 DEF MigrationsInv, MigrationsType, NoMigration
  <1>4. \A i : After(i)' = After(i)
    BY <1>2, OutcomesStay
  <1>5. PassedBefore(p)' /\ ~After(p - 1)'.thrown
    BY <1>1, <1>2, <1>4 DEF Reached, PassedBefore
  <1>6. CASE migration = NoMigration
    <2>1. ~migration.runs /\ cut' = cut
      <3>1. ~migration.runs
        BY <1>6 DEF NoMigration
      <3> QED  BY <1>2, <3>1
    <2>2. Reached(p)'
      BY <1>1, <1>2, <1>4, <1>5, <1>6, <2>1 DEF Reached
    <2> QED  BY <1>3, <2>2 DEF MigrationsInv
  <1>7. CASE migration # NoMigration
    <2>1. migration.runs /\ p # 14 /\ p \in 1..13
      BY <1>1, <1>7 DEF Reached, MigrationsInv, MigrationsType
    <2>2. m \in MigrationNames /\ NextMigration = m
      BY <1>1, <2>1, NextIs, MigrationsAre DEF MigrationNames, Reached
    <2>3. PICK d, n : Running(p, d, n)
      BY <1>1, <2>1 DEF Reached
    <2>4. /\ IsStore(d) /\ n \in 0..Len(Plan(d, m)) /\ ~Throws(d, m)
          /\ AlikeFor(d, After(p - 1).db, m, cut = {})
          /\ db = Partly(d, Plan(d, m), n)
      BY <2>3 DEF Running
    <2>5. (cut' = {}) = (cut = {} /\ m \notin Unrepeatable)
      BY <1>2, <2>1, <2>2
    <2>6. /\ IsStore(db) /\ ~Throws(db, m)
          /\ Same(Migrated(db, m), Migrated(d, m), m \notin Unrepeatable)
      BY <2>2, <2>4, Resumes
    <2>7. /\ ~Throws(After(p - 1).db, m)
          /\ Same(Migrated(d, m), Migrated(After(p - 1).db, m), cut = {})
      BY <2>4 DEF AlikeFor
    <2> DEFINE whole == cut' = {}
    <2>8. Same(Migrated(db, m), Migrated(After(p - 1).db, m), whole)
      <3>1. whole \in BOOLEAN /\ (m \notin Unrepeatable) \in BOOLEAN /\ (cut = {}) \in BOOLEAN
        OBVIOUS
      <3>2. whole => m \notin Unrepeatable /\ cut = {}
        BY <2>5
      <3> HIDE DEF whole, m
      <3>3. Same(Migrated(db, m), Migrated(d, m), whole)
        BY <2>6, <3>1, <3>2, SameLess
      <3>4. Same(Migrated(d, m), Migrated(After(p - 1).db, m), whole)
        BY <2>7, <3>1, <3>2, SameLess
      <3> QED  BY <3>1, <3>3, <3>4, SameOn
    <2>9. AlikeFor(db, After(p - 1).db, m, cut' = {})
      BY <2>6, <2>7, <2>8 DEF AlikeFor
    <2>10. Reached(p)'
      BY <1>2, <1>4, <1>5, <2>1, <2>9 DEF Reached, NoMigration
    <2> QED  BY <1>3, <2>10 DEF MigrationsInv
  <1> QED  BY <1>6, <1>7

LEMMA NextMigrationsInv == MigrationsInv /\ [StorageNext]_storageVars => MigrationsInv'
  <1> SUFFICES ASSUME MigrationsInv, [StorageNext]_storageVars PROVE MigrationsInv'
    OBVIOUS
  <1>1. CASE StartWallet
    <2>1. UNCHANGED <<db, passed, origin, migration, cut>> /\ boot' = "migrating" /\ boot = "off"
      BY <1>1 DEF StartWallet
    <2>2. migration = NoMigration
      BY <2>1 DEF MigrationsInv, MigrationsType
    <2> QED  BY <2>1, <2>2, MigrationsUnchanged
  <1>2. CASE BeginMigration
    BY <1>2, BeginInv
  <1>3. CASE MigrationWrites
    BY <1>3, WritesInv
  <1>4. CASE MarkPassed
    BY <1>4, MarkInv
  <1>5. CASE MigrationsEnd
    <2>1. UNCHANGED <<db, passed, origin, migration, cut>> /\ boot' = "ready" /\ Ahead = {}
      BY <1>5 DEF MigrationsEnd
    <2>2. PICK p \in 1..14 : Reached(p)
      BY DEF MigrationsInv
    <2>3. p = 14 /\ migration = NoMigration
      BY <2>1, <2>2, NextIs DEF Reached
    <2>4. \A n : After(n)' = After(n)
      BY <2>1, OutcomesStay
    <2>5. Reached(p)'
      BY <2>1, <2>2, <2>3, <2>4 DEF Reached, PassedBefore
    <2>6. MigrationsType'
      BY <2>1, <2>3 DEF MigrationsInv, MigrationsType, NoMigration
    <2> QED  BY <2>5, <2>6 DEF MigrationsInv
  <1>6. CASE RestartWallet
    BY <1>6, RestartInv
  <1>7. CASE \/ StorageSet \/ StorageGet \/ GetReturns \/ (\E ok \in BOOLEAN : QueueWrites(ok))
             \/ UNCHANGED storageVars
    <2>1. UNCHANGED migrationVars
      BY <1>7 DEF StorageSet, StorageGet, GetReturns, QueueWrites, storageVars
    <2> QED  BY <2>1, MigrationsUnchanged DEF migrationVars
  <1> QED  BY <1>1, <1>2, <1>3, <1>4, <1>5, <1>6, <1>7 DEF StorageNext

THEOREM MigrationsInvariance == StorageSpec => []MigrationsInv
  BY InitMigrationsInv, NextMigrationsInv, PTL DEF StorageSpec

\* Once the migrations have ended, what users cannot get back is what it would be
\* had nothing ended the wallet, and all is if nothing interrupted one of the
\* three migrations that cannot run twice.
THEOREM MigrationsKeepDataHolds == StorageSpec => []MigrationsKeepData
  <1>1. MigrationsInv => MigrationsKeepData
    <2> SUFFICES ASSUME MigrationsInv, boot = "ready"
                 PROVE  /\ Agree({"networks", "accounts", "keys", "renewed"})
                        /\ cut = {} => Agree({"customTokens", "tokenPreferences", "history", "dappsV2"})
      BY DEF MigrationsKeepData
    <2>1. PICK p \in 1..14 : Reached(p)
      BY DEF MigrationsInv
    <2>2. migration = NoMigration /\ ~migration.runs /\ IsStore(origin.db)
          /\ origin.passed \subseteq passed
      BY OriginsAreStores DEF MigrationsInv, MigrationsType, NoMigration
    <2>3. Same(db, After(13).db, cut = {})
      <3>1. CASE p = 14
        BY <2>1, <3>1 DEF Reached
      <3>2. CASE p # 14
        <4>1. /\ PassedBefore(p) /\ Throws(db, Migrations[p])
              /\ AlikeFor(db, After(p - 1).db, Migrations[p], cut = {})
          BY <2>1, <2>2, <3>2 DEF Reached
        <4>2. /\ Throws(After(p - 1).db, Migrations[p])
              /\ Same(db, After(p - 1).db, cut = {})
          BY <4>1 DEF AlikeFor
        <4>3. p \in 1..13 /\ p \in 0..13 /\ Migrations[p] \notin origin.passed
          BY <2>2, <3>2, <4>1 DEF PassedBefore
        <4>4. After(p).thrown /\ After(p).db = After(p - 1).db
          BY <2>2, <4>2, <4>3, OutcomesAre
        <4>5. After(13).db = After(p).db
          BY <2>2, <4>3, <4>4, ThrownSticks
        <4> QED  BY <4>2, <4>4, <4>5
      <3> QED  BY <3>1, <3>2
    <2>4. AsIfUninterrupted = After(13).db
      BY MigrationsAre DEF AsIfUninterrupted, After
    <2>5. /\ \A k \in Core : db[k] = AsIfUninterrupted[k]
          /\ cut = {} => \A k \in Data : db[k] = AsIfUninterrupted[k]
      BY <2>3, <2>4 DEF Same
    <2> QED  BY <2>5 DEF Agree, Core, Data
  <1> QED  BY <1>1, MigrationsInvariance, PTL

-----------------------------------------------------------------------------
(* Types.  A write that is made of a storage in its formats leaves them.   *)

Fits(w) == \A d \in Formats : Written(d, w) \in Formats
Fitting(P) == \E S : P \in Seq(S) /\ \A w \in S : Fits(w)

LEMMA PutsFit ==
    /\ \A v \in {"none", "old"} : /\ Fits(Put("networkPreferences", v))
                                  /\ Fits(Put("accountPreferences", v))
                                  /\ Fits(Put("keyPreferences", v))
                                  /\ Fits(Put("dapps", v))
    /\ \A v \in {"none", "named", "chained"} : Fits(Put("networks", v))
    /\ \A v \in {"none", "unlabelled", "labelled"} : Fits(Put("keys", v))
    /\ \A v \in {"none", "mixed", "named", "chained", "lost"} : Fits(Put("tokenPreferences", v))
    /\ \A v \in {"none", "named", "chained", "lost"} : Fits(Put("customTokens", v))
    /\ \A v \in {"none", "named", "chained", "lost"} : Fits(Put("history", v))
    /\ \A v \in {"none", "flagged", "sourced"} : Fits(Put("dappsV2", v))
    /\ \A v \in SUBSET Renewed : Fits(Put("renewed", v))
  BY DEF Fits, Written, Put, Formats

LEMMA ListsFit ==
    /\ Fitting(<<>>)
    /\ \A w : Fits(w) => Fitting(<<w>>)
    /\ \A w, v : Fits(w) /\ Fits(v) => Fitting(<<w, v>>)
    /\ \A w, v, x, y : Fits(w) /\ Fits(v) /\ Fits(x) /\ Fits(y) => Fitting(<<w, v, x, y>>)
  <1>0. ASSUME NEW P, NEW S, P \in Seq(S), \A w \in S : Fits(w) PROVE Fitting(P)
    <2> SUFFICES \E T : P \in Seq(T) /\ \A w \in T : Fits(w)
      BY DEF Fitting
    <2> WITNESS S
    <2> QED  BY <1>0
  <1>1. Fitting(<<>>)
    <2> DEFINE P == <<>>
               S == {}
    <2>1. P \in Seq(S) /\ \A u \in S : Fits(u)
      OBVIOUS
    <2> HIDE DEF P, S
    <2>3. Fitting(P)
      BY <1>0, <2>1
    <2> QED  BY <2>3 DEF P
  <1>2. ASSUME NEW w, Fits(w)
        PROVE  Fitting(<<w>>)
    <2> DEFINE P == <<w>>
               S == {w}
    <2>1. P \in Seq(S)
      OBVIOUS
    <2>2. \A u \in S : Fits(u)
      BY <1>2
    <2> HIDE DEF P, S
    <2>3. Fitting(P)
      BY <1>0, <2>1, <2>2
    <2> QED  BY <2>3 DEF P
  <1>3. ASSUME NEW w, NEW v, Fits(w), Fits(v)
        PROVE  Fitting(<<w, v>>)
    <2> DEFINE P == <<w, v>>
               S == {w, v}
    <2>1. P \in Seq(S)
      OBVIOUS
    <2>2. \A u \in S : Fits(u)
      BY <1>3
    <2> HIDE DEF P, S
    <2>3. Fitting(P)
      BY <1>0, <2>1, <2>2
    <2> QED  BY <2>3 DEF P
  <1>4. ASSUME NEW w, NEW v, NEW x, NEW y, Fits(w), Fits(v), Fits(x), Fits(y)
        PROVE  Fitting(<<w, v, x, y>>)
    <2> DEFINE P == <<w, v, x, y>>
               S == {w, v, x, y}
    <2>1. P \in Seq(S)
      OBVIOUS
    <2>2. \A u \in S : Fits(u)
      BY <1>4
    <2> HIDE DEF P, S
    <2>3. Fitting(P)
      BY <1>0, <2>1, <2>2
    <2> QED  BY <2>3 DEF P
  <1> QED  BY <1>1, <1>2, <1>3, <1>4

\* Every migration writes what fits.
LEMMA PlansFit ==
    ASSUME NEW d \in Formats, NEW m \in MigrationNames
    PROVE  Fitting(Plan(d, m))
  <1>1. CASE m = "networkPreferences"
    BY <1>1, Plans, PutsFit, ListsFit DEF NetworkPreferencesToNetworks, Erase
  <1>2. CASE m = "accountPreferences"
    BY <1>2, Plans, PutsFit, ListsFit DEF AccountPreferencesToAccounts, Erase
  <1>3. CASE m = "keyPreferences"
    BY <1>3, Plans, PutsFit, ListsFit DEF KeyPreferencesToKeystoreKeys, Erase
  <1>4. CASE m = "tokens"
    BY <1>4, Plans, PutsFit, ListsFit DEF TokenPreferences
  <1>5. CASE m = "chainIds"
    <2>1. /\ Rekeyed(d, d.customTokens) \in {"none", "chained", "lost"}
          /\ Rekeyed(d, d.tokenPreferences) \in {"none", "chained", "lost"}
          /\ Rekeyed(d, d.history) \in {"none", "chained", "lost"}
      BY DEF Rekeyed
    <2> QED  BY <1>5, <2>1, Plans, PutsFit, ListsFit DEF NetworkIdToChainId
  <1>6. CASE m = "dapps"
    BY <1>6, Plans, PutsFit, ListsFit DEF LegacyDappsToDappsV2, Erase
  <1>7. CASE m = "sources"
    BY <1>7, Plans, PutsFit, ListsFit DEF DappsAddConnectionSources
  <1>8. CASE m \in Renewed
    <2>1. d.renewed \cup {m} \in SUBSET Renewed
      BY <1>8 DEF Formats
    <2>2. Plan(d, m) = <<Put("renewed", d.renewed \cup {m})>>
      BY <1>8, Plans DEF Renew
    <2> QED  BY <2>1, <2>2, PutsFit, ListsFit
  <1> QED
    BY <1>1, <1>2, <1>3, <1>4, <1>5, <1>6, <1>7, <1>8, MigrationsAre

\* What is bounded is, and what a migration has left to write fits.
TypesInv ==
    /\ db \in Formats /\ (migration.runs => Fitting(migration.writes))
    /\ restarts \in 0..MAX_RESTARTS /\ cut \subseteq Unrepeatable
    /\ asked \in 0..MAX_WRITES /\ lostWrites \subseteq 1..asked /\ answer.value <= asked

LEMMA NextTypesInv ==
    ASSUME MigrationsInv, StorageInv, TypesInv, [StorageNext]_storageVars
    PROVE  TypesInv'
  <1> USE StorageBoundsAssumption
  <1>0. /\ MAX_RESTARTS \in Nat /\ MAX_WRITES \in Nat /\ asked \in Nat /\ stored \in Nat
        /\ stored <= asked /\ queue \in Seq(Nat)
        /\ \A i \in 1..Len(queue) : queue[i] \in 1..asked
    BY DEF StorageInv, QueueInv
  <1>1. ASSUME UNCHANGED <<db, migration, restarts, cut, asked, lostWrites, answer>>
        PROVE  TypesInv'
    BY <1>1 DEF TypesInv
  <1>2. CASE StartWallet \/ MigrationsEnd \/ StorageGet \/ UNCHANGED storageVars
    BY <1>1, <1>2 DEF StartWallet, MigrationsEnd, StorageGet, storageVars, migrationVars, queueVars
  <1>3. CASE BeginMigration
    <2>1. PICK p \in 1..14 : Reached(p)
      BY DEF MigrationsInv
    <2>2. NextMigration \in MigrationNames
      <3>1. p # 14 /\ NextMigration = Migrations[p] /\ p \in 1..13
        BY <1>3, <2>1, NextIs DEF BeginMigration, Reached
      <3> QED  BY <3>1, MigrationsAre DEF MigrationNames
    <2>3. Fitting(Plan(db, NextMigration))
      BY <2>2, PlansFit DEF TypesInv
    <2>4. /\ UNCHANGED <<db, restarts, cut, asked, lostWrites, answer>>
          /\ \/ migration' = migration
             \/ migration' = [runs |-> TRUE, writes |-> Plan(db, NextMigration)]
      BY <1>3 DEF BeginMigration, queueVars
    <2>5. migration'.runs => Fitting(migration'.writes)
      BY <2>3, <2>4 DEF TypesInv
    <2> QED  BY <2>4, <2>5 DEF TypesInv
  <1>4. CASE MigrationWrites
    <2>1. /\ migration.runs /\ migration.writes # <<>>
          /\ db' = Written(db, Head(migration.writes))
          /\ migration' = [migration EXCEPT !.writes = Tail(migration.writes)]
          /\ UNCHANGED <<restarts, cut, asked, lostWrites, answer>>
      BY <1>4 DEF MigrationWrites, queueVars
    <2>2. PICK S : migration.writes \in Seq(S) /\ \A w \in S : Fits(w)
      BY <2>1 DEF TypesInv, Fitting
    <2>3. Head(migration.writes) \in S /\ Tail(migration.writes) \in Seq(S)
      BY <2>1, <2>2
    <2>4. db' \in Formats
      BY <2>1, <2>2, <2>3 DEF TypesInv, Fits
    <2>5. migration'.runs => Fitting(migration'.writes)
      <3>1. PICK p \in 1..14 : Reached(p)
        BY DEF MigrationsInv
      <3>2. PICK d, n : migration = [runs |-> TRUE, writes |-> RestOf(Plan(d, Migrations[p]), n)]
        BY <2>1, <3>1 DEF Reached, Running, NoMigration
      <3>3. migration'.writes = Tail(migration.writes)
        BY <2>1, <3>2
      <3> QED  BY <2>2, <2>3, <3>3 DEF Fitting
    <2> QED  BY <2>1, <2>4, <2>5 DEF TypesInv
  <1>5. CASE MarkPassed
    BY <1>5 DEF MarkPassed, TypesInv, NoMigration, queueVars
  <1>6. CASE RestartWallet
    <2>1. /\ UNCHANGED <<db, asked, answer>> /\ migration' = NoMigration
          /\ restarts' = restarts + 1 /\ restarts < MAX_RESTARTS
          /\ cut' \subseteq cut \cup Unrepeatable /\ lostWrites' = lostWrites \cup ToSet(queue)
      BY <1>6 DEF RestartWallet
    <2>2. ToSet(queue) \subseteq 1..asked
      BY <1>0 DEF ToSet
    <2>3. restarts' \in 0..MAX_RESTARTS
      BY <2>1 DEF TypesInv
    <2>4. ~migration'.runs
      BY <2>1 DEF NoMigration
    <2> QED  BY <2>1, <2>2, <2>3, <2>4 DEF TypesInv
  <1>7. CASE StorageSet
    <2>1. /\ asked' = asked + 1 /\ asked < MAX_WRITES
          /\ UNCHANGED <<db, migration, restarts, cut, lostWrites, answer>>
      BY <1>7 DEF StorageSet, migrationVars
    <2>2. \A v \in lostWrites : v \in 1..asked'
      BY <1>0, <2>1 DEF TypesInv
    <2>3. answer.value <= asked'
      BY <1>0, <2>1 DEF TypesInv, StorageInv, AnswerInv
    <2> QED  BY <1>0, <2>1, <2>2, <2>3 DEF TypesInv
  <1>8. CASE GetReturns
    <2>1. /\ UNCHANGED <<db, migration, restarts, cut, asked, lostWrites>>
          /\ answer' = [floor |-> reader.floor, value |-> stored]
      BY <1>8 DEF GetReturns, migrationVars
    <2> QED  BY <1>0, <2>1 DEF TypesInv
  <1>9. CASE \E ok \in BOOLEAN : QueueWrites(ok)
    <2>1. /\ UNCHANGED <<db, migration, restarts, cut, asked, answer>> /\ queue # <<>>
          /\ lostWrites' \subseteq lostWrites \cup {Head(queue)}
      BY <1>9 DEF QueueWrites, migrationVars
    <2>2. Head(queue) \in 1..asked
      BY <1>0, <2>1
    <2> QED  BY <2>1, <2>2 DEF TypesInv
  <1> QED
    BY <1>2, <1>3, <1>4, <1>5, <1>6, <1>7, <1>8, <1>9 DEF StorageNext

\* All variables of the storage have their types, for anything an earlier version
\* may have left; what the migrations leave is in the formats that later versions
\* read, whenever a restart comes.
THEOREM StorageTypeCorrect == StorageSpec => []StorageTypeOK
  <1>1. StorageInit => TypesInv
    <2> SUFFICES ASSUME StorageInit PROVE TypesInv
      OBVIOUS
    <2>1. db \in Formats
      BY OriginsAssumption DEF StorageInit
    <2> QED  BY <2>1, StorageBoundsAssumption DEF StorageInit, TypesInv, NoMigration
  <1>2. MigrationsInv /\ StorageInv /\ TypesInv /\ [StorageNext]_storageVars => TypesInv'
    BY NextTypesInv
  <1>3. MigrationsInv /\ StorageInv /\ TypesInv => StorageTypeOK
    <2> SUFFICES ASSUME MigrationsInv, StorageInv, TypesInv PROVE StorageTypeOK
      OBVIOUS
    <2>0. migration.runs = FALSE \/ (migration.runs = TRUE /\ boot = "migrating")
      BY DEF MigrationsInv, MigrationsType, NoMigration
    <2>1. /\ db \in Formats /\ origin \in StorageOrigins /\ boot \in {"off", "migrating", "ready"}
          /\ migration.runs \in BOOLEAN /\ (migration.runs => boot = "migrating")
          /\ restarts \in 0..MAX_RESTARTS /\ cut \subseteq Unrepeatable
      BY <2>0 DEF MigrationsInv, MigrationsType, TypesInv
    <2>2. passed \subseteq ToSet(Migrations)
      BY DEF MigrationsInv, MigrationsType, MigrationNames, ToSet
    <2>3. /\ stored \in 0..asked /\ asked \in 0..MAX_WRITES
          /\ \A i \in 1..Len(queue) : queue[i] \in 1..asked
          /\ Len(queue) \in Nat /\ lostWrites \subseteq 1..asked
      BY DEF StorageInv, QueueInv, TypesInv
    <2>4. reader \in [floor : 0..asked, left : 0..Len(queue), waits : BOOLEAN]
      <3>1. /\ reader = [floor |-> reader.floor, left |-> reader.left, waits |-> reader.waits]
            /\ reader.floor \in Nat /\ reader.left \in Nat /\ reader.waits \in BOOLEAN
            /\ reader.floor <= asked /\ reader.left <= Len(queue) /\ asked \in Nat
        BY DEF StorageInv, QueueInv, ReaderInv
      <3> QED  BY <2>3, <3>1
    <2>5. answer \in [floor : 0..asked, value : 0..asked]
      <3>1. /\ answer = [floor |-> answer.floor, value |-> answer.value]
            /\ answer.floor \in Nat /\ answer.value \in Nat
            /\ answer.floor <= asked /\ answer.value <= asked /\ asked \in Nat
        BY DEF StorageInv, QueueInv, AnswerInv, TypesInv
      <3> QED  BY <3>1
    <2> QED  BY <2>1, <2>2, <2>3, <2>4, <2>5 DEF StorageTypeOK
  <1> QED
    BY <1>1, <1>2, <1>3, StorageInvariance, MigrationsInvariance, PTL DEF StorageSpec
=============================================================================
