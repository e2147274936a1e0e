--------------------- MODULE LittleFSRepository_proofs ---------------------
(***************************************************************************)
(* LittleFSRepository implements RecordStore: every system call of a write *)
(* or an erase is an operation of the store or changes nothing the store   *)
(* shows, for any number of records, any sizes and watermarks, either      *)
(* retention policy, and flash that fails at any file operation, as long   *)
(* as mount can list the directory.  Its counters never fall below what    *)
(* they count.                                                             *)
(***************************************************************************)
EXTENDS LittleFSRepository, FiniteSums

(* What a task that is in a call knows of its record.                      *)
CallsOK ==
  /\ pc \in [Task -> Place] /\ rec \in [Task -> 0 .. MaxRecord]
  /\ data \in Payload
  /\ \A t \in Task :
       pc[t] \in {"victim", "create", "store", "count", "cleanup", "unlink"} =>
         rec[t] \in RecordId

(* The one file that can be open is the one the engine's write created.    *)
OpenIsOurs == open = IF pc[Engine] = "store" THEN {rec[Engine]} ELSE {}

(* The id a write has taken, and not used yet, is the last one.            *)
IdIsLast == pc[Engine] = "create" => nextId = rec[Engine] + 1

Inv == StoreTypeOK /\ CallsOK /\ OpenIsOurs /\ IdIsLast

LEMMA InitInv == Init => Inv
  BY StoreAssumption, RepositoryAssumption
     DEF Init, StoreInit, Inv, StoreTypeOK, CallsOK, OpenIsOurs, IdIsLast,
         AllIdle, NoRecord, RecordId, Content, Task, Place

(* The ids a step of the engine's write takes and releases.                *)
LEMMA WriteInv ==
  ASSUME Inv, WriteStep
  PROVE  Inv'
<1> USE StoreAssumption, RepositoryAssumption
    DEF Inv, StoreTypeOK, CallsOK, OpenIsOurs, IdIsLast, Task, RecordId,
        Content, Goto, Place
<1>1. CASE EvictFinds
  BY <1>1 DEF EvictFinds, Stored, storeVars
<1>2. CASE EvictUnlinks
  BY <1>2 DEF EvictUnlinks
<1>3. CASE EvictEnds
  BY <1>3 DEF EvictEnds, TakeId
<1>4. CASE WriteCreates
  BY <1>4 DEF WriteCreates
<1>5. CASE WriteCannotCreate
  BY <1>5 DEF WriteCannotCreate, storeVars
<1>6. CASE WriteStores
  BY <1>6 DEF WriteStores
<1>7. CASE WriteTears
  BY <1>7 DEF WriteTears
<1>8. CASE WriteCleansUp
  BY <1>8 DEF WriteCleansUp
<1>9. CASE WriteCounts
  BY <1>9 DEF WriteCounts, storeVars
<1> QED
  BY <1>1, <1>2, <1>3, <1>4, <1>5, <1>6, <1>7, <1>8, <1>9 DEF WriteStep

(* An erase changes only the record it is about and its own task.          *)
LEMMA EraseInv ==
  ASSUME Inv, NEW t \in Task, EraseStep(t)
  PROVE  Inv'
<1> USE StoreAssumption, RepositoryAssumption
    DEF Inv, StoreTypeOK, CallsOK, OpenIsOurs, IdIsLast, Task, RecordId,
        Content, Goto, Place
<1>1. CASE EraseUnlinks(t)
  BY <1>1 DEF EraseUnlinks
<1>2. CASE EraseFails(t)
  BY <1>2 DEF EraseFails, storeVars
<1>3. CASE EraseUncounts(t)
  BY <1>3 DEF EraseUncounts, storeVars
<1> QED
  BY <1>1, <1>2, <1>3 DEF EraseStep

(* Calls begin idle, with the ids of the store.                            *)
LEMMA CallInv ==
  ASSUME Inv, Call
  PROVE  Inv'
<1> USE StoreAssumption, RepositoryAssumption
    DEF Inv, StoreTypeOK, CallsOK, OpenIsOurs, IdIsLast, Task, RecordId,
        Content, Goto, Place
<1>1. ASSUME NEW p \in Payload, WriteTakesId(p)
      PROVE  Inv'
  BY <1>1 DEF WriteTakesId, TakeId
<1>2. ASSUME NEW p \in Payload, WriteIsRefused(p)
      PROVE  Inv'
  BY <1>2 DEF WriteIsRefused, storeVars, callVars
<1>3. ASSUME NEW p \in Payload, WriteMakesRoom(p)
      PROVE  Inv'
  BY <1>3 DEF WriteMakesRoom, storeVars
<1>4. ASSUME NEW t \in Task, NEW r \in RecordId, EraseFinds(t, r)
      PROVE  Inv'
  <2>1. /\ pc[t] = "idle" /\ pc' = [pc EXCEPT ![t] = "unlink"]
        /\ rec' = [rec EXCEPT ![t] = r]
        /\ UNCHANGED <<flash, nextId, open, data>>
    BY <1>4 DEF EraseFinds, storeVars
  <2>2. StoreTypeOK' /\ CallsOK'
    BY <2>1
  <2>3. OpenIsOurs' /\ IdIsLast'
    BY <2>1
  <2> QED
    BY <2>2, <2>3
<1>5. CASE UNCHANGED vars
  BY <1>5 DEF vars, storeVars, callVars
<1> QED
  BY <1>1, <1>2, <1>3, <1>4, <1>5 DEF Call, EraseFindsNothing

(* The invariant is inductive, power losses included.                      *)
LEMMA NextInv ==
  ASSUME Inv, [Next]_vars
  PROVE  Inv'
<1>1. CASE Mount
  BY <1>1, StoreAssumption, RepositoryAssumption
     DEF Mount, Inv, StoreTypeOK, CallsOK, OpenIsOurs, IdIsLast, Task,
         RecordId, Content, AllIdle, NoRecord, Place
<1>2. CASE UNCHANGED vars
  BY <1>2 DEF vars, storeVars, callVars, Inv, StoreTypeOK, CallsOK,
     OpenIsOurs, IdIsLast
<1> QED
  BY <1>1, <1>2, WriteInv, EraseInv, CallInv DEF Next

(* In every reachable state a file is open only while the engine stores.   *)
LEMMA Invariant == Spec => []Inv
  BY InitInv, NextInv, PTL DEF Spec

----------------------------------------------------------------------------
(* The id the next write takes, as the store sees it.                      *)
HandedOut == IF pc[Engine] = "create" THEN rec[Engine] ELSE nextId

shown == <<flash, HandedOut, open>>

(* A step of the engine's write is one operation of the store, or hidden.  *)
LEMMA WriteIsStoreStep ==
  ASSUME Inv, WriteStep
  PROVE  Store!StoreOperation \/ UNCHANGED shown
<1> USE StoreAssumption, RepositoryAssumption
    DEF Inv, StoreTypeOK, CallsOK, OpenIsOurs, IdIsLast, Task, Place, Goto,
        HandedOut, shown
<1>1. CASE EvictFinds \/ WriteCounts
  BY <1>1 DEF EvictFinds, WriteCounts, storeVars
<1>2. CASE EvictUnlinks
  <2>1. Store!Erase(rec[Engine]) /\ rec[Engine] \in RecordId
    BY <1>2 DEF EvictUnlinks, Store!Erase
  <2> QED
    BY <2>1 DEF Store!StoreOperation, Store!RecordId, RecordId
<1>3. CASE EvictEnds
  BY <1>3 DEF EvictEnds, TakeId
<1>4. CASE WriteCreates
  <2>1. Store!Reserve(1)
    <3>1. /\ HandedOut = rec[Engine] /\ rec[Engine] \in RecordId
          /\ HandedOut' = rec[Engine] + 1
      BY <1>4 DEF WriteCreates
    <3>2. Store!Evicted(1) = flash
      BY DEF Store!Evicted, Store!RecordId, RecordId
    <3>3. 1 \in Store!EvictionPoint
      BY <3>1 DEF Store!EvictionPoint, RecordId
    <3>4. /\ flash' = [flash EXCEPT ![rec[Engine]] = Torn]
          /\ open' = open \cup {rec[Engine]}
      BY <1>4 DEF WriteCreates
    <3>5. flash' = [Store!Evicted(1) EXCEPT ![HandedOut] = Torn]
      <4> HIDE DEF HandedOut
      <4> QED
        BY <3>1, <3>2, <3>4
    <3> QED
      <4>1. HandedOut <= MaxRecord /\ HandedOut' = HandedOut + 1
        BY <3>1 DEF RecordId
      <4>2. open' = open \cup {HandedOut}
        BY <3>1, <3>4
      <4> QED
        BY <3>3, <3>5, <4>1, <4>2 DEF Store!Reserve
  <2>2. 1 \in 1 .. MaxRecord + 1
    OBVIOUS
  <2> QED
    BY <2>1, <2>2 DEF Store!StoreOperation
<1>5. CASE WriteCannotCreate
  <2>1. Store!Burn(1)
    BY <1>5 DEF WriteCannotCreate, storeVars, Store!Burn,
       Store!EvictionPoint, Store!Evicted, Store!RecordId, RecordId, Content
  <2>2. 1 \in 1 .. MaxRecord + 1
    OBVIOUS
  <2> QED
    BY <2>1, <2>2 DEF Store!StoreOperation
<1>6. CASE WriteStores
  <2>1. Store!Commit(rec[Engine], data) /\ rec[Engine] \in RecordId
    BY <1>6 DEF WriteStores, Store!Commit
  <2> QED
    BY <2>1 DEF Store!StoreOperation, Store!RecordId, RecordId
<1>7. CASE WriteTears
  <2>1. Store!Tear(rec[Engine]) /\ rec[Engine] \in RecordId
    BY <1>7 DEF WriteTears, Store!Tear
  <2> QED
    BY <2>1 DEF Store!StoreOperation, Store!RecordId, RecordId
<1>8. CASE WriteCleansUp
  <2>1. /\ Store!Erase(rec[Engine]) \/ UNCHANGED shown
        /\ rec[Engine] \in RecordId
    BY <1>8 DEF WriteCleansUp, Store!Erase
  <2> QED
    BY <2>1 DEF Store!StoreOperation, Store!RecordId, RecordId
<1> QED
  BY <1>1, <1>2, <1>3, <1>4, <1>5, <1>6, <1>7, <1>8 DEF WriteStep

(* So is every other step of a call.                                       *)
LEMMA CallIsStoreStep ==
  ASSUME Inv, Call \/ \E t \in Task : EraseStep(t)
  PROVE  Store!StoreOperation \/ UNCHANGED shown
<1> USE StoreAssumption, RepositoryAssumption
    DEF Inv, StoreTypeOK, CallsOK, OpenIsOurs, IdIsLast, Task, Place, Goto,
        HandedOut, shown
<1>1. ASSUME NEW p \in Payload,
             WriteTakesId(p) \/ WriteIsRefused(p) \/ WriteMakesRoom(p)
      PROVE  UNCHANGED shown
  BY <1>1 DEF WriteTakesId, WriteIsRefused, WriteMakesRoom, TakeId, storeVars,
     callVars
<1>2. ASSUME NEW t \in Task, NEW r \in RecordId,
             EraseFinds(t, r) \/ EraseFindsNothing(t, r)
      PROVE  UNCHANGED shown
  BY <1>2 DEF EraseFinds, EraseFindsNothing, storeVars, callVars, vars
<1>3. ASSUME NEW t \in Task, EraseFails(t) \/ EraseUncounts(t)
      PROVE  UNCHANGED shown
  BY <1>3 DEF EraseFails, EraseUncounts, storeVars
<1>4. ASSUME NEW t \in Task, EraseUnlinks(t)
      PROVE  Store!StoreOperation
  <2>1. Store!Erase(rec[t]) /\ rec[t] \in RecordId
    BY <1>4 DEF EraseUnlinks, Store!Erase
  <2> QED
    BY <2>1 DEF Store!StoreOperation, Store!RecordId, RecordId
<1> QED
  BY <1>1, <1>2, <1>3, <1>4 DEF Call, EraseStep

(* The repository implements the store, if mount can list the directory.   *)
THEOREM RepositoryImplementsStore ==
  ASSUME ~MountFaults
  PROVE  Spec => ImplementsStore
<1>1. Init => Store!StoreInit
  BY RepositoryAssumption
     DEF Init, StoreInit, Store!StoreInit, Store!RecordId, RecordId, AllIdle,
         Task
<1>2. Inv /\ [Next]_vars => [Store!StoreNext]_(Store!storeVars)
  <2>1. ASSUME Inv, Mount
        PROVE  Store!Remount
    BY <2>1, RepositoryAssumption
       DEF Mount, Store!Remount, Store!Stored, Store!RecordId, Stored,
           RecordId, AllIdle, Task
  <2>2. ASSUME Inv, UNCHANGED vars
        PROVE  UNCHANGED shown
    BY <2>2 DEF vars, storeVars, callVars, shown, HandedOut
  <2> QED
    BY <2>1, <2>2, WriteIsStoreStep, CallIsStoreStep
       DEF Next, Store!StoreNext, Store!storeVars, shown, HandedOut
<1> QED
  BY <1>1, <1>2, Invariant, PTL DEF Spec, ImplementsStore, Store!StoreSpec

----------------------------------------------------------------------------
(* Types.  What is left of TypeOK beyond Inv.                              *)
AccountsOK ==
  /\ used \in Nat /\ count \in Nat
  /\ pc[Main] \in {"idle", "unlink", "uncount"}
  /\ freed \in [Task -> Nat]
  /\ batch \in Nat
  /\ rc \in {"none", "Ok", "Full", "IoError"}
  /\ boots \in 0 .. MaxBoot

sizes == [r \in RecordId |-> SizeOf(flash[r])]

LEMMA RecordIdFinite == IsFiniteSet(RecordId)
  BY StoreAssumption, FS_Interval DEF RecordId

LEMMA StoredFinite == IsFiniteSet(Stored) /\ Cardinality(Stored) \in Nat
<1>1. Stored \subseteq RecordId
  BY DEF Stored
<1> QED
  BY <1>1, RecordIdFinite, FS_Subset, FS_CardinalityType

LEMMA SizeNat == \A c : SizeOf(c) \in Nat
  BY RepositoryAssumption DEF SizeOf

LEMMA TotalIs == Total = SumFunctionOnSet(sizes, RecordId)
  BY DEF Total, SumFunction, sizes

(* What the records and what the file system take.                         *)
LEMMA InfoNat == Total \in Nat /\ Info \in Nat /\ Info >= Total
<1>1. Total \in Nat
  <2>1. \A r \in RecordId : sizes[r] \in Nat
    BY SizeNat DEF sizes
  <2> QED
    BY <2>1, TotalIs, RecordIdFinite, SumNat
<1>2. MetaBytes * Cardinality(Stored) \in Nat
  BY StoredFinite, RepositoryAssumption
<1> QED
  BY <1>1, <1>2 DEF Info

LEMMA WriteAccounts ==
  ASSUME Inv, AccountsOK, WriteStep
  PROVE  AccountsOK'
<1> USE RepositoryAssumption DEF Inv, CallsOK, AccountsOK, Task, Goto
<1>1. CASE EvictFinds
  BY <1>1, SizeNat DEF EvictFinds
<1>2. CASE EvictUnlinks
  BY <1>2 DEF EvictUnlinks, Uncounted
<1>3. CASE EvictEnds
  BY <1>3 DEF EvictEnds, TakeId
<1>4. CASE WriteCreates
  BY <1>4 DEF WriteCreates
<1>5. CASE WriteCannotCreate
  BY <1>5 DEF WriteCannotCreate
<1>6. CASE WriteStores
  BY <1>6 DEF WriteStores
<1>7. CASE WriteTears
  BY <1>7 DEF WriteTears
<1>8. CASE WriteCleansUp
  BY <1>8 DEF WriteCleansUp
<1>9. CASE WriteCounts
  BY <1>9 DEF WriteCounts
<1> QED
  BY <1>1, <1>2, <1>3, <1>4, <1>5, <1>6, <1>7, <1>8, <1>9 DEF WriteStep

LEMMA NextAccounts ==
  ASSUME Inv, AccountsOK, [Next]_vars
  PROVE  AccountsOK'
<1> USE RepositoryAssumption DEF Inv, CallsOK, AccountsOK, Task, Goto
<1>1. ASSUME NEW t \in Task, EraseStep(t)
      PROVE  AccountsOK'
  <2>1. CASE EraseUnlinks(t)
    BY <2>1 DEF EraseUnlinks
  <2>2. CASE EraseFails(t)
    BY <2>2 DEF EraseFails
  <2>3. CASE EraseUncounts(t)
    BY <2>3 DEF EraseUncounts, Uncounted
  <2> QED
    BY <1>1, <2>1, <2>2, <2>3 DEF EraseStep
<1>2. ASSUME NEW p \in Payload,
             WriteTakesId(p) \/ WriteIsRefused(p) \/ WriteMakesRoom(p)
      PROVE  AccountsOK'
  BY <1>2 DEF WriteTakesId, WriteIsRefused, WriteMakesRoom, TakeId, callVars
<1>3. ASSUME NEW t \in Task, NEW r \in RecordId, EraseFinds(t, r)
      PROVE  AccountsOK'
  BY <1>3, SizeNat DEF EraseFinds
<1>4. CASE Mount
  BY <1>4, InfoNat, StoredFinite DEF Mount, AllIdle, NoRecord
<1>5. CASE UNCHANGED vars
  BY <1>5 DEF vars, callVars
<1> QED
  BY <1>1, <1>2, <1>3, <1>4, <1>5, WriteAccounts
     DEF Next, Call, EraseFindsNothing

LEMMA Accounts == Spec => []AccountsOK
<1>1. Init => AccountsOK
  BY RepositoryAssumption DEF Init, AccountsOK, AllIdle, NoRecord, Task
<1> QED
  BY <1>1, NextAccounts, Invariant, PTL DEF Spec

(* The repository is type correct: the two counters of the usage, which    *)
(* two tasks add to and subtract from, never fall below zero.              *)
THEOREM RepositoryTypes == Spec => []TypeOK
<1>1. Inv /\ AccountsOK => TypeOK
  BY DEF Inv, CallsOK, AccountsOK, TypeOK
<1> QED
  BY <1>1, Accounts, Invariant, PTL

----------------------------------------------------------------------------
(* The watermark.  A write that has passed the check has its place in the  *)
(* usage from then on, although it is added to it only at the end; without *)
(* eviction nothing else adds to the usage before the first power loss.    *)
Promised == pc[Engine] \in {"create", "store", "count"}

WatermarkInv ==
  ~DropOldest =>
    /\ pc[Engine] \notin {"evict", "victim"}
    /\ boots = 0 => used * 100 <= Capacity * HighPct
    /\ boots = 0 /\ Promised =>
         (used + Size[data]) * 100 <= Capacity * HighPct

LEMMA StaysBelow ==
  ASSUME NEW k \in Nat, NEW a \in Nat, NEW b \in Nat, a * 100 <= k, b <= a
  PROVE  b * 100 <= k
OBVIOUS

LEMMA HighNat == Capacity * HighPct \in Nat
  BY RepositoryAssumption

(* A step that adds nothing to the usage and promises no write.            *)
LEMMA WatermarkStep ==
  ASSUME Inv, AccountsOK, AccountsOK', WatermarkInv, ~DropOldest,
         boots' = boots, data' = data,
         pc'[Engine] \notin {"evict", "victim"},
         Promised' => Promised, used' <= used
  PROVE  WatermarkInv'
<1>1. used \in Nat /\ used' \in Nat /\ Size[data] \in Nat
  BY RepositoryAssumption DEF Inv, CallsOK, AccountsOK
<1>2. /\ used + Size[data] \in Nat /\ used' + Size[data] \in Nat
      /\ used' + Size[data] <= used + Size[data]
  BY <1>1
<1>3. boots = 0 => used' * 100 <= Capacity * HighPct
  BY <1>1, HighNat, StaysBelow DEF WatermarkInv
<1>4. boots = 0 /\ Promised => (used' + Size[data]) * 100 <= Capacity * HighPct
  BY <1>2, HighNat, StaysBelow DEF WatermarkInv
<1> QED
  BY <1>3, <1>4 DEF WatermarkInv

LEMMA WatermarkNext ==
  ASSUME Inv, Inv', AccountsOK, AccountsOK', WatermarkInv, ~DropOldest,
         [Next]_vars
  PROVE  WatermarkInv'
<1> USE RepositoryAssumption
    DEF Inv, CallsOK, AccountsOK, WatermarkInv, Task, Goto, Promised
<1>1. ASSUME NEW p \in Payload, WriteTakesId(p)
      PROVE  WatermarkInv'
  <2>1. /\ used' = used /\ data' = p /\ Size[p] \in Nat
        /\ ~((used + Size[p]) * 100 > Capacity * HighPct)
        /\ pc'[Engine] = "create"
    BY <1>1 DEF WriteTakesId, TakeId, OverHigh
  <2>2. (used + Size[p]) * 100 \in Nat
    BY <2>1
  <2>3. (used + Size[p]) * 100 <= Capacity * HighPct
    <3> DEFINE b == (used + Size[p]) * 100
               k == Capacity * HighPct
    <3>1. b \in Nat /\ k \in Nat /\ ~(b > k)
      BY <2>1, <2>2, HighNat
    <3> HIDE DEF b, k
    <3>2. b <= k
      BY <3>1
    <3> QED
      BY <3>2 DEF b, k
  <2> QED
    BY <2>1, <2>3
<1>2. ASSUME NEW p \in Payload, WriteIsRefused(p) \/ WriteMakesRoom(p)
      PROVE  WatermarkInv'
  BY <1>2 DEF WriteIsRefused, WriteMakesRoom, callVars
<1>3. CASE WriteStep
  <2>1. CASE WriteCounts
    <3>1. /\ used' = used + Size[data] /\ boots' = boots
          /\ pc[Engine] = "count" /\ pc'[Engine] = "idle"
      BY <2>1 DEF WriteCounts
    <3> QED
      BY <3>1
  <2>2. CASE ~WriteCounts
    <3> SUFFICES /\ boots' = boots /\ data' = data
                 /\ pc'[Engine] \notin {"evict", "victim"}
                 /\ (Promised' => Promised) /\ used' <= used
      BY WatermarkStep
    <3>1. CASE EvictFinds \/ EvictUnlinks \/ EvictEnds
      BY <3>1 DEF EvictFinds, EvictUnlinks, EvictEnds
    <3>2. CASE WriteCreates \/ WriteCannotCreate
      BY <3>2 DEF WriteCreates, WriteCannotCreate
    <3>3. CASE WriteStores \/ WriteTears \/ WriteCleansUp
      BY <3>3 DEF WriteStores, WriteTears, WriteCleansUp
    <3> QED
      BY <1>3, <2>2, <3>1, <3>2, <3>3 DEF WriteStep
  <2> QED
    BY <2>1, <2>2
<1>4. ASSUME NEW t \in Task,
             EraseStep(t) \/ \E r \in RecordId : EraseFinds(t, r)
      PROVE  WatermarkInv'
  <2> SUFFICES /\ boots' = boots /\ data' = data
               /\ pc'[Engine] \notin {"evict", "victim"}
               /\ (Promised' => Promised) /\ used' <= used
    BY WatermarkStep
  <2>1. CASE EraseUnlinks(t) \/ EraseFails(t) \/ \E r \in RecordId : EraseFinds(t, r)
    BY <2>1 DEF EraseFinds, EraseUnlinks, EraseFails
  <2>2. CASE EraseUncounts(t)
    BY <2>2 DEF EraseUncounts, Uncounted
  <2> QED
    BY <1>4, <2>1, <2>2 DEF EraseStep
<1>5. CASE Mount
  BY <1>5 DEF Mount, AllIdle
<1>6. CASE UNCHANGED vars
  BY <1>6 DEF vars, callVars
<1> HIDE DEF Inv, CallsOK, AccountsOK, WatermarkInv, Task, Goto, Promised
<1> QED
  BY <1>1, <1>2, <1>3, <1>4, <1>5, <1>6 DEF Next, Call, EraseFindsNothing

(* Where nothing is evicted the usage stays under the high watermark until *)
(* the first power loss, whatever the two tasks do in between.             *)
THEOREM WatermarkIsKept == Spec => []WatermarkHolds
<1>1. Init => WatermarkInv
  BY RepositoryAssumption DEF Init, WatermarkInv, AllIdle, Task, Promised
<1>2. WatermarkInv /\ [Next]_vars /\ Inv /\ Inv' /\ AccountsOK /\ AccountsOK'
        => WatermarkInv'
  BY WatermarkNext DEF WatermarkInv
<1>3. WatermarkInv => WatermarkHolds
  BY DEF WatermarkInv, WatermarkHolds
<1> QED
  BY <1>1, <1>2, <1>3, Invariant, Accounts, PTL DEF Spec

----------------------------------------------------------------------------
(* The number of records.  A write that fails after it has created its     *)
(* file leaves a record nobody counts until it has removed it; as long as  *)
(* none does, the counter is balanced at every step.                       *)
Finished == {r \in Stored : pc[Engine] = "store" => r # rec[Engine]}

CountInv ==
  \A F \in SUBSET RecordId, S \in SUBSET Task :
    F = Finished /\ S = Subtracting(Task) =>
      count + Adding(1) >= Cardinality(F) + Cardinality(S)

LEMMA TaskFinite == IsFiniteSet(Task)
<1>1. IsFiniteSet({Engine}) /\ IsFiniteSet({Main})
  BY FS_Singleton
<1>2. Task = {Engine} \cup {Main}
  BY DEF Task
<1> QED
  BY <1>1, <1>2, FS_Union

(* One element more or less.                                               *)
LEMMA CardinalityStep ==
  ASSUME NEW S, IsFiniteSet(S)
  PROVE  /\ Cardinality(S) \in Nat
         /\ \A T \in SUBSET S : Cardinality(T) \in Nat /\ Cardinality(T) <= Cardinality(S)
         /\ \A x \in S : Cardinality(S \ {x}) = Cardinality(S) - 1
         /\ \A x : \A T \in SUBSET (S \cup {x}) :
              Cardinality(T) \in Nat /\ Cardinality(T) <= Cardinality(S) + 1
<1>1. Cardinality(S) \in Nat
  BY FS_CardinalityType
<1>2. ASSUME NEW T \in SUBSET S
      PROVE  Cardinality(T) \in Nat /\ Cardinality(T) <= Cardinality(S)
  BY FS_Subset, FS_CardinalityType
<1>3. ASSUME NEW x \in S
      PROVE  Cardinality(S \ {x}) = Cardinality(S) - 1
  BY FS_RemoveElement
<1>4. ASSUME NEW x, NEW T \in SUBSET (S \cup {x})
      PROVE  Cardinality(T) \in Nat /\ Cardinality(T) <= Cardinality(S) + 1
  <2>1. /\ IsFiniteSet(S \cup {x})
        /\ Cardinality(S \cup {x}) \in Nat
        /\ Cardinality(S \cup {x}) <= Cardinality(S) + 1
    BY <1>1, FS_AddElement, FS_CardinalityType
  <2>2. /\ Cardinality(T) \in Nat /\ Cardinality(T) <= Cardinality(S \cup {x})
    BY <2>1, FS_Subset, FS_CardinalityType
  <2> QED
    BY <1>1, <2>1, <2>2
<1> QED
  BY <1>1, <1>2, <1>3, <1>4

LEMMA CountNext ==
  ASSUME Inv, AccountsOK, AccountsOK', CountInv, [Next]_vars,
         pc[Engine] # "cleanup", pc'[Engine] # "cleanup"
  PROVE  CountInv'
<1> SUFFICES ASSUME NEW F \in SUBSET RecordId, NEW S \in SUBSET Task,
                    F = Finished', S = Subtracting(Task)'
             PROVE  count' + Adding(1)' >= Cardinality(F) + Cardinality(S)
  BY DEF CountInv, Task, RecordId
<1>1. PICK E \in SUBSET RecordId, R \in SUBSET Task :
        E = Finished /\ R = Subtracting(Task)
  BY DEF Finished, Stored, Subtracting
<1>2. /\ \A r \in RecordId :
           /\ r \in E <=> flash[r] # Absent /\ (pc[Engine] = "store" => r # rec[Engine])
           /\ r \in F <=> flash'[r] # Absent /\ (pc'[Engine] = "store" => r # rec'[Engine])
      /\ \A t \in Task : (t \in R <=> pc[t] = "uncount") /\ (t \in S <=> pc'[t] = "uncount")
  BY <1>1 DEF Finished, Stored, Subtracting
<1>3. /\ Cardinality(E) \in Nat /\ Cardinality(R) \in Nat
      /\ Cardinality(F) \in Nat /\ Cardinality(S) \in Nat
      /\ IsFiniteSet(E) /\ IsFiniteSet(R)
  BY RecordIdFinite, TaskFinite, FS_Subset, FS_CardinalityType
<1> DEFINE a == IF pc[Engine] = "count" THEN 1 ELSE 0
           b == IF pc'[Engine] = "count" THEN 1 ELSE 0
<1>4. /\ count + a >= Cardinality(E) + Cardinality(R)
      /\ Adding(1)' = b
  BY <1>1 DEF CountInv, Adding
<1>5. count \in Nat /\ count' \in Nat /\ a \in Nat /\ b \in Nat
  BY DEF AccountsOK
<1>6. SUFFICES count' + b >= Cardinality(F) + Cardinality(S)
  BY <1>4
<1>7. ASSUME F \subseteq E, S \subseteq R, count' = count, b >= a
      PROVE  count' + b >= Cardinality(F) + Cardinality(S)
  <2>1. Cardinality(F) <= Cardinality(E) /\ Cardinality(S) <= Cardinality(R)
    BY <1>3, <1>7, CardinalityStep
  <2> HIDE DEF a, b
  <2> QED
    BY <1>3, <1>4, <1>5, <1>7, <2>1
<1>types. /\ pc \in [Task -> Place] /\ rec \in [Task -> 0 .. MaxRecord]
          /\ flash \in [RecordId -> Content]
          /\ pc[Engine] \in {"victim", "create", "store"} => rec[Engine] \in RecordId
          /\ Engine \in Task /\ Main \in Task /\ Engine # Main
  BY RepositoryAssumption DEF Inv, CallsOK, StoreTypeOK, Task
<1> USE <1>types DEF Goto
<1>8. ASSUME NEW p \in Payload,
             WriteTakesId(p) \/ WriteIsRefused(p) \/ WriteMakesRoom(p)
      PROVE  count' + b >= Cardinality(F) + Cardinality(S)
  BY <1>2, <1>7, <1>8 DEF WriteTakesId, WriteIsRefused, WriteMakesRoom, TakeId,
     storeVars, callVars
<1>9. ASSUME NEW t \in Task, NEW r \in RecordId, EraseFinds(t, r)
      PROVE  count' + b >= Cardinality(F) + Cardinality(S)
  <2>1. /\ F \subseteq E /\ S \subseteq R /\ count' = count /\ b >= a
    BY <1>2, <1>9 DEF EraseFinds, storeVars
  <2> QED
    BY <1>7, <2>1
<1>10. CASE EvictFinds \/ EvictEnds \/ WriteCannotCreate
  BY <1>2, <1>7, <1>10
     DEF EvictFinds, EvictEnds, WriteCannotCreate, TakeId, storeVars
<1>11. CASE WriteCreates
  BY <1>2, <1>7, <1>11 DEF WriteCreates
<1>12. CASE EvictUnlinks
  <2> DEFINE x == rec[Engine]
  <2>1. /\ x \in E /\ F \subseteq E \ {x} /\ S \subseteq R /\ a = 0
        /\ count' >= count - 1
    BY <1>2, <1>5, <1>12 DEF EvictUnlinks, Uncounted, Stored
  <2>2. IsFiniteSet(E \ {x}) /\ Cardinality(E \ {x}) = Cardinality(E) - 1
    <3> HIDE DEF x
    <3> QED
      BY <1>3, <2>1, FS_RemoveElement
  <2>3. Cardinality(F) <= Cardinality(E) - 1 /\ Cardinality(S) <= Cardinality(R)
    BY <1>3, <2>1, <2>2, CardinalityStep
  <2> HIDE DEF a, b
  <2> QED
    BY <1>3, <1>4, <1>5, <2>1, <2>3
<1>13. CASE WriteStores \/ WriteTears
  <2> DEFINE x == rec[Engine]
  <2>1. F \subseteq E \cup {x} /\ S \subseteq R /\ a = 0 /\ b = 1 /\ count' = count
    BY <1>2, <1>13 DEF WriteStores, WriteTears
  <2>2. Cardinality(F) <= Cardinality(E) + 1 /\ Cardinality(S) <= Cardinality(R)
    BY <1>3, <2>1, CardinalityStep
  <2> HIDE DEF a, b
  <2> QED
    BY <1>3, <1>4, <1>5, <2>1, <2>2
<1>14. CASE WriteCounts
  <2>1. F \subseteq E /\ S \subseteq R /\ a = 1 /\ b = 0 /\ count' = count + 1
    BY <1>2, <1>14 DEF WriteCounts, storeVars
  <2>2. Cardinality(F) <= Cardinality(E) /\ Cardinality(S) <= Cardinality(R)
    BY <1>3, <2>1, CardinalityStep
  <2> HIDE DEF a, b
  <2> QED
    BY <1>3, <1>4, <1>5, <2>1, <2>2
<1>15. ASSUME NEW t \in Task, EraseUnlinks(t)
       PROVE  count' + b >= Cardinality(F) + Cardinality(S)
  <2> DEFINE x == rec[t]
  <2>1. /\ x \in RecordId /\ flash[x] # Absent /\ x \notin open
        /\ flash' = [flash EXCEPT ![x] = Absent] /\ rec' = rec /\ count' = count
        /\ pc[t] = "unlink" /\ pc' = [pc EXCEPT ![t] = "uncount"]
    BY <1>15 DEF EraseUnlinks, Stored
  <2>2. pc[Engine] = "store" => x # rec[Engine]
    BY <2>1 DEF Inv, OpenIsOurs
  <2>3. x \in E /\ F \subseteq E \ {x} /\ S \subseteq R \cup {t} /\ b = a
    BY <1>2, <2>1, <2>2
  <2>4. IsFiniteSet(E \ {x}) /\ Cardinality(E \ {x}) = Cardinality(E) - 1
    BY <1>3, <2>3, FS_RemoveElement
  <2>5. Cardinality(F) <= Cardinality(E) - 1
    BY <1>3, <2>3, <2>4, CardinalityStep
  <2>6. Cardinality(S) <= Cardinality(R) + 1
    BY <1>3, <2>3, CardinalityStep
  <2> HIDE DEF a, b
  <2> QED
    BY <1>3, <1>4, <1>5, <2>1, <2>3, <2>5, <2>6
<1>16. ASSUME NEW t \in Task, EraseFails(t)
       PROVE  count' + b >= Cardinality(F) + Cardinality(S)
  BY <1>2, <1>7, <1>16 DEF EraseFails, storeVars
<1>17. ASSUME NEW t \in Task, EraseUncounts(t)
       PROVE  count' + b >= Cardinality(F) + Cardinality(S)
  <2>1. /\ t \in R /\ F \subseteq E /\ S \subseteq R \ {t} /\ b >= a
        /\ count' = IF count > 0 THEN count - 1 ELSE count
    BY <1>2, <1>17 DEF EraseUncounts, Uncounted, storeVars
  <2>2. IsFiniteSet(R \ {t}) /\ Cardinality(R \ {t}) = Cardinality(R) - 1
    BY <1>3, <2>1, FS_RemoveElement
  <2>3. Cardinality(S) <= Cardinality(R) - 1 /\ Cardinality(F) <= Cardinality(E)
    BY <1>3, <2>1, <2>2, CardinalityStep
  <2> HIDE DEF a, b
  <2> QED
    BY <1>3, <1>4, <1>5, <2>1, <2>3
<1>18. CASE Mount
  <2>1. /\ count' = Cardinality(Stored) /\ F \subseteq Stored /\ S = {}
    BY <1>2, <1>18 DEF Mount, AllIdle, Stored, RecordId
  <2>2. Stored \subseteq RecordId
    BY DEF Stored
  <2>3. /\ Cardinality(F) <= Cardinality(Stored) /\ Cardinality(S) = 0
        /\ Cardinality(Stored) \in Nat
    BY <2>1, <2>2, RecordIdFinite, FS_Subset, FS_EmptySet, StoredFinite,
       CardinalityStep
  <2> HIDE DEF a, b
  <2> QED
    BY <1>3, <1>5, <2>1, <2>3
<1>19. CASE UNCHANGED vars
  BY <1>2, <1>7, <1>19 DEF vars, storeVars, callVars
<1>20. ~WriteCleansUp
  BY DEF WriteCleansUp
<1> HIDE DEF Goto, a, b
<1> QED
  BY <1>8, <1>9, <1>10, <1>11, <1>12, <1>13, <1>14, <1>15, <1>16, <1>17, <1>18,
     <1>19, <1>20 DEF Next, Call, WriteStep, EraseStep, EraseFindsNothing

(* record_count_ covers the records, as long as no write fails after it    *)
(* has created its file.                                                   *)
THEOREM CountIsKept ==
  Spec /\ [](pc[Engine] # "cleanup") => []CountCoversStored
<1>1. Init => CountInv
  <2>1. SUFFICES ASSUME Init, NEW F \in SUBSET RecordId, NEW S \in SUBSET Task,
                        F = Finished, S = Subtracting(Task)
                 PROVE  count + Adding(1) >= Cardinality(F) + Cardinality(S)
    BY DEF CountInv
  <2>2. F = {} /\ S = {}
    BY <2>1 DEF Init, StoreInit, AllIdle, Finished, Stored, Subtracting
  <2>3. count = 0 /\ Adding(1) = 0
    BY <2>1, RepositoryAssumption DEF Init, AllIdle, Adding, Task
  <2> QED
    BY <2>2, <2>3, FS_EmptySet
<1>2. CountInv /\ [Next]_vars /\ Inv /\ AccountsOK /\ AccountsOK'
        /\ pc[Engine] # "cleanup" /\ (pc[Engine] # "cleanup")'
        => CountInv'
  BY CountNext
<1>3. CountInv => CountCoversStored
  <2>1. Finished \in SUBSET RecordId /\ Subtracting(Task) \in SUBSET Task
    BY DEF Finished, Stored, Subtracting
  <2> QED
    BY <2>1 DEF CountInv, CountCoversStored, Finished
<1> QED
  BY <1>1, <1>2, <1>3, Invariant, Accounts, PTL DEF Spec

----------------------------------------------------------------------------
(* The sizes.  An id that has been handed out is not handed out again, so  *)
(* the record a call has found is gone or at least as large as it was when *)
(* the call looked: a file grows once, when the write that created it      *)
(* stores.                                                                 *)
Fresh == \A r \in Stored : r < HandedOut

FoundOK(t) ==
  /\ rec[t] < HandedOut
  /\ rec[t] \in Stored => freed[t] <= SizeOf(flash[rec[t]])

SizesInv ==
  /\ Fresh
  /\ \A t \in Task : pc[t] \in {"unlink", "victim"} => FoundOK(t)
  /\ pc[Engine] = "store" => flash[rec[Engine]] = Torn

LEMMA SizesNext ==
  ASSUME ~MountFaults, Inv, AccountsOK, SizesInv, [Next]_vars
  PROVE  SizesInv'
<1>types. /\ pc \in [Task -> Place] /\ rec \in [Task -> 0 .. MaxRecord]
          /\ flash \in [RecordId -> Content] /\ freed \in [Task -> Nat]
          /\ nextId \in 1 .. MaxRecord + 1 /\ RecordId = 1 .. MaxRecord
          /\ pc[Engine] \in {"victim", "create", "store", "cleanup"} => rec[Engine] \in RecordId
          /\ pc[Engine] = "create" => nextId = rec[Engine] + 1
          /\ Task = {Engine, Main} /\ Engine # Main
          /\ pc[Main] \in {"idle", "unlink", "uncount"}
          /\ MaxRecord \in Nat
          /\ SizeOf(Torn) = 0 /\ Torn # Absent
          /\ \A c : SizeOf(c) \in Nat
  BY RepositoryAssumption, StoreAssumption, SizeNat
     DEF Inv, CallsOK, StoreTypeOK, IdIsLast, AccountsOK, Task, RecordId, SizeOf
<1> USE <1>types DEF Goto, SizesInv, Fresh, FoundOK, HandedOut, Stored
<1>1. ASSUME NEW p \in Payload,
             WriteTakesId(p) \/ WriteIsRefused(p) \/ WriteMakesRoom(p)
      PROVE  SizesInv'
  BY <1>1 DEF WriteTakesId, WriteIsRefused, WriteMakesRoom, TakeId, storeVars,
     callVars
<1>2. ASSUME NEW t \in Task, NEW r \in RecordId, EraseFinds(t, r)
      PROVE  SizesInv'
  BY <1>2 DEF EraseFinds, storeVars
<1>3. CASE EvictFinds
  BY <1>3 DEF EvictFinds, storeVars
<1>4. CASE EvictEnds
  BY <1>4 DEF EvictEnds, TakeId
<1>5. CASE WriteCannotCreate \/ WriteTears \/ WriteCounts
  BY <1>5 DEF WriteCannotCreate, WriteTears, WriteCounts, storeVars
<1>6. CASE WriteCreates
  BY <1>6 DEF WriteCreates
<1>7. CASE EvictUnlinks \/ WriteCleansUp
  BY <1>7 DEF EvictUnlinks, WriteCleansUp
<1>8. CASE WriteStores
  BY <1>8 DEF WriteStores
<1>9. ASSUME NEW t \in Task, EraseUnlinks(t)
      PROVE  SizesInv'
  BY <1>9 DEF EraseUnlinks, Inv, OpenIsOurs
<1>10. ASSUME NEW t \in Task, EraseFails(t) \/ EraseUncounts(t)
       PROVE  SizesInv'
  BY <1>10 DEF EraseFails, EraseUncounts, storeVars
<1>11. CASE Mount
  BY <1>11, RepositoryAssumption DEF Mount, AllIdle
<1>12. CASE UNCHANGED vars
  BY <1>12 DEF vars, storeVars, callVars
<1> HIDE DEF Goto, SizesInv, Fresh, FoundOK, HandedOut, Stored
<1> QED
  BY <1>1, <1>2, <1>3, <1>4, <1>5, <1>6, <1>7, <1>8, <1>9, <1>10, <1>11, <1>12
     DEF Next, Call, WriteStep, EraseStep, EraseFindsNothing

LEMMA SizesKnown ==
  ASSUME ~MountFaults
  PROVE  Spec => []SizesInv
<1>1. Init => SizesInv
  BY RepositoryAssumption
     DEF Init, StoreInit, SizesInv, Fresh, Stored, AllIdle, Task
<1> QED
  BY <1>1, SizesNext, Invariant, Accounts, PTL DEF Spec

(* The usage, which is added to after the file has grown and subtracted    *)
(* from after it is gone, or before it is, under the mutex.                *)
UsedInv ==
  \A z, g, S :
    z = sizes /\ g = freed /\ S = Subtracting(Task) =>
      used + Adding(Size[data]) >=
        SumFunctionOnSet(z, RecordId) + SumFunctionOnSet(g, S)

LEMMA UsedNext ==
  ASSUME ~MountFaults, Inv, Inv', AccountsOK, AccountsOK', SizesInv, UsedInv,
         [Next]_vars
  PROVE  UsedInv'
<1> SUFFICES ASSUME NEW y, NEW g, NEW S,
                    y = sizes', g = freed', S = Subtracting(Task)'
             PROVE  used' + Adding(Size[data])' >=
                      SumFunctionOnSet(y, RecordId) + SumFunctionOnSet(g, S)
  BY DEF UsedInv
<1>1. PICK z, f, R : z = sizes /\ f = freed /\ R = Subtracting(Task)
  OBVIOUS
<1>2. /\ \A r \in RecordId : /\ z[r] = SizeOf(flash[r]) /\ z[r] \in Nat
                             /\ y[r] = SizeOf(flash'[r]) /\ y[r] \in Nat
      /\ R \subseteq Task /\ \A t \in Task : t \in R <=> pc[t] = "uncount"
      /\ S \subseteq Task /\ \A t \in Task : t \in S <=> pc'[t] = "uncount"
      /\ \A t \in Task : f[t] \in Nat /\ g[t] \in Nat
  BY <1>1, SizeNat DEF sizes, Subtracting, AccountsOK
<1> DEFINE zs == SumFunctionOnSet(z, RecordId)
           ys == SumFunctionOnSet(y, RecordId)
           fs == SumFunctionOnSet(f, R)
           gs == SumFunctionOnSet(g, S)
           a  == IF pc[Engine] = "count" THEN Size[data] ELSE 0
           b  == IF pc'[Engine] = "count" THEN Size[data'] ELSE 0
<1>3. IsFiniteSet(R) /\ IsFiniteSet(S) /\ IsFiniteSet(RecordId)
  BY <1>2, TaskFinite, FS_Subset, RecordIdFinite
<1>4. zs \in Nat /\ ys \in Nat /\ fs \in Nat /\ gs \in Nat
  BY <1>2, <1>3, SumNat
<1>5. used + a >= zs + fs /\ Adding(Size[data])' = b
  BY <1>1 DEF UsedInv, Adding
<1>6. SUFFICES used' + b >= ys + gs
  BY <1>5
<1>7. used \in Nat /\ used' \in Nat /\ a \in Nat /\ b \in Nat
  BY RepositoryAssumption DEF AccountsOK, Inv, CallsOK
<1> HIDE DEF zs, ys, fs, gs
(* The files, the sizes found and the calls that still subtract are as     *)
(* they were, or change at one place.                                      *)
<1>8. ASSUME flash' = flash
      PROVE  ys = zs
  BY <1>2, <1>3, <1>8, SumCongruence DEF ys, zs
<1>9. ASSUME NEW x \in RecordId, \A r \in RecordId \ {x} : flash'[r] = flash[r]
      PROVE  ys = zs + SizeOf(flash'[x]) - SizeOf(flash[x])
  <2>1. \A r \in RecordId \ {x} : z[r] = y[r]
    BY <1>2, <1>9
  <2>2. ys = zs + y[x] - z[x]
    BY <1>2, <1>3, <2>1, SumChange DEF ys, zs
  <2> QED
    BY <1>2, <2>2
<1>10. ASSUME S = R, \A t \in R : freed'[t] = freed[t]
       PROVE  gs = fs
  <2>1. \A t \in R : f[t] = g[t]
    BY <1>1, <1>10
  <2> QED
    BY <1>3, <1>10, <2>1, SumCongruence DEF gs, fs
<1>11. ASSUME NEW t \in Task, t \notin R, S = R \cup {t}, freed' = freed
       PROVE  gs = fs + freed[t]
  <2>1. f = g
    BY <1>1, <1>11
  <2>2. gs = g[t] + SumFunctionOnSet(g, S \ {t})
    <3>1. t \in S /\ \A u \in S : g[u] \in Int
      BY <1>2, <1>11
    <3> QED
      BY <1>3, <3>1, SumRemove DEF gs
  <2>3. S \ {t} = R
    BY <1>11
  <2>4. gs = g[t] + fs
    BY <2>1, <2>2, <2>3 DEF fs
  <2> QED
    BY <1>1, <1>2, <1>4, <1>11, <2>1, <2>4
<1>12. ASSUME NEW t \in Task, t \in R, S = R \ {t}, freed' = freed
       PROVE  fs = gs + freed[t]
  <2>1. f = g
    BY <1>1, <1>12
  <2>2. fs = f[t] + SumFunctionOnSet(f, R \ {t})
    <3>1. \A u \in R : f[u] \in Int
      BY <1>2
    <3> QED
      BY <1>3, <1>12, <3>1, SumRemove DEF fs
  <2>3. fs = f[t] + gs
    BY <1>12, <2>1, <2>2 DEF gs
  <2> QED
    BY <1>1, <1>2, <1>4, <1>12, <2>3
<1>types. /\ pc \in [Task -> Place] /\ flash \in [RecordId -> Content]
          /\ freed \in [Task -> Nat] /\ rec \in [Task -> 0 .. MaxRecord]
          /\ pc[Engine] \in {"victim", "create", "store", "cleanup"} => rec[Engine] \in RecordId
          /\ Task = {Engine, Main} /\ Engine # Main
          /\ pc[Main] \in {"idle", "unlink", "uncount"}
          /\ SizeOf(Absent) = 0 /\ SizeOf(Torn) = 0 /\ SizeOf(data) = Size[data]
          /\ \A c : SizeOf(c) \in Nat
          /\ Size[data] \in Nat
  BY RepositoryAssumption, StoreAssumption, SizeNat
     DEF Inv, CallsOK, StoreTypeOK, AccountsOK, Task, SizeOf
<1> USE <1>types DEF Goto
(* Steps that leave the files and the accounts alone.                      *)
<1>13. ASSUME flash' = flash, S = R, \A t \in R : freed'[t] = freed[t],
              used' = used, b >= a
       PROVE  used' + b >= ys + gs
  <2>1. ys = zs /\ gs = fs
    BY <1>8, <1>10, <1>13
  <2> HIDE DEF a, b
  <2> QED
    BY <1>4, <1>5, <1>7, <1>13, <2>1
<1>14. ASSUME NEW p \in Payload,
              WriteTakesId(p) \/ WriteIsRefused(p) \/ WriteMakesRoom(p)
       PROVE  used' + b >= ys + gs
  <2>1. /\ flash' = flash /\ used' = used /\ freed' = freed
        /\ a = 0 /\ b = 0
        /\ \A t \in Task : pc'[t] = "uncount" <=> pc[t] = "uncount"
    BY <1>14 DEF WriteTakesId, WriteIsRefused, WriteMakesRoom, TakeId,
       storeVars, callVars
  <2>2. S = R
    BY <1>2, <2>1
  <2> HIDE DEF a, b
  <2> QED
    BY <1>13, <2>1, <2>2
<1>15. ASSUME NEW t \in Task, NEW r \in RecordId, EraseFinds(t, r)
       PROVE  used' + b >= ys + gs
  <2>1. /\ flash' = flash /\ used' = used /\ b = a /\ t \notin R
        /\ \A u \in Task \ {t} : freed'[u] = freed[u]
        /\ \A u \in Task : pc'[u] = "uncount" <=> pc[u] = "uncount"
    BY <1>2, <1>15 DEF EraseFinds, storeVars
  <2>2. S = R
    BY <1>2, <2>1
  <2> HIDE DEF a, b
  <2> QED
    BY <1>2, <1>7, <1>13, <2>1, <2>2
<1>16. CASE EvictFinds
  <2>1. /\ flash' = flash /\ used' = used /\ b = a /\ Engine \notin R
        /\ \A u \in Task \ {Engine} : freed'[u] = freed[u]
        /\ \A u \in Task : pc'[u] = "uncount" <=> pc[u] = "uncount"
    BY <1>2, <1>16 DEF EvictFinds, storeVars
  <2>2. S = R
    BY <1>2, <2>1
  <2> HIDE DEF a, b
  <2> QED
    BY <1>2, <1>7, <1>13, <2>1, <2>2
<1>17. CASE EvictEnds \/ WriteCannotCreate \/ WriteTears
  <2>1. /\ flash' = flash /\ used' = used /\ freed' = freed /\ a = 0
        /\ \A t \in Task : pc'[t] = "uncount" <=> pc[t] = "uncount"
    BY <1>17 DEF EvictEnds, TakeId, WriteCannotCreate, WriteTears, storeVars
  <2>2. S = R
    BY <1>2, <2>1
  <2> HIDE DEF a, b
  <2> QED
    BY <1>7, <1>13, <2>1, <2>2
<1>18. ASSUME NEW t \in Task, EraseFails(t)
       PROVE  used' + b >= ys + gs
  <2>1. /\ flash' = flash /\ used' = used /\ freed' = freed /\ b = a
        /\ \A u \in Task : pc'[u] = "uncount" <=> pc[u] = "uncount"
    BY <1>18 DEF EraseFails, storeVars
  <2>2. S = R
    BY <1>2, <2>1
  <2> HIDE DEF a, b
  <2> QED
    BY <1>7, <1>13, <2>1, <2>2
<1>19. CASE UNCHANGED vars
  <2>1. /\ flash' = flash /\ used' = used /\ freed' = freed /\ b = a
        /\ \A u \in Task : pc'[u] = "uncount" <=> pc[u] = "uncount"
    BY <1>19 DEF vars, storeVars, callVars
  <2>2. S = R
    BY <1>2, <2>1
  <2> HIDE DEF a, b
  <2> QED
    BY <1>7, <1>13, <2>1, <2>2
(* A file appears, empty; it grows, and the write has yet to count it; it  *)
(* is counted.                                                             *)
<1>20. CASE WriteCreates \/ WriteCleansUp
  <2>1. /\ used' = used /\ freed' = freed /\ a = 0 /\ b = 0
        /\ rec[Engine] \in RecordId
        /\ \A r \in RecordId \ {rec[Engine]} : flash'[r] = flash[r]
        /\ flash'[rec[Engine]] \in {Torn, Absent, flash[rec[Engine]]}
        /\ \A t \in Task : pc'[t] = "uncount" <=> pc[t] = "uncount"
    BY <1>20 DEF WriteCreates, WriteCleansUp
  <2>2. S = R
    BY <1>2, <2>1
  <2>3. gs = fs
    BY <1>10, <2>1, <2>2
  <2>4. ys <= zs
    BY <1>4, <1>9, <2>1
  <2> HIDE DEF a, b
  <2> QED
    BY <1>4, <1>5, <1>7, <2>1, <2>3, <2>4
<1>21. CASE WriteStores
  <2>1. /\ used' = used /\ freed' = freed /\ a = 0 /\ b = Size[data]
        /\ rec[Engine] \in RecordId
        /\ \A r \in RecordId \ {rec[Engine]} : flash'[r] = flash[r]
        /\ flash'[rec[Engine]] = data
        /\ \A t \in Task : pc'[t] = "uncount" <=> pc[t] = "uncount"
    BY <1>21 DEF WriteStores
  <2>2. S = R
    BY <1>2, <2>1
  <2>3. gs = fs
    BY <1>10, <2>1, <2>2
  <2>4. ys <= zs + Size[data]
    BY <1>4, <1>9, <2>1
  <2> HIDE DEF a, b
  <2> QED
    BY <1>4, <1>5, <1>7, <2>1, <2>3, <2>4
<1>22. CASE WriteCounts
  <2>1. /\ flash' = flash /\ used' = used + Size[data] /\ freed' = freed
        /\ a = Size[data] /\ b = 0
        /\ \A t \in Task : pc'[t] = "uncount" <=> pc[t] = "uncount"
    BY <1>22 DEF WriteCounts, storeVars
  <2>2. S = R
    BY <1>2, <2>1
  <2>3. gs = fs /\ ys = zs
    BY <1>8, <1>10, <2>1, <2>2
  <2> HIDE DEF a, b
  <2> QED
    BY <1>4, <1>5, <1>7, <2>1, <2>3
(* A file goes, and no more is subtracted than it took.                    *)
<1>23. CASE EvictUnlinks
  <2> DEFINE x == rec[Engine]
             n == freed[Engine]
  <2>1. /\ x \in RecordId /\ n \in Nat /\ n <= SizeOf(flash[x])
        /\ flash'[x] = Absent /\ freed' = freed /\ a = 0 /\ b = 0
        /\ used' = IF used >= n THEN used - n ELSE used
        /\ \A r \in RecordId \ {x} : flash'[r] = flash[r]
        /\ \A t \in Task : pc'[t] = "uncount" <=> pc[t] = "uncount"
    BY <1>23 DEF EvictUnlinks, Uncounted, SizesInv, FoundOK
  <2>2. S = R
    BY <1>2, <2>1
  <2>3. gs = fs
    BY <1>10, <2>1, <2>2
  <2> HIDE DEF x, n, a, b
  <2>4. ys = zs - SizeOf(flash[x])
    BY <1>4, <1>9, <2>1
  <2> QED
    BY <1>4, <1>5, <1>7, <2>1, <2>3, <2>4
<1>24. ASSUME NEW t \in Task, EraseUnlinks(t)
       PROVE  used' + b >= ys + gs
  <2> DEFINE x == rec[t]
  <2>1. /\ x \in RecordId /\ freed[t] \in Nat /\ freed[t] <= SizeOf(flash[x])
        /\ flash'[x] = Absent /\ freed' = freed /\ used' = used
        /\ \A r \in RecordId \ {x} : flash'[r] = flash[r]
        /\ t \notin R /\ S = R \cup {t} /\ b = a
    <3>1. /\ pc[t] = "unlink" /\ x \in Stored /\ pc' = [pc EXCEPT ![t] = "uncount"]
          /\ flash' = [flash EXCEPT ![x] = Absent]
          /\ UNCHANGED <<used, freed, data>>
      BY <1>24 DEF EraseUnlinks
    <3>2. x \in RecordId /\ freed[t] <= SizeOf(flash[x])
      BY <3>1 DEF SizesInv, FoundOK, Stored
    <3>3. t \notin R /\ S = R \cup {t} /\ b = a
      BY <1>2, <3>1
    <3> QED
      BY <3>1, <3>2, <3>3
  <2>2. gs = fs + freed[t]
    BY <1>11, <2>1
  <2> HIDE DEF x, a, b
  <2>3. ys = zs - SizeOf(flash[x])
    BY <1>4, <1>9, <2>1
  <2> QED
    BY <1>4, <1>5, <1>7, <2>1, <2>2, <2>3
<1>25. ASSUME NEW t \in Task, EraseUncounts(t)
       PROVE  used' + b >= ys + gs
  <2>1. /\ flash' = flash /\ freed' = freed /\ freed[t] \in Nat /\ b = a
        /\ used' = IF used >= freed[t] THEN used - freed[t] ELSE used
        /\ t \in R /\ S = R \ {t}
    BY <1>2, <1>25 DEF EraseUncounts, Uncounted, storeVars
  <2>2. fs = gs + freed[t] /\ ys = zs
    BY <1>8, <1>12, <2>1
  <2> HIDE DEF a, b
  <2> QED
    BY <1>4, <1>5, <1>7, <2>1, <2>2
<1>26. CASE Mount
  <2>1. /\ flash' = flash /\ used' = Info /\ b = 0 /\ S = {}
    BY <1>2, <1>26 DEF Mount, AllIdle
  <2>2. ys = zs /\ zs = Total /\ gs = 0
    BY <1>1, <1>8, <2>1, TotalIs, SumEmpty DEF zs, gs
  <2> HIDE DEF a, b
  <2> QED
    BY <1>4, <1>7, <2>1, <2>2, InfoNat
<1> HIDE DEF Goto, a, b
<1> QED
  BY <1>14, <1>15, <1>16, <1>17, <1>18, <1>19, <1>20, <1>21, <1>22, <1>23,
     <1>24, <1>25, <1>26
     DEF Next, Call, WriteStep, EraseStep, EraseFindsNothing

(* used_bytes_ covers what the records take, in every reachable state: two *)
(* tasks erasing the same record, or one evicting what the other erases,   *)
(* never subtract more than has gone.                                      *)
THEOREM UsageIsCovered ==
  ASSUME ~MountFaults
  PROVE  Spec => []UsedCoversStored
<1>1. Init => UsedInv
  <2>1. SUFFICES ASSUME Init, NEW z, NEW g, NEW S,
                        z = sizes, g = freed, S = Subtracting(Task)
                 PROVE  used + Adding(Size[data]) >=
                          SumFunctionOnSet(z, RecordId) + SumFunctionOnSet(g, S)
    BY DEF UsedInv
  <2>2. S = {} /\ used = 0 /\ Adding(Size[data]) = 0
    BY <2>1, RepositoryAssumption DEF Init, AllIdle, Subtracting, Adding, Task
  <2>3. \A r \in RecordId : z[r] = 0
    BY <2>1, StoreAssumption DEF Init, StoreInit, sizes, SizeOf
  <2>4. SumFunctionOnSet(z, RecordId) = 0
    BY <2>3, RecordIdFinite, SumZero
  <2> QED
    BY <2>2, <2>4, SumEmpty
<1>2. UsedInv /\ [Next]_vars /\ Inv /\ Inv' /\ AccountsOK /\ AccountsOK'
        /\ SizesInv => UsedInv'
  BY UsedNext
<1>3. UsedInv => UsedCoversStored
  BY TotalIs DEF UsedInv, UsedCoversStored
<1> QED
  BY <1>1, <1>2, <1>3, Invariant, Accounts, SizesKnown, PTL DEF Spec
=============================================================================
