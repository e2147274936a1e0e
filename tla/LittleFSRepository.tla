------------------------- MODULE LittleFSRepository -------------------------
(***************************************************************************)
(* The record store as LittleFSRepository implements it, one step per file *)
(* system call and per critical section.                                   *)
(*                                                                         *)
(* Two tasks call it.  The engine task writes and erases; the main task    *)
(* erases while it replays (its reads and directory walks change nothing). *)
(* The mutex mtx_ guards the accounting and the choice of an id, not the   *)
(* files: it is given back before the file of a write is created, and an   *)
(* erase takes it only after the file is gone.  So between two steps of    *)
(* one call the other task may do anything but account.                    *)
(***************************************************************************)
EXTENDS RecordStore, FiniteSets, Functions

CONSTANTS
  Engine, Main,  \* the two tasks
  Size,          \* the length of a payload
  MetaBytes,     \* what the file system needs for a file besides its bytes
  Capacity,      \* capacity_bytes_: the size of the partition
  HighPct,       \* high_water_pct_
  LowPct,        \* low_water_pct_
  BatchHint,     \* eviction_batch_
  MaxBoot,       \* bound of the model: power losses
  FlashFaults,   \* whether a file operation may fail though there is room
  MountFaults    \* whether mount may fail to list the directory

ASSUME RepositoryAssumption ==
  /\ Engine # Main
  /\ Size \in [Payload -> Nat \ {0}]
  /\ {MetaBytes, Capacity, HighPct, LowPct, BatchHint, MaxBoot} \subseteq Nat
  /\ {FlashFaults, MountFaults} \subseteq BOOLEAN

VARIABLES
  used,    \* used_bytes_
  count,   \* record_count_
  pc,      \* where each task is in its call
  rec,     \* the record each call is about
  freed,   \* the size each call has found that record to have
  data,    \* what the engine is writing
  batch,   \* the records this write has evicted
  rc,      \* what the last write returned
  boots    \* power losses so far

Task == {Engine, Main}

Place == {"idle", "evict", "victim", "create", "store", "count", "cleanup",
          "unlink", "uncount"}

callVars == <<pc, rec, freed>>
vars == <<storeVars, used, count, callVars, data, batch, rc, boots>>

----------------------------------------------------------------------------
SizeOf(c) == IF c \in Payload THEN Size[c] ELSE 0

Total == SumFunction([r \in RecordId |-> SizeOf(flash[r])])

(* What esp_littlefs_info reports as used.                                 *)
Info == Total + MetaBytes * Cardinality(Stored)

LowBytes == (Capacity * LowPct) \div 100

OverHigh(p) == (used + Size[p]) * 100 > Capacity * HighPct

(* The engine holds the mutex from the watermark check to the choice of    *)
(* the id, evictions included.                                             *)
MutexFree == pc[Engine] \notin {"evict", "victim"}

Goto(t, l) == pc' = [pc EXCEPT ![t] = l]

(* unlink refuses a file the main task, between two erases, has open to    *)
(* read it, and any file when the flash fails.                             *)
MayRefuse(t) == FlashFaults \/ (t = Engine /\ pc[Main] = "idle")

(* Mutant: the subtraction does not look whether it can be done.           *)
UncountedUnguarded(n) == used' = used - n /\ count' = count - 1

(* used_bytes_ and record_count_ lose one record of n bytes, never going   *)
(* below zero.                                                             *)
Uncounted(n) ==
  /\ used' = IF used >= n THEN used - n ELSE used
  /\ count' = IF count > 0 THEN count - 1 ELSE count

----------------------------------------------------------------------------
(* write, called by the engine task.                                       *)

(* The write takes the id, and gives the mutex back.                       *)
TakeId ==
  /\ nextId <= MaxRecord
  /\ nextId' = nextId + 1
  /\ rec' = [rec EXCEPT ![Engine] = nextId]
  /\ Goto(Engine, "create")

(* Mutant: the check leaves out the write that is coming.                  *)
WriteTakesIdUnchecked(p) ==
  /\ pc[Engine] = "idle" /\ used * 100 <= Capacity * HighPct
  /\ TakeId /\ data' = p
  /\ UNCHANGED <<flash, open, used, count, freed, batch, rc, boots>>

WriteTakesId(p) ==
  /\ pc[Engine] = "idle" /\ ~OverHigh(p)
  /\ TakeId /\ data' = p
  /\ UNCHANGED <<flash, open, used, count, freed, batch, rc, boots>>

(* BackPressure or FailWrites.                                             *)
WriteIsRefused(p) ==
  /\ pc[Engine] = "idle" /\ OverHigh(p) /\ ~DropOldest
  /\ rc' = "Full"
  /\ UNCHANGED <<storeVars, used, count, callVars, data, batch, boots>>

WriteMakesRoom(p) ==
  /\ pc[Engine] = "idle" /\ OverHigh(p) /\ DropOldest
  /\ nextId <= MaxRecord
  /\ Goto(Engine, "evict") /\ data' = p /\ batch' = 0
  /\ UNCHANGED <<storeVars, used, count, rec, freed, rc, boots>>

MoreToEvict ==
  /\ used > LowBytes
  /\ BatchHint = 0 \/ batch < BatchHint
  /\ Stored # {}

(* One pass of the eviction loop finds the oldest record and its size.     *)
EvictFinds ==
  /\ pc[Engine] = "evict" /\ MoreToEvict
  /\ \E r \in Stored :
       /\ \A q \in Stored : r <= q
       /\ rec' = [rec EXCEPT ![Engine] = r]
       /\ freed' = [freed EXCEPT ![Engine] = SizeOf(flash[r])]
  /\ Goto(Engine, "victim")
  /\ UNCHANGED <<storeVars, used, count, data, batch, rc, boots>>

EvictUnlinks ==
  /\ pc[Engine] = "victim" /\ rec[Engine] \in Stored
  /\ flash' = [flash EXCEPT ![rec[Engine]] = Absent]
  /\ Uncounted(freed[Engine])
  /\ batch' = batch + 1
  /\ Goto(Engine, "evict")
  /\ UNCHANGED <<nextId, open, rec, freed, data, rc, boots>>

(* Mutant: a record that cannot be removed is tried again.                 *)
EvictTriesAgain ==
  /\ \/ pc[Engine] = "evict" /\ ~MoreToEvict /\ TakeId
     \/ /\ pc[Engine] = "victim" /\ FlashFaults
        /\ Goto(Engine, "evict") /\ UNCHANGED <<nextId, rec>>
  /\ UNCHANGED <<flash, open, used, count, freed, data, batch, rc, boots>>

(* Eviction ends: enough is free, nothing is left, or the record found is  *)
(* gone or cannot be removed.  The write goes on in any case.              *)
EvictEnds ==
  /\ \/ pc[Engine] = "evict" /\ (~MoreToEvict \/ FlashFaults)
     \/ pc[Engine] = "victim" /\ (rec[Engine] \notin Stored \/ MayRefuse(Engine))
  /\ TakeId
  /\ UNCHANGED <<flash, open, used, count, freed, data, batch, rc, boots>>

(* fopen(path, "wb").                                                      *)
WriteCreates ==
  /\ pc[Engine] = "create" /\ Info + MetaBytes <= Capacity
  /\ flash' = [flash EXCEPT ![rec[Engine]] = Torn]
  /\ open' = open \cup {rec[Engine]}
  /\ Goto(Engine, "store")
  /\ UNCHANGED <<nextId, used, count, rec, freed, data, batch, rc, boots>>

WriteCannotCreate ==
  /\ pc[Engine] = "create"
  /\ Info + MetaBytes > Capacity \/ FlashFaults
  /\ rc' = "IoError"
  /\ Goto(Engine, "idle")
  /\ UNCHANGED <<storeVars, used, count, rec, freed, data, batch, boots>>

Fits == Info + Size[data] <= Capacity

(* fwrite and fclose: from here on the file has its content.               *)
WriteStores ==
  /\ pc[Engine] = "store" /\ Fits
  /\ flash' = [flash EXCEPT ![rec[Engine]] = data]
  /\ open' = open \ {rec[Engine]}
  /\ Goto(Engine, "count")
  /\ UNCHANGED <<nextId, used, count, rec, freed, data, batch, rc, boots>>

(* There is no room for the bytes, or the flash fails.  If fwrite says so  *)
(* the write cleans up; if only fclose does, it does not notice.           *)
WriteTears ==
  /\ pc[Engine] = "store" /\ (~Fits \/ FlashFaults)
  /\ open' = open \ {rec[Engine]}
  /\ \/ Goto(Engine, "cleanup")
     \/ Goto(Engine, "count")
  /\ UNCHANGED <<flash, nextId, used, count, rec, freed, data, batch, rc,
                 boots>>

WriteCleansUp ==
  /\ pc[Engine] = "cleanup"
  /\ \/ flash' = [flash EXCEPT ![rec[Engine]] = Absent]
     \/ MayRefuse(Engine) /\ UNCHANGED flash
  /\ rc' = "IoError"
  /\ Goto(Engine, "idle")
  /\ UNCHANGED <<nextId, open, used, count, rec, freed, data, batch, boots>>

(* Mutant: a write is not added to the usage.                              *)
WriteCountsRecordOnly ==
  /\ pc[Engine] = "count"
  /\ count' = count + 1 /\ UNCHANGED used
  /\ rc' = "Ok"
  /\ Goto(Engine, "idle")
  /\ UNCHANGED <<storeVars, rec, freed, data, batch, boots>>

WriteCounts ==
  /\ pc[Engine] = "count"
  /\ used' = used + Size[data] /\ count' = count + 1
  /\ rc' = "Ok"
  /\ Goto(Engine, "idle")
  /\ UNCHANGED <<storeVars, rec, freed, data, batch, boots>>

----------------------------------------------------------------------------
(* erase, called by either task.                                           *)

(* The record is gone already, which is as good.                           *)
EraseFindsNothing(t, r) ==
  /\ pc[t] = "idle" /\ r \notin Stored
  /\ UNCHANGED vars

EraseFinds(t, r) ==
  /\ pc[t] = "idle" /\ r \in Stored
  /\ rec' = [rec EXCEPT ![t] = r]
  /\ freed' = [freed EXCEPT ![t] = SizeOf(flash[r])]
  /\ Goto(t, "unlink")
  /\ UNCHANGED <<storeVars, used, count, data, batch, rc, boots>>

EraseUnlinks(t) ==
  /\ pc[t] = "unlink" /\ rec[t] \in Stored \ open
  /\ flash' = [flash EXCEPT ![rec[t]] = Absent]
  /\ Goto(t, "uncount")
  /\ UNCHANGED <<nextId, open, used, count, rec, freed, data, batch, rc,
                 boots>>

(* Mutant: a record that is gone by now is subtracted all the same.        *)
EraseGoesOn(t) ==
  /\ pc[t] = "unlink" /\ (rec[t] \notin Stored \ open \/ MayRefuse(t))
  /\ Goto(t, "uncount")
  /\ UNCHANGED <<storeVars, used, count, rec, freed, data, batch, rc, boots>>

(* The record is gone by now, or it cannot be removed: unlink fails.       *)
EraseFails(t) ==
  /\ pc[t] = "unlink" /\ (rec[t] \notin Stored \ open \/ MayRefuse(t))
  /\ Goto(t, "idle")
  /\ UNCHANGED <<storeVars, used, count, rec, freed, data, batch, rc, boots>>

EraseUncounts(t) ==
  /\ pc[t] = "uncount" /\ MutexFree
  /\ Uncounted(freed[t])
  /\ Goto(t, "idle")
  /\ UNCHANGED <<storeVars, rec, freed, data, batch, rc, boots>>

----------------------------------------------------------------------------
AllIdle == [t \in Task |-> "idle"]
NoRecord == [t \in Task |-> 0]

(* Mutant: the counter starts at the largest id, not above it.             *)
MountReusesLast ==
  /\ boots < MaxBoot /\ boots' = boots + 1
  /\ open' = {} /\ UNCHANGED flash
  /\ nextId' \in RecordId /\ \A r \in Stored : r <= nextId'
  /\ nextId' = 1 \/ nextId' \in Stored
  /\ used' = Info /\ count' = Cardinality(Stored)
  /\ pc' = AllIdle /\ rec' = NoRecord /\ freed' = NoRecord
  /\ batch' = 0 /\ rc' = "none" /\ UNCHANGED data

(* Power is lost and the partition is mounted again: the usage is read     *)
(* from the file system and the records are counted.  If the directory     *)
(* cannot be listed after that, next_id_ keeps its initial value.          *)
Mount ==
  /\ boots < MaxBoot /\ boots' = boots + 1
  /\ open' = {} /\ UNCHANGED flash
  /\ \/ /\ nextId' \in 1 .. MaxRecord + 1
        /\ \A r \in Stored : r < nextId'
        /\ nextId' = 1 \/ nextId' - 1 \in Stored
     \/ MountFaults /\ nextId' = 1
  /\ used' = Info /\ count' = Cardinality(Stored)
  /\ pc' = AllIdle /\ rec' = NoRecord /\ freed' = NoRecord
  /\ batch' = 0 /\ rc' = "none" /\ UNCHANGED data

Init ==
  /\ StoreInit
  /\ used = 0 /\ count = 0
  /\ pc = AllIdle /\ rec = NoRecord /\ freed = NoRecord
  /\ data \in Payload /\ batch = 0 /\ rc = "none" /\ boots = 0

WriteStep ==
  \/ EvictFinds \/ EvictUnlinks \/ EvictEnds
  \/ WriteCreates \/ WriteCannotCreate \/ WriteStores \/ WriteTears
  \/ WriteCleansUp \/ WriteCounts

EraseStep(t) == EraseUnlinks(t) \/ EraseFails(t) \/ EraseUncounts(t)

Call ==
  \/ \E p \in Payload : WriteTakesId(p) \/ WriteIsRefused(p) \/ WriteMakesRoom(p)
  \/ \E t \in Task, r \in RecordId : EraseFinds(t, r) \/ EraseFindsNothing(t, r)

Next == Call \/ WriteStep \/ (\E t \in Task : EraseStep(t)) \/ Mount

Spec == Init /\ [][Next]_vars

(* A task in a call runs on.  It waits for the mutex alone, which the      *)
(* engine gives back whenever it sleeps between two ticks: a task that can *)
(* take the mutex again and again does so in the end.                      *)
FairSpec ==
  Spec /\ WF_vars(WriteStep) /\ \A t \in Task : SF_vars(EraseStep(t))

----------------------------------------------------------------------------
(* In the store's terms an id that has been taken is handed out when the   *)
(* file is created or cannot be.                                           *)
Store == INSTANCE RecordStore WITH
           nextId <- IF pc[Engine] = "create" THEN rec[Engine] ELSE nextId

TypeOK ==
  /\ StoreTypeOK
  /\ used \in Nat /\ count \in Nat
  /\ pc \in [Task -> Place]
  /\ pc[Main] \in {"idle", "unlink", "uncount"}
  /\ rec \in [Task -> 0 .. MaxRecord]
  /\ freed \in [Task -> Nat]
  /\ data \in Payload /\ batch \in Nat
  /\ rc \in {"none", "Ok", "Full", "IoError"}
  /\ boots \in 0 .. MaxBoot

(* The accounting that calls under way still have to do.                   *)
Adding(n)      == IF pc[Engine] = "count" THEN n ELSE 0
Subtracting(S) == {t \in Task : pc[t] = "uncount" /\ t \in S}

(* The repository keeps what RecordStore promises, whatever the order in   *)
(* which the two tasks touch files and accounts, and however it fills up.  *)
ImplementsStore == Store!StoreSpec

(* used_bytes_ is never below what the records take, even though two tasks *)
(* erase the same record, sizes are taken before files are removed and the *)
(* subtraction saturates: the watermark is never crossed unseen.           *)
UsedCoversStored ==
  used + Adding(Size[data]) >=
    Total + SumFunctionOnSet(freed, Subtracting(Task))

(* While every write fits, record_count_ never falls below the number of   *)
(* records, those that are being written aside.                            *)
CountCoversStored ==
  count + Adding(1) >=
    Cardinality({r \in Stored : pc[Engine] = "store" => r # rec[Engine]})
      + Cardinality(Subtracting(Task))

(* Under BackPressure and FailWrites the usage never passes the high       *)
(* watermark, although it is checked under the mutex and added to later.   *)
WatermarkHolds ==
  ~DropOldest /\ boots = 0 => used * 100 <= Capacity * HighPct

(* Every call returns: eviction gives up on a record it cannot remove.     *)
CallsReturn == \A t \in Task : pc[t] # "idle" ~> pc[t] = "idle"

=============================================================================
