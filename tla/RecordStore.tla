---------------------------- MODULE RecordStore ----------------------------
(***************************************************************************)
(* What the durable record store (IRepository) promises its callers.       *)
(*                                                                         *)
(* A record is one file, named by a record id the store hands out in       *)
(* increasing order.  The file appears, empty, when the write opens it and *)
(* receives its content when the write closes it; whoever lists or reads   *)
(* the directory in between finds a torn record.  A write may evict the    *)
(* oldest records first, under the retention policy DropOldest.  A power   *)
(* loss keeps the files and forgets everything else, and mounting the      *)
(* store again starts the id counter above the largest id it finds.        *)
(***************************************************************************)
EXTENDS Integers

CONSTANTS
  MaxRecord,   \* bound of the model: record ids run from 1 to MaxRecord
  Payload,     \* what a record can hold
  Absent,      \* no file of that name
  Torn,        \* the file exists and holds less than was written to it
  DropOldest   \* whether the retention policy is DropOldest

ASSUME StoreAssumption ==
  /\ MaxRecord \in Nat
  /\ Absent \notin Payload
  /\ Torn \notin Payload
  /\ Absent # Torn
  /\ DropOldest \in BOOLEAN

VARIABLES
  flash,   \* flash[r] is the content of the file of record r
  nextId,  \* next_id_: the id the next write takes
  open     \* the records whose file a write holds open

storeVars == <<flash, nextId, open>>

RecordId == 1 .. MaxRecord
Content  == Payload \cup {Absent, Torn}

Stored == {r \in RecordId : flash[r] # Absent}

StoreTypeOK ==
  /\ flash \in [RecordId -> Content]
  /\ nextId \in 1 .. MaxRecord + 1
  /\ open \subseteq RecordId

StoreInit ==
  /\ flash = [r \in RecordId |-> Absent]
  /\ nextId = 1
  /\ open = {}

(* The flash after every record older than t has been evicted.             *)
Evicted(t) == [r \in RecordId |-> IF r < t THEN Absent ELSE flash[r]]

(* How far a write may evict: t = 1 evicts nothing.  Eviction stops at a   *)
(* file it cannot remove, such as one that is held open.                   *)
EvictionPoint ==
  IF DropOldest THEN {t \in 1 .. nextId : \A r \in open : t <= r} ELSE {1}

(* A write that opens its file: it has made room, taken the next id and    *)
(* created the file.                                                       *)
Reserve(t) ==
  /\ nextId <= MaxRecord
  /\ t \in EvictionPoint
  /\ flash' = [Evicted(t) EXCEPT ![nextId] = Torn]
  /\ nextId' = nextId + 1
  /\ open' = open \cup {nextId}

(* A write that made room and took an id, and could not create the file.   *)
Burn(t) ==
  /\ nextId <= MaxRecord
  /\ t \in EvictionPoint
  /\ flash' = Evicted(t)
  /\ nextId' = nextId + 1
  /\ UNCHANGED open

(* The write of record r closes its file with all of p in it.              *)
Commit(r, p) ==
  /\ r \in open
  /\ flash' = [flash EXCEPT ![r] = p]
  /\ open' = open \ {r}
  /\ UNCHANGED nextId

(* The write of record r fell short: it removes the file it created.       *)
Abort(r) ==
  /\ r \in open
  /\ flash' = [flash EXCEPT ![r] = Absent]
  /\ open' = open \ {r}
  /\ UNCHANGED nextId

(* The write of record r closes its file and the file system keeps less    *)
(* than was written: the result of fclose is not looked at.                *)
Tear(r) ==
  /\ r \in open
  /\ open' = open \ {r}
  /\ UNCHANGED <<flash, nextId>>

(* Record r is erased; it may be gone already.  A file that is held open   *)
(* cannot be removed.                                                      *)
Erase(r) ==
  /\ r \notin open
  /\ flash' = [flash EXCEPT ![r] = Absent]
  /\ UNCHANGED <<nextId, open>>

(* Mutant: the id counter starts from 1 again.                             *)
RemountFromOne ==
  /\ open' = {}
  /\ UNCHANGED flash
  /\ nextId' = 1

(* Power is lost and the store is mounted again.                           *)
Remount ==
  /\ open' = {}
  /\ UNCHANGED flash
  /\ nextId' \in 1 .. MaxRecord + 1
  /\ \A r \in Stored : r < nextId'
  /\ nextId' = 1 \/ nextId' - 1 \in Stored

StoreOperation ==
  \/ \E t \in 1 .. MaxRecord + 1 : Reserve(t) \/ Burn(t)
  \/ \E r \in RecordId :
       \/ \E p \in Payload : Commit(r, p)
       \/ Abort(r)
       \/ Tear(r)
       \/ Erase(r)

StoreNext == StoreOperation \/ Remount

StoreSpec == StoreInit /\ [][StoreNext]_storeVars

----------------------------------------------------------------------------
(* No id the store will hand out names an existing file, so a new record   *)
(* never truncates an old one (littlefs_repository.cpp opens with "wb").   *)
IdsAreFresh == \A r \in RecordId : flash[r] # Absent => r < nextId

(* A file held open is one a write created and has not finished.           *)
OpenIsTorn == \A r \in open : flash[r] = Torn

(* Once a record holds a payload it holds that payload until it is erased: *)
(* no write, eviction or power loss ever changes the content of a record.  *)
RecordsAreImmutable ==
  [][\A r \in RecordId :
       flash[r] \in Payload => flash'[r] \in {flash[r], Absent}]_storeVars
=============================================================================
