-------------------------- MODULE FlowEngine_proofs --------------------------
(***************************************************************************)
(* What holds of the flow engine for every flow, queue capacity, number of *)
(* FlowFiles and records, and with any number of power losses: its types,  *)
(* its use of the store, and where a second delivery comes from.           *)
(***************************************************************************)
EXTENDS FlowEngine, TLAPS

(* The store's invariant: its type, and the two facts that keep a new      *)
(* record from landing on an old one.                                      *)
StoreInv == StoreTypeOK /\ IdsAreFresh /\ OpenIsTorn

(* An empty store satisfies the invariant.                                 *)
LEMMA StoreInitInv == StoreInit => StoreInv
  BY StoreAssumption
     DEF StoreInit, StoreInv, StoreTypeOK, IdsAreFresh, OpenIsTorn, RecordId,
         Content

(* Every operation of the store preserves the invariant.                   *)
LEMMA StoreNextInv == StoreInv /\ [StoreNext]_storeVars => StoreInv'
<1> SUFFICES ASSUME StoreInv, [StoreNext]_storeVars PROVE StoreInv'
  OBVIOUS
<1> USE StoreAssumption DEF StoreInv, StoreTypeOK, IdsAreFresh, OpenIsTorn,
        RecordId, Content
<1>1. ASSUME NEW t \in 1 .. MaxRecord + 1, Reserve(t)
      PROVE  StoreInv'
  <2>1. \A r \in open : t <= r
    BY <1>1 DEF Reserve, EvictionPoint
  <2> QED
    BY <1>1, <2>1 DEF Reserve, Evicted
<1>2. ASSUME NEW t \in 1 .. MaxRecord + 1, Burn(t)
      PROVE  StoreInv'
  <2>1. \A r \in open : t <= r
    BY <1>2 DEF Burn, EvictionPoint
  <2> QED
    BY <1>2, <2>1 DEF Burn, Evicted
<1>3. ASSUME NEW r \in RecordId, NEW p \in Payload, Commit(r, p)
      PROVE  StoreInv'
  BY <1>3 DEF Commit
<1>4. ASSUME NEW r \in RecordId, Abort(r) \/ Tear(r)
      PROVE  StoreInv'
  BY <1>4 DEF Abort, Tear
<1>5. ASSUME NEW r \in RecordId, Erase(r)
      PROVE  StoreInv'
  BY <1>5 DEF Erase
<1>6. CASE Remount
  BY <1>6 DEF Remount, Stored
<1>7. CASE UNCHANGED storeVars
  BY <1>7 DEF storeVars
<1> QED
  BY <1>1, <1>2, <1>3, <1>4, <1>5, <1>6, <1>7 DEF StoreNext, StoreOperation

(* Ids are fresh and open files are torn, through every write, eviction,   *)
(* erasure and power loss of the store (littlefs_repository.cpp).          *)
THEOREM StoreInvariant == StoreSpec => []StoreInv
<1>1. StoreInit => StoreInv
  BY StoreInitInv
<1>2. StoreInv /\ [StoreNext]_storeVars => StoreInv'
  BY StoreNextInv
<1> QED
  BY <1>1, <1>2, PTL DEF StoreSpec

(* No step of the store changes the content of a complete record.          *)
LEMMA StoreNextImmutable ==
  ASSUME StoreInv, [StoreNext]_storeVars, NEW q \in RecordId,
         flash[q] \in Payload
  PROVE  flash'[q] \in {flash[q], Absent}
<1> USE StoreAssumption DEF StoreInv, StoreTypeOK, RecordId, Content
<1>1. ASSUME NEW t \in 1 .. MaxRecord + 1, Reserve(t)
      PROVE  flash'[q] \in {flash[q], Absent}
  BY <1>1 DEF Reserve, Evicted, IdsAreFresh
<1>2. ASSUME NEW t \in 1 .. MaxRecord + 1, Burn(t)
      PROVE  flash'[q] \in {flash[q], Absent}
  BY <1>2 DEF Burn, Evicted
<1>3. ASSUME NEW r \in RecordId, NEW p \in Payload, Commit(r, p)
      PROVE  flash'[q] \in {flash[q], Absent}
  BY <1>3 DEF Commit, OpenIsTorn
<1>4. ASSUME NEW r \in RecordId, Abort(r) \/ Tear(r) \/ Erase(r)
      PROVE  flash'[q] \in {flash[q], Absent}
  BY <1>4 DEF Abort, Tear, Erase
<1>5. CASE Remount \/ UNCHANGED storeVars
  BY <1>5 DEF Remount, storeVars
<1> QED
  BY <1>1, <1>2, <1>3, <1>4, <1>5 DEF StoreNext, StoreOperation

(* While power lasts, a record that exists and that no write holds open    *)
(* stays so until it is erased: its id is not handed out again.            *)
LEMMA RecordsAreStable ==
  ASSUME StoreInv, StoreOperation \/ UNCHANGED storeVars,
         NEW q \in 0 .. MaxRecord, q < nextId, q \notin open
  PROVE  /\ q < nextId' /\ q \notin open' /\ nextId <= nextId'
         /\ q # 0 => flash'[q] \in {flash[q], Absent}
<1> DEFINE Stable == /\ q < nextId' /\ q \notin open' /\ nextId <= nextId'
                     /\ q # 0 => flash'[q] \in {flash[q], Absent}
<1> USE StoreAssumption DEF StoreInv, StoreTypeOK, RecordId, Content
<1>1. ASSUME NEW t \in 1 .. MaxRecord + 1, Reserve(t)
      PROVE  Stable
  BY <1>1 DEF Reserve, Evicted
<1>2. ASSUME NEW t \in 1 .. MaxRecord + 1, Burn(t)
      PROVE  Stable
  BY <1>2 DEF Burn, Evicted
<1>3. ASSUME NEW r \in RecordId, NEW p \in Payload, Commit(r, p)
      PROVE  Stable
  BY <1>3 DEF Commit
<1>4. ASSUME NEW r \in RecordId, Abort(r) \/ Tear(r) \/ Erase(r)
      PROVE  Stable
  BY <1>4 DEF Abort, Tear, Erase
<1>5. CASE UNCHANGED storeVars
  BY <1>5 DEF storeVars
<1> QED
  BY <1>1, <1>2, <1>3, <1>4, <1>5 DEF StoreOperation

(* A complete record keeps its content until it is erased.                 *)
THEOREM StoreImmutable == StoreSpec => RecordsAreImmutable
<1> DEFINE A == \A r \in RecordId :
                  flash[r] \in Payload => flash'[r] \in {flash[r], Absent}
<1>1. StoreInv /\ [StoreNext]_storeVars => [A]_storeVars
  BY StoreNextImmutable
<1>2. RecordsAreImmutable <=> [][A]_storeVars
  BY DEF RecordsAreImmutable
<1> HIDE DEF A
<1> QED
  BY <1>1, <1>2, StoreInvariant, PTL DEF StoreSpec

----------------------------------------------------------------------------

Transferring == pc \in {"push", "write", "enqueue"}

(* Where each task is determines what its variables hold.                  *)
Control ==
  /\ open = IF pc = "write" THEN {copy.rec} ELSE {}
  /\ pc = "source" => IsSource(node)
  /\ pc \in {"drain", "trigger", "erase"} => slot \in Ins(node)
  /\ pc \in {"trigger", "erase"} => in \in FlowFile
  /\ Transferring =>
       /\ out \in FlowFile
       /\ IsSource(node) \/ (slot \in Ins(node) /\ in \in FlowFile)
  /\ ~Transferring => todo = {}
  /\ pc \in {"write", "enqueue"} => copy \in FlowFile /\ copy.origin = out.origin
  /\ pc = "write" => \E c \in todo : IsFirst(c, todo) /\ IdOf(c) \in ConnId
  /\ rpc \notin {"oldest", "done"} => cur \in RecordId
  /\ rpc = "push" => rcopy \in Copy

Inv == StoreInv /\ TypeOK /\ Control

(* The slots of a flow are numbers, and two first slots are one.           *)
LEMMA SlotsAreNumbers ==
  ASSUME flow \in Flows
  PROVE  /\ Slots \subseteq Nat
         /\ flow.conns \in Seq(Connection)
         /\ \A c \in Slots : flow.conns[c] \in Connection
         /\ \A c \in Slots : IdOf(c) \in ConnId \cup {NoId}
         /\ \A c, d \in Slots : \A S \in SUBSET Slots :
              IsFirst(c, S) /\ IsFirst(d, S) => c = d
<1>1. flow.conns \in Seq(Connection)
  BY EngineAssumption
<1>2. /\ Slots \subseteq Nat
      /\ \A c \in Slots : flow.conns[c] \in Connection
  BY <1>1 DEF Slots
<1>3. \A c \in Slots : IdOf(c) \in ConnId \cup {NoId}
  BY <1>2 DEF IdOf, Connection
<1>4. \A c, d \in Slots : \A S \in SUBSET Slots :
        IsFirst(c, S) /\ IsFirst(d, S) => c = d
  BY <1>2 DEF IsFirst
<1> QED
  BY <1>1, <1>2, <1>3, <1>4

Work == EngineStep \/ ReplayStep \/ \E f \in Flows : Apply(f)

(* An erasure by the engine or by replay is one the store allows.          *)
LEMMA EraseIsStoreOperation ==
  ASSUME NEW r \in RecordId, EraseRecord(r)
  PROVE  StoreOperation \/ UNCHANGED storeVars
  BY DEF EraseRecord, StoreOperation

(* While power lasts, every step of the engine and of replay is an         *)
(* operation of the record store or leaves the store alone.                *)
LEMMA WorkIsStoreOperation ==
  ASSUME Inv, Work
  PROVE  StoreOperation \/ UNCHANGED storeVars
<1> USE DEF Inv
<1> flow \in Flows
  BY DEF TypeOK
<1>1. CASE UNCHANGED storeVars
  BY <1>1
<1>2. ASSUME NEW t \in 1 .. MaxRecord + 1, WriteBegins(t)
      PROVE  StoreOperation
  BY <1>2 DEF WriteBegins, StoreOperation
<1>3. CASE WriteRefused
  BY <1>3 DEF WriteRefused, StoreOperation
<1>4. CASE WriteCompletes
  <2>1. PICK c \in todo : /\ IsFirst(c, todo)
                          /\ Commit(copy.rec, <<copy.origin, IdOf(c)>>)
    BY <1>4 DEF WriteCompletes
  <2>2. IdOf(c) \in ConnId
    BY <1>4, <2>1, SlotsAreNumbers DEF Control, WriteCompletes, TypeOK
  <2>3. copy.rec \in RecordId /\ copy.origin \in Origin
    BY <1>4, <2>1
       DEF Control, WriteCompletes, Commit, StoreInv, StoreTypeOK, FlowFile
  <2>4. <<copy.origin, IdOf(c)>> \in Payload
    BY <2>2, <2>3, EngineAssumption DEF Copy
  <2> QED
    BY <2>1, <2>3, <2>4 DEF StoreOperation
<1>5. CASE WriteFallsShort \/ WriteTears
  BY <1>5
     DEF WriteFallsShort, WriteTears, Control, Abort, Tear, StoreInv, StoreTypeOK, StoreOperation
<1>6. CASE EnqueueFull
  BY <1>6, EraseIsStoreOperation DEF EnqueueFull, Control, FlowFile, RecordId
<1>7. CASE EraseProcessed
  BY <1>7, EraseIsStoreOperation
     DEF EraseProcessed, Control, FlowFile, RecordId
<1>8. CASE ReplayErases
  BY <1>8, EraseIsStoreOperation DEF ReplayErases, Control
<1>9. ASSUME ~UNCHANGED storeVars
      PROVE  \/ \E t \in 1 .. MaxRecord + 1 : WriteBegins(t)
             \/ WriteRefused \/ WriteCompletes \/ WriteFallsShort \/ WriteTears
             \/ EnqueueFull \/ EraseProcessed \/ ReplayErases
  BY <1>9 DEF Work, EngineStep, ReplayStep, StartTick, ApplyPending, EndTick,
     BeginNode, Emit, SourceReturns, Pop, Drained, TriggerFails, TriggerWorks,
     NoWrite, Enqueue, TransferDone, ReplayBegins, ReplayGivesUp, ReplayReads,
     ReplayCannotRead, ReplayPushes, ReplayAdvances, Apply
<1> QED
  BY <1>1, <1>2, <1>3, <1>4, <1>5, <1>6, <1>7, <1>8, <1>9

(* Every step is a step of the record store, or leaves it alone.           *)
LEMMA StepIsStoreStep ==
  ASSUME Inv, [Next]_vars
  PROVE  [StoreNext]_storeVars
<1>1. CASE Work
  BY <1>1, WorkIsStoreOperation DEF StoreNext
<1>2. ASSUME NEW f \in Flows, PowerLoss(f)
      PROVE  [StoreNext]_storeVars
  BY <1>2 DEF PowerLoss, StoreNext
<1>3. CASE UNCHANGED vars
  BY <1>3 DEF vars
<1> QED
  BY <1>1, <1>2, <1>3 DEF Next, Work

(* Logging keeps the log well-typed.                                       *)
LEMMA LoggedType ==
  ASSUME TypeOK, NEW e \in Event, NEW S, Logged(e, S)
  PROVE  log' \in [Event -> SUBSET LoggedCopy]
  BY DEF TypeOK, Logged

(* Init establishes the invariant.                                         *)
LEMMA InitInv == Init => Inv
<1> SUFFICES ASSUME Init PROVE Inv
  OBVIOUS
<1>1. StoreInv
  BY StoreInitInv DEF Init
<1>2. TypeOK
  BY <1>1, SlotsAreNumbers, EngineAssumption, StoreAssumption
     DEF Init, TypeOK, StoreInv, EmptyQueues, Slots, NoCopy, Nothing, StoreInit
<1>3. Control
  BY <1>1 DEF Init, Control, Transferring, StoreInit
<1> QED
  BY <1>1, <1>2, <1>3 DEF Inv

(* The engine's own steps preserve the type invariant.                     *)
LEMMA EngineType ==
  ASSUME Inv, StoreInv', EngineStep
  PROVE  TypeOK'
<1> USE DEF TypeOK, engineVars, replayVars, Slots
<1>0. Slots \subseteq Nat /\ \A n : Ins(n) \subseteq Slots /\ Outs(n) \subseteq Slots
  BY SlotsAreNumbers DEF Inv, Ins, Outs
<1> flow \in Flows /\ StoreTypeOK'
  BY DEF Inv, StoreInv
<1>1. CASE StartTick
  BY <1>1 DEF StartTick, Inv
<1>2. CASE ApplyPending
  <2>1. queues' \in [Slots' -> Seq(FlowFile)]
    BY <1>2 DEF ApplyPending, EmptyQueues
  <2>2. todo = {}
    BY <1>2 DEF ApplyPending, Inv, Control, Transferring
  <2> QED
    BY <1>2, <2>1, <2>2 DEF ApplyPending, Inv
<1>3. CASE EndTick
  BY <1>3 DEF EndTick, Inv
<1>4. CASE BeginNode
  <2>1. slot' \in Nat
    BY <1>0, <1>4 DEF BeginNode, Inv, IsFirst
  <2> QED
    BY <1>4, <2>1 DEF BeginNode, Inv
<1>5. CASE Emit
  <2>1. born' \in 0 .. MaxFlowFile /\ out' \in FlowFile
    BY <1>5, EngineAssumption, StoreAssumption
       DEF Emit, Inv, FlowFile, Origin
  <2> QED
    BY <1>0, <1>5, <2>1 DEF Emit, Inv
<1>6. CASE SourceReturns
  BY <1>6 DEF SourceReturns, Inv
<1>7. CASE Pop
  <2>1. slot \in Slots /\ queues[slot] \in Seq(FlowFile) /\ queues[slot] # <<>>
    BY <1>0, <1>7 DEF Pop, Inv, Control
  <2>2. Head(queues[slot]) \in FlowFile /\ Tail(queues[slot]) \in Seq(FlowFile)
    BY <2>1
  <2>3. queues' \in [Slots -> Seq(FlowFile)]
    BY <1>7, <2>2 DEF Pop, Inv
  <2> QED
    BY <1>7, <2>2, <2>3 DEF Pop, Inv
<1>8. CASE Drained
  <2>1. slot' \in Nat /\ node' \in Nat
    BY <1>0, <1>8 DEF Drained, Inv, IsFirst
  <2> QED
    BY <1>8, <2>1 DEF Drained, Inv
<1>9. CASE TriggerFails
  BY <1>9 DEF TriggerFails, Inv
<1>10. CASE TriggerWorks
  <2>1. log' \in [Event -> SUBSET LoggedCopy]
    BY <1>10, LoggedType DEF TriggerWorks, Inv, Event
  <2> QED
    BY <1>0, <1>10, <2>1 DEF TriggerWorks, Inv
<1>11. CASE EraseProcessed
  BY <1>11 DEF EraseProcessed, Inv
<1>12. CASE WriteRefused
  <2>1. log' \in [Event -> SUBSET LoggedCopy]
    BY <1>12, LoggedType DEF WriteRefused, LogLost, Inv, Event
  <2> QED
    BY <1>12, <2>1 DEF WriteRefused, Inv
<1>13. CASE WriteCompletes
  <2>1. log' \in [Event -> SUBSET LoggedCopy]
    BY <1>13, LoggedType DEF WriteCompletes, Inv, Event
  <2> QED
    BY <1>13, <2>1 DEF WriteCompletes, Inv
<1>14. CASE WriteFallsShort \/ WriteTears
  BY <1>14 DEF WriteFallsShort, WriteTears, Inv
<1>15. CASE NoWrite
  BY <1>15 DEF NoWrite, Inv
<1>16. CASE Enqueue
  <2>1. PICK c \in todo : queues' = [queues EXCEPT ![c] = Pushed(@, copy)]
    BY <1>16 DEF Enqueue
  <2>2. copy \in FlowFile /\ c \in Slots
    BY <1>16 DEF Enqueue, Inv, Control
  <2>3. Pushed(queues[c], copy) \in Seq(FlowFile)
    BY <2>2 DEF Inv, Pushed
  <2>4. queues' \in [Slots -> Seq(FlowFile)]
    BY <2>1, <2>3 DEF Inv
  <2> QED
    BY <1>16, <2>4 DEF Enqueue, Inv
<1>17. CASE EnqueueFull
  <2>1. log' \in [Event -> SUBSET LoggedCopy]
    BY <1>17, LoggedType DEF EnqueueFull, LogLost, Inv, Event
  <2> QED
    BY <1>17, <2>1 DEF EnqueueFull, TransferFails, Inv
<1>18. CASE TransferDone
  BY <1>18 DEF TransferDone, Inv, Control, Transferring
<1>19. ASSUME NEW t \in 1 .. MaxRecord + 1, WriteBegins(t)
       PROVE  TypeOK'
  <2>1. log' \in [Event -> SUBSET LoggedCopy]
    BY <1>19, LoggedType DEF WriteBegins, LogLost, Inv, Event
  <2>2. out \in FlowFile /\ nextId \in 1 .. MaxRecord
    BY <1>19, StoreAssumption
       DEF WriteBegins, Pushing, Inv, Control, Transferring, Reserve, StoreTypeOK
  <2>3. copy' \in FlowFile
    BY <1>19, <2>2, StoreAssumption DEF WriteBegins, FlowFile
  <2> QED
    BY <1>19, <2>1, <2>3 DEF WriteBegins, Inv
<1> QED
  BY <1>1, <1>2, <1>3, <1>4, <1>5, <1>6, <1>7, <1>8, <1>9, <1>10, <1>11,
     <1>12, <1>13, <1>14, <1>15, <1>16, <1>17, <1>18, <1>19 DEF EngineStep

(* Steps of replay preserve the type invariant.                            *)
LEMMA ReplayType ==
  ASSUME Inv, StoreInv', ReplayStep
  PROVE  TypeOK'
<1> USE DEF TypeOK, engineVars, replayVars, Slots
<1> flow \in Flows /\ StoreTypeOK'
  BY DEF Inv, StoreInv
<1>1. CASE ReplayBegins
  <2>1. cur' \in 0 .. MaxRecord
    BY <1>1, StoreAssumption DEF ReplayBegins, Inv, IsFirst, Stored, RecordId
  <2> QED
    BY <1>1, <2>1 DEF ReplayBegins, Inv
<1>2. CASE ReplayGivesUp
  BY <1>2 DEF ReplayGivesUp, Inv
<1>3. CASE ReplayReads
  BY <1>3 DEF ReplayReads, Inv
<1>4. CASE ReplayCannotRead
  BY <1>4 DEF ReplayCannotRead, Inv
<1>5. CASE ReplayPushes
  <2>1. rcopy \in Copy /\ cur \in RecordId
    BY <1>5 DEF ReplayPushes, Inv, Control
  <2>2. [origin |-> rcopy[1], rec |-> cur] \in FlowFile
    BY <2>1, StoreAssumption DEF Copy, FlowFile, RecordId
  <2>3. queues' \in [Slots -> Seq(FlowFile)]
    <3>1. PICK c \in Slots :
            \/ queues' = [queues EXCEPT ![c] =
                          Pushed(@, [origin |-> rcopy[1], rec |-> cur])]
            \/ UNCHANGED queues
      BY <1>5 DEF ReplayPushes
    <3>2. Pushed(queues[c], [origin |-> rcopy[1], rec |-> cur]) \in Seq(FlowFile)
      BY <2>2 DEF Inv, Pushed
    <3> QED
      BY <3>1, <3>2 DEF Inv
  <2>4. log' \in [Event -> SUBSET LoggedCopy]
    BY <1>5, LoggedType DEF ReplayPushes, Inv, Event
  <2> QED
    BY <1>5, <2>1, <2>3, <2>4 DEF ReplayPushes, Inv
<1>6. CASE ReplayErases
  <2>1. log' \in [Event -> SUBSET LoggedCopy]
    BY <1>6, LoggedType DEF ReplayErases, LogLost, Inv, Event
  <2> QED
    BY <1>6, <2>1 DEF ReplayErases, Inv
<1>7. CASE ReplayAdvances
  <2>1. cur' \in 0 .. MaxRecord
    BY <1>7, StoreAssumption DEF ReplayAdvances, Inv, IsFirst, Stored, RecordId
  <2> QED
    BY <1>7, <2>1 DEF ReplayAdvances, Inv
<1> QED
  BY <1>1, <1>2, <1>3, <1>4, <1>5, <1>6, <1>7 DEF ReplayStep

(* Every step preserves the type invariant.                                *)
LEMMA NextType ==
  ASSUME Inv, StoreInv', [Next]_vars
  PROVE  TypeOK'
<1> USE DEF TypeOK
<1>1. CASE EngineStep
  BY <1>1, EngineType
<1>2. CASE ReplayStep
  BY <1>2, ReplayType
<1>3. ASSUME NEW f \in Flows, Apply(f)
      PROVE  TypeOK'
  BY <1>3 DEF Apply, Inv, StoreInv, engineVars, replayVars, Slots
<1>4. ASSUME NEW f \in Flows, PowerLoss(f)
      PROVE  TypeOK'
  <2>1. queues' \in [Slots' -> Seq(FlowFile)]
    BY <1>4 DEF PowerLoss, EmptyQueues, Slots
  <2>2. boots' \in 0 .. MaxBoot /\ bootId' \in 1 .. MaxRecord + 1 /\ 0 \in 0 .. MaxRecord
    BY <1>4, StoreAssumption, EngineAssumption
       DEF PowerLoss, Inv, Remount
  <2> QED
    BY <1>4, <2>1, <2>2 DEF PowerLoss, Inv, StoreInv
<1>5. CASE UNCHANGED vars
  BY <1>5 DEF vars, Inv, StoreInv, engineVars, replayVars, Slots
<1> QED
  BY <1>1, <1>2, <1>3, <1>4, <1>5 DEF Next

(* The engine's own steps preserve the control invariant.                  *)
LEMMA EngineControl ==
  ASSUME Inv, StoreInv', TypeOK', EngineStep
  PROVE  Control'
<1> USE DEF Control, Transferring, engineVars, replayVars, storeVars, Slots, Ins,
        IsSource, IdOf
<1>1. CASE StartTick
  BY <1>1 DEF StartTick, Inv
<1>2. CASE ApplyPending
  BY <1>2 DEF ApplyPending, Inv
<1>3. CASE EndTick
  BY <1>3 DEF EndTick, Inv
<1>4. CASE BeginNode
  BY <1>4 DEF BeginNode, Inv, IsFirst
<1>5. CASE Emit
  <2>1. out' \in FlowFile
    BY <1>5, EngineAssumption, StoreAssumption
       DEF Emit, Inv, TypeOK, FlowFile, Origin
  <2> QED
    BY <1>5, <2>1 DEF Emit, Inv
<1>6. CASE SourceReturns
  BY <1>6 DEF SourceReturns, Inv
<1>7. CASE Pop
  <2>1. in' \in FlowFile
    BY <1>7 DEF Pop, Inv, TypeOK
  <2> QED
    BY <1>7, <2>1 DEF Pop, Inv
<1>8. CASE Drained
  BY <1>8 DEF Drained, Inv
<1>9. CASE TriggerFails
  BY <1>9 DEF TriggerFails, Inv
<1>10. CASE TriggerWorks
  BY <1>10 DEF TriggerWorks, Inv
<1>11. CASE EraseProcessed
  BY <1>11 DEF EraseProcessed, EraseRecord, Erase, Inv
<1>12. CASE WriteRefused
  BY <1>12 DEF WriteRefused, Burn, Pushing, Inv
<1>13. CASE WriteCompletes
  BY <1>13 DEF WriteCompletes, Commit, Inv
<1>14. CASE WriteFallsShort \/ WriteTears
  BY <1>14 DEF WriteFallsShort, WriteTears, Abort, Tear, Inv
<1>15. CASE NoWrite
  BY <1>15 DEF NoWrite, Pushing, Inv
<1>16. CASE Enqueue
  BY <1>16 DEF Enqueue, Inv
<1>17. CASE EnqueueFull
  BY <1>17 DEF EnqueueFull, TransferFails, EraseRecord, Erase, Inv
<1>18. CASE TransferDone
  BY <1>18 DEF TransferDone, Inv
<1>19. ASSUME NEW t \in 1 .. MaxRecord + 1, WriteBegins(t)
       PROVE  Control'
  <2>1. PICK c \in todo : Pushing(c) /\ NeedsRecord(c)
    BY <1>19 DEF WriteBegins
  <2>2. /\ IsFirst(c, todo) /\ IdOf(c) \in ConnId
        /\ todo' = todo /\ flow' = flow
    BY <1>19, <2>1, SlotsAreNumbers
       DEF Pushing, NeedsRecord, WriteBegins, Inv, TypeOK
  <2>3. copy' \in FlowFile /\ copy'.rec = nextId /\ copy'.origin = out.origin
    <3>1. out \in FlowFile /\ nextId \in 1 .. MaxRecord
      BY <1>19, <2>1, StoreAssumption
         DEF Pushing, Inv, WriteBegins, Reserve, StoreInv, StoreTypeOK
    <3> QED
      BY <1>19, <3>1, StoreAssumption DEF WriteBegins, FlowFile
  <2>4. open' = {copy'.rec}
    BY <1>19, <2>1, <2>3 DEF WriteBegins, Reserve, Pushing, Inv
  <2>5. \E d \in todo' : IsFirst(d, todo') /\ IdOf(d)' \in ConnId
    BY <2>2 DEF IsFirst
  <2> QED
    BY <1>19, <2>1, <2>3, <2>4, <2>5 DEF WriteBegins, Pushing, Inv
<1> QED
  BY <1>1, <1>2, <1>3, <1>4, <1>5, <1>6, <1>7, <1>8, <1>9, <1>10, <1>11,
     <1>12, <1>13, <1>14, <1>15, <1>16, <1>17, <1>18, <1>19 DEF EngineStep

(* Steps of replay preserve the control invariant.                         *)
LEMMA ReplayControl ==
  ASSUME Inv, StoreInv', TypeOK', ReplayStep
  PROVE  Control'
<1> USE DEF Control, Transferring, engineVars, replayVars, storeVars, Slots, Ins,
        IsSource, IdOf
<1>1. CASE ReplayBegins
  BY <1>1 DEF ReplayBegins, Inv, IsFirst, Stored
<1>2. CASE ReplayGivesUp
  BY <1>2 DEF ReplayGivesUp, Inv
<1>3. CASE ReplayReads
  BY <1>3 DEF ReplayReads, Inv
<1>4. CASE ReplayCannotRead
  BY <1>4 DEF ReplayCannotRead, Inv
<1>5. CASE ReplayPushes
  BY <1>5 DEF ReplayPushes, Inv
<1>6. CASE ReplayErases
  BY <1>6 DEF ReplayErases, EraseRecord, Erase, Inv
<1>7. CASE ReplayAdvances
  BY <1>7 DEF ReplayAdvances, Inv, IsFirst, Stored
<1> QED
  BY <1>1, <1>2, <1>3, <1>4, <1>5, <1>6, <1>7 DEF ReplayStep

(* Every step preserves the invariant.                                     *)
LEMMA NextInv == Inv /\ [Next]_vars => Inv'
<1> SUFFICES ASSUME Inv, [Next]_vars PROVE Inv'
  OBVIOUS
<1>1. StoreInv'
  BY StepIsStoreStep, StoreNextInv DEF Inv
<1>2. TypeOK'
  BY <1>1, NextType
<1>3. Control'
  <2>1. CASE EngineStep
    BY <1>1, <1>2, <2>1, EngineControl
  <2>2. CASE ReplayStep
    BY <1>1, <1>2, <2>2, ReplayControl
  <2>3. ASSUME NEW f \in Flows, Apply(f)
        PROVE  Control'
    BY <2>3 DEF Apply, Inv, Control, Transferring, engineVars, replayVars,
       storeVars, Slots, Ins, IsSource, IdOf
  <2>4. ASSUME NEW f \in Flows, PowerLoss(f)
        PROVE  Control'
    BY <2>4 DEF PowerLoss, Remount, Inv, Control, Transferring
  <2>5. CASE UNCHANGED vars
    BY <2>5 DEF vars, Inv, Control, Transferring, engineVars, replayVars,
       storeVars, Slots, Ins, IsSource, IdOf
  <2> QED
    BY <2>1, <2>2, <2>3, <2>4, <2>5 DEF Next
<1> QED
  BY <1>1, <1>2, <1>3 DEF Inv

(* The invariant: the store is sound, types are kept, and each program     *)
(* counter goes with the variables it uses.                                *)
LEMMA Invariant == Spec => []Inv
  BY InitInv, NextInv, PTL DEF Spec

(* The engine, its queues and replay keep to their types, whatever the     *)
(* flows, the queue capacity and the number of power losses.               *)
THEOREM TypeCorrect == Spec => []TypeOK
<1>1. Inv => TypeOK
  BY DEF Inv
<1> QED
  BY <1>1, Invariant, PTL

(* Every step of the engine and of replay is a step of the store or none.  *)
LEMMA EngineUsesStore == Spec => StoreSpec
<1>1. Init => StoreInit
  BY DEF Init
<1>2. Inv /\ [Next]_vars => [StoreNext]_storeVars
  BY StepIsStoreStep
<1> QED
  BY <1>1, <1>2, Invariant, PTL DEF Spec, StoreSpec

(* Hence no record ever changes its content under the engine.              *)
THEOREM EngineRecordsAreImmutable == Spec => RecordsAreImmutable
  BY EngineUsesStore, StoreImmutable, PTL

----------------------------------------------------------------------------
(* Deliveries.                                                             *)

(* The steps that log an event.                                            *)
LEMMA StepsThatLog ==
  ASSUME Work
  PROVE  \/ UNCHANGED log \/ TriggerWorks \/ WriteRefused \/ WriteCompletes
         \/ EnqueueFull \/ ReplayPushes \/ ReplayErases
         \/ \E t \in 1 .. MaxRecord + 1 : WriteBegins(t)
  BY DEF Work, EngineStep, ReplayStep, StartTick, ApplyPending, EndTick,
     BeginNode, Emit, SourceReturns, Pop, Drained, TriggerFails,
     EraseProcessed, WriteFallsShort, WriteTears, NoWrite, Enqueue, TransferDone,
     ReplayBegins, ReplayGivesUp, ReplayReads, ReplayCannotRead,
     ReplayAdvances, Apply

(* The log only grows.                                                     *)
LEMMA LogGrows ==
  ASSUME Inv, Work
  PROVE  \A e \in Event : log[e] \subseteq log'[e]
<1> USE DEF Inv, TypeOK, Logged, LogLost
<1>1. CASE UNCHANGED log
  BY <1>1
<1>2. CASE TriggerWorks
  BY <1>2 DEF TriggerWorks
<1>3. ASSUME NEW t \in 1 .. MaxRecord + 1, WriteBegins(t)
      PROVE  \A e \in Event : log[e] \subseteq log'[e]
  BY <1>3 DEF WriteBegins
<1>4. CASE WriteRefused
  BY <1>4 DEF WriteRefused
<1>5. CASE WriteCompletes
  BY <1>5 DEF WriteCompletes
<1>6. CASE EnqueueFull
  BY <1>6 DEF EnqueueFull
<1>7. CASE ReplayPushes
  BY <1>7 DEF ReplayPushes
<1>8. CASE ReplayErases
  BY <1>8 DEF ReplayErases
<1> QED
  BY <1>1, <1>2, <1>3, <1>4, <1>5, <1>6, <1>7, <1>8, StepsThatLog

(* FlowFiles are known by their origin.                                    *)
In(q, o) == \E i \in 1 .. Len(q) : q[i].origin = o

Once(q, o) ==
  \A i, j \in 1 .. Len(q) : q[i].origin = o /\ q[j].origin = o => i = j

LEMMA PoppedOnce ==
  ASSUME NEW q \in Seq(FlowFile), q # <<>>, NEW o
  PROVE  /\ In(q, o) <=> Head(q).origin = o \/ In(Tail(q), o)
         /\ Once(q, o) => Once(Tail(q), o)
         /\ Once(q, o) /\ Head(q).origin = o => ~In(Tail(q), o)
<1>1. /\ Len(q) \in Nat /\ Len(q) > 0 /\ Head(q) = q[1]
      /\ Len(Tail(q)) = Len(q) - 1
      /\ \A i \in 1 .. Len(Tail(q)) : Tail(q)[i] = q[i + 1] /\ i + 1 \in 1 .. Len(q)
  OBVIOUS
<1>2. \A i \in 1 .. Len(q) :
        i = 1 \/ (i - 1 \in 1 .. Len(Tail(q)) /\ Tail(q)[i - 1] = q[i])
  BY <1>1
<1>3. In(q, o) <=> Head(q).origin = o \/ In(Tail(q), o)
  <2>1. In(q, o) => Head(q).origin = o \/ In(Tail(q), o)
    BY <1>1, <1>2 DEF In
  <2>2. Head(q).origin = o => In(q, o)
    BY <1>1 DEF In
  <2>3. In(Tail(q), o) => In(q, o)
    BY <1>1 DEF In
  <2> QED
    BY <2>1, <2>2, <2>3
<1>4. ASSUME Once(q, o), NEW i \in 1 .. Len(Tail(q)), NEW j \in 1 .. Len(Tail(q)),
             Tail(q)[i].origin = o, Tail(q)[j].origin = o
      PROVE  i = j
  <2>1. i + 1 = j + 1
    BY <1>1, <1>4 DEF Once
  <2> QED
    BY <2>1
<1>5. ASSUME Once(q, o), Head(q).origin = o, NEW i \in 1 .. Len(Tail(q)),
             Tail(q)[i].origin = o
      PROVE  FALSE
  <2>1. 1 = i + 1
    BY <1>1, <1>5 DEF Once
  <2> QED
    BY <2>1
<1> QED
  BY <1>3, <1>4, <1>5 DEF In, Once

LEMMA PushedOnce ==
  ASSUME NEW q \in Seq(FlowFile), NEW f \in FlowFile, NEW o
  PROVE  /\ In(Append(q, f), o) <=> In(q, o) \/ f.origin = o
         /\ Once(q, o) /\ ~(f.origin = o /\ In(q, o)) => Once(Append(q, f), o)
<1> DEFINE p == Append(q, f)
<1>1. /\ Len(q) \in Nat /\ Len(p) = Len(q) + 1 /\ p[Len(q) + 1] = f
      /\ \A i \in 1 .. Len(q) : p[i] = q[i]
      /\ \A i \in 1 .. Len(p) : i \in 1 .. Len(q) \/ i = Len(q) + 1
  OBVIOUS
<1> HIDE DEF p
<1>2. In(p, o) <=> In(q, o) \/ f.origin = o
  <2>1. In(p, o) => In(q, o) \/ f.origin = o
    BY <1>1 DEF In
  <2>2. In(q, o) => In(p, o)
    BY <1>1 DEF In
  <2>3. f.origin = o => In(p, o)
    BY <1>1 DEF In
  <2> QED
    BY <2>1, <2>2, <2>3
<1>3. Once(q, o) /\ ~(f.origin = o /\ In(q, o)) => Once(p, o)
  BY <1>1 DEF In, Once
<1> QED
  BY <1>2, <1>3 DEF p

(* In a tree no two connections lead to the same node, and no two have the *)
(* same id: a FlowFile has one way to each node.                           *)
IsTree(f) ==
  \A c, d \in DOMAIN f.conns :
    f.conns[c].dst = f.conns[d].dst \/ f.conns[c].id = f.conns[d].id => c = d

Replayed(o) == \E j \in log["replayed"] : j[1] = o

(* FlowFile o is being transferred; it waits on connection c, in its queue *)
(* or at its node; that node has returned Ok for it.                       *)
Moving(o)     == Transferring /\ out.origin = o
AtNode(o, c)  == pc = "trigger" /\ slot = c /\ in.origin = o
Waiting(o, c) == In(queues[c], o) \/ AtNode(o, c)
Done(o, c)    == <<o, IdOf(c)>> \in log["handled"]
Present(o)    == Moving(o) \/ \E c \in Slots : Waiting(o, c)

(* Connection c has not seen FlowFile o.                                   *)
Unseen(o, c) == ~Waiting(o, c) /\ ~Done(o, c)

(* Where a FlowFile may be that no replay has pushed: at most once on each *)
(* connection, not after the node of that connection has returned Ok, and  *)
(* only where the node before has.                                         *)
Single(o) ==
  /\ \A c \in Slots : Once(queues[c], o)
  /\ \A c \in Slots : Waiting(o, c) => ~Done(o, c)
  /\ \A c \in Slots : AtNode(o, c) => ~In(queues[c], o)
  /\ \A d \in Slots : ~Unseen(o, d) => \A c \in Ins(flow.conns[d].src) : Done(o, c)
  /\ Moving(o) => \A d \in todo : Unseen(o, d)
  /\ Moving(o) /\ ~IsSource(node) => Done(o, slot)

(* FlowFiles are born one by one; those seen before were born, or          *)
(* replayed.                                                               *)
BornInv ==
  \A o \in Origin :
    ~Replayed(o) /\ (Present(o) \/ \E id : <<o, id>> \in log["handled"]) =>
      o <= born

SingleInv == \A o \in Origin : Present(o) /\ ~Replayed(o) => Single(o)

(* The pushes a transfer has still to make leave the node that transfers.  *)
Forward == Transferring => todo \subseteq Outs(node)

RepeatsInv == \A k \in log["repeated"] : Replayed(k[1])

(* A step that brings no FlowFile anywhere and processes none.             *)
Quiet ==
  /\ UNCHANGED <<flow, queues>>
  /\ log'["handled"] = log["handled"] /\ log'["repeated"] = log["repeated"]
  /\ pc' = "trigger" => pc = "trigger" /\ UNCHANGED <<slot, in>>
  /\ Transferring' =>
       Transferring /\ UNCHANGED <<out, node, slot>> /\ todo' \subseteq todo
  /\ born' = born

LEMMA WorkIsQuiet ==
  ASSUME Inv, Work
  PROVE  \/ Quiet \/ ApplyPending \/ Emit \/ Pop \/ TriggerWorks \/ Enqueue
         \/ ReplayPushes
<1> USE DEF Quiet, Transferring, Inv, TypeOK, Logged, LogLost, Event
<1>1. CASE StartTick \/ EndTick \/ BeginNode \/ SourceReturns \/ Drained
  BY <1>1 DEF StartTick, EndTick, BeginNode, SourceReturns, Drained
<1>2. CASE TriggerFails \/ EraseProcessed \/ TransferDone
  BY <1>2 DEF TriggerFails, EraseProcessed, TransferDone
<1>3. ASSUME NEW t \in 1 .. MaxRecord + 1, WriteBegins(t)
      PROVE  Quiet
  BY <1>3 DEF WriteBegins, Pushing
<1>4. CASE WriteRefused
  BY <1>4 DEF WriteRefused, Pushing
<1>5. CASE WriteCompletes
  BY <1>5 DEF WriteCompletes
<1>6. CASE WriteFallsShort \/ WriteTears \/ NoWrite
  BY <1>6 DEF WriteFallsShort, WriteTears, NoWrite, Pushing
<1>7. CASE EnqueueFull
  BY <1>7 DEF EnqueueFull, TransferFails
<1>8. CASE ReplayBegins \/ ReplayGivesUp \/ ReplayReads \/ ReplayCannotRead \/ ReplayAdvances
  BY <1>8 DEF ReplayBegins, ReplayGivesUp, ReplayReads, ReplayCannotRead,
     ReplayAdvances, engineVars
<1>9. CASE ReplayErases
  BY <1>9 DEF ReplayErases, engineVars
<1>10. ASSUME NEW f \in Flows, Apply(f)
       PROVE  Quiet
  BY <1>10 DEF Apply, engineVars
<1> QED
  BY <1>1, <1>2, <1>3, <1>4, <1>5, <1>6, <1>7, <1>8, <1>9, <1>10
     DEF Work, EngineStep, ReplayStep

LEMMA NextForward ==
  ASSUME Inv, Forward, [Next]_vars
  PROVE  Forward'
<1> USE DEF Forward, Transferring, Outs, Slots
<1>1. ASSUME Work, Quiet
      PROVE  Forward'
  BY <1>1 DEF Quiet
<1>2. CASE ApplyPending \/ Emit \/ Pop
  BY <1>2 DEF ApplyPending, Emit, Pop
<1>3. CASE TriggerWorks
  BY <1>3 DEF TriggerWorks
<1>4. CASE Enqueue
  BY <1>4 DEF Enqueue
<1>5. CASE ReplayPushes
  BY <1>5 DEF ReplayPushes, engineVars
<1>6. ASSUME NEW f \in Flows, PowerLoss(f)
      PROVE  Forward'
  BY <1>6 DEF PowerLoss
<1>7. CASE UNCHANGED vars
  BY <1>7 DEF vars, engineVars
<1> QED
  BY <1>1, <1>2, <1>3, <1>4, <1>5, <1>6, <1>7, WorkIsQuiet DEF Next, Work

(* What a quiet step, or one that touches other FlowFiles only, leaves of  *)
(* what is known of FlowFile o.                                            *)
LEMMA QuietSingle ==
  ASSUME Inv, NEW o, Quiet
  PROVE  /\ Present(o)' => Present(o)
         /\ Single(o) => Single(o)'
<1> USE DEF Quiet, Slots, IdOf, Ins, Waiting, AtNode, Done, Moving, Unseen,
        IsSource
<1>1. Present(o)' => Present(o)
  BY DEF Present
<1>2. ASSUME Single(o)
      PROVE  Single(o)'
  <2>1. /\ \A c \in Slots : Once(queues[c], o)'
        /\ \A c \in Slots : Waiting(o, c)' => ~Done(o, c)'
        /\ \A c \in Slots : AtNode(o, c)' => ~In(queues[c], o)'
    BY <1>2 DEF Single, Once, In
  <2>2. \A d \in Slots : ~Unseen(o, d)' => \A c \in Ins(flow.conns[d].src)' : Done(o, c)'
    BY <1>2 DEF Single
  <2>3. Moving(o)' => \A d \in todo' : Unseen(o, d)'
    BY <1>2 DEF Single, Inv, TypeOK
  <2>4. Moving(o)' /\ ~IsSource(node)' => Done(o, slot)'
    BY <1>2 DEF Single
  <2> QED
    BY <2>1, <2>2, <2>3, <2>4 DEF Single
<1> QED
  BY <1>1, <1>2

LEMMA PopSingle ==
  ASSUME Inv, NEW o \in Origin, Pop
  PROVE  /\ Present(o)' => Present(o)
         /\ Single(o) => Single(o)'
<1> USE DEF Slots, IdOf, Ins, Done, Unseen
<1>1. /\ pc = "drain" /\ pc' = "trigger" /\ slot \in Slots
      /\ UNCHANGED <<flow, slot, todo, node, log>>
      /\ queues[slot] \in Seq(FlowFile) /\ queues[slot] # <<>>
      /\ in' = Head(queues[slot])
      /\ queues'[slot] = Tail(queues[slot])
      /\ \A c \in Slots : c # slot => queues'[c] = queues[c]
  BY DEF Pop, Inv, TypeOK, Control
<1>2. /\ In(queues[slot], o) <=> AtNode(o, slot)' \/ In(queues'[slot], o)
      /\ Once(queues[slot], o) => Once(queues'[slot], o)
      /\ Once(queues[slot], o) /\ AtNode(o, slot)' => ~In(queues'[slot], o)
  BY <1>1, PoppedOnce DEF AtNode
<1>3. /\ \A c \in Slots : Waiting(o, c)' <=> Waiting(o, c)
      /\ ~Moving(o)'
  BY <1>1, <1>2 DEF Waiting, AtNode, In, Moving, Transferring
<1>4. Present(o)' => Present(o)
  BY <1>1, <1>3 DEF Present
<1>5. ASSUME Single(o)
      PROVE  Single(o)'
  <2>1. ASSUME NEW c \in Slots
        PROVE  Once(queues[c], o)'
    <3>1. Once(queues[c], o) /\ Once(queues[slot], o)
      BY <1>1, <1>5 DEF Single
    <3>2. CASE c = slot
      BY <1>2, <3>1, <3>2 DEF Once
    <3>3. CASE c # slot
      BY <1>1, <3>1, <3>3 DEF Once
    <3> QED
      BY <3>2, <3>3
  <2>2. /\ \A c \in Slots : Waiting(o, c)' => ~Done(o, c)'
        /\ \A d \in Slots : ~Unseen(o, d)' => \A c \in Ins(flow.conns[d].src)' : Done(o, c)'
    BY <1>1, <1>3, <1>5 DEF Single
  <2>3. \A c \in Slots : AtNode(o, c)' => ~In(queues[c], o)'
    BY <1>1, <1>2, <1>5 DEF Single, AtNode, In
  <2> QED
    BY <1>1, <1>3, <2>1, <2>2, <2>3 DEF Single
<1> QED
  BY <1>4, <1>5

LEMMA TriggerSingle ==
  ASSUME Inv, IsTree(flow), NEW o \in Origin, TriggerWorks
  PROVE  /\ Present(o)' => Present(o)
         /\ Single(o) => Single(o)'
<1> USE DEF Slots, IdOf, Ins, Unseen
<1>1. /\ pc = "trigger" /\ pc' = "push" /\ slot \in Ins(node) /\ slot \in Slots
      /\ in \in FlowFile /\ out' = in /\ todo' = Outs(node)
      /\ UNCHANGED <<flow, queues, slot, node>>
      /\ <<in.origin, IdOf(slot)>> \in LoggedCopy
      /\ log'["handled"] = log["handled"] \cup {<<in.origin, IdOf(slot)>>}
  <2> USE DEF TriggerWorks, Inv, TypeOK, Control
  <2>1. slot \in Slots /\ in \in FlowFile
    OBVIOUS
  <2>2. <<in.origin, IdOf(slot)>> \in LoggedCopy
    BY <2>1, SlotsAreNumbers DEF LoggedCopy, FlowFile, Copy
  <2>3. log'["handled"] = log["handled"] \cup {<<in.origin, IdOf(slot)>>}
    BY <2>2 DEF Logged, Event
  <2> QED
    BY <2>1, <2>2, <2>3
<1>2. /\ \A c \in Slots : Waiting(o, c)' <=> In(queues[c], o)
      /\ Moving(o)' <=> in.origin = o
      /\ AtNode(o, slot) <=> in.origin = o
      /\ ~Moving(o) /\ \A c \in Slots : ~AtNode(o, c)'
      /\ \A c \in Slots : c # slot => ~AtNode(o, c)
      /\ \A c \in Slots : Done(o, c)' <=> Done(o, c) \/ (in.origin = o /\ c = slot)
  BY <1>1 DEF Waiting, In, AtNode, Moving, Transferring, Done, IsTree
<1>3. Present(o)' => Present(o)
  BY <1>1, <1>2 DEF Present, Waiting
<1>4. ASSUME Single(o)
      PROVE  Single(o)'
  <2>1. \A c \in Slots : Once(queues[c], o)'
    BY <1>1, <1>4 DEF Single, Once
  <2>2. \A c \in Slots : Waiting(o, c)' => ~Done(o, c)'
    BY <1>1, <1>2, <1>4 DEF Single, Waiting
  <2>3. \A d \in Slots : ~Unseen(o, d)' => ~Unseen(o, d)
    BY <1>1, <1>2 DEF Waiting
  <2>4. \A d \in Slots : ~Unseen(o, d)' => \A c \in Ins(flow.conns[d].src)' : Done(o, c)'
    BY <1>1, <1>2, <1>4, <2>3 DEF Single
  <2>5. ASSUME in.origin = o, NEW d \in Outs(node)
        PROVE  Unseen(o, d)'
    <3>1. Waiting(o, slot) /\ ~Done(o, slot) /\ d \in Slots
      BY <1>1, <1>2, <1>4, <2>5 DEF Single, Waiting, Outs
    <3>2. Unseen(o, d)
      BY <1>1, <1>4, <3>1, <2>5 DEF Single, Outs
    <3> QED
      BY <1>1, <1>2, <2>3, <3>1, <3>2
  <2>6. Moving(o)' => \A d \in todo' : Unseen(o, d)'
    BY <1>1, <1>2, <2>5
  <2>7. Moving(o)' => Done(o, slot)'
    BY <1>1, <1>2 DEF Done
  <2> QED
    BY <1>1, <1>2, <2>1, <2>2, <2>4, <2>6, <2>7 DEF Single
<1> QED
  BY <1>3, <1>4

LEMMA EmitSingle ==
  ASSUME Inv, BornInv, NEW o \in Origin, Emit
  PROVE  /\ Present(o)' => Present(o) \/ o = born + 1
         /\ Present(o)' /\ ~Replayed(o) /\ (Present(o) => Single(o)) => Single(o)'
<1> USE DEF Slots, IdOf, Ins, Unseen
<1>1. /\ pc = "source" /\ pc' = "push" /\ IsSource(node)'
      /\ out'.origin = born + 1 /\ born \in Nat
      /\ UNCHANGED <<flow, queues, slot, node, log>>
  BY DEF Emit, Inv, TypeOK, Control, IsSource
<1>2. /\ \A c \in Slots : /\ Waiting(o, c)' <=> Waiting(o, c)
                          /\ ~AtNode(o, c)'
                          /\ Done(o, c)' <=> Done(o, c)
      /\ ~Moving(o)
      /\ Moving(o)' <=> o = born + 1
  BY <1>1 DEF Waiting, In, AtNode, Moving, Transferring, Done
<1>3. Present(o)' => Present(o) \/ o = born + 1
  BY <1>1, <1>2 DEF Present
<1>4. ASSUME Present(o)', ~Replayed(o), Present(o) => Single(o)
      PROVE  Single(o)'
  <2>1. CASE o # born + 1
    BY <1>1, <1>2, <1>3, <1>4, <2>1 DEF Single, Once
  <2>2. CASE o = born + 1
    <3>1. ~(o <= born)
      BY <1>1, <2>2
    <3>2. ~Present(o) /\ \A id : <<o, id>> \notin log["handled"]
      BY <1>4, <3>1 DEF BornInv
    <3>3. \A c \in Slots : /\ ~Waiting(o, c)'
                           /\ Unseen(o, c)'
                           /\ ~In(queues[c], o)'
      BY <1>1, <1>2, <3>2 DEF Present, Done, Waiting
    <3>4. \A c \in Slots : Once(queues[c], o)'
      BY <1>1, <3>3 DEF Once, In
    <3>5. todo' \subseteq Slots
      BY DEF Emit, Outs
    <3> QED
      BY <1>1, <1>2, <3>3, <3>4, <3>5 DEF Single
  <2> QED
    BY <2>1, <2>2
<1> QED
  BY <1>3, <1>4

LEMMA EnqueueSingle ==
  ASSUME Inv, IsTree(flow), Forward, NEW o \in Origin, Enqueue
  PROVE  /\ Present(o)' => Present(o)
         /\ Single(o) => Single(o)'
<1> USE DEF Slots, IdOf, Ins, Unseen
<1>1. PICK c \in todo : /\ queues' = [queues EXCEPT ![c] = Append(@, copy)]
                        /\ todo' = todo \ {c}
  BY DEF Enqueue, Pushed
<1>2. /\ pc = "enqueue" /\ pc' = "push" /\ c \in Slots /\ todo \subseteq Slots
      /\ UNCHANGED <<flow, slot, node, out, log>>
      /\ queues[c] \in Seq(FlowFile) /\ copy \in FlowFile
      /\ copy.origin = out.origin
      /\ queues'[c] = Append(queues[c], copy)
      /\ \A d \in Slots : d # c => queues'[d] = queues[d]
      /\ c \in Outs(node)
      /\ ~IsSource(node) => slot \in Ins(node)
  BY <1>1 DEF Enqueue, Inv, TypeOK, Control, Transferring, Forward
<1>3. /\ In(queues'[c], o) <=> In(queues[c], o) \/ out.origin = o
      /\ Once(queues[c], o) /\ ~(out.origin = o /\ In(queues[c], o)) => Once(queues'[c], o)
  BY <1>2, PushedOnce
<1>4. /\ \A d \in Slots : /\ Waiting(o, d)' <=> Waiting(o, d) \/ (d = c /\ out.origin = o)
                          /\ ~AtNode(o, d)'
                          /\ Done(o, d)' <=> Done(o, d)
      /\ Moving(o)' <=> Moving(o)
      /\ Moving(o) <=> out.origin = o
  BY <1>2, <1>3 DEF Waiting, In, AtNode, Moving, Transferring, Done
<1>5. Present(o)' => Present(o)
  BY <1>2, <1>4 DEF Present
<1>6. ASSUME Single(o)
      PROVE  Single(o)'
  <2>1. out.origin = o => Unseen(o, c) /\ ~In(queues[c], o)
    BY <1>4, <1>6 DEF Single, Waiting
  <2>2. ASSUME NEW d \in Slots
        PROVE  Once(queues[d], o)'
    <3>1. Once(queues[d], o)
      BY <1>6 DEF Single
    <3>2. CASE d = c
      BY <1>3, <2>1, <3>1, <3>2 DEF Once
    <3>3. CASE d # c
      BY <1>2, <3>1, <3>3 DEF Once
    <3> QED
      BY <3>2, <3>3
  <2>3. \A d \in Slots : Waiting(o, d)' => ~Done(o, d)'
    BY <1>4, <1>6, <2>1 DEF Single
  <2>4. ASSUME out.origin = o, NEW e \in Ins(node)
        PROVE  Done(o, e)
    <3>1. ~IsSource(node) /\ slot = e
      BY <1>2, <2>4 DEF IsSource, IsTree
    <3> QED
      BY <1>4, <1>6, <2>4, <3>1 DEF Single
  <2>5. ASSUME NEW d \in Slots, ~Unseen(o, d)', NEW e \in Ins(flow.conns[d].src)'
        PROVE  Done(o, e)'
    <3>1. e \in Slots /\ e \in Ins(flow.conns[d].src)
      BY <1>2
    <3>2. CASE Unseen(o, d)
      <4>1. d = c /\ out.origin = o
        BY <1>4, <2>5, <3>2
      <4> QED
        BY <1>2, <1>4, <2>4, <3>1, <4>1 DEF Outs
    <3>3. CASE ~Unseen(o, d)
      BY <1>4, <1>6, <3>1, <3>3 DEF Single
    <3> QED
      BY <3>2, <3>3
  <2>6. Moving(o)' => \A d \in todo' : Unseen(o, d)'
    BY <1>1, <1>2, <1>4, <1>6 DEF Single
  <2>7. Moving(o)' /\ ~IsSource(node)' => Done(o, slot)'
    BY <1>2, <1>4, <1>6 DEF Single, IsSource
  <2> QED
    BY <1>2, <1>4, <2>2, <2>3, <2>5, <2>6, <2>7 DEF Single
<1> QED
  BY <1>5, <1>6

LEMMA ReplayPushSingle ==
  ASSUME Inv, NEW o \in Origin, ReplayPushes
  PROVE  \/ Quiet
         \/ Replayed(o)'
         \/ /\ Present(o)' => Present(o)
            /\ Single(o) => Single(o)'
<1> USE DEF Slots, IdOf, Ins, Unseen
<1>1. PICK c \in Slots :
        IF Len(queues[c]) < QueueCapacity
        THEN /\ queues' = [queues EXCEPT ![c] =
                  Append(@, [origin |-> rcopy[1], rec |-> cur])]
             /\ Logged("replayed", {rcopy})
        ELSE UNCHANGED <<queues, log>>
  BY DEF ReplayPushes, Pushed
<1>2. /\ UNCHANGED <<flow, pc, slot, node, in, out, todo, born>>
      /\ rcopy \in Copy
  BY DEF ReplayPushes, engineVars, Inv, Control
<1>3. CASE ~(Len(queues[c]) < QueueCapacity)
  BY <1>1, <1>2, <1>3 DEF Quiet, Transferring
<1>4. CASE Len(queues[c]) < QueueCapacity
  <2> DEFINE f == [origin |-> rcopy[1], rec |-> cur]
  <2>1. /\ queues[c] \in Seq(FlowFile) /\ f \in FlowFile /\ f.origin = rcopy[1]
        /\ queues'[c] = Append(queues[c], f)
        /\ \A d \in Slots : d # c => queues'[d] = queues[d]
    BY <1>1, <1>2, <1>4
       DEF ReplayPushes, Inv, TypeOK, Control, Copy, FlowFile, RecordId
  <2> HIDE DEF f
  <2>2. /\ log'["handled"] = log["handled"]
        /\ log'["replayed"] = log["replayed"] \cup {rcopy}
    BY <1>1, <1>2, <1>4 DEF Logged, LoggedCopy, Copy, Event, Inv, TypeOK
  <2>3. CASE rcopy[1] = o
    BY <2>2, <2>3 DEF Replayed
  <2>4. CASE rcopy[1] # o
    <3>1. /\ In(queues'[c], o) <=> In(queues[c], o)
          /\ Once(queues[c], o) => Once(queues'[c], o)
      BY <2>1, <2>4, PushedOnce
    <3>2. /\ \A d \in Slots : /\ Waiting(o, d)' <=> Waiting(o, d)
                              /\ AtNode(o, d)' <=> AtNode(o, d)
                              /\ In(queues'[d], o) <=> In(queues[d], o)
                              /\ Once(queues[d], o) => Once(queues'[d], o)
                              /\ Done(o, d)' <=> Done(o, d)
          /\ Moving(o)' <=> Moving(o)
      <4>1. ASSUME NEW d \in Slots
            PROVE  /\ In(queues'[d], o) <=> In(queues[d], o)
                   /\ Once(queues[d], o) => Once(queues'[d], o)
        <5>1. CASE d = c
          BY <3>1, <5>1
        <5>2. CASE d # c
          BY <2>1, <5>2
        <5> QED
          BY <5>1, <5>2
      <4>2. /\ \A d \in Slots : /\ AtNode(o, d)' <=> AtNode(o, d)
                                /\ Done(o, d)' <=> Done(o, d)
            /\ Moving(o)' <=> Moving(o)
        BY <1>2, <2>2 DEF AtNode, Moving, Transferring, Done
      <4>3. \A d \in Slots : In(queues[d], o)' <=> In(queues'[d], o)
        BY DEF In
      <4> QED
        BY <4>1, <4>2, <4>3 DEF Waiting
    <3>3. Present(o)' => Present(o)
      BY <1>2, <3>2 DEF Present
    <3>4. ASSUME Single(o)
          PROVE  Single(o)'
      <4>1. /\ \A d \in Slots : Once(queues[d], o)'
            /\ \A d \in Slots : Waiting(o, d)' => ~Done(o, d)'
        BY <1>2, <3>2, <3>4 DEF Single, Once
      <4>2. \A d \in Slots : AtNode(o, d)' => ~In(queues[d], o)'
        BY <1>2, <3>2, <3>4 DEF Single, In
      <4>3. \A d \in Slots :
              ~Unseen(o, d)' => \A e \in Ins(flow.conns[d].src)' : Done(o, e)'
        BY <1>2, <3>2, <3>4 DEF Single
      <4>4. Moving(o)' => \A d \in todo' : Unseen(o, d)'
        BY <1>2, <3>2, <3>4 DEF Single, Inv, TypeOK
      <4>5. Moving(o)' /\ ~IsSource(node)' => Done(o, slot)'
        BY <1>2, <2>2, <3>2, <3>4 DEF Single, IsSource, Done
      <4> QED
        BY <1>2, <4>1, <4>2, <4>3, <4>4, <4>5 DEF Single
    <3> QED
      BY <3>3, <3>4
  <2> QED
    BY <2>3, <2>4
<1> QED
  BY <1>3, <1>4

(* A new graph starts with empty queues.                                   *)
LEMMA NothingPresent ==
  ASSUME NEW o,
         ApplyPending \/ \E f \in Flows : PowerLoss(f)
  PROVE  ~Present(o)'
<1>1. /\ pc' \in {"node", "loop"}
      /\ \A c \in Slots' : queues'[c] = <<>>
  BY DEF ApplyPending, PowerLoss, EmptyQueues, Slots
<1> QED
  BY <1>1 DEF Present, Waiting, AtNode, Moving, In, Transferring

(* Only the FlowFile at a node is added to those it returned Ok for.       *)
LEMMA HandledGrows ==
  ASSUME Inv, NEW o \in Origin, [Next]_vars
  PROVE  \A id : <<o, id>> \in log'["handled"] =>
           <<o, id>> \in log["handled"] \/ (TriggerWorks /\ in.origin = o)
<1> USE DEF Logged, Inv, TypeOK, Event
<1>1. CASE Quiet \/ ApplyPending \/ Emit \/ Pop \/ Enqueue \/ UNCHANGED vars
  BY <1>1 DEF Quiet, ApplyPending, Emit, Pop, Enqueue, vars
<1>2. CASE TriggerWorks
  BY <1>2 DEF TriggerWorks
<1>3. CASE ReplayPushes
  BY <1>3 DEF ReplayPushes
<1>4. ASSUME NEW f \in Flows, PowerLoss(f)
      PROVE  log' = log
  BY <1>4 DEF PowerLoss
<1> QED
  BY <1>1, <1>2, <1>3, <1>4, WorkIsQuiet DEF Next, Work

(* A replayed FlowFile stays one.                                          *)
LEMMA ReplayedStays ==
  ASSUME Inv, [Next]_vars, NEW o, Replayed(o)
  PROVE  Replayed(o)'
<1>1. log["replayed"] \subseteq log'["replayed"]
  <2>1. CASE Work
    BY <2>1, LogGrows DEF Event
  <2>2. CASE UNCHANGED vars \/ \E f \in Flows : PowerLoss(f)
    BY <2>2 DEF vars, PowerLoss
  <2> QED
    BY <2>1, <2>2 DEF Next, Work
<1> QED
  BY <1>1 DEF Replayed

(* A step brings a FlowFile to no new place unless it is born or replayed, *)
(* and leaves it where it may be.                                          *)
LEMMA NextSingle ==
  ASSUME Inv, IsTree(flow), Forward, BornInv, SingleInv, NEW o \in Origin,
         [Next]_vars, Present(o)', ~Replayed(o)'
  PROVE  /\ Present(o) \/ (Emit /\ o = born + 1)
         /\ Single(o)'
<1>1. ~Replayed(o)
  BY ReplayedStays
<1>2. Present(o) => Single(o)
  BY <1>1 DEF SingleInv
<1>3. CASE Quiet
  BY <1>2, <1>3, QuietSingle
<1>4. CASE Emit
  BY <1>1, <1>2, <1>4, EmitSingle
<1>5. CASE Pop \/ TriggerWorks \/ Enqueue
  BY <1>2, <1>5, PopSingle, TriggerSingle, EnqueueSingle
<1>6. CASE ReplayPushes
  BY <1>2, <1>6, ReplayPushSingle, QuietSingle
<1>7. ~(ApplyPending \/ \E f \in Flows : PowerLoss(f))
  BY NothingPresent
<1>8. CASE UNCHANGED vars
  <2>1. Quiet
    BY <1>8 DEF vars, engineVars, Quiet, Transferring
  <2> QED
    BY <2>1, <1>3
<1> QED
  BY <1>3, <1>4, <1>5, <1>6, <1>7, <1>8, WorkIsQuiet DEF Next, Work

LEMMA NextBorn ==
  ASSUME Inv, Forward, IsTree(flow), BornInv, SingleInv, [Next]_vars
  PROVE  BornInv'
<1> SUFFICES ASSUME NEW o \in Origin, ~Replayed(o)',
                    Present(o)' \/ \E id : <<o, id>> \in log'["handled"]
             PROVE  o <= born'
  BY DEF BornInv
<1>1. ~Replayed(o)
  BY ReplayedStays
<1>2. born \in Nat /\ born' \in Nat /\ born <= born'
  <2>1. born' = born \/ born' = born + 1
    <3>1. CASE Quiet \/ ApplyPending \/ Emit \/ Pop \/ Enqueue \/ UNCHANGED vars
      BY <3>1 DEF Quiet, ApplyPending, Emit, Pop, Enqueue, vars
    <3>2. CASE TriggerWorks \/ ReplayPushes \/ \E f \in Flows : PowerLoss(f)
      BY <3>2 DEF TriggerWorks, ReplayPushes, PowerLoss
    <3> QED
      BY <3>1, <3>2, WorkIsQuiet DEF Next, Work
  <2> QED
    BY <2>1 DEF Inv, TypeOK
<1>3. CASE Present(o)'
  <2>1. CASE Present(o)
    BY <1>1, <1>2, <2>1 DEF BornInv, Origin
  <2>2. CASE Emit /\ o = born + 1
    BY <1>2, <2>2 DEF Emit
  <2> QED
    BY <1>3, <2>1, <2>2, NextSingle
<1>4. CASE \E id : <<o, id>> \in log'["handled"]
  <2>1. CASE TriggerWorks /\ in.origin = o
    <3>1. Present(o)
      BY <2>1 DEF Present, Waiting, AtNode, TriggerWorks, Inv, Control, Ins
    <3> QED
      BY <1>1, <1>2, <3>1 DEF BornInv, Origin
  <2>2. CASE \E id : <<o, id>> \in log["handled"]
    <3>1. o <= born
      BY <1>1, <2>2, Zenon DEF BornInv
    <3> QED
      BY <1>2, <3>1 DEF Origin
  <2> QED
    BY <1>4, <2>1, <2>2, HandledGrows
<1> QED
  BY <1>3, <1>4

(* A second Ok for a FlowFile needs it back on a connection it has left.   *)
LEMMA NextRepeats ==
  ASSUME Inv, SingleInv, RepeatsInv, [Next]_vars
  PROVE  RepeatsInv'
<1> SUFFICES ASSUME NEW k \in log'["repeated"]
             PROVE  Replayed(k[1])'
  BY DEF RepeatsInv
<1>1. CASE k \in log["repeated"]
  BY <1>1, ReplayedStays DEF RepeatsInv
<1>2. CASE k \notin log["repeated"]
  <2>1. TriggerWorks
    <3> USE DEF Logged, Inv, TypeOK, Event
    <3>1. ~(Quiet \/ ApplyPending \/ Emit \/ Pop \/ Enqueue \/ UNCHANGED vars)
      BY <1>2 DEF Quiet, ApplyPending, Emit, Pop, Enqueue, vars
    <3>2. ~(ReplayPushes \/ \E f \in Flows : PowerLoss(f))
      BY <1>2 DEF ReplayPushes, PowerLoss
    <3> QED
      BY <3>1, <3>2, WorkIsQuiet DEF Next, Work
  <2>2. /\ k = <<in.origin, IdOf(slot)>> /\ k \in log["handled"]
        /\ in.origin \in Origin /\ slot \in Slots
    BY <1>2, <2>1 DEF TriggerWorks, Logged, Inv, TypeOK, Control, Ins, Event, FlowFile
  <2>3. AtNode(in.origin, slot) /\ Present(in.origin)
    BY <2>1, <2>2 DEF AtNode, Present, Waiting, TriggerWorks
  <2>4. ~Single(in.origin)
    BY <2>2, <2>3 DEF Single, Waiting, Done
  <2>5. Replayed(in.origin)
    BY <2>2, <2>3, <2>4 DEF SingleInv
  <2> QED
    BY <2>2, <2>5, ReplayedStays
<1> QED
  BY <1>1, <1>2

(* In a flow where every FlowFile has one way to each node, a node returns *)
(* Ok for it a second time only after replay has pushed it again, on       *)
(* whatever connection.  (Where paths join, the engine hands the FlowFile  *)
(* to the node once per path, and a connection shares its id with no       *)
(* other in a flow the designer draws.)                                    *)
THEOREM RepeatsAreReplays ==
  ASSUME \A f \in Flows : IsTree(f)
  PROVE  Spec => []DuplicatesComeFromReplay
<1> DEFINE DInv == Forward /\ BornInv /\ SingleInv /\ RepeatsInv
<1>1. Init => DInv
  BY DEF Init, Forward, BornInv, SingleInv, RepeatsInv, Present, Waiting, Moving,
     AtNode, In, Transferring, Event, EmptyQueues, Slots
<1>2. Inv /\ DInv /\ [Next]_vars => DInv'
  <2> SUFFICES ASSUME Inv, DInv, [Next]_vars
               PROVE  DInv'
    OBVIOUS
  <2>1. IsTree(flow)
    BY DEF Inv, TypeOK
  <2>2. Forward' /\ BornInv' /\ RepeatsInv'
    BY <2>1, NextForward, NextBorn, NextRepeats
  <2>3. SingleInv'
    BY <2>1, NextSingle DEF SingleInv
  <2> QED
    BY <2>2, <2>3
<1>3. DInv => DuplicatesComeFromReplay
  BY DEF RepeatsInv, Replayed, DuplicatesComeFromReplay
<1> QED
  BY <1>1, <1>2, <1>3, Invariant, PTL DEF Spec
=============================================================================
