---------------------- MODULE FlowEngineRecords_proofs ----------------------
(***************************************************************************)
(* What becomes of records: the stamps on FlowFiles are true, no record    *)
(* vanishes without a reason, and replay leaves none behind and takes none *)
(* before an older one.                                                    *)
(***************************************************************************)
EXTENDS FlowEngine_proofs

(* A FlowFile's record, if it has one, is complete or gone.                *)
Known(f) == f.rec < nextId /\ f.rec \notin open

(* Its record, if still there, is one a node has returned Ok for.          *)
IsHandled(f) ==
  f.rec > 0 /\ flash[f.rec] \in Copy =>
    flash[f.rec][1] = f.origin /\ flash[f.rec] \in log["handled"]

QueuesStamped ==
  \A c \in Slots : \A i \in 1 .. Len(queues[c]) :
    Known(queues[c][i]) /\ StampIsTrue(queues[c][i], c)

(* The FlowFile the engine popped: its record is the one of the connection *)
(* it came from until its node has returned Ok for it.                     *)
InputStamped ==
  /\ pc = "trigger" => Known(in) /\ StampIsTrue(in, slot)
  /\ pc = "erase" \/ (Transferring /\ ~IsSource(node)) =>
       Known(in) /\ IsHandled(in)

(* The FlowFile transfer pushes, and the copy of it try_push has made.     *)
OutputStamped ==
  /\ Transferring => Known(out) /\ IsHandled(out)
  /\ pc = "enqueue" =>
       Known(copy) /\ \A c \in todo : IsFirst(c, todo) => StampIsTrue(copy, c)

(* What replay has read and is about to push is what the record holds.     *)
ReplayStamped ==
  rpc = "push" =>
    /\ cur < nextId /\ cur \notin open
    /\ flash[cur] \in Copy => flash[cur] = rcopy

Stamped == QueuesStamped /\ InputStamped /\ OutputStamped /\ ReplayStamped

(* Where a record an earlier boot left may be while replay walks the       *)
(* store: pushed already, at the cursor, or ahead of it.                   *)
ReplayCovers ==
  /\ bootId <= nextId
  /\ \A r \in open : bootId <= r
  /\ ~FlashFaults =>
       \A r \in Stored : r < bootId =>
         \/ r \in restored
         \/ rpc = "oldest"
         \/ rpc # "done" /\ cur < r
         \/ rpc \in {"read", "push", "orphan", "scrap", "full"} /\ cur = r

(* No id is zero, so a FlowFile with the id zero has no record.            *)
LEMMA IdsArePositive ==
  ASSUME StoreTypeOK
  PROVE  0 < nextId /\ 0 \notin open
BY StoreAssumption DEF StoreTypeOK, RecordId

(* An element of a queue after a push is the one pushed or an older one.   *)
LEMMA PushedElement ==
  ASSUME NEW T, NEW q \in Seq(T), NEW x \in T, NEW i \in 1 .. Len(Append(q, x))
  PROVE  Append(q, x)[i] = x \/ \E j \in 1 .. Len(q) : Append(q, x)[i] = q[j]
<1>1. CASE i = Len(q) + 1
  BY <1>1
<1>2. CASE i # Len(q) + 1
  <2>1. i \in 1 .. Len(q) /\ Append(q, x)[i] = q[i]
    BY <1>2
  <2> QED
    BY <2>1
<1> QED
  BY <1>1, <1>2

(* The same, for the queues of all connections.                            *)
LEMMA PushOn ==
  ASSUME queues \in [Slots -> Seq(FlowFile)], NEW d \in Slots,
         NEW g \in FlowFile, queues' = [queues EXCEPT ![d] = Append(@, g)],
         NEW c \in Slots, NEW i \in 1 .. Len(queues'[c])
  PROVE  \/ \E j \in 1 .. Len(queues[c]) : queues'[c][i] = queues[c][j]
         \/ queues'[c][i] = g /\ c = d
<1>1. CASE c = d
  <2>1. queues'[c] = Append(queues[d], g) /\ queues[d] \in Seq(FlowFile)
    BY <1>1
  <2>2. \/ Append(queues[d], g)[i] = g
        \/ \E j \in 1 .. Len(queues[d]) : Append(queues[d], g)[i] = queues[d][j]
    BY <2>1, PushedElement
  <2> QED
    BY <1>1, <2>1, <2>2
<1>2. CASE c # d
  BY <1>2
<1> QED
  BY <1>1, <1>2

(* While power lasts, what holds of the stamp of a FlowFile stays true.    *)
LEMMA StampsStay ==
  ASSUME Inv, Work
  PROVE  /\ \A f \in FlowFile : Known(f) => Known(f)'
         /\ \A f \in FlowFile : Known(f) /\ IsHandled(f) => IsHandled(f)'
         /\ UNCHANGED flow =>
              \A f \in FlowFile : \A c \in Slots :
                Known(f) /\ StampIsTrue(f, c) => StampIsTrue(f, c)'
<1>1. ASSUME NEW f \in FlowFile, Known(f)
      PROVE  /\ Known(f)'
             /\ f.rec > 0 => flash'[f.rec] \in {flash[f.rec], Absent}
  <2>1. f.rec \in 0 .. MaxRecord
    BY DEF FlowFile
  <2> QED
    BY <1>1, <2>1, WorkIsStoreOperation, RecordsAreStable DEF Known, Inv
<1>2. log["handled"] \subseteq log'["handled"]
  BY LogGrows DEF Event
<1>3. Absent \notin Copy
  BY StoreAssumption, EngineAssumption
<1> QED
  BY <1>1, <1>2, <1>3 DEF IsHandled, StampIsTrue, IdOf, Slots

(* Nothing the tasks do puts a FlowFile with a wrong stamp into a queue.   *)
LEMMA WorkQueuesStamped ==
  ASSUME Inv, Inv', Stamped, Work
  PROVE  QueuesStamped'
<1> USE DEF Inv, TypeOK, Stamped, QueuesStamped
<1>0. flow \in Flows /\ Slots \subseteq Nat
  BY SlotsAreNumbers
<1>1. CASE UNCHANGED <<queues, flow>>
  BY <1>1, StampsStay DEF Slots
<1>2. CASE ApplyPending
  BY <1>2 DEF ApplyPending, EmptyQueues, Slots
<1>3. CASE Pop
  <2>1. /\ slot \in Slots /\ UNCHANGED flow
        /\ queues' = [queues EXCEPT ![slot] = Tail(@)]
        /\ queues[slot] \in Seq(FlowFile) /\ queues[slot] # <<>>
    BY <1>3 DEF Pop, Control, Ins
  <2>2. ASSUME NEW c \in Slots, NEW i \in 1 .. Len(queues'[c])
        PROVE  \E j \in 1 .. Len(queues[c]) : queues'[c][i] = queues[c][j]
    <3>1. CASE c = slot
      <4>1. /\ i + 1 \in 1 .. Len(queues[slot])
            /\ Tail(queues[slot])[i] = queues[slot][i + 1]
        BY <2>1, <3>1
      <4> QED
        BY <2>1, <3>1, <4>1
    <3>2. CASE c # slot
      BY <2>1, <3>2
    <3> QED
      BY <3>1, <3>2
  <2>3. ASSUME NEW c \in Slots, NEW i \in 1 .. Len(queues'[c])
        PROVE  /\ queues'[c][i] \in FlowFile
               /\ Known(queues'[c][i]) /\ StampIsTrue(queues'[c][i], c)
    <3>1. PICK j \in 1 .. Len(queues[c]) : queues'[c][i] = queues[c][j]
      BY <2>2
    <3>2. queues[c] \in Seq(FlowFile)
      OBVIOUS
    <3> QED
      BY <3>1, <3>2
  <2>4. UNCHANGED flow
    BY <2>1
  <2> QED
    BY <2>3, <2>4, StampsStay DEF Slots, Known, StampIsTrue, IdOf
<1>4. CASE Enqueue
  <2>1. PICK d \in todo : /\ IsFirst(d, todo)
                          /\ queues' = [queues EXCEPT ![d] = Append(@, copy)]
    BY <1>4 DEF Enqueue, Pushed
  <2>2. /\ d \in Slots /\ queues[d] \in Seq(FlowFile)
        /\ copy \in FlowFile /\ UNCHANGED flow
    BY <1>4 DEF Enqueue, Control
  <2>3. Known(copy) /\ StampIsTrue(copy, d)
    BY <1>4, <2>1 DEF Enqueue, OutputStamped
  <2>4. ASSUME NEW c \in Slots, NEW i \in 1 .. Len(queues'[c])
        PROVE  \/ \E j \in 1 .. Len(queues[c]) : queues'[c][i] = queues[c][j]
               \/ queues'[c][i] = copy /\ c = d
    BY <2>1, <2>2, PushOn
  <2>5. ASSUME NEW c \in Slots, NEW i \in 1 .. Len(queues'[c])
        PROVE  /\ queues'[c][i] \in FlowFile
               /\ Known(queues'[c][i]) /\ StampIsTrue(queues'[c][i], c)
    <3>1. CASE \E j \in 1 .. Len(queues[c]) : queues'[c][i] = queues[c][j]
      <4>1. queues[c] \in Seq(FlowFile)
        OBVIOUS
      <4> QED
        BY <3>1, <4>1
    <3>2. CASE queues'[c][i] = copy /\ c = d
      BY <2>2, <2>3, <3>2
    <3> QED
      BY <2>4, <3>1, <3>2
  <2> QED
    BY <2>2, <2>5, StampsStay DEF Slots, Known, StampIsTrue, IdOf
<1>5. CASE ReplayPushes
  <2> DEFINE g == [origin |-> rcopy[1], rec |-> cur]
  <2>1. PICK d \in Slots : /\ IsFirst(d, {s \in Slots : IdOf(s) = rcopy[2]})
                           /\ \/ queues' = [queues EXCEPT ![d] = Append(@, g)]
                              \/ UNCHANGED queues
    BY <1>5 DEF ReplayPushes, Pushed
  <2>2. rcopy \in Copy /\ cur \in RecordId /\ rpc = "push" /\ UNCHANGED flow
    BY <1>5 DEF ReplayPushes, Control
  <2>3. g \in FlowFile
    BY <2>2, StoreAssumption DEF Copy, FlowFile, RecordId
  <2>4. Known(g) /\ StampIsTrue(g, d)
    BY <2>1, <2>2 DEF ReplayStamped, Known, StampIsTrue, IsFirst, Copy
  <2> HIDE DEF g
  <2>5. ASSUME NEW c \in Slots, NEW i \in 1 .. Len(queues'[c])
        PROVE  \/ \E j \in 1 .. Len(queues[c]) : queues'[c][i] = queues[c][j]
               \/ queues'[c][i] = g /\ c = d
    <3>1. CASE queues' = [queues EXCEPT ![d] = Append(@, g)]
      BY <2>3, <3>1, PushOn
    <3>2. CASE UNCHANGED queues
      BY <3>2
    <3> QED
      BY <2>1, <3>1, <3>2
  <2>6. ASSUME NEW c \in Slots, NEW i \in 1 .. Len(queues'[c])
        PROVE  /\ queues'[c][i] \in FlowFile
               /\ Known(queues'[c][i]) /\ StampIsTrue(queues'[c][i], c)
    <3>1. CASE \E j \in 1 .. Len(queues[c]) : queues'[c][i] = queues[c][j]
      <4>1. queues[c] \in Seq(FlowFile)
        OBVIOUS
      <4> QED
        BY <3>1, <4>1
    <3>2. CASE queues'[c][i] = g /\ c = d
      BY <2>3, <2>4, <3>2
    <3> QED
      BY <2>5, <3>1, <3>2
  <2> QED
    BY <2>2, <2>6, StampsStay DEF Slots, Known, StampIsTrue, IdOf
<1>6. UNCHANGED <<queues, flow>> \/ ApplyPending \/ Pop \/ Enqueue \/ ReplayPushes
  BY DEF Work, EngineStep, ReplayStep, StartTick, EndTick, BeginNode, Emit,
     SourceReturns, Drained, TriggerFails, TriggerWorks, EraseProcessed,
     WriteBegins, WriteRefused, WriteCompletes, WriteFallsShort, WriteTears, NoWrite,
     EnqueueFull, TransferDone, ReplayBegins, ReplayGivesUp, ReplayReads,
     ReplayCannotRead, ReplayErases, ReplayAdvances, Apply
<1> QED
  BY <1>1, <1>2, <1>3, <1>4, <1>5, <1>6

(* The same for the FlowFile the engine popped.                            *)
LEMMA EngineInputStamped ==
  ASSUME Inv, Inv', Stamped, EngineStep
  PROVE  InputStamped'
<1> USE StampsStay DEF Inv, Control, TypeOK, Stamped, InputStamped, Transferring,
        Work, engineVars, replayVars
<1>0. flow \in Flows
  OBVIOUS
<1>1. CASE StartTick \/ ApplyPending \/ EndTick \/ Drained \/ TriggerFails
           \/ EraseProcessed \/ SourceReturns
  BY <1>1 DEF StartTick, ApplyPending, EndTick, Drained, TriggerFails,
     EraseProcessed, SourceReturns
<1>2. CASE BeginNode
  BY <1>2 DEF BeginNode
<1>3. CASE Emit
  BY <1>3 DEF Emit, IsSource, Ins, Slots
<1>4. CASE Pop
  <2>1. slot \in Slots /\ queues[slot] \in Seq(FlowFile) /\ queues[slot] # <<>>
    BY <1>4 DEF Pop, Ins
  <2>2. /\ 1 \in 1 .. Len(queues[slot]) /\ in' = queues[slot][1]
        /\ in' \in FlowFile
    BY <1>4, <2>1 DEF Pop
  <2>3. Known(in') /\ StampIsTrue(in', slot)
    BY <2>1, <2>2 DEF QueuesStamped
  <2>4. Known(in)' /\ StampIsTrue(in, slot)'
    BY <1>4, <2>1, <2>2, <2>3 DEF Pop, Known, StampIsTrue, IdOf, storeVars
  <2> QED
    BY <1>4, <2>4 DEF Pop
<1>5. CASE TriggerWorks
  <2>1. /\ in' = in /\ slot' = slot /\ flow' = flow /\ in \in FlowFile
        /\ slot \in Slots /\ UNCHANGED storeVars
    BY <1>5 DEF TriggerWorks, Ins
  <2>2. Known(in)'
    BY <1>5, <2>1 DEF TriggerWorks, Known, storeVars
  <2>3. <<in.origin, IdOf(slot)>> \in log'["handled"]
    <3>1. <<in.origin, IdOf(slot)>> \in LoggedCopy
      BY <1>0, <2>1, SlotsAreNumbers DEF FlowFile, LoggedCopy
    <3> QED
      BY <1>5, <3>1 DEF TriggerWorks, Logged, Event
  <2>4. log["handled"] \subseteq log'["handled"]
    BY <1>5, LogGrows DEF Event
  <2>5. ASSUME in.rec > 0, flash[in.rec] \in Copy
        PROVE  /\ flash[in.rec][1] = in.origin
               /\ flash[in.rec] \in log'["handled"]
    <3>1. flash[in.rec] = <<flash[in.rec][1], flash[in.rec][2]>>
      BY <2>5 DEF Copy
    <3>2. StampIsTrue(in, slot)
      BY <1>5 DEF TriggerWorks
    <3> QED
      BY <2>3, <2>4, <2>5, <3>1, <3>2 DEF StampIsTrue
  <2>6. IsHandled(in)'
    BY <2>1, <2>5 DEF IsHandled, storeVars
  <2> QED
    BY <1>5, <2>2, <2>6 DEF TriggerWorks
<1>6. CASE Transferring
  <2>1. /\ UNCHANGED <<in, flow>> /\ pc' # "trigger"
        /\ \/ UNCHANGED node /\ (pc' = "erase" => ~IsSource(node))
           \/ pc' = "node"
    BY <1>6 DEF EngineStep, StartTick, ApplyPending, EndTick, BeginNode, Emit,
       SourceReturns, Pop, Drained, TriggerFails, TriggerWorks,
       EraseProcessed, WriteBegins, WriteRefused, WriteCompletes,
       WriteFallsShort, WriteTears, NoWrite, Enqueue, EnqueueFull, TransferDone, Pushing,
       TransferFails
  <2>2. ASSUME ~IsSource(node)
        PROVE  Known(in)' /\ IsHandled(in)'
    <3>1. in \in FlowFile /\ Known(in) /\ IsHandled(in)
      BY <1>6, <2>2
    <3> QED
      BY <2>1, <3>1 DEF Known, IsHandled
  <2> QED
    BY <2>1, <2>2 DEF IsSource, Ins, Slots
<1>7. \/ StartTick \/ ApplyPending \/ EndTick \/ Drained \/ TriggerFails
      \/ EraseProcessed \/ SourceReturns
      \/ BeginNode \/ Emit \/ Pop \/ TriggerWorks \/ Transferring
  BY DEF EngineStep, WriteBegins, WriteRefused, WriteCompletes,
     WriteFallsShort, WriteTears, NoWrite, Enqueue, EnqueueFull, TransferDone, Pushing
<1> QED
  BY <1>1, <1>2, <1>3, <1>4, <1>5, <1>6, <1>7

(* The same for the FlowFile transfer pushes, and its copy.                *)
LEMMA EngineOutputStamped ==
  ASSUME Inv, Inv', Stamped, EngineStep
  PROVE  OutputStamped'
<1> USE StampsStay DEF Inv, Control, TypeOK, Stamped, OutputStamped, Transferring,
        Work
<1>0. flow \in Flows
  OBVIOUS
<1>1. CASE StartTick \/ ApplyPending \/ EndTick \/ BeginNode \/ Drained
           \/ Pop \/ TriggerFails \/ EraseProcessed \/ SourceReturns
  BY <1>1 DEF StartTick, ApplyPending, EndTick, BeginNode, Drained, Pop,
     TriggerFails, EraseProcessed, SourceReturns
<1>2. CASE Emit
  <2>1. out'.rec = 0 /\ nextId' = nextId /\ open' = open
    BY <1>2 DEF Emit, storeVars
  <2>2. 0 < nextId /\ 0 \notin open
    BY IdsArePositive DEF StoreInv
  <2>3. Known(out)'
    BY <2>1, <2>2 DEF Known
  <2>4. IsHandled(out)'
    BY <2>1 DEF IsHandled
  <2> QED
    BY <1>2, <2>3, <2>4 DEF Emit
<1>3. CASE TriggerWorks
  <2>1. out' = in /\ in' = in /\ pc' = "push"
    BY <1>3 DEF TriggerWorks
  <2>2. ~IsSource(node)'
    BY <1>3 DEF TriggerWorks, IsSource, Ins, Slots
  <2>3. InputStamped'
    BY EngineInputStamped
  <2>4. Known(in)' /\ IsHandled(in)'
    BY <2>1, <2>2, <2>3 DEF InputStamped
  <2> QED
    BY <2>1, <2>4 DEF Known, IsHandled
<1>4. ASSUME Transferring, UNCHANGED out
      PROVE  Known(out)' /\ IsHandled(out)'
  <2>1. out \in FlowFile /\ Known(out) /\ IsHandled(out)
    BY <1>4
  <2> QED
    BY <1>4, <2>1 DEF Known, IsHandled
<1>5. CASE \/ Enqueue \/ EnqueueFull \/ TransferDone
           \/ \E t \in 1 .. MaxRecord + 1 : WriteBegins(t)
  BY <1>4, <1>5
     DEF Enqueue, EnqueueFull, TransferFails, TransferDone, WriteBegins, Pushing
<1>6. CASE WriteRefused \/ WriteFallsShort \/ NoWrite
  <2>1. Transferring /\ UNCHANGED out /\ copy' = out
    BY <1>6 DEF WriteRefused, WriteFallsShort, NoWrite, Pushing
  <2>2. Known(out)' /\ IsHandled(out)'
    BY <1>4, <2>1
  <2>3. Known(copy)' /\ \A c \in todo' : StampIsTrue(copy, c)'
    BY <2>1, <2>2 DEF Known, IsHandled, StampIsTrue
  <2> QED
    BY <2>2, <2>3
<1>7. CASE WriteCompletes
  <2>1. PICK c \in todo : /\ IsFirst(c, todo)
                          /\ Commit(copy.rec, <<copy.origin, IdOf(c)>>)
    BY <1>7 DEF WriteCompletes
  <2>2. /\ Transferring /\ UNCHANGED <<out, copy, todo, flow>>
        /\ pc = "write" /\ copy \in FlowFile
    BY <1>7 DEF WriteCompletes
  <2>3. Known(out)' /\ IsHandled(out)'
    BY <1>4, <2>2
  <2>4. Known(copy)'
    <3>1. copy.rec \in open /\ copy.rec \in RecordId /\ flash[copy.rec] = Torn
      BY <2>1 DEF Commit, StoreInv, OpenIsTorn, StoreTypeOK
    <3>2. copy.rec < nextId
      BY <3>1, StoreAssumption DEF StoreInv, IdsAreFresh
    <3> QED
      BY <2>1, <2>2, <3>2 DEF Known, Commit
  <2>5. StampIsTrue(copy, c)'
    BY <2>1, <2>2 DEF Commit, StampIsTrue, IdOf, StoreInv, StoreTypeOK
  <2>6. \A d \in todo' : IsFirst(d, todo)' => d = c
    BY <1>0, <2>1, <2>2, SlotsAreNumbers DEF IsFirst
  <2> QED
    BY <2>3, <2>4, <2>5, <2>6
<1>8. CASE WriteTears
  <2>1. /\ Transferring /\ UNCHANGED <<out, copy>> /\ copy \in FlowFile
        /\ copy.rec \in open /\ open' = open \ {copy.rec}
        /\ UNCHANGED <<flash, nextId>>
    BY <1>8 DEF WriteTears, Tear
  <2>2. Known(out)' /\ IsHandled(out)'
    BY <1>4, <2>1
  <2>3. copy.rec \in RecordId /\ flash'[copy.rec] = Torn
    BY <2>1 DEF StoreInv, OpenIsTorn, StoreTypeOK
  <2>4. copy.rec < nextId' /\ Torn # Absent /\ Torn \notin Copy
    BY <2>1, <2>3, StoreAssumption, EngineAssumption DEF StoreInv, IdsAreFresh
  <2> QED
    BY <2>1, <2>2, <2>3, <2>4 DEF Known, StampIsTrue
<1> QED
  BY <1>1, <1>2, <1>3, <1>5, <1>6, <1>7, <1>8 DEF EngineStep

(* And what replay has read is still what the record holds, if it does.    *)
LEMMA WorkReplayStamped ==
  ASSUME Inv, Inv', Stamped, Work
  PROVE  ReplayStamped'
<1> USE DEF Inv, Stamped, ReplayStamped
<1>1. CASE ReplayReads
  <2>1. /\ cur' = cur /\ rcopy' = flash[cur] /\ UNCHANGED storeVars
        /\ cur \in RecordId /\ flash[cur] \in Copy
    BY <1>1 DEF ReplayReads, Control
  <2>2. flash[cur] # Torn /\ flash[cur] # Absent
    BY <2>1, StoreAssumption, EngineAssumption
  <2>3. cur < nextId /\ cur \notin open
    BY <2>1, <2>2 DEF StoreInv, IdsAreFresh, OpenIsTorn
  <2> QED
    BY <2>1, <2>3 DEF storeVars
<1>2. CASE UNCHANGED <<rpc, cur, rcopy>>
  <2>1. ASSUME rpc = "push"
        PROVE  /\ cur < nextId' /\ cur \notin open'
               /\ flash'[cur] \in {flash[cur], Absent}
    <3>1. cur \in 0 .. MaxRecord /\ cur # 0
      BY <2>1, StoreAssumption DEF Control, TypeOK, RecordId
    <3> QED
      BY <2>1, <3>1, WorkIsStoreOperation, RecordsAreStable
  <2>2. Absent \notin Copy
    BY StoreAssumption, EngineAssumption
  <2> QED
    BY <1>2, <2>1, <2>2
<1>3. rpc' # "push" \/ ReplayReads \/ UNCHANGED <<rpc, cur, rcopy>>
  BY DEF Work, EngineStep, ReplayStep, StartTick, ApplyPending, EndTick,
     BeginNode, Emit, SourceReturns, Pop, Drained, TriggerFails, TriggerWorks,
     EraseProcessed, WriteBegins, WriteRefused, WriteCompletes,
     WriteFallsShort, WriteTears, NoWrite, Enqueue, EnqueueFull, TransferDone,
     ReplayBegins, ReplayGivesUp, ReplayCannotRead, ReplayPushes,
     ReplayErases, ReplayAdvances, Apply, replayVars
<1> QED
  BY <1>1, <1>2, <1>3

(* Every step, a power loss included, leaves the stamps true.              *)
LEMMA NextStamped ==
  ASSUME Inv, Inv', Stamped, [Next]_vars
  PROVE  Stamped'
<1>1. CASE EngineStep
  BY <1>1, WorkQueuesStamped, EngineInputStamped, EngineOutputStamped,
     WorkReplayStamped DEF Stamped, Work
<1>2. ASSUME ReplayStep \/ \E f \in Flows : Apply(f)
      PROVE  Stamped'
  <2>1. Work
    BY <1>2 DEF Work
  <2>2. UNCHANGED <<flow, engineVars>>
    BY <1>2 DEF ReplayStep, ReplayBegins, ReplayGivesUp, ReplayReads,
       ReplayCannotRead, ReplayPushes, ReplayErases, ReplayAdvances, Apply
  <2>3. \A f \in FlowFile :
          /\ Known(f) => Known(f)'
          /\ Known(f) /\ IsHandled(f) => IsHandled(f)'
          /\ \A c \in Slots :
               Known(f) /\ StampIsTrue(f, c) => StampIsTrue(f, c)'
    BY <2>1, <2>2, StampsStay
  <2>4. InputStamped'
    <3>1. ASSUME in \in FlowFile, Known(in)
          PROVE  Known(in)'
      BY <2>2, <2>3, <3>1 DEF Known, engineVars
    <3>2. ASSUME in \in FlowFile, Known(in), IsHandled(in)
          PROVE  IsHandled(in)'
      BY <2>2, <2>3, <3>2 DEF Known, IsHandled, engineVars
    <3>3. ASSUME in \in FlowFile, Known(in), slot \in Slots, StampIsTrue(in, slot)
          PROVE  StampIsTrue(in, slot)'
      BY <2>2, <2>3, <3>3 DEF Known, StampIsTrue, IdOf, engineVars
    <3> QED
      BY <2>2, <3>1, <3>2, <3>3
         DEF Stamped, InputStamped, Inv, Control, Transferring, engineVars,
             IsSource, Ins, Slots
  <2>5. OutputStamped'
    <3>1. ASSUME out \in FlowFile, Known(out), IsHandled(out)
          PROVE  Known(out)' /\ IsHandled(out)'
      BY <2>2, <2>3, <3>1 DEF Known, IsHandled, engineVars
    <3>2. ASSUME copy \in FlowFile, Known(copy)
          PROVE  /\ Known(copy)'
                 /\ \A c \in Slots :
                      StampIsTrue(copy, c) => StampIsTrue(copy, c)'
      BY <2>2, <2>3, <3>2 DEF Known, StampIsTrue, IdOf, engineVars
    <3> QED
      BY <2>2, <3>1, <3>2
         DEF Stamped, OutputStamped, Inv, Control, TypeOK, Transferring,
             engineVars, IsFirst
  <2> QED
    BY <2>1, <2>4, <2>5, WorkQueuesStamped, WorkReplayStamped DEF Stamped
<1>3. ASSUME NEW f \in Flows, PowerLoss(f)
      PROVE  Stamped'
  BY <1>3 DEF PowerLoss, Stamped, QueuesStamped, InputStamped, OutputStamped,
     ReplayStamped, Transferring, EmptyQueues, Slots
<1>4. CASE UNCHANGED vars
  BY <1>4 DEF vars, storeVars, engineVars, replayVars, Stamped, QueuesStamped,
     InputStamped, OutputStamped, ReplayStamped, Transferring, Slots, Known,
     IsHandled, StampIsTrue, IdOf, IsSource, Ins
<1> QED
  BY <1>1, <1>2, <1>3, <1>4 DEF Next

(* At boot no queue and no task holds a FlowFile.                          *)
LEMMA InitStamped == Init => Stamped
  BY DEF Init, Stamped, QueuesStamped, InputStamped, OutputStamped,
     ReplayStamped, Transferring, EmptyQueues, Slots

(* The invariants above hold in every reachable state.                     *)
LEMMA StampedInvariant == Spec => [](Inv /\ Stamped)
<1>1. Init => Inv /\ Stamped
  BY InitInv, InitStamped
<1>2. Inv /\ Stamped /\ [Next]_vars => (Inv /\ Stamped)'
  BY NextInv, NextStamped
<1> QED
  BY <1>1, <1>2, PTL DEF Spec

(* The record id on every queued FlowFile names that FlowFile's record or  *)
(* none that exists, for any flows, any capacity and any power losses.     *)
THEOREM StampsTrue == Spec => []StampsAreTrue
<1>1. Inv /\ Stamped => StampsAreTrue
  BY DEF Stamped, QueuesStamped, StampsAreTrue
<1> QED
  BY <1>1, StampedInvariant, PTL

(* A copy whose record a step removes under a reason is logged for it.     *)
LEMMA LostIsLogged ==
  ASSUME TypeOK, NEW e \in Event, LogLost(e),
         NEW r \in RecordId, flash[r] \in Copy, flash'[r] # flash[r]
  PROVE  flash[r] \in log'[e]
<1>1. flash[r] \in LoggedCopy
  BY DEF Copy, LoggedCopy
<1>2. flash[r] \in {flash[q] : q \in {s \in RecordId : flash'[s] # flash[s]}}
  OBVIOUS
<1> QED
  BY <1>1, <1>2 DEF LogLost, Logged, TypeOK

(* Whatever removes a complete record, the copy in it has been logged as   *)
(* handled or as given up for one of the reasons of the code.              *)
LEMMA ErasedIsEnded ==
  ASSUME Inv, Stamped, Work,
         NEW r \in RecordId, flash[r] \in Copy, flash'[r] # flash[r]
  PROVE  flash[r] \in Ended'
<1> DEFINE Reason == {"handled", "evicted", "refused", "overflowed",
                      "orphaned", "scrapped"}
<1>0. /\ \A e \in Reason : e \in Event /\ log'[e] \subseteq Ended'
      /\ r \notin open /\ TypeOK
  <2>1. flash[r] # Torn
    BY StoreAssumption, EngineAssumption
  <2> QED
    BY <2>1 DEF Inv, StoreInv, OpenIsTorn, Event, Ended
<1>1. ASSUME NEW e \in Reason, LogLost(e)
      PROVE  flash[r] \in Ended'
  BY <1>0, <1>1, LostIsLogged
<1>2. CASE WriteRefused \/ \E t \in 1 .. MaxRecord + 1 : WriteBegins(t)
  <2>1. LogLost("evicted")
    BY <1>2 DEF WriteBegins, WriteRefused, storeVars
  <2> QED
    BY <1>1, <2>1
<1>3. CASE WriteCompletes \/ WriteFallsShort \/ WriteTears
  <2>1. copy.rec \in open /\ \A q \in RecordId : flash'[q] # flash[q] => q = copy.rec
    BY <1>3 DEF WriteCompletes, WriteFallsShort, WriteTears, Commit, Abort, Tear, Inv, StoreInv,
       StoreTypeOK
  <2> QED
    BY <1>0, <2>1
<1>4. CASE EnqueueFull
  <2>1. LogLost("refused")
    BY <1>4 DEF EnqueueFull, storeVars
  <2> QED
    BY <1>1, <2>1
<1>5. CASE EraseProcessed
  <2>1. in.rec = r /\ IsHandled(in) /\ UNCHANGED log
    BY <1>5 DEF EraseProcessed, EraseRecord, Erase, storeVars, Inv, StoreInv,
       StoreTypeOK, Stamped, InputStamped
  <2>2. flash[r] \in log["handled"]
    BY <2>1, StoreAssumption DEF IsHandled, RecordId
  <2> QED
    BY <1>0, <2>1, <2>2
<1>6. CASE ReplayErases
  <2>1. LogLost("orphaned") \/ LogLost("scrapped") \/ LogLost("overflowed")
    BY <1>6 DEF ReplayErases
  <2> QED
    BY <1>1, <2>1
<1>7. \/ WriteRefused \/ \E t \in 1 .. MaxRecord + 1 : WriteBegins(t)
      \/ WriteCompletes \/ WriteFallsShort \/ WriteTears
      \/ EnqueueFull \/ EraseProcessed \/ ReplayErases
  BY DEF storeVars, Work, EngineStep, ReplayStep, StartTick, ApplyPending,
     EndTick, BeginNode, Emit, SourceReturns, Pop, Drained, TriggerFails,
     TriggerWorks, NoWrite, Enqueue, TransferDone, ReplayBegins,
     ReplayGivesUp, ReplayReads, ReplayCannotRead, ReplayPushes,
     ReplayAdvances, Apply
<1> QED
  BY <1>2, <1>3, <1>4, <1>5, <1>6, <1>7

(* What is logged as persisted is what a record can hold.                  *)
PersistedAreCopies == log["persisted"] \subseteq Copy

(* A step that logs what it removes persists nothing.                      *)
LEMMA LosingPersistsNothing ==
  ASSUME Inv, NEW e \in Event \ {"persisted"}, LogLost(e)
  PROVE  log'["persisted"] = log["persisted"]
BY DEF LogLost, Logged, Inv, TypeOK, Event

(* A step that persists a copy leaves it in its record.                    *)
LEMMA PersistedIsOnFlash ==
  ASSUME Inv, Work, NEW k \in log'["persisted"], k \notin log["persisted"]
  PROVE  k \in Copy /\ OnFlash(k)'
<1>1. CASE WriteCompletes
  <2>1. PICK c \in todo :
          /\ IsFirst(c, todo)
          /\ Commit(copy.rec, <<copy.origin, IdOf(c)>>)
          /\ Logged("persisted", {<<copy.origin, IdOf(c)>>})
    BY <1>1 DEF WriteCompletes
  <2>2. k = <<copy.origin, IdOf(c)>>
    BY <2>1 DEF Logged, Inv, TypeOK, Event
  <2>3. IdOf(c) \in ConnId /\ copy.origin \in Origin /\ copy.rec \in RecordId
    BY <1>1, <2>1, SlotsAreNumbers
       DEF WriteCompletes, Inv, Control, TypeOK, FlowFile, Commit, StoreInv,
           StoreTypeOK
  <2>4. flash'[copy.rec] = k
    BY <2>1, <2>2, <2>3 DEF Commit, Inv, StoreInv, StoreTypeOK
  <2> QED
    BY <2>2, <2>3, <2>4 DEF Copy, OnFlash
<1>2. CASE ~WriteCompletes
  <2> USE DEF Inv, TypeOK
  <2>1. CASE UNCHANGED log
    BY <2>1
  <2>2. CASE TriggerWorks
    BY <2>2 DEF TriggerWorks, Logged
  <2>3. CASE WriteRefused
    <3>1. log' = log \/ LogLost("evicted")
      BY <2>3 DEF WriteRefused
    <3> QED
      BY <3>1, LosingPersistsNothing DEF Event
  <2>4. ASSUME NEW t \in 1 .. MaxRecord + 1, WriteBegins(t)
        PROVE  FALSE
    BY <2>4, LosingPersistsNothing DEF WriteBegins, Event
  <2>5. CASE EnqueueFull
    <3>1. log' = log \/ LogLost("refused")
      BY <2>5 DEF EnqueueFull
    <3> QED
      BY <3>1, LosingPersistsNothing DEF Event
  <2>6. CASE ReplayPushes
    <3>1. log' = log \/ Logged("replayed", {rcopy})
      BY <2>6 DEF ReplayPushes
    <3> QED
      BY <3>1 DEF Logged, Event
  <2>7. CASE ReplayErases
    <3> HIDE DEF Inv, TypeOK
    <3>1. LogLost("orphaned") \/ LogLost("scrapped") \/ LogLost("overflowed")
      BY <2>7 DEF ReplayErases
    <3> QED
      BY <3>1, LosingPersistsNothing DEF Event
  <2> QED
    BY <1>2, <2>1, <2>2, <2>3, <2>4, <2>5, <2>6, <2>7, StepsThatLog
<1> QED
  BY <1>1, <1>2

(* Every step, a power loss included, keeps what has been persisted.       *)
LEMMA NextNothingVanishes ==
  ASSUME Inv, Stamped, NothingVanishes, PersistedAreCopies, [Next]_vars
  PROVE  NothingVanishes' /\ PersistedAreCopies'
<1>1. CASE Work
  <2>1. Ended \subseteq Ended'
    BY <1>1, LogGrows DEF Ended, Event
  <2>2. ASSUME NEW k \in log["persisted"], k \notin Ended'
        PROVE  OnFlash(k)'
    <3>1. PICK r \in RecordId : flash[r] = k
      BY <2>1, <2>2 DEF NothingVanishes, OnFlash
    <3>2. flash'[r] = k
      BY <1>1, <2>2, <3>1, ErasedIsEnded DEF PersistedAreCopies
    <3> QED
      BY <3>2 DEF OnFlash
  <2>3. ASSUME NEW k \in log'["persisted"], k \notin log["persisted"]
        PROVE  k \in Copy /\ OnFlash(k)'
    BY <1>1, <2>3, PersistedIsOnFlash
  <2> QED
    BY <2>2, <2>3 DEF NothingVanishes, PersistedAreCopies
<1>2. CASE UNCHANGED <<flash, log>>
  BY <1>2 DEF NothingVanishes, PersistedAreCopies, OnFlash, Ended
<1>3. Work \/ UNCHANGED <<flash, log>>
  BY DEF Next, Work, PowerLoss, Remount, vars, storeVars
<1> QED
  BY <1>1, <1>2, <1>3

(* No interleaving of the engine, replay and power losses removes a record *)
(* whose FlowFile was neither processed nor given up for a reason.         *)
THEOREM NothingEverVanishes == Spec => []NothingVanishes
<1>1. Init => NothingVanishes /\ PersistedAreCopies
  BY DEF Init, NothingVanishes, PersistedAreCopies, Event
<1>2. Inv /\ Stamped /\ NothingVanishes /\ PersistedAreCopies /\ [Next]_vars
        => NothingVanishes' /\ PersistedAreCopies'
  BY NextNothingVanishes
<1> QED
  BY <1>1, <1>2, StampedInvariant, PTL DEF Spec

(* An erasure that fails without a fault, and not because replay reads the *)
(* file, met one a write holds open.                                       *)
LEMMA ErasedOrOpen ==
  ASSUME Inv, NEW r \in RecordId, EraseRecord(r), ~FlashFaults, rpc # "read"
  PROVE  flash'[r] = Absent \/ r \in open
  BY DEF EraseRecord, Erase, Inv, StoreInv, StoreTypeOK

(* A step of the tasks removes records or adds one that is not older than  *)
(* the boot.                                                               *)
LEMMA WorkAddsYoung ==
  ASSUME Inv, ReplayCovers, Work
  PROVE  /\ bootId' = bootId /\ bootId <= nextId'
         /\ \A r \in open' : bootId <= r
         /\ \A r \in Stored' : r < bootId => r \in Stored
<1> USE StoreAssumption DEF Inv, TypeOK, StoreInv, StoreTypeOK, RecordId, ReplayCovers
<1>1. bootId' = bootId
  BY DEF Work, EngineStep, ReplayStep, StartTick, ApplyPending, EndTick,
     BeginNode, Emit, SourceReturns, Pop, Drained, TriggerFails, TriggerWorks,
     EraseProcessed, WriteBegins, WriteRefused, WriteCompletes,
     WriteFallsShort, WriteTears, NoWrite, Enqueue, EnqueueFull, TransferDone,
     ReplayBegins, ReplayGivesUp, ReplayReads, ReplayCannotRead, ReplayPushes,
     ReplayErases, ReplayAdvances, Apply
<1> DEFINE Goal == /\ bootId <= nextId'
                   /\ \A r \in open' : bootId <= r
                   /\ \A r \in Stored' : r < bootId => r \in Stored
<1>2. ASSUME NEW t \in 1 .. MaxRecord + 1, Reserve(t)
      PROVE  Goal
  <2>1. nextId \in RecordId /\ nextId' = nextId + 1 /\ open' = open \cup {nextId}
    BY <1>2 DEF Reserve
  <2>2. ASSUME NEW r \in Stored', r < bootId
        PROVE  r \in Stored
    BY <1>2, <2>1, <2>2 DEF Reserve, Evicted, Stored
  <2> QED
    BY <2>1, <2>2
<1>6. ASSUME NEW t \in 1 .. MaxRecord + 1, Burn(t)
      PROVE  Goal
  <2>1. nextId' = nextId + 1 /\ open' = open
    BY <1>6 DEF Burn
  <2>2. ASSUME NEW r \in Stored', r < bootId
        PROVE  r \in Stored
    BY <1>6, <2>2 DEF Burn, Evicted, Stored
  <2> QED
    BY <2>1, <2>2
<1>3. ASSUME NEW r \in RecordId, NEW p \in Payload, Commit(r, p)
      PROVE  Goal
  BY <1>3 DEF Commit, Stored
<1>4. ASSUME NEW r \in RecordId, Abort(r) \/ Tear(r) \/ Erase(r)
      PROVE  Goal
  BY <1>4 DEF Abort, Tear, Erase, Stored
<1>5. ASSUME UNCHANGED storeVars
      PROVE  Goal
  BY <1>5 DEF storeVars, Stored
<1>7. StoreOperation \/ UNCHANGED storeVars
  BY WorkIsStoreOperation
<1>8. Goal
  <2> HIDE DEF Goal
  <2> QED
    BY <1>2, <1>3, <1>4, <1>5, <1>6, <1>7 DEF StoreOperation
<1> QED
  BY <1>1, <1>8

(* Replay passes no record by, whatever the engine does meanwhile.         *)
LEMMA WorkReplayCovers ==
  ASSUME Inv, ReplayCovers, Work
  PROVE  ReplayCovers'
<1> DEFINE Covered(r) ==
      \/ r \in restored
      \/ rpc = "oldest"
      \/ rpc # "done" /\ cur < r
      \/ rpc \in {"read", "push", "orphan", "scrap", "full"} /\ cur = r
<1> USE StoreAssumption DEF Inv, TypeOK, ReplayCovers, RecordId
<1> SUFFICES ASSUME ~FlashFaults, NEW r \in Stored', r < bootId
             PROVE  Covered(r)'
  BY WorkAddsYoung
<1>1. r \in Stored /\ Covered(r) /\ r \in RecordId
  BY WorkAddsYoung DEF Stored
<1>2. CASE UNCHANGED replayVars
  BY <1>1, <1>2 DEF replayVars
<1>3. CASE ReplayBegins
  BY <1>1, <1>3 DEF ReplayBegins, IsFirst, Stored
<1>4. CASE ReplayReads \/ ReplayCannotRead
  BY <1>1, <1>4 DEF ReplayReads, ReplayCannotRead
<1>5. CASE ReplayPushes
  BY <1>1, <1>5 DEF ReplayPushes, replayVars
<1>6. CASE ReplayErases
  <2>1. cur \in RecordId /\ rpc # "read"
    BY <1>6 DEF ReplayErases, Control
  <2>2. cur # r
    BY <1>1, <1>6, <2>1, ErasedOrOpen DEF ReplayErases, Stored
  <2> QED
    BY <1>1, <1>6, <2>2 DEF ReplayErases
<1>7. CASE ReplayAdvances
  BY <1>1, <1>7 DEF ReplayAdvances, IsFirst, Stored
<1>8. CASE ReplayGivesUp
  BY <1>8 DEF ReplayGivesUp
<1> QED
  BY <1>2, <1>3, <1>4, <1>5, <1>6, <1>7, <1>8
     DEF Work, EngineStep, ReplayStep, StartTick, ApplyPending, EndTick,
     BeginNode, Emit, SourceReturns, Pop, Drained, TriggerFails, TriggerWorks,
     EraseProcessed, WriteBegins, WriteRefused, WriteCompletes,
     WriteFallsShort, WriteTears, NoWrite, Enqueue, EnqueueFull, TransferDone, Apply

(* Every step, a power loss included, keeps track of the old records.      *)
LEMMA NextReplayCovers ==
  ASSUME Inv, Inv', ReplayCovers, [Next]_vars
  PROVE  ReplayCovers'
<1>1. CASE Work
  BY <1>1, WorkReplayCovers
<1>2. ASSUME NEW f \in Flows, PowerLoss(f)
      PROVE  ReplayCovers'
  <2>1. bootId' = nextId' /\ open' = {} /\ rpc' = "oldest"
    BY <1>2 DEF PowerLoss, Remount
  <2>2. nextId' \in Nat
    BY StoreAssumption DEF Inv, StoreInv, StoreTypeOK
  <2> QED
    BY <2>1, <2>2 DEF ReplayCovers
<1>3. CASE UNCHANGED vars
  BY <1>3 DEF vars, storeVars, replayVars, ReplayCovers, Stored
<1> QED
  BY <1>1, <1>2, <1>3 DEF Next, Work

(* What replay has yet to do is known in every reachable state.            *)
LEMMA ReplayCoversInvariant == Spec => []ReplayCovers
<1>1. Init => ReplayCovers
  BY DEF Init, StoreInit, ReplayCovers
<1>2. Inv /\ ReplayCovers /\ Inv' /\ [Next]_vars => ReplayCovers'
  BY NextReplayCovers
<1> QED
  BY <1>1, <1>2, Invariant, PTL DEF Spec

(* When replay ends it has pushed every record an earlier boot left that   *)
(* still exists, provided the file system does not fail.                   *)
THEOREM ReplayIsComplete == Spec => []ReplayMissesNothing
<1>1. ReplayCovers => ReplayMissesNothing
  BY DEF ReplayCovers, ReplayMissesNothing
<1> QED
  BY <1>1, ReplayCoversInvariant, PTL

----------------------------------------------------------------------------
(* The order of what earlier boots left.                                   *)

(* A record id an earlier boot handed out.                                 *)
Old(r, b) == 0 < r /\ r < b

(* The records replay has passed, or has just pushed.                      *)
Passed ==
  {r \in RecordId : /\ rpc # "oldest"
                    /\ r < cur \/ (r = cur /\ rpc \in {"next", "done"})}

(* The old records of a queue are in order, and in P.                      *)
InOrder(q, b, P) ==
  /\ \A i, j \in 1 .. Len(q) :
       i < j /\ Old(q[i].rec, b) /\ Old(q[j].rec, b) => q[i].rec < q[j].rec
  /\ \A i \in 1 .. Len(q) : Old(q[i].rec, b) => q[i].rec \in P

(* A source creates FlowFiles without a record: what it transfers has none *)
(* or one written since the boot.                                          *)
SourceInv ==
  /\ Transferring => todo \subseteq Outs(node)
  /\ Transferring /\ IsSource(node) => out.rec = 0
  /\ pc \in {"write", "enqueue"} /\ IsSource(node) => ~Old(copy.rec, bootId)

(* The old records in the queue of a source are in order, and behind the   *)
(* place replay has come to.                                               *)
QueueInv ==
  \A c \in Slots :
    IsSource(flow.conns[c].src) => InOrder(queues[c], bootId, Passed)

LEMMA TailInOrder ==
  ASSUME NEW q \in Seq(FlowFile), q # <<>>, NEW b, NEW P, InOrder(q, b, P)
  PROVE  InOrder(Tail(q), b, P)
<1>1. /\ Len(q) \in Nat /\ Len(q) > 0
      /\ Len(Tail(q)) = Len(q) - 1
      /\ \A i \in 1 .. Len(Tail(q)) : Tail(q)[i] = q[i + 1]
  OBVIOUS
<1>2. \A i \in 1 .. Len(Tail(q)) : i + 1 \in 1 .. Len(q)
  BY <1>1
<1>3. \A i, j \in 1 .. Len(Tail(q)) : i < j => i + 1 < j + 1
  BY <1>1
<1> QED
  BY <1>1, <1>2, <1>3 DEF InOrder

LEMMA AppendInOrder ==
  ASSUME NEW q \in Seq(FlowFile), NEW f \in FlowFile, NEW b, NEW P,
         InOrder(q, b, P),
         Old(f.rec, b) => f.rec \in P /\ \A r \in P : r = f.rec \/ r < f.rec,
         \A i \in 1 .. Len(q) : Old(q[i].rec, b) => q[i].rec # f.rec
  PROVE  InOrder(Append(q, f), b, P)
<1> DEFINE p == Append(q, f)
<1>1. /\ Len(q) \in Nat /\ Len(p) = Len(q) + 1 /\ p[Len(q) + 1] = f
      /\ \A i \in 1 .. Len(q) : p[i] = q[i]
  OBVIOUS
<1> HIDE DEF p
<1>2. ASSUME NEW i \in 1 .. Len(p), NEW j \in 1 .. Len(p), i < j,
             Old(p[i].rec, b), Old(p[j].rec, b)
      PROVE  p[i].rec < p[j].rec
  <2>1. i \in 1 .. Len(q) /\ p[i] = q[i]
    BY <1>1, <1>2
  <2>2. CASE j = Len(q) + 1
    BY <1>1, <1>2, <2>1, <2>2 DEF InOrder
  <2>3. CASE j # Len(q) + 1
    <3>1. j \in 1 .. Len(q) /\ p[j] = q[j]
      BY <1>1, <2>3
    <3> QED
      BY <1>2, <2>1, <3>1 DEF InOrder
  <2> QED
    BY <2>2, <2>3
<1>3. ASSUME NEW i \in 1 .. Len(p), Old(p[i].rec, b)
      PROVE  p[i].rec \in P
  <2>1. CASE i = Len(q) + 1
    BY <1>1, <1>3, <2>1
  <2>2. CASE i # Len(q) + 1
    <3>1. i \in 1 .. Len(q) /\ p[i] = q[i]
      BY <1>1, <2>2
    <3> QED
      BY <1>3, <3>1 DEF InOrder
  <2> QED
    BY <2>1, <2>2
<1>4. InOrder(p, b, P)
  BY <1>2, <1>3 DEF InOrder
<1> QED
  BY <1>4 DEF p

LEMMA InOrderGrows ==
  ASSUME NEW q, NEW b, NEW P, NEW Q, P \subseteq Q, InOrder(q, b, P)
  PROVE  InOrder(q, b, Q)
BY DEF InOrder

LEMMA EngineSource ==
  ASSUME Inv, Inv', SourceInv, ReplayCovers, EngineStep
  PROVE  SourceInv'
<1> USE DEF SourceInv, Transferring, Old, IsSource, Ins, Outs, Slots
<1>0. bootId <= nextId /\ bootId \in Nat /\ nextId \in Nat
  BY StoreAssumption DEF ReplayCovers, Inv, TypeOK, StoreTypeOK
<1>1. CASE StartTick \/ ApplyPending \/ EndTick \/ BeginNode \/ SourceReturns
  BY <1>1 DEF StartTick, ApplyPending, EndTick, BeginNode, SourceReturns
<1>2. CASE Emit
  BY <1>2 DEF Emit
<1>3. CASE Pop \/ Drained \/ TriggerFails \/ EraseProcessed
  BY <1>3 DEF Pop, Drained, TriggerFails, EraseProcessed
<1>4. CASE TriggerWorks
  BY <1>4 DEF TriggerWorks, Inv, Control
<1>5. ASSUME NEW t \in 1 .. MaxRecord + 1, WriteBegins(t)
      PROVE  SourceInv'
  BY <1>0, <1>5 DEF WriteBegins, Inv, Control, FlowFile
<1>6. CASE WriteRefused \/ WriteFallsShort \/ NoWrite
  <2>1. /\ pc \in {"push", "write"} /\ pc' = "enqueue" /\ copy' = out
        /\ UNCHANGED <<flow, node, out, todo, bootId>>
    BY <1>6 DEF WriteRefused, WriteFallsShort, NoWrite, Pushing
  <2> QED
    BY <2>1
<1>7. CASE WriteCompletes \/ WriteTears
  BY <1>7 DEF WriteCompletes, WriteTears
<1>8. CASE Enqueue \/ TransferDone
  BY <1>8 DEF Enqueue, TransferDone
<1>9. CASE EnqueueFull
  BY <1>9 DEF EnqueueFull, TransferFails
<1> QED
  BY <1>1, <1>2, <1>3, <1>4, <1>5, <1>6, <1>7, <1>8, <1>9 DEF EngineStep

LEMMA NextSource ==
  ASSUME Inv, Inv', SourceInv, ReplayCovers, [Next]_vars
  PROVE  SourceInv'
<1>1. ASSUME ReplayStep \/ \E f \in Flows : Apply(f)
      PROVE  SourceInv'
  <2>1. UNCHANGED <<flow, engineVars, bootId>>
    BY <1>1 DEF ReplayStep, ReplayBegins, ReplayGivesUp, ReplayReads,
       ReplayCannotRead, ReplayPushes, ReplayErases, ReplayAdvances, Apply
  <2> QED
    BY <2>1 DEF SourceInv, engineVars, Transferring, IsSource, Ins, Outs, Slots
<1>2. ASSUME NEW f \in Flows, PowerLoss(f)
      PROVE  SourceInv'
  BY <1>2 DEF PowerLoss, SourceInv, Transferring
<1>3. CASE UNCHANGED vars
  BY <1>3 DEF vars, SourceInv, engineVars, Transferring, IsSource, Ins, Outs,
     Slots
<1> QED
  BY <1>1, <1>2, <1>3, EngineSource DEF Next

(* Replay moves on: what it had passed stays passed.                       *)
LEMMA PassedStays ==
  ASSUME Inv, ReplayStep
  PROVE  \A r \in Passed : r \in Passed'
<1> USE StoreAssumption DEF Passed, Inv, TypeOK, Control, RecordId
<1>1. CASE ReplayBegins
  BY <1>1 DEF ReplayBegins
<1>2. CASE ReplayGivesUp \/ ReplayReads \/ ReplayCannotRead
  BY <1>2 DEF ReplayGivesUp, ReplayReads, ReplayCannotRead
<1>3. CASE ReplayPushes \/ ReplayErases
  BY <1>3 DEF ReplayPushes, ReplayErases
<1>4. CASE ReplayAdvances
  BY <1>4 DEF ReplayAdvances, IsFirst, Stored
<1> QED
  BY <1>1, <1>2, <1>3, <1>4 DEF ReplayStep

LEMMA WorkQueues ==
  ASSUME Inv, Inv', SourceInv, QueueInv, Work
  PROVE  QueueInv'
<1>1. /\ flow \in Flows /\ bootId' = bootId
      /\ \A c \in Slots : queues[c] \in Seq(FlowFile)
  BY DEF Inv, TypeOK, Work, EngineStep, ReplayStep, StartTick, ApplyPending,
     EndTick, BeginNode, Emit, SourceReturns, Pop, Drained, TriggerFails,
     TriggerWorks, EraseProcessed, WriteBegins, WriteRefused, WriteCompletes,
     WriteFallsShort, WriteTears, NoWrite, Enqueue, EnqueueFull, TransferDone,
     ReplayBegins, ReplayGivesUp, ReplayReads, ReplayCannotRead, ReplayPushes,
     ReplayErases, ReplayAdvances, Apply
<1>2. PICK Q : Q = Passed'
  OBVIOUS
<1>3. Passed \subseteq Q
  <2>1. UNCHANGED <<rpc, cur>> \/ ReplayStep
    BY DEF Work, EngineStep, StartTick, ApplyPending, EndTick, BeginNode,
       Emit, SourceReturns, Pop, Drained, TriggerFails, TriggerWorks,
       EraseProcessed, WriteBegins, WriteRefused, WriteCompletes,
       WriteFallsShort, WriteTears, NoWrite, Enqueue, EnqueueFull,
       TransferDone, Apply, replayVars
  <2>2. CASE UNCHANGED <<rpc, cur>>
    BY <1>2, <2>2 DEF Passed
  <2> QED
    BY <1>2, <2>1, <2>2, PassedStays
<1>4. ASSUME UNCHANGED flow,
             \A c \in Slots : IsSource(flow.conns[c].src) =>
               InOrder(queues'[c], bootId, Q)
      PROVE  QueueInv'
  BY <1>1, <1>2, <1>4 DEF QueueInv, Slots, IsSource, Ins
<1>5. ASSUME NEW c \in Slots, IsSource(flow.conns[c].src)
      PROVE  InOrder(queues[c], bootId, Passed) /\ InOrder(queues[c], bootId, Q)
  BY <1>3, <1>5, InOrderGrows DEF QueueInv
<1>6. CASE UNCHANGED <<queues, flow>>
  BY <1>4, <1>5, <1>6
<1>7. CASE ApplyPending
  BY <1>7 DEF ApplyPending, EmptyQueues, Slots, InOrder, QueueInv
<1>8. CASE Pop
  <2>1. /\ slot \in Slots /\ UNCHANGED flow
        /\ queues' = [queues EXCEPT ![slot] = Tail(@)]
        /\ queues \in [Slots -> Seq(FlowFile)] /\ queues[slot] # <<>>
    BY <1>8 DEF Pop, Inv, TypeOK, Control, Ins
  <2>2. ASSUME NEW c \in Slots, IsSource(flow.conns[c].src)
        PROVE  InOrder(queues'[c], bootId, Q)
    <3>1. CASE c = slot
      BY <1>5, <2>1, <2>2, <3>1, TailInOrder
    <3>2. CASE c # slot
      BY <1>5, <2>1, <2>2, <3>2
    <3> QED
      BY <3>1, <3>2
  <2> QED
    BY <1>4, <2>1, <2>2
<1>9. CASE Enqueue
  <2>1. PICK d \in todo : queues' = [queues EXCEPT ![d] = Append(@, copy)]
    BY <1>9 DEF Enqueue, Pushed
  <2>2. /\ d \in Slots /\ queues \in [Slots -> Seq(FlowFile)]
        /\ copy \in FlowFile /\ UNCHANGED flow /\ pc = "enqueue"
    BY <1>9 DEF Enqueue, Inv, TypeOK, Control
  <2>3. IsSource(flow.conns[d].src) => ~Old(copy.rec, bootId)
    BY <2>1, <2>2 DEF SourceInv, Transferring, Outs
  <2>4. ASSUME NEW c \in Slots, IsSource(flow.conns[c].src)
        PROVE  InOrder(queues'[c], bootId, Q)
    <3>1. CASE c = d
      <4>1. queues'[c] = Append(queues[c], copy) /\ queues[c] \in Seq(FlowFile)
        BY <2>1, <2>2, <3>1
      <4>2. ~Old(copy.rec, bootId)
        BY <2>3, <2>4, <3>1
      <4>3. \A i \in 1 .. Len(queues[c]) :
              Old(queues[c][i].rec, bootId) => queues[c][i].rec # copy.rec
        BY <4>2
      <4>4. InOrder(queues[c], bootId, Q)
        BY <1>5, <2>4
      <4> QED
        BY <2>2, <4>1, <4>2, <4>3, <4>4, AppendInOrder
    <3>2. CASE c # d
      BY <1>5, <2>1, <2>2, <2>4, <3>2
    <3> QED
      BY <3>1, <3>2
  <2> QED
    BY <1>4, <2>2, <2>4
<1>10. CASE ReplayPushes /\ ~UNCHANGED queues
  <2> DEFINE g == [origin |-> rcopy[1], rec |-> cur]
  <2>1. PICK d \in Slots : queues' = [queues EXCEPT ![d] = Append(@, g)]
    BY <1>10 DEF ReplayPushes, Pushed
  <2>2. /\ rcopy \in Copy /\ cur \in RecordId /\ rpc = "push"
        /\ rpc' = "next" /\ cur' = cur /\ UNCHANGED flow
        /\ queues \in [Slots -> Seq(FlowFile)]
    BY <1>10 DEF ReplayPushes, Inv, TypeOK, Control
  <2>3. g \in FlowFile /\ g.rec = cur
    BY <2>2, StoreAssumption DEF Copy, FlowFile, RecordId
  <2>4. /\ cur \in Q /\ cur \notin Passed
        /\ \A r \in Q : r = cur \/ r < cur
    BY <1>2, <2>2, StoreAssumption DEF Passed, RecordId
  <2> HIDE DEF g
  <2>5. ASSUME NEW c \in Slots, IsSource(flow.conns[c].src)
        PROVE  InOrder(queues'[c], bootId, Q)
    <3>1. CASE c = d
      <4>1. queues'[c] = Append(queues[c], g) /\ queues[c] \in Seq(FlowFile)
        BY <2>1, <2>2, <3>1
      <4>2. \A i \in 1 .. Len(queues[c]) :
              Old(queues[c][i].rec, bootId) => queues[c][i].rec # g.rec
        BY <1>5, <2>3, <2>4, <2>5 DEF InOrder
      <4>3. InOrder(queues[c], bootId, Q)
        BY <1>5, <2>5
      <4> QED
        BY <2>3, <2>4, <4>1, <4>2, <4>3, AppendInOrder
    <3>2. CASE c # d
      BY <1>5, <2>1, <2>2, <2>5, <3>2
    <3> QED
      BY <3>1, <3>2
  <2> QED
    BY <1>4, <2>2, <2>5
<1>11. \/ UNCHANGED <<queues, flow>> \/ ApplyPending \/ Pop \/ Enqueue
       \/ ReplayPushes /\ ~UNCHANGED queues
  BY DEF Work, EngineStep, ReplayStep, StartTick, EndTick, BeginNode, Emit,
     SourceReturns, Drained, TriggerFails, TriggerWorks, EraseProcessed,
     WriteBegins, WriteRefused, WriteCompletes, WriteFallsShort, WriteTears, NoWrite,
     EnqueueFull, TransferDone, ReplayBegins, ReplayGivesUp, ReplayReads,
     ReplayCannotRead, ReplayPushes, ReplayErases, ReplayAdvances, Apply
<1> QED
  BY <1>6, <1>7, <1>8, <1>9, <1>10, <1>11

LEMMA NextQueues ==
  ASSUME Inv, Inv', SourceInv, QueueInv, [Next]_vars
  PROVE  QueueInv'
<1>1. ASSUME NEW f \in Flows, PowerLoss(f)
      PROVE  QueueInv'
  BY <1>1 DEF PowerLoss, QueueInv, EmptyQueues, Slots, InOrder
<1>2. CASE UNCHANGED vars
  BY <1>2 DEF vars, replayVars, QueueInv, Passed, Slots, IsSource, Ins
<1> QED
  BY <1>1, <1>2, WorkQueues DEF Next, Work

(* What earlier boots left for the connection of a source is queued oldest *)
(* first, though the source keeps adding to the same queue.                *)
THEOREM ReplayKeepsOrder == Spec => []OldestFirst
<1>1. Init => SourceInv /\ QueueInv
  BY DEF Init, SourceInv, QueueInv, Transferring, EmptyQueues, Slots, InOrder
<1>2. Inv /\ Inv' /\ SourceInv /\ QueueInv /\ ReplayCovers /\ [Next]_vars
        => SourceInv' /\ QueueInv'
  BY NextSource, NextQueues
<1>3. QueueInv => OldestFirst
  BY DEF QueueInv, OldestFirst, InOrder, Old
<1> QED
  BY <1>1, <1>2, <1>3, Invariant, ReplayCoversInvariant, PTL DEF Spec
=============================================================================
