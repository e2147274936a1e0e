----------------------------- MODULE FlowEngine -----------------------------
(***************************************************************************)
(* The flow engine, its connection queues and the record store under them. *)
(*                                                                         *)
(* Three tasks touch this state.  The engine task ticks through the nodes  *)
(* of the current flow: a node without incoming connections is a source    *)
(* and is triggered once, any other node drains each incoming queue.  The  *)
(* main task, once per boot and while the engine is already ticking, walks *)
(* the record store and pushes what it finds back into the queues          *)
(* (replay_from_repository).  The C2 task, started after that walk, hands  *)
(* the engine new flows (apply).  Power may fail between any two steps.    *)
(*                                                                         *)
(* A FlowFile is its origin (which FlowFile it is, 1 .. MaxFlowFile) and   *)
(* its record id (0: not persisted).  A record holds a copy: the origin    *)
(* and the id of the connection the FlowFile was persisted for.            *)
(***************************************************************************)
EXTENDS RecordStore, Sequences

CONSTANTS
  MaxFlowFile,    \* bound of the model: FlowFiles the sources create
  MaxBoot,        \* bound of the model: power losses
  QueueCapacity,  \* kQueueCapacity
  ConnId,         \* connection ids, the UUIDs the flow designer assigns
  NoId,           \* the empty id of a boot-default connection
  Flows,          \* the flows the device may run or be given
  NoFlow,         \* no flow is waiting to be applied
  FlashFaults     \* whether a file operation may fail

Origin == 1 .. MaxFlowFile
Copy   == Origin \X ConnId

(* A flow as the engine runs it: how many nodes, triggered in the order    *)
(* 1, 2, ..., and the connection in each slot.                             *)
Connection == [src : Nat, dst : Nat, id : ConnId \cup {NoId}]

ASSUME EngineAssumption ==
  /\ MaxFlowFile \in Nat /\ MaxBoot \in Nat
  /\ Payload = Copy
  /\ QueueCapacity \in Nat \ {0}
  /\ NoId \notin ConnId
  /\ Flows # {} /\ NoFlow \notin Flows
  /\ \A f \in Flows : f.nodes \in Nat /\ f.conns \in Seq(Connection)
  /\ FlashFaults \in BOOLEAN

VARIABLES
  flow,      \* nodes_ and connections_: the flow the engine runs
  pending,   \* pending_def_, or NoFlow while pending_apply_ is false
  queues,    \* queues_[c], for each connection slot c of the flow
  pc,        \* where the engine task is
  node,      \* the node it runs
  slot,      \* the incoming connection it drains
  in,        \* the FlowFile it popped there
  out,       \* the FlowFile a processor transfers
  todo,      \* the connections transfer has still to push it on
  copy,      \* the argument of try_push: out, stamped once persisted
  rpc,       \* where the replay by the main task is
  cur,       \* the record replay is at
  rcopy,     \* what replay has read from it
  boots,     \* power losses so far
  born,      \* FlowFiles created so far
  bootId,    \* nextId at the last boot
  restored,  \* the records replay has pushed since the last boot
  log        \* the copies each event has happened to

engineVars == <<pc, node, slot, in, out, todo, copy>>
replayVars == <<rpc, cur, rcopy, restored>>
vars == <<storeVars, flow, pending, queues, engineVars, replayVars,
          boots, born, bootId, log>>

FlowFile == [origin : Origin, rec : 0 .. MaxRecord]
Nothing  == [origin |-> 0, rec |-> 0]
NoCopy   == <<0, NoId>>

----------------------------------------------------------------------------
(* The graph of the current flow.                                          *)
Slots     == DOMAIN flow.conns
IdOf(c)   == flow.conns[c].id
Ins(n)    == {c \in Slots : flow.conns[c].dst = n}
Outs(n)   == {c \in Slots : flow.conns[c].src = n}
IsSource(n) == Ins(n) = {}

IsFirst(c, S) == c \in S /\ \A d \in S : c <= d

(* Mutant: a pushed FlowFile goes to the front.                            *)
PushedInFront(q, f) == <<f>> \o q

(* The ring buffer with f added at its tail.                               *)
Pushed(q, f) == Append(q, f)

EmptyQueues(f) == [c \in DOMAIN f.conns |-> <<>>]

(* What can happen to a copy: it was persisted; a node returned Ok for the *)
(* FlowFile it is a copy of; that happened once more; its record was       *)
(* evicted, erased because the queue was full for a new FlowFile or for a  *)
(* replayed one, erased because no connection has its id, or erased        *)
(* because replay could not read it; or replay pushed it.                  *)
Event == {"persisted", "handled", "repeated", "evicted", "refused",
          "overflowed", "orphaned", "scrapped", "replayed"}

LoggedCopy == Origin \X (ConnId \cup {NoId})

Logged(e, S) == log' = [log EXCEPT ![e] = @ \cup (S \cap LoggedCopy)]

(* The copies whose record this step removes.                              *)
LogLost(e) ==
  Logged(e, {flash[r] : r \in {s \in RecordId : flash'[s] # flash[s]}})

(* The repository's erase, whose result every caller ignores.  It fails    *)
(* while the file is open, be it to be written or to be read by replay,    *)
(* and when the file system does.                                          *)
EraseRecord(r) ==
  \/ Erase(r)
  \/ /\ r \in open \/ (rpc = "read" /\ cur = r) \/ FlashFaults
     /\ UNCHANGED storeVars

----------------------------------------------------------------------------
(* run_loop and run_tick.                                                  *)

(* Mutant: the engine does not look for a waiting flow.                    *)
StartTickAlways ==
  /\ pc = "loop"
  /\ pc' = "node" /\ node' = 1
  /\ UNCHANGED <<storeVars, flow, pending, queues, slot, in, out, todo, copy,
                 replayVars, boots, born, bootId, log>>

StartTick ==
  /\ pc = "loop" /\ pending = NoFlow
  /\ pc' = "node" /\ node' = 1
  /\ UNCHANGED <<storeVars, flow, pending, queues, slot, in, out, todo, copy,
                 replayVars, boots, born, bootId, log>>

(* Mutant: the queues keep what the old graph had put in them.             *)
ApplyKeepsQueues ==
  /\ pc = "loop" /\ pending # NoFlow
  /\ flow' = pending /\ pending' = NoFlow
  /\ pc' = "node" /\ node' = 1
  /\ UNCHANGED <<storeVars, queues, slot, in, out, todo, copy, replayVars,
                 boots, born, bootId, log>>

(* A waiting flow replaces the graph, and every queued FlowFile is         *)
(* discarded; the records stay on flash.                                   *)
ApplyPending ==
  /\ pc = "loop" /\ pending # NoFlow
  /\ flow' = pending /\ queues' = EmptyQueues(pending)
  /\ pending' = NoFlow
  /\ pc' = "node" /\ node' = 1
  /\ UNCHANGED <<storeVars, slot, in, out, todo, copy, replayVars, boots,
                 born, bootId, log>>

(* Mutant: the last node never gets its turn.                              *)
EndTickEarly ==
  /\ pc = "node" /\ node >= flow.nodes
  /\ pc' = "loop"
  /\ UNCHANGED <<storeVars, flow, pending, queues, node, slot, in, out, todo,
                 copy, replayVars, boots, born, bootId, log>>

EndTick ==
  /\ pc = "node" /\ node > flow.nodes
  /\ pc' = "loop"
  /\ UNCHANGED <<storeVars, flow, pending, queues, node, slot, in, out, todo,
                 copy, replayVars, boots, born, bootId, log>>

BeginNode ==
  /\ pc = "node" /\ node <= flow.nodes
  /\ IF IsSource(node)
     THEN pc' = "source" /\ UNCHANGED slot
     ELSE pc' = "drain" /\ \E c \in Slots : IsFirst(c, Ins(node)) /\ slot' = c
  /\ UNCHANGED <<storeVars, flow, pending, queues, node, in, out, todo, copy,
                 replayVars, boots, born, bootId, log>>

(* A source creates a FlowFile and transfers it.                           *)
Emit ==
  /\ pc = "source" /\ born < MaxFlowFile
  /\ born' = born + 1
  /\ out' = [origin |-> born + 1, rec |-> 0]
  /\ todo' = Outs(node)
  /\ pc' = "push"
  /\ UNCHANGED <<storeVars, flow, pending, queues, node, slot, in, copy,
                 replayVars, boots, bootId, log>>

(* A source returns: it had nothing to emit, or its batch is complete.     *)
SourceReturns ==
  /\ pc = "source"
  /\ pc' = "node" /\ node' = node + 1
  /\ UNCHANGED <<storeVars, flow, pending, queues, slot, in, out, todo, copy,
                 replayVars, boots, born, bootId, log>>

(* Mutant: the popped FlowFile stays in its slot.                          *)
PopAndKeep ==
  /\ pc = "drain" /\ queues[slot] # <<>>
  /\ in' = Head(queues[slot])
  /\ pc' = "trigger"
  /\ UNCHANGED <<storeVars, flow, pending, queues, node, slot, out, todo, copy,
                 replayVars, boots, born, bootId, log>>

Pop ==
  /\ pc = "drain" /\ queues[slot] # <<>>
  /\ in' = Head(queues[slot])
  /\ queues' = [queues EXCEPT ![slot] = Tail(@)]
  /\ pc' = "trigger"
  /\ UNCHANGED <<storeVars, flow, pending, node, slot, out, todo, copy,
                 replayVars, boots, born, bootId, log>>

(* The queue is empty: on to the next incoming connection or node.         *)
Drained ==
  /\ pc = "drain" /\ queues[slot] = <<>>
  /\ LET rest == {c \in Ins(node) : c > slot}
     IN  IF rest = {}
         THEN pc' = "node" /\ node' = node + 1 /\ UNCHANGED slot
         ELSE /\ \E c \in rest : IsFirst(c, rest) /\ slot' = c
              /\ UNCHANGED <<pc, node>>
  /\ UNCHANGED <<storeVars, flow, pending, queues, in, out, todo, copy,
                 replayVars, boots, born, bootId, log>>

(* Mutant: the record is erased whatever on_trigger returned.              *)
TriggerFailsAndErases ==
  /\ pc = "trigger"
  /\ pc' = "erase"
  /\ UNCHANGED <<storeVars, flow, pending, queues, node, slot, in, out, todo,
                 copy, replayVars, boots, born, bootId, log>>

(* on_trigger returns anything but Ok, Again included: the FlowFile is     *)
(* gone from memory and its record stays.                                  *)
TriggerFails ==
  /\ pc = "trigger"
  /\ pc' = "drain" /\ in' = Nothing
  /\ UNCHANGED <<storeVars, flow, pending, queues, node, slot, out, todo,
                 copy, replayVars, boots, born, bootId, log>>

(* on_trigger does its work.  A processor with an output transfers its     *)
(* input, record id included, and returns Ok whatever transfer returned.   *)
TriggerWorks ==
  /\ pc = "trigger"
  /\ LET k == <<in.origin, IdOf(slot)>>
     IN  Logged(IF k \in log["handled"] THEN "repeated" ELSE "handled", {k})
  /\ out' = in
  /\ todo' = Outs(node)
  /\ pc' = "push"
  /\ UNCHANGED <<storeVars, flow, pending, queues, node, slot, in, copy,
                 replayVars, boots, born, bootId>>

(* After on_trigger returned Ok the engine erases the input's record.      *)
EraseProcessed ==
  /\ pc = "erase"
  /\ IF in.rec > 0 THEN EraseRecord(in.rec) ELSE UNCHANGED storeVars
  /\ pc' = "drain" /\ in' = Nothing /\ out' = Nothing
  /\ UNCHANGED <<flow, pending, queues, node, slot, todo, copy, replayVars,
                 boots, born, bootId, log>>

----------------------------------------------------------------------------
(* Session::transfer and Queue::try_push.                                  *)

Pushing(c) == pc = "push" /\ IsFirst(c, todo)

NeedsRecord(c) == IdOf(c) # NoId /\ out.rec = 0

(* What transfer's callers do with its result: a source gives up its       *)
(* batch, any other processor returns Ok.                                  *)
TransferFails ==
  /\ todo' = {} /\ copy' = Nothing
  /\ IF IsSource(node)
     THEN pc' = "node" /\ node' = node + 1 /\ out' = Nothing
     ELSE pc' = "erase" /\ UNCHANGED <<node, out>>

TransferDone ==
  /\ pc = "push" /\ todo = {}
  /\ IF IsSource(node)
     THEN pc' = "source" /\ out' = Nothing
     ELSE pc' = "erase" /\ UNCHANGED out
  /\ UNCHANGED <<storeVars, flow, pending, queues, node, slot, in, todo, copy,
                 replayVars, boots, born, bootId, log>>

(* The write makes room, takes an id and creates the file.                 *)
WriteBegins(t) ==
  /\ \E c \in todo : Pushing(c) /\ NeedsRecord(c)
  /\ Reserve(t) /\ LogLost("evicted")
  /\ copy' = [out EXCEPT !.rec = nextId]
  /\ pc' = "write"
  /\ UNCHANGED <<flow, pending, queues, node, slot, in, out, todo, replayVars,
                 boots, born, bootId>>

(* The write returns Full, or it cannot create the file: the FlowFile is   *)
(* queued without a record.                                                *)
WriteRefused ==
  /\ \E c \in todo : Pushing(c) /\ NeedsRecord(c)
  /\ \/ ~DropOldest /\ UNCHANGED <<storeVars, log>>
     \/ /\ FlashFaults
        /\ \E t \in 1 .. MaxRecord + 1 : Burn(t)
        /\ LogLost("evicted")
  /\ copy' = out
  /\ pc' = "enqueue"
  /\ UNCHANGED <<flow, pending, queues, node, slot, in, out, todo, replayVars,
                 boots, born, bootId>>

WriteCompletes ==
  /\ pc = "write"
  /\ \E c \in todo : LET k == <<copy.origin, IdOf(c)>>
                     IN  /\ IsFirst(c, todo)
                         /\ Commit(copy.rec, k)
                         /\ Logged("persisted", {k})
  /\ pc' = "enqueue"
  /\ UNCHANGED <<flow, pending, queues, node, slot, in, out, todo, copy,
                 replayVars, boots, born, bootId>>

(* A short write: the file is removed, if that works, and the FlowFile     *)
(* queued without it.                                                      *)
WriteFallsShort ==
  /\ pc = "write" /\ FlashFaults
  /\ Abort(copy.rec) \/ Tear(copy.rec)
  /\ copy' = out
  /\ pc' = "enqueue"
  /\ UNCHANGED <<flow, pending, queues, node, slot, in, out, todo, replayVars,
                 boots, born, bootId, log>>

(* The file is closed and is not complete, which the write does not        *)
(* notice: the FlowFile is queued with the id of a torn record.            *)
WriteTears ==
  /\ pc = "write" /\ FlashFaults
  /\ Tear(copy.rec)
  /\ pc' = "enqueue"
  /\ UNCHANGED <<flow, pending, queues, node, slot, in, out, todo, copy,
                 replayVars, boots, born, bootId, log>>

(* A connection without an id persists nothing, and a FlowFile with a      *)
(* record id is not persisted again.                                       *)
NoWrite ==
  /\ \E c \in todo : Pushing(c) /\ ~NeedsRecord(c)
  /\ copy' = out
  /\ pc' = "enqueue"
  /\ UNCHANGED <<storeVars, flow, pending, queues, node, slot, in, out, todo,
                 replayVars, boots, born, bootId, log>>

Enqueue ==
  /\ pc = "enqueue"
  /\ \E c \in todo :
       /\ IsFirst(c, todo)
       /\ Len(queues[c]) < QueueCapacity
       /\ queues' = [queues EXCEPT ![c] = Pushed(@, copy)]
       /\ todo' = todo \ {c}
  /\ pc' = "push" /\ copy' = Nothing
  /\ UNCHANGED <<storeVars, flow, pending, node, slot, in, out, replayVars,
                 boots, born, bootId, log>>

(* The queue is full: the record, if there is one, is erased, and transfer *)
(* stops at this connection.                                               *)
EnqueueFull ==
  /\ pc = "enqueue"
  /\ \E c \in todo :
       /\ IsFirst(c, todo)
       /\ Len(queues[c]) = QueueCapacity
       /\ IF copy.rec > 0 /\ IdOf(c) # NoId
          THEN EraseRecord(copy.rec) /\ LogLost("refused")
          ELSE UNCHANGED <<storeVars, log>>
  /\ TransferFails
  /\ UNCHANGED <<flow, pending, queues, slot, in, replayVars, boots, born,
                 bootId>>

----------------------------------------------------------------------------
(* replay_from_repository, run by the main task after every boot.          *)

ReplayBegins ==
  /\ rpc = "oldest"
  /\ IF Stored = {}
     THEN rpc' = "done" /\ UNCHANGED cur
     ELSE rpc' = "read" /\ \E r \in Stored : IsFirst(r, Stored) /\ cur' = r
  /\ UNCHANGED <<storeVars, flow, pending, queues, engineVars, rcopy, restored,
                 boots, born, bootId, log>>

(* The directory cannot be listed: replay takes that for the end.          *)
ReplayGivesUp ==
  /\ rpc \in {"oldest", "next"} /\ FlashFaults
  /\ rpc' = "done"
  /\ UNCHANGED <<storeVars, flow, pending, queues, engineVars, cur, rcopy,
                 restored, boots, born, bootId, log>>

(* A record that can be read goes to the connection of its id.             *)
ReplayReads ==
  /\ rpc = "read" /\ flash[cur] \in Copy
  /\ rcopy' = flash[cur]
  /\ rpc' = IF \E c \in Slots : IdOf(c) = flash[cur][2]
            THEN "push" ELSE "orphan"
  /\ UNCHANGED <<storeVars, flow, pending, queues, engineVars, cur, restored,
                 boots, born, bootId, log>>

(* A record that is gone, torn or unreadable is to be erased.              *)
ReplayCannotRead ==
  /\ rpc = "read" /\ (flash[cur] \notin Copy \/ FlashFaults)
  /\ rpc' = "scrap"
  /\ UNCHANGED <<storeVars, flow, pending, queues, engineVars, cur, rcopy,
                 restored, boots, born, bootId, log>>

(* try_push with the record id set: nothing is written, and a full queue   *)
(* erases the record.  Replay does not look at the result.                 *)
ReplayPushes ==
  /\ rpc = "push"
  /\ \E c \in Slots :
       /\ IsFirst(c, {d \in Slots : IdOf(d) = rcopy[2]})
       /\ IF Len(queues[c]) < QueueCapacity
          THEN /\ queues' = [queues EXCEPT ![c] =
                    Pushed(@, [origin |-> rcopy[1], rec |-> cur])]
               /\ restored' = restored \cup {cur}
               /\ Logged("replayed", {rcopy})
               /\ rpc' = "next"
          ELSE /\ rpc' = "full"
               /\ UNCHANGED <<queues, restored, log>>
  /\ rcopy' = NoCopy
  /\ UNCHANGED <<storeVars, flow, pending, engineVars, cur, boots, born,
                 bootId>>

ReplayErases ==
  /\ \E e \in {<<"orphan", "orphaned">>, <<"scrap", "scrapped">>,
               <<"full", "overflowed">>} :
       rpc = e[1] /\ EraseRecord(cur) /\ LogLost(e[2])
  /\ rpc' = "next" /\ rcopy' = NoCopy
  /\ UNCHANGED <<flow, pending, queues, engineVars, cur, restored, boots,
                 born, bootId>>

(* Mutant: the record after cur is any later one.                         *)
ReplayAdvancesAnywhere ==
  /\ rpc = "next"
  /\ LET later == {r \in Stored : r > cur}
     IN  IF later = {}
         THEN rpc' = "done" /\ UNCHANGED cur
         ELSE rpc' = "read" /\ cur' \in later
  /\ UNCHANGED <<storeVars, flow, pending, queues, engineVars, rcopy, restored,
                 boots, born, bootId, log>>

ReplayAdvances ==
  /\ rpc = "next"
  /\ LET later == {r \in Stored : r > cur}
     IN  IF later = {}
         THEN rpc' = "done" /\ UNCHANGED cur
         ELSE rpc' = "read" /\ \E r \in later : IsFirst(r, later) /\ cur' = r
  /\ UNCHANGED <<storeVars, flow, pending, queues, engineVars, rcopy, restored,
                 boots, born, bootId, log>>

----------------------------------------------------------------------------
(* apply, called by the C2 task, which starts when replay is over.         *)
Apply(f) ==
  /\ rpc = "done"
  /\ pending' = f
  /\ UNCHANGED <<storeVars, flow, queues, engineVars, replayVars, boots, born,
                 bootId, log>>

(* Power is lost.  Only the files survive, and the device boots with the   *)
(* flow it finds saved, or the boot default.                               *)
PowerLoss(f) ==
  /\ boots < MaxBoot /\ boots' = boots + 1
  /\ Remount /\ bootId' = nextId'
  /\ flow' = f /\ queues' = EmptyQueues(f) /\ pending' = NoFlow
  /\ pc' = "loop" /\ node' = 1 /\ slot' = 1
  /\ in' = Nothing /\ out' = Nothing /\ todo' = {} /\ copy' = Nothing
  /\ rpc' = "oldest" /\ cur' = 0 /\ rcopy' = NoCopy /\ restored' = {}
  /\ UNCHANGED <<born, log>>

Init ==
  /\ StoreInit
  /\ flow \in Flows /\ queues = EmptyQueues(flow) /\ pending = NoFlow
  /\ pc = "loop" /\ node = 1 /\ slot = 1
  /\ in = Nothing /\ out = Nothing /\ todo = {} /\ copy = Nothing
  /\ rpc = "oldest" /\ cur = 0 /\ rcopy = NoCopy /\ restored = {}
  /\ boots = 0 /\ born = 0 /\ bootId = 1
  /\ log = [e \in Event |-> {}]

EngineStep ==
  \/ StartTick \/ ApplyPending \/ EndTick \/ BeginNode
  \/ Emit \/ SourceReturns
  \/ Pop \/ Drained \/ TriggerFails \/ TriggerWorks \/ EraseProcessed
  \/ \E t \in 1 .. MaxRecord + 1 : WriteBegins(t)
  \/ WriteRefused \/ WriteCompletes \/ WriteFallsShort \/ WriteTears
  \/ NoWrite
  \/ Enqueue \/ EnqueueFull \/ TransferDone

ReplayStep ==
  \/ ReplayBegins \/ ReplayGivesUp \/ ReplayReads \/ ReplayCannotRead
  \/ ReplayPushes \/ ReplayErases \/ ReplayAdvances

Next ==
  \/ EngineStep
  \/ ReplayStep
  \/ \E f \in Flows : Apply(f) \/ PowerLoss(f)

Spec == Init /\ [][Next]_vars

(* The scheduler runs every ready task: the engine task sleeps at most one *)
(* period, and neither it nor the main task waits for anything else.       *)
FairSpec == Spec /\ WF_vars(EngineStep) /\ WF_vars(ReplayStep)

----------------------------------------------------------------------------
TypeOK ==
  /\ StoreTypeOK
  /\ flow \in Flows
  /\ pending \in Flows \cup {NoFlow}
  /\ queues \in [Slots -> Seq(FlowFile)]
  /\ pc \in {"loop", "node", "source", "drain", "trigger", "push", "write",
             "enqueue", "erase"}
  /\ node \in Nat /\ slot \in Nat
  /\ {in, out, copy} \subseteq FlowFile \cup {Nothing}
  /\ todo \subseteq Slots
  /\ rpc \in {"oldest", "read", "push", "orphan", "scrap", "full", "next",
              "done"}
  /\ cur \in 0 .. MaxRecord
  /\ rcopy \in Copy \cup {NoCopy}
  /\ boots \in 0 .. MaxBoot /\ born \in 0 .. MaxFlowFile
  /\ bootId \in 1 .. MaxRecord + 1
  /\ restored \subseteq RecordId
  /\ log \in [Event -> SUBSET LoggedCopy]

OnFlash(k) == \E r \in RecordId : flash[r] = k

(* The copies whose record something has erased, or may have.              *)
Ended == UNION {log[e] : e \in {"handled", "evicted", "refused", "overflowed",
                                "orphaned", "scrapped"}}

(* Whatever was persisted is still on flash until the FlowFile has been    *)
(* processed or its record was given up for one of the reasons the code    *)
(* has: evicted, refused by a full queue, orphaned, or found unreadable.   *)
(* No interleaving of the engine, replay and power losses loses it in any  *)
(* other way.                                                              *)
NothingVanishes == \A k \in log["persisted"] \ Ended : OnFlash(k)

(* Record r, if it still exists, is a copy of FlowFile f made for the      *)
(* connection in slot c, or one a node before c has returned Ok for.       *)
StampIsTrue(f, c) ==
  f.rec > 0 /\ flash[f.rec] \in Copy =>
    /\ flash[f.rec][1] = f.origin
    /\ flash[f.rec][2] = IdOf(c) \/ flash[f.rec] \in log["handled"]

(* The record id a queued FlowFile carries names its own record or none:   *)
(* when the engine has processed it and erases that record, it never       *)
(* erases the record of a FlowFile still to be processed, although ids are *)
(* copied along with FlowFiles, handed out again after a power loss and    *)
(* held by replay while the engine erases and evicts.                      *)
StampsAreTrue ==
  \A c \in Slots : \A i \in 1 .. Len(queues[c]) : StampIsTrue(queues[c][i], c)

(* What earlier boots left for the connection of a source comes back in    *)
(* the order it was first queued.                                          *)
OldestFirst ==
  \A c \in Slots : IsSource(flow.conns[c].src) =>
    \A i, j \in 1 .. Len(queues[c]) :
      LET r == queues[c][i].rec
          s == queues[c][j].rec
      IN  i < j /\ 0 < r /\ r < bootId /\ 0 < s /\ s < bootId => r < s

(* When replay is over, every record an earlier boot left on flash has     *)
(* been pushed to its connection, however much the engine erased, evicted  *)
(* and wrote while replay was walking the store.                           *)
ReplayMissesNothing ==
  rpc = "done" /\ ~FlashFaults =>
    \A r \in Stored : r < bootId => r \in restored

(* A node returns Ok twice for the same FlowFile only if replay pushed     *)
(* that FlowFile in the meantime, in a flow that is a tree: where paths    *)
(* join, a node is handed the FlowFile once per path.                      *)
DuplicatesComeFromReplay ==
  \A k \in log["repeated"] : \E j \in log["replayed"] : j[1] = k[1]

(* A flow handed to the engine is taken up at the head of some later tick, *)
(* because every tick ends.                                                *)
PendingIsTaken == pending # NoFlow ~> pending = NoFlow

(* A queued FlowFile does not wait forever.                                *)
QueuesDrain == \A c \in {1, 2} :
  (c \in Slots /\ queues[c] # <<>>) ~> (c \notin Slots \/ queues[c] = <<>>)

----------------------------------------------------------------------------
(* What the sources say of deliveries and of power losses, which the runs  *)
(* that check these show not to hold of the code.                          *)

HasRecord(f) == \E id \in ConnId : OnFlash(<<f.origin, id>>)

Unhandled(c, f) == <<f.origin, IdOf(c)>> \notin log["handled"]

(* queue.cpp:4-7, "a power-loss between push and the matching pop still    *)
(* leaves a persisted record": a stamped FlowFile waiting in a queue, not  *)
(* processed from there before, has a record.                              *)
PowerLossLeavesRecord ==
  \A c \in Slots : \A i \in 1 .. Len(queues[c]) :
    LET f == queues[c][i]
    IN  f.rec > 0 /\ Unhandled(c, f) => HasRecord(f)

(* README.md:149, "survives a power cycle with ... all in-flight FlowFiles *)
(* intact": when replay finds a queue full, the record it is about to      *)
(* erase is not the last trace of an unprocessed FlowFile.                 *)
FullQueueLosesNothing ==
  rpc = "full" /\ flash[cur] \in Copy \ log["handled"] =>
    \/ flash[cur][1] \in {in.origin, out.origin}
    \/ \E c \in Slots : \E i \in 1 .. Len(queues[c]) :
         queues[c][i].origin = flash[cur][1]
=============================================================================
