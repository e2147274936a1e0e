------------------------------ MODULE C2Client ------------------------------
(***************************************************************************)
(* How a flow reaches the device: the C2 client, the hand-off to the       *)
(* engine, and the two files that bring the flow back after a power loss.  *)
(*                                                                         *)
(* The C2 task posts a heartbeat, works through the operations in the      *)
(* response one by one, and posts an acknowledge for each update.  To      *)
(* apply a flow it leaves it in pending_def_, which the engine task picks  *)
(* up at the head of a tick, and saves first the body of the flow and then *)
(* its id, in two files, each of which is emptied when it is opened and    *)
(* then written.  Power may fail between any two steps, and whatever       *)
(* crosses the network may be lost.                                        *)
(*                                                                         *)
(* The server is not part of the repository.  It is modelled by what the   *)
(* sources say of it: it queues an update for each flow that is published, *)
(* sends it in a response once, gives it up when no acknowledge comes, and *)
(* pushes the flow again when a heartbeat reports another flow id.         *)
(*                                                                         *)
(* A flow and its id are the same model value.                             *)
(***************************************************************************)
EXTENDS Naturals, Sequences, FiniteSets, SequencesExt

CONSTANTS
  Flow,        \* the flows that can be published
  NoFlow,      \* no flow; as an id, the all-zeros id of the default graph
  InBody,      \* flows whose body carries their id
  Anonymous,   \* flows whose id is neither in the body nor in the URL
  Rejected,    \* flows that do not parse, or define no node
  Unknown,     \* flows all of whose processors are unknown to the device
  Torn,        \* part of an id, read while it is copied or cut off in its file
  Describe,    \* the operation DESCRIBE/manifest, a set: it may not be sent
  MaxReadable, \* how many operations fit in the response buffer
  MaxPublish,  \* bound of the model: flows published
  MaxBoot      \* bound of the model: power losses

ASSUME C2Assumption ==
  /\ NoFlow \notin Flow /\ Describe \cap Flow = {}
  /\ Torn \notin Flow \cup {NoFlow}
  /\ InBody \subseteq Flow /\ Anonymous \subseteq Flow \ InBody
  /\ Rejected \subseteq Flow /\ Unknown \subseteq Flow
  /\ {MaxReadable, MaxPublish, MaxBoot} \subseteq Nat

VARIABLES
  manifestDue, \* s_need_send_manifest
  pc,          \* where the C2 task is
  hb,          \* the heartbeat it has posted
  reply,       \* the response, then the operations left of it
  def,         \* the flow it has parsed
  applies,     \* whether the acknowledge says FULLY_APPLIED
  pending,     \* pending_def_, or NoFlow while pending_apply_ is false
  working,     \* working_def_, until the engine has rebuilt its graph
  copying,     \* whether the graph is rebuilt, and its id being copied
  flow,        \* the definition the graph was built from
  flowId,      \* flow_id_, the id the heartbeats report
  savedFlow,   \* the file kFlowDefPath: a flow, or nothing that loads
  savedId,     \* the file kFlowIdPath
  wanted,      \* server: the flow last published
  queue,       \* server: the updates not sent yet
  sent,        \* server: the updates sent and not answered
  published,   \* flows published so far
  boots,       \* power losses so far
  applied,     \* the flow apply took last since the last boot
  acked,       \* the flow last acknowledged as applied
  unacked,     \* the flows saved since that acknowledge
  lastSave,    \* how the last save of a body ended, once it began to write
  asked,       \* whether the manifest is owed to a DESCRIBE
  faulted      \* whether a save has failed

clientVars == <<manifestDue, pc, hb, reply, def, applies>>
engineVars == <<pending, working, copying, flow, flowId>>
fileVars   == <<savedFlow, savedId>>
serverVars == <<wanted, queue, sent, published>>
ghostVars  == <<applied, acked, unacked, lastSave, asked, faulted>>
vars == <<clientVars, engineVars, fileVars, serverVars, boots, ghostVars>>

NoBeat == [id |-> NoFlow, manifest |-> FALSE]

IdOf(f) == IF f \in Anonymous THEN NoFlow ELSE f

Updates(ops) == ToSet(ops) \cap Flow

----------------------------------------------------------------------------
(* The server and the network.                                             *)

(* An operator publishes a flow; no flow is published twice.               *)
Publish(f) ==
  /\ f \notin published /\ Cardinality(published) < MaxPublish
  /\ wanted' = f /\ queue' = Append(queue, f)
  /\ published' = published \cup {f}
  /\ UNCHANGED <<clientVars, engineVars, fileVars, sent, boots, ghostVars>>

Due == IF wanted \in ToSet(queue) \cup sent \cup {hb.id}
       THEN queue ELSE Append(queue, wanted)

(* The heartbeat arrives and is answered with every update that is due,    *)
(* and possibly with a request for the manifest.                           *)
ServerAnswers ==
  /\ pc = "posted"
  /\ \E ask \in {<<>>} \cup {<<op>> : op \in Describe} : reply' = ask \o Due
  /\ queue' = <<>> /\ sent' = sent \cup ToSet(Due)
  /\ pc' = "answered"
  /\ UNCHANGED <<manifestDue, hb, def, applies, engineVars, fileVars, wanted,
                 published, boots, ghostVars>>

(* No acknowledge came in time.                                            *)
ServerGivesUp(f) ==
  /\ f \in sent
  /\ sent' = sent \ {f}
  /\ UNCHANGED <<clientVars, engineVars, fileVars, wanted, queue, published,
                 boots, ghostVars>>

(* The heartbeat or its response is lost, the link is down, or the status  *)
(* is an error: the C2 task tries again later.                             *)
ExchangeFails ==
  /\ pc \in {"posted", "answered"}
  /\ pc' = "idle" /\ hb' = NoBeat /\ reply' = <<>>
  /\ UNCHANGED <<manifestDue, def, applies, engineVars, fileVars, serverVars,
                 boots, ghostVars>>

----------------------------------------------------------------------------
(* The C2 task.                                                            *)

(* The id is read without the engine's mutex.                              *)
IdRead == {flowId} \cup
          (IF copying /\ flowId # IdOf(working) THEN {Torn} ELSE {})

Heartbeat ==
  /\ pc = "idle"
  /\ \E id \in IdRead : hb' = [id |-> id, manifest |-> manifestDue]
  /\ pc' = "posted"
  /\ UNCHANGED <<manifestDue, reply, def, applies, engineVars, fileVars,
                 serverVars, boots, ghostVars>>

(* A heartbeat that carried the manifest and was answered has delivered it.*)
ManifestDelivered ==
  /\ manifestDue' = (manifestDue /\ ~hb.manifest)
  /\ asked' = (asked /\ ~hb.manifest)

ResponseArrives ==
  /\ pc = "answered"
  /\ ManifestDelivered
  /\ pc' = "ops"
  /\ UNCHANGED <<hb, reply, def, applies, engineVars, fileVars, serverVars,
                 boots, applied, acked, unacked, lastSave, faulted>>

(* A response longer than the buffer is cut off and does not parse.        *)
ResponseUnreadable ==
  /\ pc = "answered" /\ Len(reply) > MaxReadable
  /\ ManifestDelivered
  /\ pc' = "idle" /\ hb' = NoBeat /\ reply' = <<>>
  /\ UNCHANGED <<def, applies, engineVars, fileVars, serverVars, boots,
                 applied, acked, unacked, lastSave, faulted>>

(* Mutant: the manifest is marked as delivered after the response has been *)
(* processed.                                                              *)
OpsDoneClears ==
  /\ pc = "ops" /\ reply = <<>>
  /\ pc' = "idle" /\ hb' = NoBeat
  /\ manifestDue' = (manifestDue /\ ~hb.manifest)
  /\ UNCHANGED <<reply, def, applies, engineVars, fileVars, serverVars, boots,
                 ghostVars>>

OpsDone ==
  /\ pc = "ops" /\ reply = <<>>
  /\ pc' = "idle" /\ hb' = NoBeat
  /\ UNCHANGED <<manifestDue, reply, def, applies, engineVars, fileVars,
                 serverVars, boots, ghostVars>>

Operation(op) == pc = "ops" /\ reply # <<>> /\ Head(reply) = op

ProcessDescribe ==
  /\ \E op \in Describe : Operation(op)
  /\ manifestDue' = TRUE /\ asked' = TRUE
  /\ reply' = Tail(reply)
  /\ UNCHANGED <<pc, hb, def, applies, engineVars, fileVars, serverVars, boots,
                 applied, acked, unacked, lastSave, faulted>>

(* Mutant: the loop moves on to the next operation too early.              *)
FetchAdvances(f) ==
  /\ Operation(f) /\ f \notin Rejected
  /\ def' = f /\ reply' = Tail(reply)
  /\ pc' = "apply"
  /\ UNCHANGED <<manifestDue, hb, applies, engineVars, fileVars, serverVars,
                 boots, ghostVars>>

Fetch(f) ==
  /\ Operation(f) /\ f \notin Rejected
  /\ def' = f
  /\ pc' = "apply"
  /\ UNCHANGED <<manifestDue, hb, reply, applies, engineVars, fileVars,
                 serverVars, boots, ghostVars>>

(* The fetch fails, whatever the flow, or the body does not parse, or the  *)
(* engine refuses a definition without nodes.                              *)
Refuse(f) ==
  /\ Operation(f)
  /\ applies' = FALSE /\ def' = f
  /\ pc' = "ack"
  /\ UNCHANGED <<manifestDue, hb, reply, engineVars, fileVars, serverVars,
                 boots, ghostVars>>

(* Mutant: the id is saved before the body.                                *)
ThenIdFirst(p) == CASE p = "apply"   -> "save id"
                    [] p = "save id" -> "save"
                    [] p = "save"    -> "ack"

(* Mutant: the flow is acknowledged and not saved.                         *)
ThenUnsaved(p) == "ack"

(* An update is applied, its body saved, its id saved, and acknowledged.   *)
Then(p) == CASE p = "apply"   -> "save"
             [] p = "save"    -> "save id"
             [] p = "save id" -> "ack"

(* apply replaces a flow the engine has not picked up yet.                 *)
Apply ==
  /\ pc = "apply"
  /\ pending' = def /\ applied' = def
  /\ applies' = TRUE
  /\ pc' = Then(pc)
  /\ UNCHANGED <<manifestDue, hb, reply, def, working, copying, flow, flowId,
                 fileVars, serverVars, boots, acked, unacked, lastSave, asked,
                 faulted>>

(* flow_def_save.  It fails without opening the file, or empties it; the   *)
(* C2 task goes on after a failure as after a success.                     *)
SaveFlowOpens ==
  /\ pc = "save"
  /\ \/ /\ faulted' = TRUE /\ lastSave' = "failed"
        /\ pc' = Then("save") /\ UNCHANGED savedFlow
     \/ /\ savedFlow' = NoFlow /\ pc' = "saving"
        /\ UNCHANGED <<faulted, lastSave>>
  /\ UNCHANGED <<manifestDue, hb, reply, def, applies, engineVars, savedId,
                 serverVars, boots, applied, acked, unacked, asked>>

(* The body has been written, or only a part of it that does not load.     *)
SaveFlowCloses ==
  /\ pc = "saving"
  /\ \/ /\ savedFlow' = def /\ lastSave' = "whole"
        /\ unacked' = unacked \cup {def} /\ UNCHANGED faulted
     \/ /\ lastSave' = "failed" /\ faulted' = TRUE
        /\ UNCHANGED <<savedFlow, unacked>>
  /\ pc' = Then("save")
  /\ UNCHANGED <<manifestDue, hb, reply, def, applies, engineVars, savedId,
                 serverVars, boots, applied, acked, asked>>

(* flow_id_save, refused for a flow without an id.  Of an id whose file is *)
(* not written to the end a boot uses what there is.                       *)
SaveIdOpens ==
  /\ pc = "save id"
  /\ \/ /\ IdOf(def) = NoFlow
        /\ pc' = Then("save id") /\ UNCHANGED <<savedId, faulted>>
     \/ /\ IdOf(def) # NoFlow /\ faulted' = TRUE
        /\ pc' = Then("save id") /\ UNCHANGED savedId
     \/ /\ IdOf(def) # NoFlow /\ savedId' \in {NoFlow, Torn}
        /\ pc' = "saving id" /\ UNCHANGED faulted
  /\ UNCHANGED <<manifestDue, hb, reply, def, applies, engineVars, savedFlow,
                 serverVars, boots, applied, acked, unacked, lastSave, asked>>

SaveIdCloses ==
  /\ pc = "saving id"
  /\ \/ savedId' = IdOf(def) /\ UNCHANGED faulted
     \/ faulted' = TRUE /\ UNCHANGED savedId
  /\ pc' = Then("save id")
  /\ UNCHANGED <<manifestDue, hb, reply, def, applies, engineVars, savedFlow,
                 serverVars, boots, applied, acked, unacked, lastSave, asked>>

(* The acknowledge, which reaches the server or is lost; the C2 task does  *)
(* not look at the result.                                                 *)
Acknowledge ==
  /\ pc = "ack"
  /\ sent' \in {sent, sent \ {def}}
  /\ IF applies THEN acked' = def /\ unacked' = {}
                ELSE UNCHANGED <<acked, unacked>>
  /\ pc' = "ops" /\ reply' = Tail(reply) /\ def' = NoFlow /\ applies' = FALSE
  /\ UNCHANGED <<manifestDue, hb, engineVars, fileVars, wanted, queue,
                 published, boots, applied, lastSave, asked, faulted>>

----------------------------------------------------------------------------
(* The engine task, at the head of a tick.                                 *)

(* Under the mutex: the waiting definition is copied, the flag cleared.    *)
TakePending ==
  /\ working = NoFlow /\ pending # NoFlow
  /\ working' = pending /\ pending' = NoFlow
  /\ UNCHANGED <<clientVars, copying, flow, flowId, fileVars, serverVars,
                 boots, ghostVars>>

(* With the mutex released, the graph is rebuilt.  A flow without any      *)
(* known processor empties it and leaves the id that is reported as it was,*)
Rebuild ==
  /\ working # NoFlow /\ ~copying
  /\ flow' = working
  /\ IF working \in Unknown THEN working' = NoFlow /\ UNCHANGED copying
                           ELSE copying' = TRUE /\ UNCHANGED working
  /\ UNCHANGED <<clientVars, pending, flowId, fileVars, serverVars, boots,
                 ghostVars>>

(* Mutant: the flag is cleared when the graph has been rebuilt.            *)
SetIdClears ==
  /\ copying
  /\ flowId' = IdOf(working) /\ working' = NoFlow /\ copying' = FALSE
  /\ pending' = NoFlow
  /\ UNCHANGED <<clientVars, flow, fileVars, serverVars, boots, ghostVars>>

(* Mutant: the id of the new flow is not set.                              *)
SetIdForgets ==
  /\ copying
  /\ working' = NoFlow /\ copying' = FALSE
  /\ UNCHANGED <<clientVars, pending, flow, flowId, fileVars, serverVars,
                 boots, ghostVars>>

(* and the id of any other is copied at the end.                           *)
SetId ==
  /\ copying
  /\ flowId' = IdOf(working) /\ working' = NoFlow /\ copying' = FALSE
  /\ UNCHANGED <<clientVars, pending, flow, fileVars, serverVars, boots,
                 ghostVars>>

----------------------------------------------------------------------------
(* Power is lost.  The device boots with the saved flow, unless there is   *)
(* none or none of its processors is known, and with the id in its body or *)
(* else the saved id; all that was under way is forgotten.  A file that    *)
(* was being written stays as it is.                                       *)
PowerLoss ==
  /\ boots < MaxBoot /\ boots' = boots + 1
  /\ flow' = IF savedFlow \in Unknown THEN NoFlow ELSE savedFlow
  /\ flowId' = CASE flow' = NoFlow  -> NoFlow
                 [] flow' \in InBody -> flow'
                 [] OTHER            -> savedId
  /\ pending' = NoFlow /\ working' = NoFlow /\ copying' = FALSE
  /\ manifestDue' = TRUE /\ pc' = "idle" /\ hb' = NoBeat /\ reply' = <<>>
  /\ def' = NoFlow /\ applies' = FALSE
  /\ applied' = NoFlow /\ asked' = FALSE
  /\ lastSave' = IF pc = "saving" THEN "cut" ELSE lastSave
  /\ UNCHANGED <<fileVars, serverVars, acked, unacked, faulted>>

Init ==
  /\ manifestDue = TRUE /\ pc = "idle" /\ hb = NoBeat /\ reply = <<>>
  /\ def = NoFlow /\ applies = FALSE
  /\ pending = NoFlow /\ working = NoFlow /\ copying = FALSE
  /\ flow = NoFlow /\ flowId = NoFlow
  /\ savedFlow = NoFlow /\ savedId = NoFlow
  /\ wanted = NoFlow /\ queue = <<>> /\ sent = {} /\ published = {}
  /\ boots = 0
  /\ applied = NoFlow /\ acked = NoFlow /\ unacked = {} /\ lastSave = "whole"
  /\ asked = FALSE /\ faulted = FALSE

ClientStep ==
  \/ Heartbeat \/ ExchangeFails \/ ResponseArrives \/ ResponseUnreadable
  \/ OpsDone \/ ProcessDescribe
  \/ \E f \in Flow : Fetch(f) \/ Refuse(f)
  \/ Apply \/ SaveFlowOpens \/ SaveFlowCloses
  \/ SaveIdOpens \/ SaveIdCloses \/ Acknowledge

EngineStep == TakePending \/ Rebuild \/ SetId

ServerStep ==
  \/ ServerAnswers
  \/ \E f \in Flow : Publish(f) \/ ServerGivesUp(f)

Next == ClientStep \/ EngineStep \/ ServerStep \/ PowerLoss

Spec == Init /\ [][Next]_vars

UpdateArrives == ResponseArrives /\ Updates(reply) # {}

(* The two tasks of the device run on, and the server gives up what is not *)
(* answered.  The network loses messages, but not for ever: heartbeats     *)
(* keep reaching the server, updates the device, and fetches succeed.      *)
FairSpec ==
  /\ Spec
  /\ WF_vars(ClientStep) /\ WF_vars(EngineStep)
  /\ SF_vars(ServerAnswers) /\ SF_vars(UpdateArrives)
  /\ \A f \in Flow : SF_vars(Fetch(f)) /\ WF_vars(ServerGivesUp(f))

----------------------------------------------------------------------------
(* What is fetched, applied and acknowledged is one operation.             *)
OpInHand == def \in Flow /\ reply # <<>> /\ Head(reply) = def

AtWork == {"apply", "save", "saving", "save id", "saving id", "ack"}

(* The types, and what of each task's place its variables tell.            *)
ClientTypeOK ==
  /\ {manifestDue, applies} \subseteq BOOLEAN
  /\ pc \in {"idle", "posted", "answered", "ops"} \cup AtWork
  /\ hb \in [id : Flow \cup {NoFlow, Torn}, manifest : BOOLEAN]
  /\ reply \in Seq(Flow \cup Describe)
  /\ def \in Flow \cup {NoFlow}
  /\ pc \in AtWork => OpInHand

DeviceTypeOK ==
  /\ {pending, working, flow, savedFlow} \subseteq Flow \cup {NoFlow}
  /\ {flowId, savedId} \subseteq Flow \cup {NoFlow, Torn}
  /\ copying \in BOOLEAN
  /\ copying => working # NoFlow /\ flow = working

ServerTypeOK ==
  /\ wanted \in Flow \cup {NoFlow}
  /\ queue \in Seq(Flow)
  /\ sent \subseteq Flow /\ published \subseteq Flow

GhostTypeOK ==
  /\ boots \in 0 .. MaxBoot
  /\ {applied, acked} \subseteq Flow \cup {NoFlow}
  /\ unacked \subseteq Flow /\ lastSave \in {"whole", "failed", "cut"}
  /\ {asked, faulted} \subseteq BOOLEAN

(* The types of all of them.                                               *)
TypeOK == ClientTypeOK /\ DeviceTypeOK /\ ServerTypeOK /\ GhostTypeOK

(* A flow handed to the engine is not lost while power lasts, though the   *)
(* C2 task may hand over the next at any moment: the last one is waiting,  *)
(* is being built, or is the one that was built.                           *)
NoApplyIsLost ==
  applied # NoFlow =>
    applied = CASE pending # NoFlow -> pending
                [] pending = NoFlow /\ working # NoFlow -> working
                [] OTHER -> flow

(* Once the server has been told that a flow is applied, the device comes  *)
(* back with it, or with a later one, after a power loss.  Only a save     *)
(* that failed, or power that is lost while the body of a later flow is    *)
(* being written, costs it, and after the latter nothing is left to boot   *)
(* with, not an older flow.                                                *)
AckedIsDurable ==
  acked # NoFlow /\ lastSave # "failed" =>
    \/ savedFlow \in {acked} \cup unacked
    \/ savedFlow = NoFlow /\ (pc = "saving" \/ lastSave = "cut")

(* A device that reports the flow the server wants is built from it: the   *)
(* server may stop pushing.  Power may have been lost between the two      *)
(* saves, which is why the body is saved first.                            *)
SynchronizedIsTrue ==
  flowId # NoFlow /\ flowId = wanted /\ ~faulted => flow = wanted

(* A DESCRIBE is not forgotten, even when it answers the very heartbeat    *)
(* that carried the manifest or that heartbeat is followed by others that  *)
(* are lost.                                                               *)
DescribeIsKept == asked => manifestDue

Good == Flow \ (Rejected \cup Unknown \cup Anonymous)

(* When no more flows are published, a good one ends up running and being  *)
(* reported, whatever was lost on the way, and in spite of power losses.   *)
Converges ==
  <>[](wanted \in Good /\ ~faulted => flow = wanted /\ flowId = wanted)

----------------------------------------------------------------------------
(* What the sources say of a boot, which the run that checks it shows not  *)
(* to hold of the code.                                                    *)

(* agent.cpp:77-79, "the engine starts with the right graph and the first  *)
(* heartbeat carries the correct flowId": the id that is reported is the   *)
(* id of the flow that runs, if it is an id, though no save has failed and *)
(* the engine is not just copying it.                                      *)
ReportsWhatItRuns ==
  flowId \in Flow /\ ~faulted /\ ~copying => flow = flowId
=============================================================================
