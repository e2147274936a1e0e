--------------------------- MODULE C2Client_proofs ---------------------------
(***************************************************************************)
(* What holds of the C2 client for every set of flows, however many are    *)
(* published and however often power fails.                                *)
(***************************************************************************)
EXTENDS C2Client, TLAPS

(* Nothing is anywhere that has not been published, and the C2 task has a  *)
(* flow in hand only while it works on an update.                          *)
ClientKnown ==
  /\ def \in published \cup {NoFlow}
  /\ Updates(reply) \subseteq published
  /\ hb.id \in published \cup {NoFlow, Torn}
  /\ published = {} => hb.id = NoFlow
  /\ def # NoFlow => pc \in AtWork

DeviceKnown ==
  /\ {pending, working, flow, savedFlow} \subseteq published \cup {NoFlow}
  /\ {flowId, savedId} \subseteq published \cup {NoFlow, Torn}
  /\ published = {} => Torn \notin {flowId, savedId}

ServerKnown ==
  /\ ToSet(queue) \subseteq published
  /\ wanted \in published \cup {NoFlow}
  /\ wanted = NoFlow => published = {}

ClientInv == ClientTypeOK /\ ClientKnown
DeviceInv == DeviceTypeOK /\ DeviceKnown
ServerInv == ServerTypeOK /\ ServerKnown
Inv == ClientInv /\ DeviceInv /\ ServerInv /\ GhostTypeOK

(* While the body is being written the file is empty, and so it stays when *)
(* power is lost then.  Once the body has been saved, and until it is      *)
(* acknowledged, the file holds the flow in hand, unless the save failed.  *)
Written ==
  /\ pc = "saving" \/ lastSave = "cut" => savedFlow = NoFlow
  /\ pc \in {"save id", "saving id"} \/ (pc = "ack" /\ applies) =>
       lastSave = "failed" \/ (lastSave = "whole" /\ savedFlow = def)
  /\ lastSave = "failed" => faulted

(* Flows reach the device in the order they were published: whatever has   *)
(* yet to pass a point the wanted flow has passed is the wanted flow.      *)
OnlyAfter(s, f) == \A i, j \in DOMAIN s : i < j /\ s[i] = f => s[j] = f

IsWanted(S) == S \subseteq {wanted, NoFlow}

Arrived == wanted \in {pending, working, flow, flowId, savedFlow, savedId}

InOrder ==
  wanted # NoFlow =>
    /\ OnlyAfter(queue, wanted) /\ OnlyAfter(reply, wanted)
    /\ wanted \in ToSet(reply) => IsWanted(ToSet(queue))
    /\ Arrived => IsWanted(ToSet(queue) \cup Updates(reply))
    /\ wanted \in {flow, flowId} => IsWanted({working, pending})
    /\ wanted = working => IsWanted({pending})
    /\ wanted = savedId /\ ~faulted => savedFlow \in {wanted, NoFlow}

----------------------------------------------------------------------------
(* The sequences of updates.                                               *)

(* Appending adds one element.                                             *)
LEMMA AppendedToSet ==
  ASSUME NEW S, NEW s \in Seq(S), NEW e \in S
  PROVE  /\ Append(s, e) \in Seq(S)
         /\ ToSet(Append(s, e)) = ToSet(s) \cup {e}
<1>1. /\ Append(s, e) \in Seq(S)
      /\ Len(Append(s, e)) = Len(s) + 1 /\ Len(s) \in Nat
      /\ Append(s, e)[Len(s) + 1] = e
      /\ \A i \in 1 .. Len(s) : Append(s, e)[i] = s[i]
  OBVIOUS
<1>2. ToSet(Append(s, e)) \subseteq ToSet(s) \cup {e}
  <2> SUFFICES ASSUME NEW i \in 1 .. Len(s) + 1
               PROVE  Append(s, e)[i] \in ToSet(s) \cup {e}
    BY <1>1 DEF ToSet
  <2>1. i \in 1 .. Len(s) \/ i = Len(s) + 1
    BY <1>1
  <2> QED BY <1>1, <2>1 DEF ToSet
<1>3. ToSet(s) \cup {e} \subseteq ToSet(Append(s, e))
  BY <1>1 DEF ToSet
<1> QED BY <1>1, <1>2, <1>3

(* Joining adds the elements of both.                                      *)
LEMMA JoinedToSet ==
  ASSUME NEW S, NEW s \in Seq(S), NEW t \in Seq(S)
  PROVE  /\ s \o t \in Seq(S)
         /\ ToSet(s \o t) = ToSet(s) \cup ToSet(t)
<1>1. s \o t \in Seq(S) /\ Len(s \o t) = Len(s) + Len(t)
  OBVIOUS
<1>2. ToSet(s \o t) \subseteq ToSet(s) \cup ToSet(t)
  BY DEF ToSet
<1>3. ToSet(s) \subseteq ToSet(s \o t)
  BY DEF ToSet
<1>4. ToSet(t) \subseteq ToSet(s \o t)
  <2> SUFFICES ASSUME NEW i \in 1 .. Len(t) PROVE t[i] \in ToSet(s \o t)
    BY DEF ToSet
  <2>1. (s \o t)[Len(s) + i] = t[i] /\ Len(s) + i \in 1 .. Len(s \o t)
    BY <1>1
  <2> QED BY <1>1, <2>1 DEF ToSet
<1> QED BY <1>1, <1>2, <1>3, <1>4

(* The tail is a part, in the same order.                                  *)
LEMMA TailToSet ==
  ASSUME NEW S, NEW s \in Seq(S), s # <<>>
  PROVE  /\ Tail(s) \in Seq(S)
         /\ ToSet(Tail(s)) \subseteq ToSet(s)
         /\ Head(s) \in ToSet(s)
         /\ \A f : OnlyAfter(s, f) => OnlyAfter(Tail(s), f)
<1>1. /\ Tail(s) \in Seq(S) /\ Len(Tail(s)) = Len(s) - 1 /\ Len(s) \in Nat \ {0}
      /\ \A i \in 1 .. Len(s) - 1 : Tail(s)[i] = s[i + 1]
  OBVIOUS
<1>2. ToSet(Tail(s)) \subseteq ToSet(s)
  <2> SUFFICES ASSUME NEW i \in 1 .. Len(s) - 1 PROVE Tail(s)[i] \in ToSet(s)
    BY <1>1 DEF ToSet
  <2>1. i + 1 \in 1 .. Len(s)
    BY <1>1
  <2> QED BY <1>1, <2>1 DEF ToSet
<1>3. Head(s) \in ToSet(s)
  BY <1>1 DEF ToSet
<1>4. ASSUME NEW f, OnlyAfter(s, f) PROVE OnlyAfter(Tail(s), f)
  <2> SUFFICES ASSUME NEW i \in 1 .. Len(s) - 1, NEW j \in 1 .. Len(s) - 1,
                      i < j, Tail(s)[i] = f
               PROVE  Tail(s)[j] = f
    BY <1>1 DEF OnlyAfter
  <2>1. i + 1 \in 1 .. Len(s) /\ j + 1 \in 1 .. Len(s) /\ i + 1 < j + 1
    BY <1>1
  <2> QED BY <1>1, <1>4, <2>1 DEF OnlyAfter
<1> QED BY <1>1, <1>2, <1>3, <1>4

(* An element that was not there comes last when it is appended.           *)
LEMMA AppendedLast ==
  ASSUME NEW S, NEW s \in Seq(S), NEW e \in S, NEW f,
         OnlyAfter(s, f), f \in ToSet(s) => e = f
  PROVE  OnlyAfter(Append(s, e), f)
<1>1. Len(Append(s, e)) = Len(s) + 1 /\ Len(s) \in Nat
  OBVIOUS
<1>2. SUFFICES ASSUME NEW i \in 1 .. Len(s) + 1, NEW j \in 1 .. Len(s) + 1,
                      i < j, Append(s, e)[i] = f
               PROVE  Append(s, e)[j] = f
  BY <1>1 DEF OnlyAfter
<1>3. i \in 1 .. Len(s) /\ s[i] = f
  BY <1>1, <1>2
<1>4. CASE j \in 1 .. Len(s)
  BY <1>2, <1>3, <1>4 DEF OnlyAfter
<1>5. CASE j = Len(s) + 1
  BY <1>3, <1>5 DEF ToSet
<1> QED BY <1>1, <1>4, <1>5

(* The updates of a response are the queue, or the queue and then the      *)
(* wanted flow.                                                            *)
LEMMA DueIsPublished ==
  ASSUME Inv, C2Assumption
  PROVE  /\ Due \in Seq(Flow)
         /\ ToSet(Due) \subseteq published
         /\ Due = queue \/ (wanted \in Flow /\ wanted \notin ToSet(queue)
                            /\ Due = Append(queue, wanted))
<1>1. queue \in Seq(Flow) /\ ToSet(queue) \subseteq published
      /\ published \subseteq Flow
  BY DEF Inv, ServerInv, ServerTypeOK, ServerKnown
<1>2. CASE wanted \in ToSet(queue) \cup sent \cup {hb.id}
  BY <1>1, <1>2 DEF Due
<1>3. CASE wanted \notin ToSet(queue) \cup sent \cup {hb.id}
  <2>1. wanted \in published
    BY <1>3 DEF Inv, ServerInv, ServerKnown, ClientInv, ClientKnown
  <2>2. wanted \in Flow /\ Due = Append(queue, wanted)
    BY <1>1, <1>3, <2>1 DEF Due
  <2> QED BY <1>1, <1>3, <2>1, <2>2, AppendedToSet
<1> QED BY <1>2, <1>3

Asked == {<<>>} \cup {<<op>> : op \in Describe}

(* A request for the manifest in front of them adds no update.             *)
LEMMA AskedAddsNone ==
  ASSUME C2Assumption, NEW ask \in Asked, NEW due \in Seq(Flow)
  PROVE  /\ ask \o due \in Seq(Flow \cup Describe)
         /\ Updates(ask \o due) = ToSet(due)
<1>1. ask \in Seq(Flow \cup Describe) /\ due \in Seq(Flow \cup Describe)
  <2>1. CASE ask = <<>>
    BY <2>1
  <2>2. ASSUME NEW op \in Describe, ask = <<op>>
        PROVE  ask \in Seq(Flow \cup Describe)
    BY <2>2
  <2> QED BY <2>1, <2>2 DEF Asked
<1>2. ToSet(ask) \subseteq Describe
  <2>1. CASE ask = <<>>
    BY <2>1 DEF ToSet
  <2>2. ASSUME NEW op \in Describe, ask = <<op>> PROVE ToSet(ask) \subseteq Describe
    BY <2>2 DEF ToSet
  <2> QED BY <2>1, <2>2 DEF Asked
<1>3. ToSet(due) \subseteq Flow
  BY DEF ToSet
<1>4. ToSet(ask \o due) = ToSet(ask) \cup ToSet(due)
        /\ ask \o due \in Seq(Flow \cup Describe)
  BY <1>1, JoinedToSet
<1> QED BY <1>2, <1>3, <1>4 DEF Updates, C2Assumption

----------------------------------------------------------------------------
(* Type correctness.                                                       *)

(* The invariant holds at first, ...                                       *)
LEMMA InitInv == ASSUME C2Assumption, Init PROVE Inv
<1>1. ToSet(<<>>) = {}
  BY DEF ToSet
<1>2. ClientInv
  <2>1. <<>> \in Seq(Flow \cup Describe)
    OBVIOUS
  <2>2. hb \in [id : Flow \cup {NoFlow, Torn}, manifest : BOOLEAN]
    BY DEF Init, NoBeat
  <2> QED
    BY <1>1, <2>1, <2>2
       DEF Init, ClientInv, ClientTypeOK, ClientKnown, AtWork, NoBeat, Updates
<1>3. DeviceInv
  BY DEF Init, DeviceInv, DeviceTypeOK, DeviceKnown
<1>4. ServerInv
  BY <1>1 DEF Init, ServerInv, ServerTypeOK, ServerKnown
<1>5. GhostTypeOK
  <2>1. MaxBoot \in Nat
    BY DEF C2Assumption
  <2>2. boots \in 0 .. MaxBoot
    BY <2>1 DEF Init
  <2>3. unacked \subseteq Flow /\ {applied, acked} \subseteq Flow \cup {NoFlow}
    BY DEF Init
  <2> QED BY <2>2, <2>3 DEF Init, GhostTypeOK
<1> QED BY <1>2, <1>3, <1>4, <1>5 DEF Inv

(* ... stays as it was in what a step leaves alone of the C2 task, ...     *)
LEMMA StaysClient ==
  ASSUME ClientInv, UNCHANGED <<clientVars, published>> PROVE ClientInv'
  BY DEF clientVars, ClientInv, ClientTypeOK, ClientKnown, AtWork, OpInHand, Updates

(* ... of the engine and the files, ...                                    *)
LEMMA StaysDevice ==
  ASSUME DeviceInv, UNCHANGED <<engineVars, fileVars, published>>
  PROVE  DeviceInv'
  BY DEF engineVars, fileVars, DeviceInv, DeviceTypeOK, DeviceKnown

(* ... of the server, ...                                                  *)
LEMMA StaysServer ==
  ASSUME ServerInv, UNCHANGED serverVars PROVE ServerInv'
  BY DEF serverVars, ServerInv, ServerTypeOK, ServerKnown

(* ... and of the history, ...                                             *)
LEMMA StaysGhost ==
  ASSUME GhostTypeOK, UNCHANGED <<boots, ghostVars>> PROVE GhostTypeOK'
  BY DEF ghostVars, GhostTypeOK

(* ... and is preserved by the server, ...                                 *)
LEMMA ServerStepInv == ASSUME C2Assumption, Inv, ServerStep PROVE Inv'
<1>1. ASSUME NEW f \in Flow, Publish(f) PROVE Inv'
  <2> USE <1>1 DEF Publish, Inv
  <2>1. queue \in Seq(Flow) /\ ToSet(queue) \subseteq published
    BY DEF ServerInv, ServerTypeOK, ServerKnown
  <2>2. queue' \in Seq(Flow) /\ ToSet(queue') = ToSet(queue) \cup {f}
    BY <2>1, AppendedToSet
  <2>3. ServerInv'
    BY <2>1, <2>2, C2Assumption DEF ServerInv, ServerTypeOK, ServerKnown, C2Assumption
  <2>4. ClientInv'
    BY DEF ClientInv, ClientTypeOK, ClientKnown, AtWork, OpInHand, Updates, clientVars
  <2>5. DeviceInv'
    BY DEF DeviceInv, DeviceTypeOK, DeviceKnown, engineVars, fileVars
  <2>6. GhostTypeOK'
    BY StaysGhost
  <2> QED BY <2>3, <2>4, <2>5, <2>6
<1>2. CASE ServerAnswers
  <2> USE <1>2 DEF ServerAnswers, Inv
  <2>1. PICK ask \in Asked : reply' = ask \o Due
    BY DEF Asked
  <2>2. /\ reply' \in Seq(Flow \cup Describe)
        /\ Updates(reply') = ToSet(Due) /\ ToSet(Due) \subseteq published
    BY <2>1, DueIsPublished, AskedAddsNone
  <2>3. ClientInv'
    BY <2>2 DEF ClientInv, ClientTypeOK, ClientKnown, AtWork, OpInHand
  <2>4. ServerInv'
    <3>1. queue' \in Seq(Flow) /\ ToSet(queue') = {}
      BY DEF ToSet
    <3>2. ToSet(Due) \subseteq Flow
      BY <2>2 DEF ServerInv, ServerTypeOK
    <3> QED BY <3>1, <3>2 DEF ServerInv, ServerTypeOK, ServerKnown
  <2> QED BY <2>3, <2>4, StaysDevice, StaysGhost
<1>3. ASSUME NEW f \in Flow, ServerGivesUp(f) PROVE Inv'
  <2> USE <1>3 DEF ServerGivesUp, Inv
  <2>1. ServerInv'
    BY DEF ServerInv, ServerTypeOK, ServerKnown
  <2> QED BY <2>1, StaysClient, StaysDevice, StaysGhost
<1> QED BY <1>1, <1>2, <1>3 DEF ServerStep

(* ... by the exchange of a heartbeat and its response, ...                *)
LEMMA ExchangeInv ==
  ASSUME C2Assumption, Inv,
         Heartbeat \/ ExchangeFails \/ ResponseArrives \/ ResponseUnreadable
         \/ OpsDone
  PROVE  Inv'
<1> USE DEF Inv
<1>0. ToSet(<<>>) = {} /\ <<>> \in Seq(Flow \cup Describe)
  BY DEF ToSet
<1>1. CASE Heartbeat
  <2> USE <1>1 DEF Heartbeat
  <2>1. PICK id \in IdRead : hb' = [id |-> id, manifest |-> manifestDue]
    OBVIOUS
  <2>2. id \in published \cup {NoFlow, Torn} /\ (published = {} => id = NoFlow)
    BY <2>1 DEF IdRead, DeviceInv, DeviceTypeOK, DeviceKnown
  <2>3. published \subseteq Flow
    BY DEF ServerInv, ServerTypeOK
  <2>4. hb' \in [id : Flow \cup {NoFlow, Torn}, manifest : BOOLEAN]
    BY <2>1, <2>2, <2>3 DEF ClientInv, ClientTypeOK
  <2>5. ClientInv'
    BY <2>1, <2>2, <2>4
       DEF ClientInv, ClientTypeOK, ClientKnown, AtWork, OpInHand, Updates, serverVars
  <2> QED BY <2>5, StaysDevice, StaysServer, StaysGhost DEF serverVars
<1>2. CASE ExchangeFails
  <2> USE <1>2 DEF ExchangeFails
  <2>1. hb' \in [id : Flow \cup {NoFlow, Torn}, manifest : BOOLEAN]
    BY DEF NoBeat
  <2>2. ClientInv'
    BY <1>0, <2>1 DEF NoBeat, ClientInv, ClientTypeOK, ClientKnown, AtWork, OpInHand,
                      Updates, serverVars
  <2> QED BY <2>2, StaysDevice, StaysServer, StaysGhost DEF serverVars
<1>3. CASE ResponseArrives
  <2> USE <1>3 DEF ResponseArrives, ManifestDelivered
  <2>1. manifestDue' \in BOOLEAN
    BY DEF ClientInv, ClientTypeOK
  <2>2. ClientInv'
    BY <2>1 DEF ClientInv, ClientTypeOK, ClientKnown, AtWork, OpInHand, Updates, serverVars
  <2>3. GhostTypeOK'
    BY DEF GhostTypeOK
  <2> QED BY <2>2, <2>3, StaysDevice, StaysServer DEF serverVars
<1>4. CASE ResponseUnreadable
  <2> USE <1>4 DEF ResponseUnreadable, ManifestDelivered
  <2>1. hb' \in [id : Flow \cup {NoFlow, Torn}, manifest : BOOLEAN]
        /\ manifestDue' \in BOOLEAN
    BY DEF NoBeat, ClientInv, ClientTypeOK
  <2>2. ClientInv'
    BY <1>0, <2>1 DEF NoBeat, ClientInv, ClientTypeOK, ClientKnown, AtWork, OpInHand,
                      Updates, serverVars
  <2>3. GhostTypeOK'
    BY DEF GhostTypeOK
  <2> QED BY <2>2, <2>3, StaysDevice, StaysServer DEF serverVars
<1>5. CASE OpsDone
  <2> USE <1>5 DEF OpsDone
  <2>1. hb' \in [id : Flow \cup {NoFlow, Torn}, manifest : BOOLEAN]
    BY DEF NoBeat
  <2>2. ClientInv'
    BY <1>0, <2>1 DEF NoBeat, ClientInv, ClientTypeOK, ClientKnown, AtWork, OpInHand,
                      Updates, serverVars
  <2> QED BY <2>2, StaysDevice, StaysServer, StaysGhost DEF serverVars
<1> QED BY <1>1, <1>2, <1>3, <1>4, <1>5

(* What is left of a response is a part of it.                             *)
LEMMA RestOfReply ==
  ASSUME ClientInv, reply # <<>>, reply' = Tail(reply)
  PROVE  /\ reply' \in Seq(Flow \cup Describe)
         /\ Updates(reply') \subseteq Updates(reply)
         /\ Head(reply) \in Flow => Head(reply) \in Updates(reply)
<1>1. reply \in Seq(Flow \cup Describe)
  BY DEF ClientInv, ClientTypeOK
<1> QED BY <1>1, TailToSet DEF Updates

(* ... by the operations of a response, ...                                *)
LEMMA OperationInv ==
  ASSUME C2Assumption, Inv,
         \/ ProcessDescribe
         \/ \E f \in Flow : Fetch(f) \/ Refuse(f)
         \/ Apply \/ SaveFlowOpens \/ SaveFlowCloses
         \/ SaveIdOpens \/ SaveIdCloses \/ Acknowledge
  PROVE  Inv'
<1> USE DEF Inv
<1>1. CASE ProcessDescribe
  <2> USE <1>1 DEF ProcessDescribe, Operation
  <2>1. ClientInv'
    BY RestOfReply DEF ClientInv, ClientTypeOK, ClientKnown, AtWork, OpInHand, serverVars
  <2>2. GhostTypeOK'
    BY DEF GhostTypeOK
  <2> QED BY <2>1, <2>2, StaysDevice, StaysServer DEF serverVars
<1>2. ASSUME NEW f \in Flow, Fetch(f) \/ Refuse(f) PROVE Inv'
  <2> USE <1>2 DEF Fetch, Refuse, Operation
  <2>1. reply # <<>> /\ Head(reply) = f /\ UNCHANGED reply
    OBVIOUS
  <2>2. f \in published
    <3>1. f \in ToSet(reply)
      BY <2>1, TailToSet DEF ClientInv, ClientTypeOK
    <3> QED BY <3>1 DEF Updates, ClientInv, ClientKnown
  <2>3. ClientInv'
    BY <2>1, <2>2
       DEF ClientInv, ClientTypeOK, ClientKnown, AtWork, OpInHand, Updates, serverVars
  <2> QED BY <2>3, StaysDevice, StaysServer, StaysGhost DEF serverVars
<1>3. CASE Apply
  <2> USE <1>3 DEF Apply, Then
  <2>1. def \in Flow /\ def \in published
    BY DEF ClientInv, ClientTypeOK, ClientKnown, AtWork, OpInHand, AtWork, C2Assumption
  <2>2. ClientInv'
    BY DEF ClientInv, ClientTypeOK, ClientKnown, AtWork, OpInHand, Updates, serverVars
  <2>3. DeviceInv'
    BY <2>1 DEF DeviceInv, DeviceTypeOK, DeviceKnown, fileVars, serverVars
  <2>4. GhostTypeOK'
    BY <2>1 DEF GhostTypeOK
  <2> QED BY <2>2, <2>3, <2>4, StaysServer
<1>4. CASE SaveFlowOpens \/ SaveFlowCloses
  <2> USE <1>4 DEF SaveFlowOpens, SaveFlowCloses, Then
  <2>1. def \in Flow /\ def \in published
    BY DEF ClientInv, ClientTypeOK, ClientKnown, AtWork, OpInHand, AtWork, C2Assumption
  <2>2. ClientInv'
    BY DEF ClientInv, ClientTypeOK, ClientKnown, AtWork, OpInHand, Updates, serverVars
  <2>3. DeviceInv'
    <3>1. /\ savedFlow' \in {savedFlow, NoFlow, def}
          /\ UNCHANGED <<engineVars, savedId, published>>
      BY DEF serverVars
    <3> QED BY <2>1, <3>1 DEF DeviceInv, DeviceTypeOK, DeviceKnown, engineVars
  <2>4. GhostTypeOK'
    BY <2>1 DEF GhostTypeOK
  <2> QED BY <2>2, <2>3, <2>4, StaysServer
<1>5. CASE SaveIdOpens \/ SaveIdCloses
  <2> USE <1>5 DEF SaveIdOpens, SaveIdCloses, Then
  <2>1. def \in Flow /\ def \in published
    BY DEF ClientInv, ClientTypeOK, ClientKnown, AtWork, OpInHand, AtWork, C2Assumption
  <2>2. ClientInv'
    BY DEF ClientInv, ClientTypeOK, ClientKnown, AtWork, OpInHand, Updates, serverVars
  <2>3. DeviceInv'
    <3>1. /\ savedId' \in {savedId, NoFlow, Torn, def}
          /\ UNCHANGED <<engineVars, savedFlow, published>>
      BY DEF serverVars, IdOf
    <3> QED BY <2>1, <3>1 DEF DeviceInv, DeviceTypeOK, DeviceKnown, engineVars
  <2>4. GhostTypeOK'
    BY <2>1 DEF GhostTypeOK
  <2> QED BY <2>2, <2>3, <2>4, StaysServer
<1>6. CASE Acknowledge
  <2> USE <1>6 DEF Acknowledge
  <2>1. def \in Flow /\ reply # <<>>
    BY DEF ClientInv, ClientTypeOK, AtWork, OpInHand
  <2>2. ClientInv'
    BY <2>1, RestOfReply
       DEF ClientInv, ClientTypeOK, ClientKnown, AtWork, OpInHand
  <2>3. ServerInv'
    BY DEF ServerInv, ServerTypeOK, ServerKnown
  <2>4. GhostTypeOK'
    BY <2>1 DEF GhostTypeOK
  <2> QED BY <2>2, <2>3, <2>4, StaysDevice
<1> QED BY <1>1, <1>2, <1>3, <1>4, <1>5, <1>6

(* ... by the engine, ...                                                  *)
LEMMA EngineStepInv == ASSUME Inv, EngineStep PROVE Inv'
<1> USE DEF Inv
<1>1. CASE TakePending
  <2> USE <1>1 DEF TakePending
  <2>1. DeviceInv'
    BY DEF DeviceInv, DeviceTypeOK, DeviceKnown, fileVars, serverVars
  <2> QED BY <2>1, StaysClient, StaysServer, StaysGhost DEF serverVars
<1>2. CASE Rebuild
  <2> USE <1>2 DEF Rebuild
  <2>1. DeviceInv'
    BY DEF DeviceInv, DeviceTypeOK, DeviceKnown, fileVars, serverVars
  <2> QED BY <2>1, StaysClient, StaysServer, StaysGhost DEF serverVars
<1>3. CASE SetId
  <2> USE <1>3 DEF SetId
  <2>1. DeviceInv'
    BY DEF DeviceInv, DeviceTypeOK, DeviceKnown, fileVars, serverVars, IdOf
  <2> QED BY <2>1, StaysClient, StaysServer, StaysGhost DEF serverVars
<1> QED BY <1>1, <1>2, <1>3 DEF EngineStep

(* ... by a power loss, ...                                                *)
LEMMA PowerLossInv == ASSUME C2Assumption, Inv, PowerLoss PROVE Inv'
<1> USE DEF PowerLoss, Inv
<1>1. ClientInv'
  <2>1. <<>> \in Seq(Flow \cup Describe) /\ ToSet(<<>>) = {}
    BY DEF ToSet
  <2>2. hb' \in [id : Flow \cup {NoFlow, Torn}, manifest : BOOLEAN]
    BY DEF NoBeat
  <2> QED
    BY <2>1, <2>2 DEF ClientInv, ClientTypeOK, ClientKnown, AtWork, NoBeat, Updates
<1>2. DeviceInv'
  <2>1. /\ flow' \in {NoFlow, savedFlow}
        /\ flowId' \in {NoFlow, savedFlow, savedId}
    OBVIOUS
  <2> QED BY <2>1 DEF DeviceInv, DeviceTypeOK, DeviceKnown, fileVars, serverVars
<1>3. GhostTypeOK'
  <2>1. boots' \in 0 .. MaxBoot
    <3>1. MaxBoot \in Nat
      BY DEF C2Assumption
    <3> QED BY <3>1 DEF GhostTypeOK
  <2> QED BY <2>1 DEF GhostTypeOK
<1> QED BY <1>1, <1>2, <1>3, StaysServer DEF serverVars

(* ... and so by every step.                                               *)
LEMMA StepInv == ASSUME C2Assumption, Inv, [Next]_vars PROVE Inv'
<1>1. CASE ClientStep
  BY <1>1, ExchangeInv, OperationInv DEF ClientStep
<1>2. CASE UNCHANGED vars
  BY <1>2, StaysClient, StaysDevice, StaysServer, StaysGhost
     DEF vars, serverVars, Inv
<1> QED BY <1>1, <1>2, EngineStepInv, ServerStepInv, PowerLossInv DEF Next

(* Type correctness: in particular what is fetched, applied, saved and     *)
(* acknowledged is the operation the response is at, and the id being      *)
(* copied is the id of the graph that has just been built.                 *)
THEOREM C2TypeCorrect == Spec => []TypeOK
<1>1. Init => Inv
  BY C2Assumption, InitInv
<1>2. Inv /\ [Next]_vars => Inv'
  BY C2Assumption, StepInv
<1>3. Inv => TypeOK
  BY DEF Inv, TypeOK, ClientInv, DeviceInv, ServerInv
<1> QED BY <1>1, <1>2, <1>3, PTL DEF Spec

----------------------------------------------------------------------------
(* What follows from the types alone.                                      *)

(* No flow handed to the engine is lost, whenever the C2 task hands over   *)
(* the next.                                                               *)
THEOREM NoApplyLost == Spec => []NoApplyIsLost
<1>1. Init => NoApplyIsLost
  BY DEF Init, NoApplyIsLost
<1>2. TypeOK /\ NoApplyIsLost /\ [Next]_vars => NoApplyIsLost'
  <2> SUFFICES ASSUME TypeOK, NoApplyIsLost, [Next]_vars PROVE NoApplyIsLost'
    OBVIOUS
  <2> USE DEF NoApplyIsLost
  <2>1. CASE UNCHANGED <<engineVars, applied>>
    BY <2>1 DEF engineVars
  <2>2. CASE Apply
    BY <2>2 DEF Apply
  <2>3. CASE TakePending
    BY <2>3 DEF TakePending, ghostVars
  <2>4. CASE Rebuild
    BY <2>4 DEF Rebuild, ghostVars
  <2>5. CASE SetId
    BY <2>5 DEF SetId, ghostVars, TypeOK, DeviceTypeOK
  <2>6. CASE PowerLoss
    BY <2>6 DEF PowerLoss
  <2>7. CASE ServerStep
    BY <2>1, <2>7 DEF ServerStep, ServerAnswers, Publish, ServerGivesUp, ghostVars
  <2>8. CASE ClientStep /\ ~Apply
    BY <2>1, <2>8
       DEF ClientStep, Heartbeat, ExchangeFails, ResponseArrives,
           ResponseUnreadable, OpsDone, ProcessDescribe, Fetch, Refuse,
           SaveFlowOpens, SaveFlowCloses, SaveIdOpens, SaveIdCloses,
           Acknowledge, ghostVars
  <2>9. CASE UNCHANGED vars
    BY <2>1, <2>9 DEF vars, ghostVars
  <2> QED
    BY <2>2, <2>3, <2>4, <2>5, <2>6, <2>7, <2>8, <2>9 DEF Next, EngineStep
<1> QED BY <1>1, <1>2, C2TypeCorrect, PTL DEF Spec

(* A DESCRIBE is answered with the manifest, however the exchange and the  *)
(* response it came in go on.                                              *)
THEOREM DescribeKept == Spec => []DescribeIsKept
<1>1. Init => DescribeIsKept
  BY DEF Init, DescribeIsKept
<1>2. TypeOK /\ DescribeIsKept /\ [Next]_vars => DescribeIsKept'
  <2> SUFFICES ASSUME TypeOK, DescribeIsKept, [Next]_vars PROVE DescribeIsKept'
    OBVIOUS
  <2> USE DEF DescribeIsKept
  <2>1. CASE UNCHANGED <<manifestDue, asked>>
    BY <2>1
  <2>2. CASE ResponseArrives \/ ResponseUnreadable
    BY <2>2 DEF ResponseArrives, ResponseUnreadable, ManifestDelivered
  <2>3. CASE ProcessDescribe
    BY <2>3 DEF ProcessDescribe
  <2>4. CASE PowerLoss
    BY <2>4 DEF PowerLoss
  <2>5. CASE ServerStep \/ EngineStep
    BY <2>1, <2>5
       DEF ServerStep, ServerAnswers, Publish, ServerGivesUp, EngineStep,
           TakePending, Rebuild, SetId, clientVars, ghostVars
  <2>6. CASE ClientStep /\ ~(ResponseArrives \/ ResponseUnreadable \/ ProcessDescribe)
    BY <2>1, <2>6
       DEF ClientStep, Heartbeat, ExchangeFails, OpsDone, Fetch, Refuse, Apply,
           SaveFlowOpens, SaveFlowCloses, SaveIdOpens, SaveIdCloses,
           Acknowledge, clientVars, ghostVars
  <2>7. CASE UNCHANGED vars
    BY <2>1, <2>7 DEF vars, clientVars, ghostVars
  <2> QED BY <2>2, <2>3, <2>4, <2>5, <2>6, <2>7 DEF Next
<1> QED BY <1>1, <1>2, C2TypeCorrect, PTL DEF Spec

Durable == Written /\ AckedIsDurable

(* An update is acknowledged as applied after its body has been saved, and *)
(* only an update that has been handed over is saved.                      *)
LEMMA SavedIsDurable == Spec => []Durable
<1>1. Init => Durable
  BY DEF Init, Durable, Written, AckedIsDurable
<1>2. TypeOK /\ Durable /\ [Next]_vars => Durable'
  <2> SUFFICES ASSUME TypeOK, Durable, [Next]_vars PROVE Durable'
    OBVIOUS
  <2> USE DEF Durable, Written, AckedIsDurable
  <2>1. CASE UNCHANGED <<pc, def, applies, savedFlow, acked, unacked, lastSave,
                         faulted>>
    BY <2>1
  <2>2. CASE SaveFlowOpens \/ SaveFlowCloses
    BY <2>2 DEF SaveFlowOpens, SaveFlowCloses, Then
  <2>3. CASE SaveIdOpens \/ SaveIdCloses
    BY <2>3 DEF SaveIdOpens, SaveIdCloses, Then
  <2>4. CASE Acknowledge
    BY <2>4 DEF Acknowledge, fileVars
  <2>5. CASE PowerLoss
    BY <2>5 DEF PowerLoss, fileVars
  <2>6. CASE Apply
    BY <2>6 DEF Apply, Then, fileVars
  <2>7. ASSUME NEW f \in Flow, Fetch(f) \/ Refuse(f) PROVE Durable'
    BY <2>7 DEF Fetch, Refuse, Operation, fileVars, ghostVars
  <2>8. CASE Heartbeat \/ ExchangeFails \/ ResponseArrives
             \/ ResponseUnreadable \/ OpsDone \/ ProcessDescribe
    BY <2>8 DEF Heartbeat, ExchangeFails, ResponseArrives, ResponseUnreadable,
                OpsDone, ProcessDescribe, Operation, fileVars, ghostVars
  <2>9. CASE EngineStep
    BY <2>1, <2>9 DEF EngineStep, TakePending, Rebuild, SetId, clientVars,
                fileVars, ghostVars
  <2>10. CASE ServerStep
    <3>1. CASE ServerAnswers
      BY <3>1 DEF ServerAnswers, fileVars, ghostVars
    <3>2. ASSUME NEW f \in Flow, Publish(f) \/ ServerGivesUp(f) PROVE Durable'
      BY <2>1, <3>2 DEF Publish, ServerGivesUp, clientVars, fileVars, ghostVars
    <3> QED BY <2>10, <3>1, <3>2 DEF ServerStep
  <2>11. CASE UNCHANGED vars
    BY <2>1, <2>11 DEF vars, clientVars, fileVars, ghostVars
  <2> QED
    BY <2>2, <2>3, <2>4, <2>5, <2>6, <2>7, <2>8, <2>9, <2>10, <2>11
       DEF Next, ClientStep
<1> QED BY <1>1, <1>2, C2TypeCorrect, PTL DEF Spec

(* What the server has been told is applied is what a boot finds, or has   *)
(* been followed by it; a save that failed and power lost during a later   *)
(* save are all that can cost it, and the latter leaves no flow at all.    *)
THEOREM AckedDurable == Spec => []AckedIsDurable
<1>1. Durable => AckedIsDurable
  BY DEF Durable
<1> QED BY <1>1, SavedIsDurable, PTL

----------------------------------------------------------------------------
(* Flows arrive in the order they were published.                          *)

(* The order holds in what follows elements that do not matter to it.      *)
LEMMA JoinedLast ==
  ASSUME NEW S, NEW s \in Seq(S), NEW t \in Seq(S), NEW f,
         f \notin ToSet(s), OnlyAfter(t, f)
  PROVE  OnlyAfter(s \o t, f)
<1>1. Len(s \o t) = Len(s) + Len(t) /\ Len(s) \in Nat /\ Len(t) \in Nat
  OBVIOUS
<1>2. SUFFICES ASSUME NEW i \in 1 .. Len(s) + Len(t),
                      NEW j \in 1 .. Len(s) + Len(t),
                      i < j, (s \o t)[i] = f
               PROVE  (s \o t)[j] = f
  BY <1>1 DEF OnlyAfter
<1>3. i > Len(s)
  BY <1>1, <1>2 DEF ToSet
<1>4. i - Len(s) \in 1 .. Len(t) /\ j - Len(s) \in 1 .. Len(t)
  BY <1>1, <1>2, <1>3
<1>5. (s \o t)[i] = t[i - Len(s)] /\ (s \o t)[j] = t[j - Len(s)]
  BY <1>1, <1>2, <1>3
<1> QED BY <1>2, <1>4, <1>5 DEF OnlyAfter

(* Nothing but f is in a sequence that begins with f.                      *)
LEMMA OnlyAfterHead ==
  ASSUME NEW S, NEW s \in Seq(S), s # <<>>, NEW f, OnlyAfter(s, f), Head(s) = f
  PROVE  ToSet(s) \subseteq {f}
<1>1. Len(s) \in Nat \ {0} /\ s[1] = f
  OBVIOUS
<1>2. SUFFICES ASSUME NEW j \in 1 .. Len(s) PROVE s[j] = f
  BY DEF ToSet
<1> QED BY <1>1 DEF OnlyAfter

(* The flow in hand is the wanted one, if that is or has been in hand.     *)
LEMMA InHandInOrder ==
  ASSUME C2Assumption, Inv, InOrder, pc \in AtWork,
         wanted # NoFlow, Arrived \/ wanted = def
  PROVE  def = wanted /\ IsWanted(ToSet(queue) \cup Updates(reply))
<1>1. /\ def \in Flow /\ reply # <<>> /\ Head(reply) = def
      /\ reply \in Seq(Flow \cup Describe) /\ NoFlow \notin Flow
  BY DEF Inv, ClientInv, ClientTypeOK, AtWork, OpInHand, AtWork, C2Assumption
<1>2. def \in ToSet(reply)
  BY <1>1, TailToSet
<1>3. CASE Arrived
  BY <1>1, <1>2, <1>3 DEF InOrder, IsWanted, Updates
<1>4. CASE wanted = def
  <2>1. ToSet(reply) \subseteq {wanted}
    BY <1>1, <1>4, OnlyAfterHead DEF InOrder
  <2> QED BY <1>2, <1>4, <2>1 DEF InOrder, IsWanted, Updates
<1> QED BY <1>3, <1>4

(* The order is kept by steps that move no flow, ...                       *)
LEMMA StaysInOrder ==
  ASSUME InOrder, UNCHANGED <<wanted, queue, reply, engineVars, fileVars, faulted>>
  PROVE  InOrder'
  BY DEF InOrder, OnlyAfter, Arrived, IsWanted, Updates, engineVars, fileVars

(* ... by dropping a response or its first operation, ...                  *)
LEMMA RestInOrder ==
  ASSUME Inv, InOrder, reply' = <<>> \/ (reply # <<>> /\ reply' = Tail(reply)),
         UNCHANGED <<wanted, queue, engineVars, fileVars, faulted>>
  PROVE  InOrder'
<1>1. /\ ToSet(reply') \subseteq ToSet(reply)
      /\ \A f : OnlyAfter(reply, f) => OnlyAfter(reply', f)
  <2>1. CASE reply' = <<>>
    BY <2>1 DEF ToSet, OnlyAfter
  <2>2. CASE reply # <<>> /\ reply' = Tail(reply)
    BY <2>2, TailToSet DEF Inv, ClientInv, ClientTypeOK
  <2> QED BY <2>1, <2>2
<1>2. wanted' = wanted /\ queue' = queue /\ Arrived' = Arrived
  BY DEF Arrived, engineVars, fileVars
<1> QED
  BY <1>1, <1>2 DEF InOrder, IsWanted, Updates, OnlyAfter, engineVars, fileVars

(* ... by the server, whose new flow is nowhere yet and enters behind all  *)
(* others, ...                                                             *)
LEMMA ServerInOrder ==
  ASSUME C2Assumption, Inv, InOrder, ServerStep PROVE InOrder'
<1>0. /\ queue \in Seq(Flow) /\ published \subseteq Flow
      /\ reply \in Seq(Flow \cup Describe) /\ Flow \cap Describe = {}
  BY DEF Inv, ClientInv, ClientTypeOK, ServerInv, ServerTypeOK, C2Assumption
<1>1. ASSUME NEW f \in Flow, Publish(f) PROVE InOrder'
  <2> USE <1>1 DEF Publish
  <2>1. f \notin ToSet(queue) /\ f \notin ToSet(reply) /\ f # NoFlow
    BY DEF Inv, ClientInv, ClientKnown, ServerInv, ServerKnown, Updates,
           C2Assumption
  <2>2. f \notin {pending, working, flow, flowId, savedFlow, savedId}
    BY <2>1 DEF Inv, DeviceInv, DeviceKnown
  <2>3. OnlyAfter(queue, f) /\ OnlyAfter(reply, f)
    BY <2>1 DEF ToSet, OnlyAfter
  <2>4. OnlyAfter(queue', f)
    BY <1>0, <2>3, AppendedLast
  <2>5. wanted' = f /\ ~Arrived' /\ f \notin ToSet(reply')
    BY <2>1, <2>2 DEF Arrived, clientVars, engineVars, fileVars
  <2>6. wanted' \notin {flow', flowId', working', savedId'}
    BY <2>2 DEF engineVars, fileVars
  <2>7. reply' = reply
    BY DEF clientVars
  <2> QED BY <2>3, <2>4, <2>5, <2>6, <2>7 DEF InOrder
<1>2. CASE ServerAnswers
  <2> USE <1>2 DEF ServerAnswers
  <2>0. SUFFICES ASSUME wanted # NoFlow PROVE InOrder'
    BY DEF InOrder
  <2>1. PICK ask \in Asked : reply' = ask \o Due
    BY DEF Asked
  <2>2. wanted \in Flow
    BY <1>0, <2>0 DEF Inv, ServerInv, ServerKnown
  <2>3. OnlyAfter(Due, wanted) /\ Due \in Seq(Flow)
    <3>1. OnlyAfter(queue, wanted)
      BY <2>0 DEF InOrder
    <3>2. OnlyAfter(Append(queue, wanted), wanted)
      BY <1>0, <2>2, <3>1, AppendedLast
    <3> QED BY <3>1, <3>2, DueIsPublished
  <2>4. OnlyAfter(reply', wanted)
    <3>1. ask \in Seq(Flow \cup Describe) /\ wanted \notin ToSet(ask)
      <4>1. CASE ask = <<>>
        BY <4>1 DEF ToSet
      <4>2. ASSUME NEW op \in Describe, ask = <<op>>
            PROVE  ask \in Seq(Flow \cup Describe) /\ wanted \notin ToSet(ask)
        BY <1>0, <2>2, <4>2 DEF ToSet
      <4> QED BY <4>1, <4>2 DEF Asked
    <3>2. Due \in Seq(Flow \cup Describe)
      BY <2>3
    <3> QED BY <2>1, <2>3, <3>1, <3>2, JoinedLast
  <2>5. Updates(reply') \subseteq ToSet(queue) \cup {wanted}
    <3>1. Updates(reply') = ToSet(Due)
      BY <2>1, <2>3, AskedAddsNone
    <3>2. ToSet(Due) \subseteq ToSet(queue) \cup {wanted}
      BY <1>0, DueIsPublished, AppendedToSet
    <3> QED BY <3>1, <3>2
  <2>6. queue' = <<>> /\ ToSet(queue') = {} /\ OnlyAfter(queue', wanted)
    BY DEF ToSet, OnlyAfter
  <2>7. wanted' = wanted /\ Arrived' = Arrived
    BY DEF Arrived, engineVars, fileVars
  <2> QED BY <2>4, <2>5, <2>6, <2>7 DEF InOrder, IsWanted, engineVars, fileVars,
             ghostVars
<1>3. ASSUME NEW f \in Flow, ServerGivesUp(f) PROVE InOrder'
  BY <1>3, StaysInOrder DEF ServerGivesUp, clientVars, ghostVars
<1> QED BY <1>1, <1>2, <1>3 DEF ServerStep

(* ... by the engine, ...                                                  *)
LEMMA EngineInOrder == ASSUME Inv, InOrder, EngineStep PROVE InOrder'
<1> SUFFICES ASSUME wanted' # NoFlow PROVE InOrder'
  BY DEF InOrder
<1>1. /\ UNCHANGED <<wanted, queue, reply, savedFlow, savedId, faulted>>
      /\ {pending', working', flow', flowId'}
           \subseteq {pending, working, flow, flowId, NoFlow}
  BY DEF EngineStep, TakePending, Rebuild, SetId, IdOf, clientVars, fileVars,
         serverVars, ghostVars
<1>2. Arrived' => Arrived
  BY <1>1 DEF Arrived
<1>3. IsWanted({pending, working}) => IsWanted({pending, working})'
  BY <1>1 DEF IsWanted, EngineStep, TakePending, Rebuild, SetId
<1>4. wanted' \in {flow', flowId'} => IsWanted({pending', working'})
  BY <1>1, <1>3 DEF InOrder, IsWanted, EngineStep, TakePending, Rebuild, SetId,
                    IdOf
<1>5. wanted' = working' => IsWanted({pending'})
  BY <1>1 DEF InOrder, IsWanted, EngineStep, TakePending, Rebuild, SetId
<1> QED
  BY <1>1, <1>2, <1>4, <1>5 DEF InOrder, IsWanted, Updates, OnlyAfter

(* ... by a power loss, ...                                                *)
LEMMA PowerLossInOrder == ASSUME InOrder, PowerLoss PROVE InOrder'
<1>1. /\ UNCHANGED <<wanted, queue, savedFlow, savedId, faulted>>
      /\ reply' = <<>> /\ pending' = NoFlow /\ working' = NoFlow
      /\ flow' \in {NoFlow, savedFlow}
      /\ flowId' \in {NoFlow, savedFlow, savedId}
  BY DEF PowerLoss, fileVars, serverVars
<1>2. ToSet(<<>>) = {} /\ \A f : OnlyAfter(<<>>, f)
  BY DEF ToSet, OnlyAfter
<1>3. wanted # NoFlow /\ Arrived' => Arrived
  BY <1>1 DEF Arrived
<1> QED
  BY <1>1, <1>2, <1>3 DEF InOrder, IsWanted, Updates, OnlyAfter

(* ... and by the C2 task, which hands over and saves what it has in hand. *)
LEMMA ClientInOrder ==
  ASSUME C2Assumption, Inv, Written, InOrder, ClientStep PROVE InOrder'
<1>1. CASE Heartbeat \/ OpsDone \/ \E f \in Flow : Fetch(f) \/ Refuse(f)
  BY <1>1, StaysInOrder
     DEF Heartbeat, OpsDone, Fetch, Refuse, serverVars, ghostVars
<1>2. CASE ExchangeFails \/ ResponseUnreadable \/ ProcessDescribe \/ Acknowledge
  <2>1. reply' = <<>> \/ (reply # <<>> /\ reply' = Tail(reply))
    BY <1>2 DEF ExchangeFails, ResponseUnreadable, ProcessDescribe, Operation,
                Acknowledge, Inv, ClientInv, ClientTypeOK, AtWork, OpInHand
  <2> QED
    BY <1>2, <2>1, RestInOrder
       DEF ExchangeFails, ResponseUnreadable, ProcessDescribe, Acknowledge,
           serverVars, ghostVars
<1>3. CASE ResponseArrives
  BY <1>3, StaysInOrder DEF ResponseArrives, serverVars
<1>4. CASE Apply \/ SaveFlowOpens \/ SaveFlowCloses \/ SaveIdOpens \/ SaveIdCloses
  <2>0. SUFFICES ASSUME wanted # NoFlow PROVE InOrder'
    BY <1>4 DEF InOrder, Apply, SaveFlowOpens, SaveFlowCloses, SaveIdOpens,
                SaveIdCloses, serverVars
  <2>1. /\ pc \in AtWork /\ wanted # Torn
        /\ UNCHANGED <<wanted, queue, reply, working, flow, flowId>>
        /\ {pending', savedFlow', savedId'}
             \subseteq {pending, savedFlow, savedId, def, NoFlow, Torn}
    <3>1. wanted # Torn
      BY <2>0 DEF C2Assumption, Inv, ServerInv, ServerTypeOK
    <3> QED
      BY <1>4, <3>1 DEF Apply, SaveFlowOpens, SaveFlowCloses, SaveIdOpens, SaveIdCloses,
                  AtWork, IdOf, engineVars, fileVars, serverVars
  <2>2. Arrived \/ wanted = def =>
          def = wanted /\ IsWanted(ToSet(queue) \cup Updates(reply))
    BY <2>0, <2>1, InHandInOrder
  <2>3. Arrived' => Arrived \/ wanted = def
    BY <2>0, <2>1 DEF Arrived
  <2>4. pending' \in {pending, def}
    BY <1>4 DEF Apply, SaveFlowOpens, SaveFlowCloses, SaveIdOpens, SaveIdCloses,
                engineVars
  <2>5. wanted' \in {flow', flowId'} => IsWanted({working, pending})'
    BY <2>0, <2>1, <2>2, <2>4 DEF InOrder, IsWanted, Arrived
  <2>6. wanted' = working' => IsWanted({pending})'
    BY <2>0, <2>1, <2>2, <2>4 DEF InOrder, IsWanted, Arrived
  <2>7. wanted' = savedId' /\ ~faulted' => savedFlow' \in {wanted', NoFlow}
    <3>1. CASE Apply
      BY <2>0, <2>1, <3>1 DEF Apply, InOrder, fileVars
    <3>2. CASE SaveFlowOpens \/ SaveFlowCloses
      BY <2>0, <2>1, <2>2, <3>2 DEF SaveFlowOpens, SaveFlowCloses, Arrived
    <3>3. CASE SaveIdOpens \/ SaveIdCloses
      BY <2>0, <2>1, <2>2, <3>3
         DEF SaveIdOpens, SaveIdCloses, Arrived, InOrder, Written, IdOf
    <3> QED BY <1>4, <3>1, <3>2, <3>3
  <2>8. IsWanted(ToSet(queue))' <=> IsWanted(ToSet(queue))
    BY <2>1 DEF IsWanted
  <2> QED
    BY <2>0, <2>1, <2>2, <2>3, <2>5, <2>6, <2>7
       DEF InOrder, OnlyAfter, IsWanted, Updates
<1> QED BY <1>1, <1>2, <1>3, <1>4 DEF ClientStep

(* The id is set after the graph, and body and id are saved in that order. *)
LEMMA SynchronizedStep ==
  ASSUME C2Assumption, Inv, InOrder, SynchronizedIsTrue, [Next]_vars
  PROVE  SynchronizedIsTrue'
<1> USE DEF SynchronizedIsTrue
<1>1. CASE UNCHANGED <<wanted, flow, flowId>> /\ (faulted => faulted')
  BY <1>1
<1>2. CASE ClientStep
  BY <1>1, <1>2
     DEF ClientStep, Heartbeat, ExchangeFails, ResponseArrives,
         ResponseUnreadable, OpsDone, ProcessDescribe, Fetch, Refuse, Apply,
         SaveFlowOpens, SaveFlowCloses, SaveIdOpens, SaveIdCloses, Acknowledge,
         engineVars, serverVars, ghostVars
<1>3. CASE Rebuild
  BY <1>3 DEF Rebuild, InOrder, IsWanted, serverVars, ghostVars
<1>4. CASE SetId
  BY <1>4 DEF SetId, IdOf, Inv, DeviceInv, DeviceTypeOK, serverVars
<1>5. CASE TakePending
  BY <1>1, <1>5 DEF TakePending, serverVars, ghostVars
<1>6. ASSUME NEW f \in Flow, Publish(f) PROVE SynchronizedIsTrue'
  <2>1. flowId \in published \cup {NoFlow, Torn} /\ f \notin published \cup {Torn}
    BY <1>6 DEF Publish, Inv, DeviceInv, DeviceKnown, C2Assumption
  <2> QED BY <1>6, <2>1 DEF Publish, engineVars
<1>7. CASE ServerAnswers \/ \E f \in Flow : ServerGivesUp(f)
  BY <1>1, <1>7 DEF ServerAnswers, ServerGivesUp, engineVars, ghostVars
<1>8. CASE PowerLoss
  <2> SUFFICES ASSUME flowId' # NoFlow, flowId' = wanted, ~faulted
               PROVE  flow' = wanted
    BY <1>8 DEF PowerLoss, serverVars
  <2>1. /\ flow' = savedFlow /\ savedFlow # NoFlow
        /\ flowId' \in {savedFlow, savedId}
    BY <1>8 DEF PowerLoss
  <2> QED BY <2>1 DEF InOrder
<1>9. CASE UNCHANGED vars
  BY <1>1, <1>9 DEF vars, engineVars, serverVars, ghostVars
<1> QED
  BY <1>2, <1>3, <1>4, <1>5, <1>6, <1>7, <1>8, <1>9
     DEF Next, EngineStep, ServerStep

(* A device that reports the flow the server wants runs it, whatever was   *)
(* lost, and whenever the power failed.                                    *)
THEOREM SynchronizedTrue == Spec => []SynchronizedIsTrue
<1> DEFINE Ordered == Inv /\ InOrder /\ SynchronizedIsTrue
<1>1. Init => Ordered
  <2>1. ASSUME Init PROVE InOrder /\ SynchronizedIsTrue
    BY <2>1 DEF Init, InOrder, SynchronizedIsTrue
  <2> QED BY <2>1, C2Assumption, InitInv
<1>2. Ordered /\ Durable /\ [Next]_vars => Ordered'
  <2> SUFFICES ASSUME Ordered, Durable, [Next]_vars PROVE Ordered'
    OBVIOUS
  <2>1. Inv'
    BY C2Assumption, StepInv
  <2>2. InOrder'
    <3>1. CASE UNCHANGED vars
      BY <3>1, StaysInOrder DEF vars, clientVars, serverVars, ghostVars
    <3> QED
      BY <3>1, C2Assumption, ClientInOrder, EngineInOrder, ServerInOrder,
         PowerLossInOrder DEF Next, Durable
  <2> QED BY C2Assumption, <2>1, <2>2, SynchronizedStep
<1> QED BY <1>1, <1>2, SavedIsDurable, PTL DEF Spec
=============================================================================
