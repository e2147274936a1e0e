------------------------- MODULE Components_proofs -------------------------
(***************************************************************************)
(* The components beside the engine and the C2 protocol.  Those that share *)
(* state with a callback of another task leave it usable for that task,    *)
(* and for the flow that comes next; all keep to their types, alone and in *)
(* their composition.                                                      *)
(***************************************************************************)
EXTENDS MCComponents, FlowParser_proofs

(* The server runs only between the creation of the inbox and its deletion, *)
(* and while a request is handled it cannot be stopped.                     *)
HttpInv ==
  /\ server \in BOOLEAN /\ inbox \in BOOLEAN
  /\ request # "none" => server
  /\ server => inbox
  /\ http \in {"start", "mark"} => inbox
  /\ http = "delete" => ~server
  /\ queues = (IF inbox THEN 1 ELSE 0)

(* The handler of a POST always finds the inbox, and an inbox is never     *)
(* created over another: on_stop waits for the server before it deletes    *)
(* the inbox, and a failed start leaves its inbox to the next.             *)
THEOREM InboxOutlives == HttpSpec => []InboxOutlivesHandler
<1>1. HttpInit => HttpInv
  BY DEF HttpInit, HttpInv
<1>2. HttpInv /\ [HttpNext]_httpVars => HttpInv'
  <2> SUFFICES ASSUME HttpInv, [HttpNext]_httpVars
               PROVE  HttpInv'
    OBVIOUS
  <2> USE DEF HttpInv, inboxVars, serverVars
  <2>1. CASE OpenInbox
    BY <2>1 DEF OpenInbox
  <2>2. CASE StartServer
    BY <2>2 DEF StartServer
  <2>3. CASE ServerStarted \/ HttpTrigger
    BY <2>3 DEF ServerStarted, HttpTrigger
  <2>4. CASE TakePost \/ NothingWaits
    BY <2>4 DEF TakePost, NothingWaits
  <2>5. CASE BeginStop
    BY <2>5 DEF BeginStop
  <2>6. CASE StopServer
    BY <2>6 DEF StopServer
  <2>7. CASE DeleteInbox
    <3>1. ~server' /\ inbox' = FALSE /\ http' = "idle" /\ request' = "none"
      BY <2>7 DEF DeleteInbox
    <3>2. queues' = 0
      BY <2>7 DEF DeleteInbox
    <3> QED BY <2>7, <3>1, <3>2 DEF DeleteInbox
  <2>8. CASE PostArrives
    BY <2>8 DEF PostArrives
  <2>9. CASE ServerRuns
    BY <2>9 DEF ServerRuns, PostRejected, InboxFull, PostAccepted,
                PostEntersInbox, Answered
  <2>10. CASE UNCHANGED httpVars
    BY <2>10 DEF httpVars
  <2> QED
    BY <2>1, <2>2, <2>3, <2>4, <2>5, <2>6, <2>7, <2>8, <2>9, <2>10
       DEF HttpNext, ListenerRuns
<1>3. HttpInv => InboxOutlivesHandler
  BY DEF HttpInv, InboxOutlivesHandler
<1> QED BY <1>1, <1>2, <1>3, PTL DEF HttpSpec

----------------------------------------------------------------------------
(* The engine knows of the client as long as there is one, and from then   *)
(* until on_stop has cleared the flag there is none.                       *)
PubInv ==
  /\ client \in {"none", "running"} /\ mqttStarted \in BOOLEAN
  /\ client = "running" => mqttStarted
  /\ mqttAt = "stopped" => client = "none"
  /\ event # "none" => client = "running"
  /\ online /\ mqttAt # "stopped" => client = "running"
  /\ mqttAt = "publish" => client = "running"

(* Nothing is published through a client that is gone, and no handler runs *)
(* for one: stopping the client waits for the handler, and on_stop clears  *)
(* the flag after that.                                                    *)
THEOREM ConnectedClient == PubSpec => []ConnectedHasClient
<1>1. PubInit => PubInv
  BY DEF PubInit, PubInv
<1>2. PubInv /\ [PubNext]_pubVars => PubInv'
  <2> SUFFICES ASSUME PubInv, [PubNext]_pubVars
               PROVE  PubInv'
    OBVIOUS
  <2> USE DEF PubInv, flagsVars
  <2>1. CASE PubTrigger
    BY <2>1 DEF PubTrigger
  <2>2. CASE PubDrops \/ PubSends \/ PubPublishes
    BY <2>2 DEF PubDrops, PubSends, PubPublishes
  <2>3. CASE PubStop
    BY <2>3 DEF PubStop
  <2>4. CASE PubClientStops
    BY <2>4 DEF PubClientStops
  <2>5. CASE PubStopped
    BY <2>5 DEF PubStopped
  <2>6. CASE ClientCalls
    BY <2>6 DEF ClientCalls
  <2>7. CASE HandleEvent
    BY <2>7 DEF HandleEvent
  <2>8. CASE UNCHANGED pubVars
    BY <2>8 DEF pubVars
  <2> QED
    BY <2>1, <2>2, <2>3, <2>4, <2>5, <2>6, <2>7, <2>8 DEF PubNext
<1>3. PubInv => ConnectedHasClient
  BY DEF PubInv, ConnectedHasClient
<1> QED BY <1>1, <1>2, <1>3, PTL DEF PubSpec

----------------------------------------------------------------------------
(* The engine is past the set-up only with a camera that is set up, and    *)
(* has its frame exactly from the moment it is taken until it is returned. *)
ImageInv ==
  /\ imageAt \in {"idle", "client", "check", "grab", "publish", "return"}
  /\ cameraOk \in BOOLEAN /\ camera \in {"off", "ready", "lent"}
  /\ imageAt \in {"client", "check", "grab"} => camera = "ready"
  /\ imageAt \in {"publish", "return"} => camera = "lent"
  /\ imageAt = "idle" => camera # "lent"
  /\ camera # "off" <=> cameraOk

(* The one buffer of the camera is given back whatever fails, and the      *)
(* camera is released with the processor that set it up.                   *)
THEOREM CameraLeftUsable == ImageSpec => []CameraIsLeftUsable
<1>1. ImageInit => ImageInv
  BY DEF ImageInit, ImageInv
<1>2. ImageInv /\ [ImageNext]_imageVars => ImageInv'
  <2> SUFFICES ASSUME ImageInv, [ImageNext]_imageVars
               PROVE  ImageInv'
    OBVIOUS
  <2> USE DEF ImageInv, cameraVars
  <2>1. CASE CameraUp
    <3>1. CASE cameraOk'
      BY <2>1, <3>1 DEF CameraUp
    <3>2. CASE ~cameraOk'
      BY <2>1, <3>2 DEF CameraUp
    <3> QED BY <3>1, <3>2
  <2>2. CASE ImageTrigger
    BY <2>2 DEF ImageTrigger
  <2>3. CASE ImageTick
    BY <2>3 DEF ImageTick
  <2>4. CASE CheckBroker
    BY <2>4 DEF CheckBroker
  <2>5. CASE GrabFrame
    BY <2>5 DEF GrabFrame
  <2>6. CASE PublishFrame
    BY <2>6 DEF PublishFrame
  <2>7. CASE ReturnFrame
    BY <2>7 DEF ReturnFrame
  <2>8. CASE ImageStops
    BY <2>8 DEF ImageStops
  <2>9. CASE ImageEvent
    BY <2>9 DEF ImageEvent
  <2>10. CASE UNCHANGED imageVars
    BY <2>10 DEF imageVars
  <2> QED
    BY <2>1, <2>2, <2>3, <2>4, <2>5, <2>6, <2>7, <2>8, <2>9, <2>10
       DEF ImageNext
<1>3. ImageInv => CameraIsLeftUsable
  BY DEF ImageInv, CameraIsLeftUsable
<1> QED BY <1>1, <1>2, <1>3, PTL DEF ImageSpec

----------------------------------------------------------------------------
(* What the driver has reported and nobody has handled yet.                *)
EventsOK ==
  /\ events \in Seq({"start", "disconnected", "ip"})
  /\ Len(events) <= MaxEvents
  /\ attempts \in 0 .. MaxAttempts

(* Where the agent owns the station, the driver reports nothing before it  *)
(* has reported the start, and what it has reported last is how the link   *)
(* stands.                                                                 *)
LinkInv ==
  /\ station = "start" => events = <<>> /\ link = "off" /\ ~connected
  /\ station # "found"
  /\ \A i \in 1 .. Len(events) :
       events[i] = "start" => Len(events) = 1 /\ link = "off" /\ ~connected
  /\ events # <<>> => (events[Len(events)] = "ip" <=> link = "up")
  /\ events = <<>> => (connected <=> link = "up")

WifiInv == EventsOK /\ (~adopt => LinkInv)

LEMMA Handled ==
  ASSUME EventsOK, NEW e, Handles(e)
  PROVE  /\ events # <<>> /\ events[1] = e
         /\ Len(events) \in Nat /\ Len(events) >= 1
         /\ events' \in Seq({"start", "disconnected", "ip"})
         /\ Len(events') = Len(events) - 1 /\ Len(events') <= MaxEvents
         /\ \A i \in 1 .. Len(events') : events'[i] = events[i + 1]
         /\ events' = <<>> <=> Len(events) = 1
         /\ events' # <<>> => events'[Len(events')] = events[Len(events)]
<1>1. /\ events # <<>> /\ events[1] = e /\ events' = Tail(events)
      /\ events \in Seq({"start", "disconnected", "ip"})
      /\ Len(events) \in Nat /\ Len(events) >= 1
      /\ Len(events) <= MaxEvents
  BY DEF Handles, EventsOK
<1>2. /\ Tail(events) \in Seq({"start", "disconnected", "ip"})
      /\ Len(Tail(events)) = Len(events) - 1
      /\ \A i \in 1 .. Len(Tail(events)) : Tail(events)[i] = events[i + 1]
  BY <1>1
<1>3. Tail(events) = <<>> <=> Len(events) = 1
  <2>1. \A t \in Seq({"start", "disconnected", "ip"}) : t = <<>> <=> Len(t) = 0
    OBVIOUS
  <2>2. Len(Tail(events)) = 0 <=> Len(events) = 1
    BY <1>1, <1>2
  <2> QED
    BY <1>2, <2>1, <2>2, Zenon
<1>4. Tail(events) # <<>> => Tail(events)[Len(Tail(events))] = events[Len(events)]
  BY <1>1, <1>2, <1>3
<1> QED
  BY <1>1, <1>2, <1>3, <1>4, WifiAssumption

LEMMA Reported ==
  ASSUME EventsOK, NEW e \in {"start", "disconnected", "ip"}, Reports(e)
  PROVE  /\ Len(events) \in Nat
         /\ events' \in Seq({"start", "disconnected", "ip"})
         /\ Len(events') = Len(events) + 1 /\ Len(events') <= MaxEvents
         /\ events' # <<>> /\ events'[Len(events')] = e
         /\ \A i \in 1 .. Len(events) : events'[i] = events[i]
  BY WifiAssumption DEF Reports, EventsOK

(* Once every event is handled, wifi_connected tells the state of the      *)
(* link, after any losses, in any phase of a connection.                   *)
THEOREM ConnectedTells == WifiSpec => []ConnectedIsTrue
<1>1. WifiInit => WifiInv
  BY WifiAssumption DEF WifiInit, WifiInv, EventsOK, LinkInv
<1>2. WifiInv /\ [WifiNext]_wifiVars => WifiInv'
  <2> SUFFICES ASSUME WifiInv, [WifiNext]_wifiVars
               PROVE  WifiInv'
    OBVIOUS
  <2>0. EventsOK
    BY DEF WifiInv
  <2>1. CASE StartStation
    <3>1. Reports("start") /\ ~adopt /\ ~adopt' /\ station' = "wait"
          /\ station = "start" /\ UNCHANGED <<flagVars, link>>
      BY <2>1 DEF StartStation, Reports
    <3>2. /\ Len(events) \in Nat
          /\ events' \in Seq({"start", "disconnected", "ip"})
          /\ Len(events') = Len(events) + 1 /\ Len(events') <= MaxEvents
          /\ events' # <<>> /\ events'[Len(events')] = "start"
      BY <2>0, <3>1, Reported
    <3>3. EventsOK'
      BY <3>1, <3>2, <2>0 DEF EventsOK, flagVars
    <3>4. Len(events) = 0 /\ link = "off" /\ ~connected
      BY <3>1 DEF WifiInv, LinkInv
    <3>5. LinkInv'
      BY <3>1, <3>2, <3>4 DEF LinkInv, flagVars
    <3> QED
      BY <3>3, <3>5 DEF WifiInv
  <2>2. CASE AdoptStation \/ AdoptFound \/ WaitEnds \/ Joins \/ HostConnects \/ ApChanges
    <3>1. EventsOK'
      BY <2>0, <2>2 DEF AdoptStation, AdoptFound, WaitEnds, Joins, HostConnects,
         ApChanges, EventsOK, flagVars, driverVars
    <3>2. ~adopt' => LinkInv'
      BY <2>2 DEF AdoptStation, AdoptFound, WaitEnds, Joins, HostConnects,
         ApChanges, WifiInv, LinkInv, flagVars, driverVars
    <3> QED
      BY <3>1, <3>2 DEF WifiInv
  <2>3. CASE JoinFails \/ GetsAddress \/ LinkLost
    <3>1. PICK e \in {"disconnected", "ip"} :
            /\ Reports(e) /\ link # "off"
            /\ UNCHANGED <<adopt, station, flagVars>>
            /\ e = "ip" <=> link' = "up"
      BY <2>3 DEF JoinFails, GetsAddress, LinkLost
    <3>2. /\ Len(events) \in Nat
          /\ events' \in Seq({"start", "disconnected", "ip"})
          /\ Len(events') = Len(events) + 1 /\ Len(events') <= MaxEvents
          /\ events' # <<>> /\ events'[Len(events')] = e
          /\ \A i \in 1 .. Len(events) : events'[i] = events[i]
      BY <2>0, <3>1, Reported
    <3>3. EventsOK'
      BY <3>1, <3>2, <2>0 DEF EventsOK, flagVars
    <3>4. ~adopt' => LinkInv'
      BY <3>1, <3>2 DEF WifiInv, LinkInv, flagVars
    <3> QED
      BY <3>3, <3>4 DEF WifiInv
  <2>4. CASE HandleStart \/ HandleDisconnected
    <3>1. PICK e \in {"start", "disconnected"} :
            /\ Handles(e) /\ UNCHANGED <<adopt, station>>
            /\ connected' = IF e = "start" THEN connected ELSE FALSE
            /\ link' = link \/ (link = "off" /\ link' = "trying")
            /\ attempts' = attempts \/ (attempts < MaxAttempts /\ attempts' = attempts + 1)
      BY <2>4 DEF HandleStart, HandleDisconnected, AskToConnect, flagVars
    <3>2. /\ events # <<>> /\ events[1] = e
          /\ Len(events) \in Nat /\ Len(events) >= 1
          /\ events' \in Seq({"start", "disconnected", "ip"})
          /\ Len(events') = Len(events) - 1 /\ Len(events') <= MaxEvents
          /\ \A i \in 1 .. Len(events') : events'[i] = events[i + 1]
          /\ events' = <<>> <=> Len(events) = 1
          /\ events' # <<>> => events'[Len(events')] = events[Len(events)]
      BY <2>0, <3>1, Handled
    <3>3. EventsOK'
      BY <3>1, <3>2, <2>0, WifiAssumption DEF EventsOK
    <3>4. ~adopt' => LinkInv'
      BY <3>1, <3>2 DEF WifiInv, LinkInv
    <3> QED
      BY <3>3, <3>4 DEF WifiInv
  <2>5. CASE HandleAdoptedDisconnected
    <3>1. Handles("disconnected") /\ adopt' /\ attempts' = attempts
      BY <2>5 DEF HandleAdoptedDisconnected
    <3>2. EventsOK'
      BY <2>0, <3>1, Handled DEF EventsOK
    <3> QED
      BY <3>1, <3>2 DEF WifiInv
  <2>6. CASE HandleAddress
    <3>1. /\ Handles("ip") /\ UNCHANGED <<adopt, station, link>>
          /\ ~(adopt /\ station = "start") => attempts' = 0 /\ connected' = TRUE
          /\ adopt /\ station = "start" => attempts' = attempts
      BY <2>6 DEF HandleAddress, flagVars
    <3>2. /\ events # <<>> /\ events[1] = "ip"
          /\ Len(events) \in Nat /\ Len(events) >= 1
          /\ events' \in Seq({"start", "disconnected", "ip"})
          /\ Len(events') = Len(events) - 1 /\ Len(events') <= MaxEvents
          /\ \A i \in 1 .. Len(events') : events'[i] = events[i + 1]
          /\ events' = <<>> <=> Len(events) = 1
          /\ events' # <<>> => events'[Len(events')] = events[Len(events)]
      BY <2>0, <3>1, Handled
    <3>3. EventsOK'
      BY <3>1, <3>2, <2>0, WifiAssumption DEF EventsOK
    <3>4. ~adopt' => LinkInv'
      BY <3>1, <3>2 DEF WifiInv, LinkInv
    <3> QED
      BY <3>3, <3>4 DEF WifiInv
  <2>7. CASE UNCHANGED wifiVars
    BY <2>7 DEF wifiVars, flagVars, driverVars, WifiInv, EventsOK, LinkInv
  <2> QED
    BY <2>1, <2>2, <2>3, <2>4, <2>5, <2>6, <2>7 DEF WifiNext, StationBoots, EventTask
<1>3. WifiInv => ConnectedIsTrue
  BY DEF WifiInv, LinkInv, ConnectedIsTrue
<1> QED BY <1>1, <1>2, <1>3, PTL DEF WifiSpec

----------------------------------------------------------------------------
(* The recorder task is copying a slice, or completing a clip with it.     *)
Copying == callback \in {"copy", "copied"}

(* What holds of the clip while this processor has not started the encoder *)
(* itself.  Once data has been seen, no callback of an earlier clip is     *)
(* under way; a clip is begun only then; and while it is recorded, all of  *)
(* the buffer up to pcmLen holds its sound, but for the slice being copied. *)
ClipInv ==
  /\ recording => mic = "record"
  /\ dataSeen /\ mic \notin {"record", "expired"} => ~Copying
  /\ mic = "begin" => dataSeen
  /\ mic = "record" =>
       /\ recording <=> pcmLen < ClipSlices
       /\ Copying => /\ slice.clip = clip /\ slice.offset = pcmLen
                     /\ slice.last <=> pcmLen = ClipSlices
       /\ callback = "copied" => pcmLen = ClipSlices
       /\ \A i \in 1 .. pcmLen :
            buf[i] = clip \/ (callback = "copy" /\ i = slice.offset)
       /\ clipReady => pcmLen = ClipSlices /\ ~Copying
  /\ mic = "publish" =>
       /\ pcmLen = ClipSlices /\ ~Copying
       /\ \A i \in 1 .. ClipSlices : buf[i] = clip

AudioInv ==
  /\ pcmLen \in 0 .. ClipSlices
  /\ recording => pcmLen < ClipSlices
  /\ DOMAIN buf = 1 .. ClipSlices
  /\ mic = "started" => startedByUs
  /\ mic = "stop" => ~recording
  /\ ~startedByUs => ClipInv

(* A clip published by a processor that has not started the encoder itself *)
(* holds the sound of that clip alone, whatever timed out before.          *)
THEOREM ClipsAreWhole == AudioSpec => []PublishedIsWhole
<1> USE AudioAssumption
<1>1. AudioInit => AudioInv
  BY DEF AudioInit, AudioInv, ClipInv, Copying
<1>2. AudioInv /\ [AudioNext]_audioVars => AudioInv'
  <2> SUFFICES ASSUME AudioInv, [AudioNext]_audioVars
               PROVE  AudioInv'
    OBVIOUS
  <2> USE DEF AudioInv, ClipInv, Copying, engineVars, slotVars
  <2>1. CASE Trigger \/ TriggerSubscribes
    BY <2>1 DEF Trigger, TriggerSubscribes
  <2>2. CASE EncoderRuns
    BY <2>2 DEF EncoderRuns
  <2>3. CASE NobodyRunsIt \/ StartEncoder \/ CaptureFails
    BY <2>3 DEF NobodyRunsIt, StartEncoder, CaptureFails
  <2>4. CASE BeginClip
    BY <2>4 DEF BeginClip
  <2>5. CASE ClipIsReady
    BY <2>5 DEF ClipIsReady
  <2>6. CASE PublishClip
    BY <2>6 DEF PublishClip
  <2>7. CASE ClipTimesOut \/ GiveUp
    BY <2>7 DEF ClipTimesOut, GiveUp
  <2>8. CASE StopClip \/ StopEncoder
    BY <2>8 DEF StopClip, StopEncoder
  <2>9. CASE SliceArrives \/ SliceIsSeen \/ SliceIgnored
    BY <2>9 DEF SliceArrives, SliceIsSeen, SliceIgnored
  <2>10. CASE SliceClaims
    <3>1. /\ slice'.offset = pcmLen + 1 /\ slice'.clip = clip
          /\ slice'.last <=> pcmLen' >= ClipSlices
      BY <2>10 DEF SliceClaims
    <3>2. recording' <=> ~(pcmLen' >= ClipSlices)
      BY <2>10, <3>1 DEF SliceClaims
    <3>3. /\ recording /\ pcmLen' = pcmLen + 1
          /\ callback = "seen" /\ callback' = "copy"
          /\ UNCHANGED <<engineVars, clipReady, dataSeen, buf>>
      BY <2>10 DEF SliceClaims
    <3> QED
      BY <3>1, <3>2, <3>3
  <2>11. CASE SliceCopied
    BY <2>11 DEF SliceCopied
  <2>12. CASE ClipCompletes
    BY <2>12 DEF ClipCompletes
  <2>13. CASE OthersChange \/ UNCHANGED audioVars
    BY <2>13 DEF OthersChange, audioVars
  <2> QED
    BY <2>1, <2>2, <2>3, <2>4, <2>5, <2>6, <2>7, <2>8, <2>9, <2>10, <2>11,
       <2>12, <2>13 DEF AudioNext, Capture, Recorder
<1>3. AudioInv => PublishedIsWhole
  BY DEF AudioInv, ClipInv, PublishedIsWhole
<1> QED BY <1>1, <1>2, <1>3, PTL DEF AudioSpec

----------------------------------------------------------------------------
(* The ring of gestures.                                                   *)

LEMMA RingModulo ==
  ASSUME NEW n \in Nat, n < 2 * RingSize
  PROVE  n % RingSize = IF n < RingSize THEN n ELSE n - RingSize
  BY TouchAssumption

(* The place of the i-th gesture held, the oldest being the first.         *)
Place(h, c, i) ==
  IF h + i - 1 >= c THEN h + i - 1 - c ELSE h + i - 1 - c + RingSize

RingInv ==
  /\ ring \in [0 .. RingSize - 1 -> 0 .. MaxGestures]
  /\ head \in 0 .. RingSize - 1
  /\ count \in 0 .. RingSize
  /\ touching \in 0 .. MaxGestures
  /\ gestures \in 0 .. MaxGestures

(* The gestures held in a ring with its next place h and its count c.      *)
HeldIn(r, h, c) ==
  [i \in 1 .. c |-> r[(h + RingSize - c + i - 1) % RingSize]]

(* What a sequence of them is.                                             *)
IsHeld(q, r, h, c) ==
  /\ q \in Seq(0 .. MaxGestures) /\ Len(q) = c
  /\ \A i \in 1 .. c : /\ q[i] = r[Place(h, c, i)]
                       /\ Place(h, c, i) \in 0 .. RingSize - 1

LEMMA HeldIs ==
  ASSUME NEW r \in [0 .. RingSize - 1 -> 0 .. MaxGestures],
         NEW h \in 0 .. RingSize - 1, NEW c \in 0 .. RingSize
  PROVE  IsHeld(HeldIn(r, h, c), r, h, c)
<1> USE TouchAssumption
<1>1. ASSUME NEW i \in 1 .. c
      PROVE  /\ (h + RingSize - c + i - 1) % RingSize = Place(h, c, i)
             /\ Place(h, c, i) \in 0 .. RingSize - 1
  <2> DEFINE n == h + RingSize - c + i - 1
  <2>1. n \in Nat /\ n < 2 * RingSize
    OBVIOUS
  <2>2. Place(h, c, i) = IF n < RingSize THEN n ELSE n - RingSize
    BY DEF Place
  <2>3. Place(h, c, i) \in 0 .. RingSize - 1
    BY DEF Place
  <2> HIDE DEF n
  <2>4. n % RingSize = IF n < RingSize THEN n ELSE n - RingSize
    BY <2>1, RingModulo
  <2> QED
    BY <2>2, <2>3, <2>4 DEF n
<1>2. HeldIn(r, h, c) = [i \in 1 .. c |-> r[Place(h, c, i)]]
  BY <1>1 DEF HeldIn
<1> QED
  BY <1>1, <1>2 DEF IsHeld

(* Two sequences that agree on every place are one.                        *)
LEMMA SameSequence ==
  ASSUME NEW S, NEW s \in Seq(S), NEW t \in Seq(S), Len(s) = Len(t),
         \A i \in 1 .. Len(s) : s[i] = t[i]
  PROVE  s = t
  OBVIOUS

Enters(old, new, full, x) == new = Append(IF full THEN Tail(old) ELSE old, x)

(* A gesture that enters is the last one held; the oldest leaves a ring    *)
(* that is full.                                                           *)
LEMMA HeldEnters ==
  ASSUME NEW r \in [0 .. RingSize - 1 -> 0 .. MaxGestures],
         NEW h \in 0 .. RingSize - 1, NEW c \in 0 .. RingSize,
         NEW x \in 0 .. MaxGestures,
         NEW k, k = IF h + 1 < RingSize THEN h + 1 ELSE 0
  PROVE  Enters(HeldIn(r, h, c),
                HeldIn([r EXCEPT ![h] = x], k, IF c < RingSize THEN c + 1 ELSE c),
                ~(c < RingSize), x)
<1> USE TouchAssumption
<1> DEFINE s == [r EXCEPT ![h] = x]
           old == HeldIn(r, h, c)
<1>1. /\ s \in [0 .. RingSize - 1 -> 0 .. MaxGestures] /\ k \in 0 .. RingSize - 1
      /\ s[h] = x
      /\ \A p \in 0 .. RingSize - 1 : p # h => s[p] = r[p]
  OBVIOUS
<1>2. /\ old \in Seq(0 .. MaxGestures) /\ Len(old) = c
      /\ \A i \in 1 .. c : old[i] = r[Place(h, c, i)]
  BY HeldIs DEF IsHeld
<1> HIDE DEF s, old
<1>3. ASSUME c < RingSize
      PROVE  HeldIn(s, k, c + 1) = Append(old, x)
  <2> DEFINE new == HeldIn(s, k, c + 1)
             app == Append(old, x)
  <2>1. /\ new \in Seq(0 .. MaxGestures) /\ Len(new) = c + 1
        /\ \A i \in 1 .. c + 1 : new[i] = s[Place(k, c + 1, i)]
    <3>1. c + 1 \in 0 .. RingSize
      BY <1>3
    <3>2. IsHeld(HeldIn(s, k, c + 1), s, k, c + 1)
      BY <1>1, <3>1, HeldIs
    <3> QED
      BY <3>2 DEF IsHeld
  <2>2. /\ app \in Seq(0 .. MaxGestures) /\ Len(app) = c + 1
        /\ app[c + 1] = x
        /\ \A i \in 1 .. c : app[i] = old[i]
    BY <1>2
  <2> HIDE DEF new, app
  <2>3. ASSUME NEW i \in 1 .. c + 1
        PROVE  new[i] = app[i]
    <3>1. CASE i = c + 1
      <4>1. Place(k, c + 1, i) = h
        BY <1>3, <3>1 DEF Place
      <4> QED
        BY <1>1, <2>1, <2>2, <3>1, <4>1
    <3>2. CASE i \in 1 .. c
      <4>1. /\ Place(k, c + 1, i) = Place(h, c, i) /\ Place(h, c, i) # h
            /\ Place(h, c, i) \in 0 .. RingSize - 1
        BY <1>3, <3>2 DEF Place
      <4>2. new[i] = r[Place(h, c, i)]
        BY <1>1, <2>1, <4>1
      <4> QED
        BY <1>2, <2>2, <3>2, <4>2
    <3> QED
      BY <3>1, <3>2
  <2>4. new = app
    BY <2>1, <2>2, <2>3, SameSequence
  <2> QED
    BY <2>4 DEF new, app
<1>4. ASSUME ~(c < RingSize)
      PROVE  HeldIn(s, k, c) = Append(Tail(old), x)
  <2> DEFINE new == HeldIn(s, k, c)
             app == Append(Tail(old), x)
  <2>1. /\ new \in Seq(0 .. MaxGestures) /\ Len(new) = c
        /\ \A i \in 1 .. c : new[i] = s[Place(k, c, i)]
    <3>1. IsHeld(HeldIn(s, k, c), s, k, c)
      BY <1>1, HeldIs
    <3> QED
      BY <3>1 DEF IsHeld
  <2>2. /\ app \in Seq(0 .. MaxGestures) /\ Len(app) = c
        /\ app[c] = x
        /\ \A i \in 1 .. c - 1 : app[i] = old[i + 1]
    BY <1>2, <1>4
  <2> HIDE DEF new, app
  <2>3. ASSUME NEW i \in 1 .. c
        PROVE  new[i] = app[i]
    <3>1. CASE i = c
      <4>1. Place(k, c, i) = h
        BY <1>4, <3>1 DEF Place
      <4> QED
        BY <1>1, <2>1, <2>2, <3>1, <4>1
    <3>2. CASE i \in 1 .. c - 1
      <4>1. /\ Place(k, c, i) = Place(h, c, i + 1) /\ Place(h, c, i + 1) # h
            /\ Place(h, c, i + 1) \in 0 .. RingSize - 1
            /\ i + 1 \in 1 .. c
        BY <1>4, <3>2 DEF Place
      <4>2. new[i] = r[Place(h, c, i + 1)]
        BY <1>1, <2>1, <4>1
      <4>3. old[i + 1] = r[Place(h, c, i + 1)]
        BY <1>2, <4>1
      <4> QED
        BY <2>2, <3>2, <4>2, <4>3
    <3> QED
      BY <3>1, <3>2
  <2>4. new = app
    BY <2>1, <2>2, <2>3, SameSequence
  <2> QED
    BY <2>4 DEF new, app
<1> QED
  BY <1>3, <1>4 DEF s, old, Enters

(* Popping takes the oldest.                                               *)
LEMMA HeldPops ==
  ASSUME NEW r \in [0 .. RingSize - 1 -> 0 .. MaxGestures],
         NEW h \in 0 .. RingSize - 1, NEW c \in 1 .. RingSize
  PROVE  /\ HeldIn(r, h, c) # <<>>
         /\ HeldIn(r, h, c - 1) = Tail(HeldIn(r, h, c))
<1> USE TouchAssumption
<1> DEFINE old == HeldIn(r, h, c)
           new == HeldIn(r, h, c - 1)
           rest == Tail(old)
<1>0. c \in 0 .. RingSize /\ c - 1 \in 0 .. RingSize
  OBVIOUS
<1>1. /\ old \in Seq(0 .. MaxGestures) /\ Len(old) = c
      /\ \A i \in 1 .. c : old[i] = r[Place(h, c, i)]
  BY <1>0, HeldIs DEF IsHeld
<1>2. /\ new \in Seq(0 .. MaxGestures) /\ Len(new) = c - 1
      /\ \A i \in 1 .. c - 1 : new[i] = r[Place(h, c - 1, i)]
  BY <1>0, HeldIs DEF IsHeld
<1>3. \A i \in 1 .. c - 1 : Place(h, c - 1, i) = Place(h, c, i + 1) /\ i + 1 \in 1 .. c
  BY DEF Place
<1> HIDE DEF old, new
<1>4. /\ old # <<>> /\ rest \in Seq(0 .. MaxGestures) /\ Len(rest) = c - 1
      /\ \A i \in 1 .. c - 1 : rest[i] = old[i + 1]
  BY <1>1
<1> HIDE DEF rest
<1>5. ASSUME NEW i \in 1 .. c - 1
      PROVE  new[i] = rest[i]
  <2>1. i + 1 \in 1 .. c /\ Place(h, c - 1, i) = Place(h, c, i + 1)
    BY <1>3
  <2>2. old[i + 1] = r[Place(h, c, i + 1)]
    BY <1>1, <2>1, Zenon
  <2>3. new[i] = r[Place(h, c - 1, i)] /\ rest[i] = old[i + 1]
    BY <1>2, <1>4, Zenon
  <2> QED
    BY <2>1, <2>2, <2>3
<1>6. new = rest
  BY <1>2, <1>4, <1>5, SameSequence
<1> QED
  BY <1>4, <1>6 DEF old, new, rest

(* The ring, with the tail computed from head and count, is a queue of the *)
(* last RingSize gestures: none is lost while there is room, none is       *)
(* delivered twice or out of order, and a full ring drops the oldest.      *)
THEOREM RingQueues == TouchSpec => RingIsQueue
<1> USE TouchAssumption
<1>1. TouchInit => RingInv /\ Held = <<>>
  <2> SUFFICES ASSUME TouchInit
               PROVE  RingInv /\ Held = <<>>
    OBVIOUS
  <2>1. RingInv
    BY DEF TouchInit, RingInv
  <2>2. count = 0
    BY DEF TouchInit
  <2> QED
    BY <2>1, <2>2 DEF Held
<1>2. RingInv /\ [TouchNext]_touchVars => RingInv'
  <2> SUFFICES ASSUME RingInv, [TouchNext]_touchVars
               PROVE  RingInv'
    OBVIOUS
  <2> USE DEF RingInv, ringVars
  <2>1. CASE GestureEnters
    <3>1. head' = IF head + 1 < RingSize THEN head + 1 ELSE 0
      BY <2>1, RingModulo DEF GestureEnters
    <3> QED
      BY <2>1, <3>1 DEF GestureEnters
  <2>2. CASE GestureMade \/ PopGesture
    BY <2>2 DEF GestureMade, PopGesture, PopIsEnabled
  <2>3. CASE TouchTrigger \/ EmptyRing \/ Subscribe \/ DrainEnds \/ Unsubscribe \/ TouchStops
    BY <2>3 DEF TouchTrigger, EmptyRing, Subscribe, DrainEnds, Unsubscribe,
       TouchStops, RingCleared
  <2>4. CASE UNCHANGED touchVars
    BY <2>4 DEF touchVars
  <2> QED
    BY <2>1, <2>2, <2>3, <2>4 DEF TouchNext
<1>3. RingInv /\ [TouchNext]_touchVars =>
        [Recent!Take \/ Recent!Clear \/ \E x \in 1 .. MaxGestures : Recent!Put(x)]_Held
  <2> SUFFICES ASSUME RingInv, [TouchNext]_touchVars
               PROVE  \/ Recent!Take \/ Recent!Clear
                      \/ \E x \in 1 .. MaxGestures : Recent!Put(x)
                      \/ UNCHANGED Held
    OBVIOUS
  <2>0. /\ Held = HeldIn(ring, head, count)
        /\ Held' = HeldIn(ring', head', count')
    BY DEF Held, HeldIn
  <2>1. CASE GestureEnters
    <3>0. head' = IF head + 1 < RingSize THEN head + 1 ELSE 0
      BY <2>1, RingModulo DEF GestureEnters, RingInv
    <3>1. /\ touching \in 1 .. MaxGestures
          /\ ring' = [ring EXCEPT ![head] = touching]
          /\ count' = IF count < RingSize THEN count + 1 ELSE count
      BY <2>1 DEF GestureEnters, RingInv
    <3> DEFINE h == head'
    <3> HIDE DEF h
    <3>5. Enters(Held, Held', ~(count < RingSize), touching)
      <4>1. h = IF head + 1 < RingSize THEN head + 1 ELSE 0
        BY <3>0 DEF h
      <4>2. /\ ring \in [0 .. RingSize - 1 -> 0 .. MaxGestures]
            /\ head \in 0 .. RingSize - 1 /\ count \in 0 .. RingSize
            /\ touching \in 0 .. MaxGestures
        BY DEF RingInv
      <4>3. Enters(HeldIn(ring, head, count),
                   HeldIn([ring EXCEPT ![head] = touching], h,
                          IF count < RingSize THEN count + 1 ELSE count),
                   ~(count < RingSize), touching)
        BY <4>1, <4>2, HeldEnters
      <4> QED
        BY <2>0, <3>1, <4>3 DEF h
    <3>2. Len(Held) = count
      BY <2>0, HeldIs DEF RingInv, IsHeld
    <3>3. CASE count < RingSize
      <4>1. Held' = Append(Held, touching)
        BY <3>3, <3>5 DEF Enters
      <4> QED
        BY <3>1, <3>2, <3>3, <4>1 DEF Recent!Put
    <3>4. CASE ~(count < RingSize)
      <4>1. Held' = Append(Tail(Held), touching)
        BY <3>4, <3>5 DEF Enters
      <4> QED
        BY <3>1, <3>2, <3>4, <4>1 DEF Recent!Put
    <3> QED
      BY <3>3, <3>4
  <2>2. CASE PopGesture
    <3>1. /\ count \in 1 .. RingSize /\ count' = count - 1
          /\ UNCHANGED <<ring, head>>
      BY <2>2 DEF PopGesture, PopIsEnabled, RingInv
    <3>2. Held # <<>> /\ Held' = Tail(Held)
      BY <2>0, <3>1, HeldPops DEF RingInv
    <3> QED
      BY <3>2 DEF Recent!Take
  <2>3. CASE EmptyRing \/ TouchStops
    <3>1. count' = 0
      BY <2>3 DEF EmptyRing, TouchStops, RingCleared
    <3> QED
      BY <3>1 DEF Held, Recent!Clear
  <2>4. CASE GestureMade \/ TouchTrigger \/ Subscribe \/ DrainEnds \/ Unsubscribe
             \/ UNCHANGED touchVars
    BY <2>4 DEF GestureMade, TouchTrigger, Subscribe, DrainEnds, Unsubscribe,
       touchVars, ringVars, Held
  <2> QED
    BY <2>1, <2>2, <2>3, <2>4 DEF TouchNext
<1> QED
  BY <1>1, <1>2, <1>3, PTL DEF TouchSpec, RingIsQueue, Recent!Spec

----------------------------------------------------------------------------
(* Types.  Flags and numbers are told apart, as the provers do; beside the *)
(* types the invariants say what bounds the counters.                      *)

AudioFlags ==
  /\ recording \in BOOLEAN /\ clipReady \in BOOLEAN /\ dataSeen \in BOOLEAN
  /\ startedByUs \in BOOLEAN /\ tapped \in BOOLEAN /\ others \in BOOLEAN

AudioRanges ==
  /\ mic \in {"idle", "probe", "silent", "started", "begin", "record",
              "publish", "expired", "stop"}
  /\ pcmLen \in 0 .. ClipSlices
  /\ callback \in {"none", "called", "seen", "copy", "copied"}
  /\ slice \in [offset : 0 .. ClipSlices, clip : 0 .. MaxClip, last : BOOLEAN]
  /\ buf \in [1 .. ClipSlices -> 0 .. MaxClip]
  /\ clip \in 0 .. MaxClip
  /\ recording => pcmLen < ClipSlices
  /\ mic \in {"probe", "silent", "started", "begin"} => clip < MaxClip

LEMMA AudioTyped == AudioSpec => []AudioTypeOK
<1> USE AudioAssumption
<1>1. AudioInit => AudioFlags /\ AudioRanges
  <2>1. AudioInit => AudioFlags
    BY DEF AudioInit, AudioFlags
  <2>2. AudioInit => AudioRanges
    BY DEF AudioInit, AudioRanges, NoSlice
  <2> QED
    BY <2>1, <2>2
<1>2. AudioFlags /\ [AudioNext]_audioVars => AudioFlags'
  BY DEF AudioFlags, engineVars, slotVars, audioVars, AudioNext, Trigger,
         TriggerSubscribes, Capture, EncoderRuns, NobodyRunsIt, StartEncoder,
         CaptureFails, BeginClip, ClipIsReady, PublishClip, ClipTimesOut,
         GiveUp, StopClip, StopEncoder, Recorder, SliceArrives, SliceIsSeen,
         SliceIgnored, SliceClaims, SliceCopied, ClipCompletes, OthersChange
<1>3. AudioFlags /\ AudioRanges /\ [AudioNext]_audioVars => AudioRanges'
  <2> SUFFICES ASSUME AudioRanges, [AudioNext]_audioVars
               PROVE  AudioRanges'
    OBVIOUS
  <2> USE DEF AudioRanges, engineVars, slotVars
  <2>1. CASE Trigger \/ TriggerSubscribes
    BY <2>1 DEF Trigger, TriggerSubscribes
  <2>2. CASE Capture
    BY <2>2 DEF Capture, EncoderRuns, NobodyRunsIt, StartEncoder, CaptureFails,
                BeginClip, ClipIsReady, PublishClip, ClipTimesOut, GiveUp
  <2>3. CASE StopClip \/ StopEncoder
    BY <2>3 DEF StopClip, StopEncoder
  <2>4. CASE SliceArrives \/ SliceIsSeen \/ SliceIgnored \/ ClipCompletes
    BY <2>4 DEF SliceArrives, SliceIsSeen, SliceIgnored, ClipCompletes
  <2>5. CASE SliceClaims
    <3>1. pcmLen' \in 1 .. ClipSlices
      BY <2>5 DEF SliceClaims
    <3>2. slice' = [offset |-> pcmLen', clip |-> clip,
                    last |-> pcmLen' >= ClipSlices]
      BY <2>5 DEF SliceClaims
    <3>3. (pcmLen' >= ClipSlices) \in BOOLEAN
      OBVIOUS
    <3>4. pcmLen' \in 0 .. ClipSlices /\ clip \in 0 .. MaxClip
      BY <3>1
    <3>5. slice' \in [offset : 0 .. ClipSlices, clip : 0 .. MaxClip,
                      last : BOOLEAN]
      BY <3>2, <3>3, <3>4, Zenon
    <3>6. slice'.last = (pcmLen' >= ClipSlices)
      BY <3>2, Zenon
    <3>7. recording' => pcmLen' < ClipSlices
      <4>1. pcmLen' >= ClipSlices => ~recording'
        BY <2>5, <3>6 DEF SliceClaims
      <4> QED
        BY <3>1, <4>1
    <3>8. UNCHANGED <<mic, clip, buf>> /\ callback' = "copy"
      BY <2>5 DEF SliceClaims
    <3> QED
      BY <3>4, <3>5, <3>7, <3>8, Zenon
  <2>6. CASE SliceCopied
    BY <2>6 DEF SliceCopied
  <2>7. CASE OthersChange \/ UNCHANGED audioVars
    BY <2>7 DEF OthersChange, audioVars
  <2> QED
    BY <2>1, <2>2, <2>3, <2>4, <2>5, <2>6, <2>7 DEF AudioNext, Recorder
<1>4. AudioFlags /\ AudioRanges => AudioTypeOK
  BY Zenon DEF AudioFlags, AudioRanges, AudioTypeOK
<1> QED
  BY <1>1, <1>2, <1>3, <1>4, PTL DEF AudioSpec

ImageFlags ==
  /\ cameraOk \in BOOLEAN /\ cameraFailed \in BOOLEAN
  /\ imageClient \in BOOLEAN /\ imageStarted \in BOOLEAN
  /\ imageOnline \in BOOLEAN /\ frameSent \in BOOLEAN

ImageRanges ==
  /\ imageAt \in {"idle", "client", "check", "grab", "publish", "return"}
  /\ camera \in {"off", "ready", "lent"}
  /\ ticks \in 0 .. FrameInterval - 1
  /\ frames \in 0 .. MaxFrames
  /\ imageAt \in {"grab", "publish", "return"} => frames < MaxFrames

LEMMA ImageTyped == ImageSpec => []ImageTypeOK
<1> USE ImageAssumption DEF cameraVars, imageMqtt, countVars, imageVars
<1>1. ImageInit => ImageFlags /\ ImageRanges
  <2>1. ImageInit => ImageFlags
    BY DEF ImageInit, ImageFlags
  <2>2. ImageInit => ImageRanges
    BY DEF ImageInit, ImageRanges
  <2> QED
    BY <2>1, <2>2
<1>2. ImageFlags /\ [ImageNext]_imageVars => ImageFlags'
  BY DEF ImageFlags, ImageNext, CameraUp, ImageTrigger, ImageTick, CheckBroker,
         GrabFrame, PublishFrame, ReturnFrame, ImageStops, ImageEvent
<1>3. ImageRanges /\ [ImageNext]_imageVars => ImageRanges'
  BY DEF ImageRanges, ImageNext, CameraUp, ImageTrigger, ImageTick,
         CheckBroker, GrabFrame, PublishFrame, ReturnFrame, ImageStops,
         ImageEvent
<1>4. ImageFlags /\ ImageRanges => ImageTypeOK
  BY Zenon DEF ImageFlags, ImageRanges, ImageTypeOK
<1> QED
  BY <1>1, <1>2, <1>3, <1>4, PTL DEF ImageSpec

(* A gesture is dropped after it has been made.                            *)
TouchRanges ==
  /\ ring \in [0 .. RingSize - 1 -> 0 .. MaxGestures]
  /\ head \in 0 .. RingSize - 1
  /\ count \in 0 .. RingSize
  /\ touching \in 0 .. gestures /\ gestures \in 0 .. MaxGestures
  /\ dropped \in Nat /\ dropped <= gestures
  /\ touching # 0 => dropped < gestures
  /\ finger \in {"idle", "subscribe", "drain", "stop"}
  /\ drained \in 0 .. DrainPerTick

TouchFlags == touchTapped \in BOOLEAN

LEMMA TouchTyped == TouchSpec => []TouchTypeOK
<1> USE TouchAssumption DEF ringVars, touchVars
<1>1. TouchInit => TouchFlags /\ TouchRanges
  <2>1. TouchInit => TouchFlags
    BY DEF TouchInit, TouchFlags
  <2>2. TouchInit => TouchRanges
    BY DEF TouchInit, TouchRanges
  <2> QED
    BY <2>1, <2>2
<1>2. TouchFlags /\ [TouchNext]_touchVars => TouchFlags'
  BY DEF TouchFlags, TouchNext, GestureMade, GestureEnters, TouchTrigger, EmptyRing,
         Subscribe, PopGesture, DrainEnds, Unsubscribe, TouchStops
<1>3. TouchRanges /\ [TouchNext]_touchVars => TouchRanges'
  <2> SUFFICES ASSUME TouchRanges, [TouchNext]_touchVars
               PROVE  TouchRanges'
    OBVIOUS
  <2> USE DEF TouchRanges
  <2>1. CASE GestureMade
    BY <2>1 DEF GestureMade
  <2>2. CASE GestureEnters
    <3>1. /\ touching # 0 /\ ring' = [ring EXCEPT ![head] = touching]
          /\ head' = (head + 1) % RingSize /\ touching' = 0
          /\ \/ count < RingSize /\ count' = count + 1 /\ dropped' = dropped
             \/ dropped' = dropped + 1 /\ count' = count
          /\ gestures' = gestures /\ finger' = finger /\ drained' = drained
      BY <2>2 DEF GestureEnters
    <3>2. touching \in 0 .. MaxGestures
      OBVIOUS
    <3>3. ring' \in [0 .. RingSize - 1 -> 0 .. MaxGestures]
      BY <3>1, <3>2, Zenon
    <3>4. head' \in 0 .. RingSize - 1
      BY <3>1
    <3>5. count' \in 0 .. RingSize /\ dropped' \in Nat /\ dropped' <= gestures'
      BY <3>1
    <3>6. /\ touching' \in 0 .. gestures' /\ gestures' \in 0 .. MaxGestures
          /\ finger' \in {"idle", "subscribe", "drain", "stop"}
          /\ drained' \in 0 .. DrainPerTick /\ (touching' # 0 => dropped' < gestures')
      BY <3>1
    <3> QED
      BY <3>3, <3>4, <3>5, <3>6, Zenon
  <2>3. CASE TouchTrigger \/ Subscribe
    <3>1. /\ finger' \in {"drain", "idle"} /\ drained' \in {0, drained}
          /\ UNCHANGED <<ring, head, count, dropped, touching, gestures>>
      BY <2>3 DEF TouchTrigger, Subscribe
    <3> QED
      BY <3>1
  <2>7. CASE EmptyRing
    <3>1. /\ head' = 0 /\ count' = 0 /\ dropped' = 0 /\ finger' = "subscribe"
          /\ UNCHANGED <<ring, touching, gestures, drained>>
      BY <2>7 DEF EmptyRing, RingCleared
    <3> QED
      BY <3>1
  <2>4. CASE PopGesture
    <3>1. drained \in 0 .. DrainPerTick - 1 /\ count \in 1 .. RingSize
      BY <2>4 DEF PopGesture, PopIsEnabled
    <3>2. /\ drained' \in {drained, drained + 1} /\ count' = count - 1
          /\ dropped' = 0 /\ finger' \in {"drain", "idle"}
          /\ UNCHANGED <<ring, head, touching, gestures>>
      BY <2>4 DEF PopGesture, PopIsEnabled
    <3> QED
      BY <3>1, <3>2
  <2>6. CASE DrainEnds
    <3>1. /\ dropped' \in {0, dropped} /\ finger' = "idle"
          /\ UNCHANGED <<ring, head, count, touching, gestures, drained>>
      BY <2>6 DEF DrainEnds
    <3> QED
      BY <3>1
  <2>5. CASE Unsubscribe \/ TouchStops \/ UNCHANGED touchVars
    BY <2>5 DEF Unsubscribe, TouchStops, RingCleared
  <2> QED
    BY <2>1, <2>2, <2>3, <2>4, <2>5, <2>6, <2>7 DEF TouchNext
<1>4. TouchFlags /\ TouchRanges => TouchTypeOK
  <2>1. TouchRanges => dropped \in 0 .. MaxGestures /\ touching \in 0 .. MaxGestures
    BY DEF TouchRanges
  <2> QED
    BY <2>1, Zenon DEF TouchFlags, TouchRanges, TouchTypeOK
<1> QED
  BY <1>1, <1>2, <1>3, <1>4, PTL DEF TouchSpec

HttpFlags == server \in BOOLEAN /\ inbox \in BOOLEAN /\ started \in BOOLEAN

(* The POST whose body is awaited has a number.                            *)
HttpRanges ==
  /\ waiting \in Seq(Post) /\ Len(waiting) <= InboxSize
  /\ http \in {"idle", "start", "mark", "take", "stop", "delete"}
  /\ request \in {"none", "body", "answer"}
  /\ posts \in 0 .. MaxPosts
  /\ request = "body" => posts \in Post
  /\ fate \in [Post -> {"none", "waits", "transferred", "lost", "deleted"}]

LEMMA HttpTyped == HttpSpec => []HttpTypeOK
<1> USE HttpAssumption DEF inboxVars, serverVars
<1>1. HttpInit => HttpFlags /\ HttpRanges
  <2>1. HttpInit => HttpFlags
    BY DEF HttpInit, HttpFlags
  <2>2. HttpInit => HttpRanges
    BY DEF HttpInit, HttpRanges
  <2> QED
    BY <2>1, <2>2
<1>2. HttpFlags /\ [HttpNext]_httpVars => HttpFlags'
  BY DEF HttpFlags, HttpNext, ListenerRuns, OpenInbox, StartServer,
         ServerStarted, HttpTrigger, TakePost, NothingWaits, BeginStop,
         StopServer, DeleteInbox, PostArrives, ServerRuns, PostRejected,
         InboxFull, PostEntersInbox, PostAccepted, Answered, httpVars
<1>3. HttpRanges /\ [HttpNext]_httpVars => HttpRanges'
  <2> SUFFICES ASSUME HttpRanges, [HttpNext]_httpVars
               PROVE  HttpRanges'
    OBVIOUS
  <2> USE DEF HttpRanges
  <2>1. CASE OpenInbox \/ StartServer \/ ServerStarted \/ HttpTrigger
    BY <2>1 DEF OpenInbox, StartServer, ServerStarted, HttpTrigger
  <2>2. CASE TakePost
    BY <2>2 DEF TakePost
  <2>3. CASE NothingWaits \/ BeginStop \/ StopServer
    BY <2>3 DEF NothingWaits, BeginStop, StopServer
  <2>4. CASE DeleteInbox
    BY <2>4 DEF DeleteInbox
  <2>5. CASE PostArrives
    BY <2>5 DEF PostArrives, Post
  <2>6. CASE PostRejected \/ InboxFull \/ PostAccepted
    BY <2>6 DEF PostRejected, InboxFull, PostAccepted, Answered
  <2>7. CASE PostEntersInbox
    <3>1. posts \in Post /\ Len(waiting) < InboxSize
      BY <2>7 DEF PostEntersInbox
    <3>2. waiting' \in Seq(Post) /\ Len(waiting') <= InboxSize
      BY <2>7, <3>1 DEF PostEntersInbox
    <3> QED
      BY <2>7, <3>1, <3>2 DEF PostEntersInbox
  <2>8. CASE UNCHANGED httpVars
    BY <2>8 DEF httpVars
  <2> QED
    BY <2>1, <2>2, <2>3, <2>4, <2>5, <2>6, <2>7, <2>8
       DEF HttpNext, ListenerRuns, ServerRuns
<1>4. InboxOutlivesHandler => queues \in Nat
  BY DEF InboxOutlivesHandler
<1>5. HttpFlags /\ HttpRanges /\ queues \in Nat => HttpTypeOK
  BY Zenon DEF HttpFlags, HttpRanges, HttpTypeOK
<1> QED
  BY <1>1, <1>2, <1>3, <1>4, <1>5, InboxOutlives, PTL DEF HttpSpec

LEMMA PubTyped == PubSpec => []PubTypeOK
<1> USE DEF PubTypeOK, flagsVars
<1>1. PubInit => PubTypeOK
  BY DEF PubInit
<1>2. PubTypeOK /\ [PubNext]_pubVars => PubTypeOK'
  BY DEF PubNext, PubTrigger, PubDrops, PubSends, PubPublishes, PubStop,
         PubClientStops, PubStopped, ClientCalls, HandleEvent, pubVars
<1> QED
  BY <1>1, <1>2, PTL DEF PubSpec

SparkplugFlags ==
  flag \in BOOLEAN /\ edge \in BOOLEAN /\ rebirth \in BOOLEAN /\ born \in BOOLEAN

SparkplugRanges ==
  /\ mqtt \in {"none", "down", "opening", "open", "closing"}
  /\ session \in 0 .. MaxSessions /\ bornIn \in 0 .. MaxSessions
  /\ sequence \in 0 .. SeqValues - 1
  /\ spb \in {"idle", "sample", "tick", "NBIRTH", "NDATA"}
  /\ sent \in [kind : {"none", "NBIRTH", "NDATA"}, seq : 0 .. SeqValues - 1,
               session : 0 .. MaxSessions]

LEMMA SparkplugTyped == SparkplugSpec => []SparkplugTypeOK
<1> USE SparkplugAssumption DEF nodeVars, sentVars, mqttVars
<1>1. SparkplugInit => SparkplugFlags /\ SparkplugRanges
  <2>1. SparkplugInit => SparkplugFlags
    BY DEF SparkplugInit, SparkplugFlags
  <2>2. SparkplugInit => SparkplugRanges
    BY DEF SparkplugInit, SparkplugRanges
  <2> QED
    BY <2>1, <2>2
<1>2. SparkplugFlags /\ [SparkplugNext]_spbVars => SparkplugFlags'
  BY DEF SparkplugFlags, SparkplugNext, BrokerAccepts, Connected, SessionLost,
         Disconnected, SparkplugTrigger, SampleFlag, NothingDue, MakeBirth,
         MakeData, Publish, PublishFails, SparkplugStops, spbVars
<1>3. SparkplugRanges /\ [SparkplugNext]_spbVars => SparkplugRanges'
  <2> SUFFICES ASSUME SparkplugRanges, [SparkplugNext]_spbVars
               PROVE  SparkplugRanges'
    OBVIOUS
  <2> USE DEF SparkplugRanges
  <2>1. CASE BrokerAccepts \/ Connected \/ SessionLost \/ Disconnected
    BY <2>1 DEF BrokerAccepts, Connected, SessionLost, Disconnected
  <2>2. CASE SparkplugTrigger \/ SampleFlag \/ NothingDue
    BY <2>2 DEF SparkplugTrigger, SampleFlag, NothingDue
  <2>3. CASE MakeBirth \/ MakeData
    BY <2>3 DEF MakeBirth, MakeData
  <2>4. CASE Publish
    BY <2>4 DEF Publish
  <2>5. CASE PublishFails \/ SparkplugStops
    BY <2>5 DEF PublishFails, SparkplugStops
  <2>6. CASE UNCHANGED spbVars
    BY <2>6 DEF spbVars
  <2> QED
    BY <2>1, <2>2, <2>3, <2>4, <2>5, <2>6 DEF SparkplugNext
<1>4. SparkplugFlags /\ SparkplugRanges => SparkplugTypeOK
  BY Zenon DEF SparkplugFlags, SparkplugRanges, SparkplugTypeOK
<1> QED
  BY <1>1, <1>2, <1>3, <1>4, PTL DEF SparkplugSpec

WifiFlags ==
  /\ adopt \in BOOLEAN /\ connected \in BOOLEAN /\ ever \in BOOLEAN
  /\ ap \in BOOLEAN

WifiRanges ==
  /\ station \in {"start", "found", "wait", "ok", "error"}
  /\ bits \subseteq {"ip", "fail"}
  /\ attempts \in 0 .. MaxAttempts
  /\ link \in {"off", "trying", "joined", "up"}
  /\ events \in Seq({"start", "disconnected", "ip"})
  /\ Len(events) <= MaxEvents

LEMMA WifiTyped == WifiSpec => []WifiTypeOK
<1> USE WifiAssumption DEF driverVars, flagVars
<1>1. WifiInit => WifiFlags /\ WifiRanges
  <2>1. WifiInit => WifiFlags
    BY DEF WifiInit, WifiFlags
  <2>2. WifiInit => WifiRanges
    BY DEF WifiInit, WifiRanges
  <2> QED
    BY <2>1, <2>2
<1>2. WifiFlags /\ [WifiNext]_wifiVars => WifiFlags'
  BY DEF WifiFlags, WifiNext, StationBoots, StartStation, AdoptStation,
         AdoptFound, WaitEnds, EventTask, HandleStart, HandleDisconnected,
         HandleAdoptedDisconnected, HandleAddress, Joins, JoinFails,
         GetsAddress, LinkLost, HostConnects, ApChanges, wifiVars
<1>3. WifiRanges /\ [WifiNext]_wifiVars => WifiRanges'
  <2> SUFFICES ASSUME WifiRanges, [WifiNext]_wifiVars
               PROVE  WifiRanges'
    OBVIOUS
  <2>0. \A e \in {"start", "disconnected", "ip"} : Reports(e) =>
          /\ events' \in Seq({"start", "disconnected", "ip"})
          /\ Len(events') <= MaxEvents
    BY DEF Reports, WifiRanges
  <2>00. \A e \in {"start", "disconnected", "ip"} : Handles(e) =>
          /\ events' \in Seq({"start", "disconnected", "ip"})
          /\ Len(events') <= MaxEvents
    BY DEF Handles, WifiRanges
  <2> USE DEF WifiRanges
  <2>1. CASE StationBoots
    BY <2>0, <2>1 DEF StationBoots, StartStation, AdoptStation, AdoptFound,
                      WaitEnds, Reports
  <2>2. CASE HandleStart \/ HandleAdoptedDisconnected
    BY <2>00, <2>2 DEF HandleStart, HandleAdoptedDisconnected, AskToConnect
  <2>3. CASE HandleDisconnected
    <3>1. attempts' \in 0 .. MaxAttempts
      BY <2>3 DEF HandleDisconnected
    <3>2. bits' \subseteq {"ip", "fail"}
      BY <2>3 DEF HandleDisconnected
    <3>3. link' \in {"off", "trying", "joined", "up"}
      BY <2>3 DEF HandleDisconnected, AskToConnect
    <3>4. Handles("disconnected") /\ station' = station
      BY <2>3 DEF HandleDisconnected
    <3> QED
      BY <2>00, <3>1, <3>2, <3>3, <3>4, Zenon
  <2>4. CASE HandleAddress
    <3>1. attempts' \in {0, attempts} /\ bits' \in {bits, bits \union {"ip"}}
      BY <2>4, Zenon DEF HandleAddress
    <3>2. Handles("ip") /\ UNCHANGED <<station, link>>
      BY <2>4 DEF HandleAddress
    <3>3. attempts' \in 0 .. MaxAttempts /\ bits' \subseteq {"ip", "fail"}
      BY <3>1
    <3> QED
      BY <2>00, <3>2, <3>3
  <2>5. CASE JoinFails \/ GetsAddress \/ LinkLost
    BY <2>0, <2>5 DEF JoinFails, GetsAddress, LinkLost
  <2>6. CASE Joins \/ HostConnects \/ ApChanges \/ UNCHANGED wifiVars
    BY <2>6 DEF Joins, HostConnects, ApChanges, wifiVars
  <2> QED
    BY <2>1, <2>2, <2>3, <2>4, <2>5, <2>6 DEF WifiNext, EventTask
<1>4. WifiFlags /\ WifiRanges => WifiTypeOK
  BY Zenon DEF WifiFlags, WifiRanges, WifiTypeOK
<1> QED
  BY <1>1, <1>2, <1>3, <1>4, PTL DEF WifiSpec
----------------------------------------------------------------------------
(* The components together.  They share no variable, so a step of one is   *)
(* a step or a stutter of each.                                            *)
LEMMA OneRuns ==
  ASSUME [Next]_allVars
  PROVE  /\ [AudioNext]_audioVars /\ [ImageNext]_imageVars
         /\ [TouchNext]_touchVars /\ [HttpNext]_httpVars
         /\ [PubNext]_pubVars /\ [SparkplugNext]_spbVars
         /\ [WifiNext]_wifiVars /\ [FlowFileNext]_flowFileVars
         /\ [ParserNext]_parseVars /\ [UrlNext]_urlVars
<1> USE DEF Runs, sensorVars, networkVars, readerVars
<1>1. CASE AudioStep
  BY <1>1 DEF AudioStep
<1>2. CASE ImageStep
  BY <1>2 DEF ImageStep
<1>3. CASE TouchStep
  BY <1>3 DEF TouchStep
<1>4. CASE HttpStep
  BY <1>4 DEF HttpStep
<1>5. CASE MqttStep
  BY <1>5 DEF MqttStep
<1>6. CASE SparkplugStep
  BY <1>6 DEF SparkplugStep
<1>7. CASE WifiStep
  BY <1>7 DEF WifiStep
<1>8. CASE FlowFileStep
  BY <1>8 DEF FlowFileStep
<1>9. CASE ParserStep
  BY <1>9 DEF ParserStep
<1>10. CASE UrlStep
  BY <1>10 DEF UrlStep
<1>11. CASE UNCHANGED allVars
  BY <1>11 DEF allVars
<1> QED
  BY <1>1, <1>2, <1>3, <1>4, <1>5, <1>6, <1>7, <1>8, <1>9, <1>10, <1>11
     DEF Next

(* Each of them runs its own specification, so what is proved of one holds *)
(* in the composition that is run.                                         *)
LEMMA EachRunsItsOwn ==
  Spec => /\ AudioSpec /\ ImageSpec /\ TouchSpec
          /\ HttpSpec /\ PubSpec /\ SparkplugSpec /\ WifiSpec
          /\ FlowFileSpec /\ ParserSpec /\ UrlSpec
<1>1. Init => /\ AudioInit /\ ImageInit /\ TouchInit
              /\ HttpInit /\ PubInit /\ SparkplugInit /\ WifiInit
              /\ FlowFileInit /\ ParserInit /\ UrlInit
  BY DEF Init
<1> QED
  BY <1>1, OneRuns, PTL
     DEF Spec, AudioSpec, ImageSpec, TouchSpec, HttpSpec, PubSpec,
         SparkplugSpec, WifiSpec, FlowFileSpec, ParserSpec, UrlSpec

(* The types of all of them: no slice of sound beyond the buffer of a      *)
(* clip, no gesture beyond the ring, no POST beyond the inbox, no line of  *)
(* a flow beyond its arrays, no event beyond its queue.                    *)
THEOREM ComponentTypes == Spec => []TypeOK
<1>1. /\ AudioTypeOK /\ ImageTypeOK /\ TouchTypeOK
      /\ HttpTypeOK /\ PubTypeOK /\ SparkplugTypeOK /\ WifiTypeOK
      /\ FlowFileTypeOK /\ ParserTypeOK /\ UrlTypeOK
      => TypeOK
  BY DEF TypeOK
<1> QED
  BY <1>1, EachRunsItsOwn, AudioTyped, ImageTyped, TouchTyped, HttpTyped,
     PubTyped, SparkplugTyped, WifiTyped, FlowFileTyped, ParserTyped,
     UrlTypeCorrect, PTL
=============================================================================
