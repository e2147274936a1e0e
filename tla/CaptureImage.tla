---------------------------- MODULE CaptureImage ----------------------------
(***************************************************************************)
(* CaptureImage: the camera, its one frame buffer, and a client to publish *)
(* the frames with.                                                        *)
(*                                                                         *)
(* The camera is set up with a single buffer that it fills when it is      *)
(* empty: a frame that is not given back is the last one.  Camera and      *)
(* client belong to libraries.  The client's task tells of the connection  *)
(* as in PublishMQTT; stopping the client waits for it.                    *)
(***************************************************************************)
EXTENDS Integers

CONSTANTS
  FrameInterval, \* interval_ticks
  MaxFrames      \* bound of the model: frames published

ASSUME ImageAssumption ==
  FrameInterval \in Nat \ {0} /\ MaxFrames \in Nat

VARIABLES
  imageAt,      \* where the engine task is in on_trigger or on_stop
  cameraOk,     \* s->camera_ok
  cameraFailed, \* s->camera_failed
  camera,       \* whether the driver is set up, and owns its buffer or lent it
  imageClient,  \* s->client
  imageStarted, \* s->mqtt_started
  imageOnline,  \* s->connected
  ticks,        \* s->tick_count, modulo the interval
  frames,       \* s->seq
  frameSent     \* whether the frame in hand was published

cameraVars == <<cameraOk, cameraFailed, camera>>
imageMqtt  == <<imageClient, imageStarted, imageOnline>>
countVars  == <<ticks, frames, frameSent>>
imageVars  == <<imageAt, cameraVars, imageMqtt, countVars>>

----------------------------------------------------------------------------
ImageInit ==
  /\ imageAt = "idle"
  /\ cameraOk = FALSE /\ cameraFailed = FALSE /\ camera = "off"
  /\ imageClient = FALSE /\ imageStarted = FALSE /\ imageOnline = FALSE
  /\ ticks = 0 /\ frames = 0 /\ frameSent = FALSE

(* The camera is set up the first time.  If that fails, this processor     *)
(* stays off until the next flow.                                          *)
CameraUp ==
  /\ imageAt = "idle" /\ ~cameraFailed /\ ~cameraOk
  /\ \/ camera' = "ready" /\ cameraOk' = TRUE /\ imageAt' = "client"
        /\ UNCHANGED cameraFailed
     \/ cameraFailed' = TRUE /\ UNCHANGED <<camera, cameraOk, imageAt>>
  /\ UNCHANGED <<imageMqtt, countVars>>

ImageTrigger ==
  /\ imageAt = "idle" /\ ~cameraFailed /\ cameraOk
  /\ imageAt' = "client"
  /\ UNCHANGED <<cameraVars, imageMqtt, countVars>>

(* The client is started the first time, which may fail.  One tick in      *)
(* FrameInterval goes on, ...                                              *)
ImageTick ==
  /\ imageAt = "client"
  /\ \/ imageStarted /\ UNCHANGED <<imageClient, imageStarted>>
     \/ ~imageStarted /\ imageClient' = TRUE /\ imageStarted' = TRUE
     \/ ~imageStarted /\ UNCHANGED <<imageClient, imageStarted>>
  /\ ticks' = (ticks + 1) % FrameInterval
  /\ imageAt' = IF ticks = 0 THEN "check" ELSE "idle"
  /\ UNCHANGED <<cameraVars, imageOnline, frames, frameSent>>

(* ... and is skipped while there is no broker.                            *)
CheckBroker ==
  /\ imageAt = "check" /\ frames < MaxFrames
  /\ imageAt' = IF imageOnline THEN "grab" ELSE "idle"
  /\ UNCHANGED <<cameraVars, imageMqtt, countVars>>

GrabFrame ==
  /\ imageAt = "grab"
  /\ \/ camera = "ready" /\ camera' = "lent" /\ imageAt' = "publish"
     \/ imageAt' = "idle" /\ UNCHANGED camera
  /\ UNCHANGED <<cameraOk, cameraFailed, imageMqtt, countVars>>

(* Mutant: a frame that cannot be published is not given back.             *)
PublishOrLeave ==
  /\ imageAt = "publish"
  /\ frameSent' \in BOOLEAN
  /\ imageAt' = IF frameSent' THEN "return" ELSE "idle"
  /\ UNCHANGED <<cameraVars, imageMqtt, ticks, frames>>

PublishFrame ==
  /\ imageAt = "publish"
  /\ frameSent' \in BOOLEAN
  /\ imageAt' = "return"
  /\ UNCHANGED <<cameraVars, imageMqtt, ticks, frames>>

(* The frame is given back whatever became of it, and counted if it was    *)
(* published.  A FlowFile with its number is made, if the queue takes it.  *)
ReturnFrame ==
  /\ imageAt = "return"
  /\ camera' = "ready"
  /\ frames' = IF frameSent THEN frames + 1 ELSE frames
  /\ frameSent' = FALSE
  /\ imageAt' = "idle"
  /\ UNCHANGED <<cameraOk, cameraFailed, imageMqtt, ticks>>

(* on_stop: the client is stopped and destroyed, the camera released; the  *)
(* state is zeroed when the next flow is built.                            *)
ImageStops ==
  /\ imageAt = "idle"
  /\ camera' = IF cameraOk THEN "off" ELSE camera
  /\ cameraOk' = FALSE /\ cameraFailed' = FALSE
  /\ imageClient' = FALSE /\ imageStarted' = FALSE /\ imageOnline' = FALSE
  /\ ticks' = 0 /\ frames' = 0
  /\ UNCHANGED <<imageAt, frameSent>>

(* The client's task.                                                      *)
ImageEvent ==
  /\ imageClient
  /\ imageOnline' = ~imageOnline
  /\ UNCHANGED <<imageAt, cameraVars, imageClient, imageStarted, countVars>>

ImageNext ==
  \/ CameraUp \/ ImageTrigger \/ ImageTick \/ CheckBroker \/ GrabFrame
  \/ PublishFrame \/ ReturnFrame \/ ImageStops \/ ImageEvent

ImageSpec == ImageInit /\ [][ImageNext]_imageVars

----------------------------------------------------------------------------
ImageTypeOK ==
  /\ imageAt \in {"idle", "client", "check", "grab", "publish", "return"}
  /\ {cameraOk, cameraFailed, imageClient, imageStarted, imageOnline,
      frameSent} \subseteq BOOLEAN
  /\ camera \in {"off", "ready", "lent"}
  /\ ticks \in 0 .. FrameInterval - 1
  /\ frames \in 0 .. MaxFrames

(* Whatever fails, the camera is left usable: between two triggers its one *)
(* buffer is not lent, and it is set up exactly while this processor says  *)
(* so, thus never found in use by the next flow's.                         *)
CameraIsLeftUsable ==
  /\ imageAt = "idle" => camera # "lent"
  /\ camera # "off" <=> cameraOk
=============================================================================
