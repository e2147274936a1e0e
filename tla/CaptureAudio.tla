---------------------------- MODULE CaptureAudio ----------------------------
(***************************************************************************)
(* CaptureAudio: a clip buffer that the recorder task fills and the engine *)
(* task publishes.                                                         *)
(*                                                                         *)
(* The engine begins a clip, waits until it is complete or a deadline has  *)
(* passed, and publishes it.  For every slice of sound the recorder task   *)
(* calls back: under a spinlock it claims the next part of the buffer,     *)
(* outside the lock it copies the slice there, and after the last one it   *)
(* declares the clip ready.  A deadline may pass at any point of this.     *)
(*                                                                         *)
(* The encoder that delivers the sound is not part of the repository.  It  *)
(* runs when somebody else or this processor has started it, and its one   *)
(* recorder task calls back for one slice at a time.                       *)
(***************************************************************************)
EXTENDS Naturals

CONSTANTS
  ClipSlices,  \* how many slices make a clip
  MaxClip      \* bound of the model: clips begun

ASSUME AudioAssumption == ClipSlices \in Nat \ {0} /\ MaxClip \in Nat

VARIABLES
  mic,          \* where the engine is in on_trigger or on_stop
  recording,    \* s_recording
  clipReady,    \* s_clip_ready
  pcmLen,       \* s_pcm_len, in slices
  dataSeen,     \* s_data_seen
  startedByUs,  \* s_started_by_us
  tapped,       \* s_connection.connected()
  others,       \* whether somebody else runs the encoder
  callback,     \* where the recorder task is in on_recorder_data
  slice,        \* the part of the buffer it has claimed
  buf,          \* for each part of s_buf, the clip whose sound it holds
  clip          \* clips begun so far

engineVars == <<mic, startedByUs, tapped, clip>>
slotVars   == <<callback, slice, buf>>
audioVars == <<engineVars, recording, clipReady, pcmLen, dataSeen, others, slotVars>>

NoSlice == [offset |-> 0, clip |-> 0, last |-> FALSE]

----------------------------------------------------------------------------
(* on_trigger, by the engine task.                                         *)

(* The broker is connected and the recorder data subscribed to.            *)
Trigger ==
  /\ mic = "idle" /\ clip < MaxClip /\ tapped
  /\ mic' = "probe"
  /\ UNCHANGED <<startedByUs, tapped, clip, recording, clipReady, pcmLen,
                 dataSeen, others, slotVars>>

(* It is subscribed to now, which may fail.                                *)
TriggerSubscribes ==
  /\ mic = "idle" /\ clip < MaxClip /\ ~tapped
  /\ recording' = FALSE /\ clipReady' = FALSE /\ pcmLen' = 0
  /\ dataSeen' = FALSE
  /\ tapped' \in BOOLEAN
  /\ mic' = IF tapped' THEN "probe" ELSE "idle"
  /\ UNCHANGED <<startedByUs, clip, others, slotVars>>

(* The encoder is known to run: data has come since it was last in doubt,  *)
(* or this processor has started it.                                       *)
EncoderRuns ==
  /\ \/ mic = "probe" /\ (dataSeen \/ startedByUs)
     \/ mic = "started" /\ dataSeen
  /\ mic' = "begin"
  /\ UNCHANGED <<startedByUs, tapped, clip, recording, clipReady, pcmLen,
                 dataSeen, others, slotVars>>

(* No data within 300 ms: nobody runs the encoder, ...                     *)
NobodyRunsIt ==
  /\ mic = "probe" /\ ~dataSeen /\ ~startedByUs
  /\ mic' = "silent"
  /\ UNCHANGED <<startedByUs, tapped, clip, recording, clipReady, pcmLen,
                 dataSeen, others, slotVars>>

(* ... so this processor does.                                             *)
StartEncoder ==
  /\ mic = "silent"
  /\ startedByUs' = TRUE /\ mic' = "started"
  /\ UNCHANGED <<tapped, clip, recording, clipReady, pcmLen, dataSeen, others,
                 slotVars>>

(* The encoder cannot be started, or it delivers nothing, or there is no   *)
(* memory for the clip.                                                    *)
CaptureFails ==
  /\ \/ mic = "silent"
     \/ mic = "started" /\ ~dataSeen
     \/ mic = "begin"
  /\ mic' = "idle"
  /\ UNCHANGED <<startedByUs, tapped, clip, recording, clipReady, pcmLen,
                 dataSeen, others, slotVars>>

BeginClip ==
  /\ mic = "begin"
  /\ pcmLen' = 0 /\ clipReady' = FALSE /\ recording' = TRUE
  /\ clip' = clip + 1
  /\ mic' = "record"
  /\ UNCHANGED <<startedByUs, tapped, dataSeen, others, slotVars>>

ClipIsReady ==
  /\ mic = "record" /\ clipReady
  /\ mic' = "publish"
  /\ UNCHANGED <<startedByUs, tapped, clip, recording, clipReady, pcmLen,
                 dataSeen, others, slotVars>>

(* The clip is published, or dropped because the broker is gone.           *)
PublishClip ==
  /\ mic = "publish"
  /\ clipReady' = FALSE
  /\ mic' = "idle"
  /\ UNCHANGED <<startedByUs, tapped, clip, recording, pcmLen, dataSeen,
                 others, slotVars>>

(* The deadline passes.  The engine looked at the flag some time before.   *)
ClipTimesOut ==
  /\ mic = "record"
  /\ recording' = FALSE /\ pcmLen' = 0
  /\ mic' = "expired"
  /\ UNCHANGED <<startedByUs, tapped, clip, clipReady, dataSeen, others,
                 slotVars>>

(* Mutant: the encoder is not put in doubt again.                          *)
GiveUpTrusting ==
  /\ mic = "expired"
  /\ mic' = "idle"
  /\ UNCHANGED <<startedByUs, tapped, clip, recording, clipReady, pcmLen,
                 dataSeen, others, slotVars>>

GiveUp ==
  /\ mic = "expired"
  /\ dataSeen' = FALSE
  /\ mic' = "idle"
  /\ UNCHANGED <<startedByUs, tapped, clip, recording, clipReady, pcmLen,
                 others, slotVars>>

(* on_stop: first the clip is abandoned, ...                               *)
StopClip ==
  /\ mic = "idle"
  /\ recording' = FALSE /\ clipReady' = FALSE /\ pcmLen' = 0
  /\ mic' = "stop"
  /\ UNCHANGED <<startedByUs, tapped, clip, dataSeen, others, slotVars>>

(* ... then the subscription ended, which does not wait for a callback,    *)
(* and the encoder stopped if this processor has started it.               *)
StopEncoder ==
  /\ mic = "stop"
  /\ tapped' = FALSE /\ startedByUs' = FALSE /\ dataSeen' = FALSE
  /\ mic' = "idle"
  /\ UNCHANGED <<clip, recording, clipReady, pcmLen, others, slotVars>>

----------------------------------------------------------------------------
(* on_recorder_data, by the recorder task.                                 *)

SliceArrives ==
  /\ callback = "none" /\ tapped /\ (others \/ startedByUs)
  /\ callback' = "called"
  /\ UNCHANGED <<engineVars, recording, clipReady, pcmLen, dataSeen, others,
                 slice, buf>>

SliceIsSeen ==
  /\ callback = "called"
  /\ dataSeen' = TRUE
  /\ callback' = "seen"
  /\ UNCHANGED <<engineVars, recording, clipReady, pcmLen, others, slice, buf>>

(* No clip is being recorded, or the slice is empty.                       *)
SliceIgnored ==
  /\ callback = "seen"
  /\ callback' = "none"
  /\ UNCHANGED <<engineVars, recording, clipReady, pcmLen, dataSeen, others,
                 slice, buf>>

(* Mutant: the slice that completes a clip does not end the recording.     *)
ClaimNeverEnds ==
  /\ callback = "seen" /\ recording
  /\ pcmLen' = pcmLen + 1
  /\ slice' = [offset |-> pcmLen + 1, clip |-> clip,
               last |-> pcmLen' >= ClipSlices]
  /\ callback' = "copy"
  /\ UNCHANGED <<engineVars, clipReady, dataSeen, others, buf, recording>>

(* Under the spinlock, the next part of the buffer is claimed.             *)
SliceClaims ==
  /\ callback = "seen" /\ recording
  /\ pcmLen' = pcmLen + 1
  /\ slice' = [offset |-> pcmLen + 1, clip |-> clip,
               last |-> pcmLen' >= ClipSlices]
  /\ recording' = ~slice'.last
  /\ callback' = "copy"
  /\ UNCHANGED <<engineVars, clipReady, dataSeen, others, buf>>

SliceCopied ==
  /\ callback = "copy"
  /\ buf' = [buf EXCEPT ![slice.offset] = slice.clip]
  /\ callback' = IF slice.last THEN "copied" ELSE "none"
  /\ UNCHANGED <<engineVars, recording, clipReady, pcmLen, dataSeen, others,
                 slice>>

ClipCompletes ==
  /\ callback = "copied"
  /\ clipReady' = TRUE
  /\ callback' = "none"
  /\ UNCHANGED <<engineVars, recording, pcmLen, dataSeen, others, slice, buf>>

(* Somebody else starts the encoder, or stops it.                          *)
OthersChange ==
  /\ others' = ~others
  /\ UNCHANGED <<engineVars, recording, clipReady, pcmLen, dataSeen, slotVars>>

AudioInit ==
  /\ mic = "idle" /\ recording = FALSE /\ clipReady = FALSE /\ pcmLen = 0
  /\ dataSeen = FALSE /\ startedByUs = FALSE /\ tapped = FALSE
  /\ others = FALSE
  /\ callback = "none" /\ slice = NoSlice
  /\ buf = [i \in 1 .. ClipSlices |-> 0] /\ clip = 0

(* One trigger, once begun, runs on.                                       *)
Capture ==
  \/ EncoderRuns \/ NobodyRunsIt \/ StartEncoder \/ CaptureFails \/ BeginClip
  \/ ClipIsReady \/ PublishClip \/ ClipTimesOut \/ GiveUp

Recorder ==
  \/ SliceArrives \/ SliceIsSeen \/ SliceIgnored \/ SliceClaims
  \/ SliceCopied \/ ClipCompletes

AudioNext ==
  \/ Trigger \/ TriggerSubscribes \/ Capture \/ StopClip \/ StopEncoder
  \/ Recorder \/ OthersChange

AudioSpec == AudioInit /\ [][AudioNext]_audioVars

----------------------------------------------------------------------------
AudioTypeOK ==
  /\ mic \in {"idle", "probe", "silent", "started", "begin", "record",
              "publish", "expired", "stop"}
  /\ {recording, clipReady, dataSeen, startedByUs, tapped, others}
       \subseteq BOOLEAN
  /\ pcmLen \in 0 .. ClipSlices
  /\ callback \in {"none", "called", "seen", "copy", "copied"}
  /\ slice \in [offset : 0 .. ClipSlices, clip : 0 .. MaxClip, last : BOOLEAN]
  /\ buf \in [1 .. ClipSlices -> 0 .. MaxClip]
  /\ clip \in 0 .. MaxClip

(* A clip that is published is complete and holds the sound of that clip   *)
(* alone, no slice of a clip that timed out before, although a callback    *)
(* may still be copying when the deadline passes: before the next clip the *)
(* engine waits for data again, and data comes from a later callback.      *)
(* That is not done when this processor runs the encoder itself: then the  *)
(* end of a clip that timed out may complete the next one at once.         *)
PublishedIsWhole ==
  mic = "publish" /\ ~startedByUs =>
    /\ pcmLen = ClipSlices
    /\ \A i \in 1 .. ClipSlices : buf[i] = clip
=============================================================================
