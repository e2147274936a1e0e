------------------------------ MODULE GetTouch ------------------------------
(***************************************************************************)
(* GetTouch: a ring of gestures between the display's touch task, which    *)
(* calls back for every gesture, and the engine task, which drains it.     *)
(*                                                                         *)
(* Every access to the ring is one critical section.  A callback may have  *)
(* begun when the engine unsubscribes, and enter its gesture afterwards.   *)
(***************************************************************************)
EXTENDS Integers, Sequences

CONSTANTS
  RingSize,      \* kRingSize
  DrainPerTick,  \* kDrainPerTick
  MaxGestures    \* bound of the model: gestures made

ASSUME TouchAssumption ==
  /\ RingSize \in Nat \ {0} /\ DrainPerTick \in Nat \ {0}
  /\ MaxGestures \in Nat

VARIABLES
  ring,          \* s_ring, the gestures numbered in the order they are made
  head,          \* s_head
  count,         \* s_count
  dropped,       \* s_dropped
  touchTapped,   \* s_connection.connected()
  touching,      \* the gesture the callback is about to enter; 0: none
  gestures,      \* gestures made so far
  finger,        \* where the engine is in on_trigger or on_stop
  drained        \* emitted, in on_trigger

ringVars  == <<ring, head, count, dropped>>
touchVars == <<ringVars, touchTapped, touching, gestures, finger, drained>>

TouchInit ==
  /\ ring = [i \in 0 .. RingSize - 1 |-> 0]
  /\ head = 0 /\ count = 0 /\ dropped = 0
  /\ touchTapped = FALSE /\ touching = 0 /\ gestures = 0
  /\ finger = "idle" /\ drained = 0

RingCleared == head' = 0 /\ count' = 0 /\ dropped' = 0 /\ UNCHANGED ring

----------------------------------------------------------------------------
(* The touch task, in on_gesture.                                          *)

GestureMade ==
  /\ touchTapped /\ touching = 0 /\ gestures < MaxGestures
  /\ gestures' = gestures + 1 /\ touching' = gestures'
  /\ UNCHANGED <<ringVars, touchTapped, finger, drained>>

(* Mutant: the count of a full ring goes on.                               *)
GestureEntersUncapped ==
  /\ touching # 0
  /\ ring' = [ring EXCEPT ![head] = touching]
  /\ head' = (head + 1) % RingSize
  /\ count' = count + 1
  /\ dropped' = IF count < RingSize THEN dropped ELSE dropped + 1
  /\ touching' = 0
  /\ UNCHANGED <<touchTapped, gestures, finger, drained>>

(* When the ring is full the oldest gesture is overwritten.                *)
GestureEnters ==
  /\ touching # 0
  /\ ring' = [ring EXCEPT ![head] = touching]
  /\ head' = (head + 1) % RingSize
  /\ IF count < RingSize THEN count' = count + 1 /\ UNCHANGED dropped
                         ELSE dropped' = dropped + 1 /\ UNCHANGED count
  /\ touching' = 0
  /\ UNCHANGED <<touchTapped, gestures, finger, drained>>

----------------------------------------------------------------------------
(* The engine task, in on_trigger and on_stop.                             *)

TouchTrigger ==
  /\ finger = "idle" /\ touchTapped
  /\ finger' = "drain" /\ drained' = 0
  /\ UNCHANGED <<ringVars, touchTapped, touching, gestures>>

(* Not subscribed yet: the ring is emptied, ...                            *)
EmptyRing ==
  /\ finger = "idle" /\ ~touchTapped
  /\ RingCleared /\ finger' = "subscribe"
  /\ UNCHANGED <<touchTapped, touching, gestures, drained>>

(* ... and the gestures subscribed to.                                     *)
Subscribe ==
  /\ finger = "subscribe"
  /\ \/ touchTapped' = TRUE /\ finger' = "drain" /\ drained' = 0
     \/ touchTapped' = FALSE /\ finger' = "idle" /\ UNCHANGED drained
  /\ UNCHANGED <<ringVars, touching, gestures>>

PopIsEnabled == finger = "drain" /\ drained < DrainPerTick /\ count > 0

(* A gesture is popped and emitted, the drops counted are reported.  When  *)
(* its transfer fails the gesture is lost and the trigger ends.            *)
PopGesture ==
  /\ PopIsEnabled
  /\ count' = count - 1 /\ dropped' = 0
  /\ \/ drained' = drained + 1 /\ UNCHANGED finger
     \/ finger' = "idle" /\ UNCHANGED drained
  /\ UNCHANGED <<ring, head, touchTapped, touching, gestures>>

(* The ring is empty, where pop_event takes the drops but nobody reports   *)
(* them, or the share of this tick is used up.                             *)
DrainEnds ==
  /\ finger = "drain"
  /\ \/ drained < DrainPerTick /\ count = 0 /\ dropped' = 0
     \/ drained = DrainPerTick /\ UNCHANGED dropped
  /\ finger' = "idle"
  /\ UNCHANGED <<ring, head, count, touchTapped, touching, gestures, drained>>

Unsubscribe ==
  /\ finger = "idle" /\ touchTapped
  /\ touchTapped' = FALSE /\ finger' = "stop"
  /\ UNCHANGED <<ringVars, touching, gestures, drained>>

TouchStops ==
  /\ finger = "stop"
  /\ RingCleared /\ finger' = "idle"
  /\ UNCHANGED <<touchTapped, touching, gestures, drained>>

TouchNext ==
  \/ GestureMade \/ GestureEnters
  \/ TouchTrigger \/ EmptyRing \/ Subscribe \/ PopGesture \/ DrainEnds
  \/ Unsubscribe \/ TouchStops

TouchSpec == TouchInit /\ [][TouchNext]_touchVars

----------------------------------------------------------------------------
TouchTypeOK ==
  /\ ring \in [0 .. RingSize - 1 -> 0 .. MaxGestures]
  /\ head \in 0 .. RingSize - 1
  /\ count \in 0 .. RingSize
  /\ dropped \in 0 .. MaxGestures
  /\ touchTapped \in BOOLEAN
  /\ {touching, gestures} \subseteq 0 .. MaxGestures
  /\ finger \in {"idle", "subscribe", "drain", "stop"}
  /\ drained \in 0 .. DrainPerTick

(* The ring, its tail computed from head and count, is a queue of the last *)
(* RingSize gestures entered and not yet popped.                           *)
Held ==
  [i \in 1 .. count |-> ring[(head + RingSize - count + i - 1) % RingSize]]

Recent == INSTANCE RecentQueue
            WITH q <- Held, Capacity <- RingSize, Item <- 1 .. MaxGestures

RingIsQueue == Recent!Spec

=============================================================================
