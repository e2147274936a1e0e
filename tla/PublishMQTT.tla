---------------------------- MODULE PublishMQTT ----------------------------
(***************************************************************************)
(* PublishMQTT: a client that the engine task starts, uses and stops, and  *)
(* the flag the client's own task keeps for it.                            *)
(*                                                                         *)
(* The client belongs to a library.  Its task calls the event handler      *)
(* whenever the connection comes or goes; to stop the client waits for the *)
(* task, so for a call under way; to destroy it ends the task.             *)
(***************************************************************************)
VARIABLES
  mqttAt,      \* where the engine task is in on_trigger or on_stop
  client,      \* s->client
  mqttStarted, \* s->started
  online,      \* s->connected
  event,       \* the event the handler is called for
  delivery     \* what became of the FlowFile triggered last

flagsVars == <<mqttStarted, online>>
pubVars   == <<mqttAt, client, flagsVars, event, delivery>>

----------------------------------------------------------------------------
PubInit ==
  /\ mqttAt = "idle" /\ client = "none" /\ event = "none"
  /\ mqttStarted = FALSE /\ online = FALSE
  /\ delivery = "none"

(* A FlowFile waits.  The client is started the first time, which fails    *)
(* when there is no memory for it.                                         *)
PubTrigger ==
  /\ mqttAt = "idle"
  /\ mqttAt' = "check"
  /\ \/ mqttStarted /\ UNCHANGED <<client, mqttStarted>>
     \/ ~mqttStarted /\ client' = "running" /\ mqttStarted' = TRUE
     \/ ~mqttStarted /\ client' = "none" /\ UNCHANGED mqttStarted
  /\ UNCHANGED <<online, event, delivery>>

(* Not connected: the FlowFile is dropped.                                 *)
PubDrops ==
  /\ mqttAt = "check" /\ ~online
  /\ delivery' = "dropped" /\ mqttAt' = "idle"
  /\ UNCHANGED <<client, flagsVars, event>>

PubSends ==
  /\ mqttAt = "check" /\ online
  /\ mqttAt' = "publish"
  /\ UNCHANGED <<client, flagsVars, event, delivery>>

(* It is published and passed on, or refused by the client and lost.       *)
PubPublishes ==
  /\ mqttAt = "publish"
  /\ delivery' \in {"sent", "failed"} /\ mqttAt' = "idle"
  /\ UNCHANGED <<client, flagsVars, event>>

(* on_stop.                                                                *)
PubStop ==
  /\ mqttAt = "idle"
  /\ mqttAt' = IF client = "none" THEN "stopped" ELSE "stop"
  /\ UNCHANGED <<client, flagsVars, event, delivery>>

(* Mutant: the client is destroyed without being stopped.                  *)
PubDestroyedAtOnce ==
  /\ mqttAt = "stop"
  /\ client' = "none" /\ mqttAt' = "stopped"
  /\ UNCHANGED <<flagsVars, event, delivery>>

(* The client is stopped, which waits for its task, then destroyed.        *)
PubClientStops ==
  /\ mqttAt = "stop" /\ event = "none"
  /\ client' = "none" /\ mqttAt' = "stopped"
  /\ UNCHANGED <<flagsVars, event, delivery>>

PubStopped ==
  /\ mqttAt = "stopped"
  /\ mqttStarted' = FALSE /\ online' = FALSE
  /\ mqttAt' = "idle"
  /\ UNCHANGED <<client, event, delivery>>

(* The client's task.                                                      *)
ClientCalls ==
  /\ client = "running" /\ event = "none"
  /\ event' \in {"connected", "disconnected"}
  /\ UNCHANGED <<mqttAt, client, flagsVars, delivery>>

HandleEvent ==
  /\ event # "none"
  /\ online' = (event = "connected")
  /\ event' = "none"
  /\ UNCHANGED <<mqttAt, client, mqttStarted, delivery>>

PubNext ==
  \/ PubTrigger \/ PubDrops \/ PubSends \/ PubPublishes
  \/ PubStop \/ PubClientStops \/ PubStopped
  \/ ClientCalls \/ HandleEvent

PubSpec == PubInit /\ [][PubNext]_pubVars

----------------------------------------------------------------------------
PubTypeOK ==
  /\ mqttAt \in {"idle", "check", "publish", "stop", "stopped"}
  /\ client \in {"none", "running"}
  /\ {mqttStarted, online} \subseteq BOOLEAN
  /\ event \in {"none", "connected", "disconnected"}
  /\ delivery \in {"none", "dropped", "sent", "failed"}

(* The flag never outlives the client: between two calls of the engine it  *)
(* is set only while there is a client, and no event handler runs into the *)
(* state of a processor that has been stopped, so nothing is published     *)
(* through a client that is gone.                                          *)
ConnectedHasClient ==
  /\ event # "none" => client = "running"
  /\ online /\ mqttAt # "stopped" => client = "running"
  /\ mqttAt = "publish" => client = "running"
=============================================================================
