-------------------------- MODULE PublishSparkplug --------------------------
(***************************************************************************)
(* PublishSparkplug: births and data of a Sparkplug B node.                *)
(*                                                                         *)
(* The MQTT task connects to the broker, again and again, and keeps a flag *)
(* up to date.  The engine task samples the flag once a trigger, tells the *)
(* node of the edges it sees, lets it make a message and publishes that.   *)
(*                                                                         *)
(* External: the MQTT client accepts a message only while it has a         *)
(* session, and may fail even then.                                        *)
(***************************************************************************)
EXTENDS Naturals

CONSTANTS
  SeqValues,   \* values of the sequence number, a uint8_t
  MaxSessions  \* bound of the model: sessions with the broker

ASSUME SparkplugAssumption == SeqValues \in Nat \ {0} /\ MaxSessions \in Nat

VARIABLES
  mqtt,         \* where the MQTT task is
  session,      \* sessions so far; the last is the current one
  flag,         \* s->connected
  edge,         \* s->was_connected, and the node's mqtt_connected
  rebirth,      \* the node's rebirth tag
  born,         \* the node's initial_birth_made
  sequence,     \* the node's sequence
  spb,          \* where the engine is in on_trigger
  sent,         \* the last message published
  bornIn        \* the session of the last NBIRTH published

nodeVars == <<rebirth, born, sequence>>
sentVars == <<sent, bornIn>>
mqttVars == <<mqtt, session, flag>>
spbVars  == <<mqttVars, edge, nodeVars, spb, sentVars>>

SparkplugInit ==
  /\ mqtt = "none" /\ session = 0 /\ flag = FALSE /\ edge = FALSE
  /\ rebirth = FALSE /\ born = FALSE /\ sequence = 0
  /\ spb = "idle"
  /\ sent = [kind |-> "none", seq |-> 0, session |-> 0]
  /\ bornIn = 0

----------------------------------------------------------------------------
(* The MQTT task.                                                          *)

BrokerAccepts ==
  /\ mqtt = "down" /\ session < MaxSessions
  /\ mqtt' = "opening" /\ session' = session + 1
  /\ UNCHANGED <<flag, edge, nodeVars, spb, sentVars>>

Connected ==
  /\ mqtt = "opening"
  /\ flag' = TRUE /\ mqtt' = "open"
  /\ UNCHANGED <<session, edge, nodeVars, spb, sentVars>>

SessionLost ==
  /\ mqtt = "open"
  /\ mqtt' = "closing"
  /\ UNCHANGED <<session, flag, edge, nodeVars, spb, sentVars>>

Disconnected ==
  /\ mqtt = "closing"
  /\ flag' = FALSE /\ mqtt' = "down"
  /\ UNCHANGED <<session, edge, nodeVars, spb, sentVars>>

----------------------------------------------------------------------------
(* The engine task.                                                        *)

(* A FlowFile triggers the node; its first starts the client.              *)
SparkplugTrigger ==
  /\ spb = "idle"
  /\ mqtt' = IF mqtt = "none" THEN "down" ELSE mqtt
  /\ spb' = "sample"
  /\ UNCHANGED <<session, flag, edge, nodeVars, sentVars>>

(* A connection seen anew asks for a birth.  Nothing is published without  *)
(* a connection, or while the clock is not set.                            *)
SampleFlag ==
  /\ spb = "sample"
  /\ edge' = flag
  /\ rebirth' = (rebirth \/ (flag /\ ~edge /\ born))
  /\ \/ flag /\ spb' = "tick"
     \/ spb' = "idle"
  /\ UNCHANGED <<mqttVars, born, sequence, sentVars>>

(* No scan is due, or no value has changed.                                *)
NothingDue ==
  /\ spb = "tick"
  /\ spb' = "idle"
  /\ UNCHANGED <<mqttVars, edge, nodeVars, sentVars>>

(* The birth asked for is made, or not even that.                          *)
MakeBirth ==
  /\ spb = "tick" /\ (rebirth \/ ~born)
  /\ rebirth' = FALSE /\ sequence' = 0
  /\ spb' \in {"NBIRTH", "idle"}
  /\ UNCHANGED <<mqttVars, edge, born, sent, bornIn>>

MakeData ==
  /\ spb = "tick" /\ ~rebirth /\ born
  /\ spb' = "NDATA"
  /\ UNCHANGED <<mqttVars, edge, nodeVars, sentVars>>

Publish ==
  /\ spb \in {"NBIRTH", "NDATA"} /\ mqtt \in {"opening", "open"}
  /\ sent' = [kind |-> spb, seq |-> sequence, session |-> session]
  /\ sequence' = (sequence + 1) % SeqValues
  /\ IF spb = "NBIRTH"
     THEN born' = TRUE /\ bornIn' = session
     ELSE UNCHANGED <<born, bornIn>>
  /\ spb' = "idle"
  /\ UNCHANGED <<mqttVars, edge, rebirth>>

PublishFails ==
  /\ spb \in {"NBIRTH", "NDATA"}
  /\ spb' = "idle"
  /\ UNCHANGED <<mqttVars, edge, nodeVars, sentVars>>

(* on_stop: the client and the node go.                                    *)
SparkplugStops ==
  /\ spb = "idle"
  /\ mqtt' = "none" /\ flag' = FALSE /\ edge' = FALSE
  /\ rebirth' = FALSE /\ born' = FALSE /\ sequence' = 0
  /\ UNCHANGED <<session, spb, sentVars>>

SparkplugNext ==
  \/ BrokerAccepts \/ Connected \/ SessionLost \/ Disconnected
  \/ SparkplugTrigger \/ SampleFlag \/ NothingDue \/ MakeBirth \/ MakeData
  \/ Publish \/ PublishFails \/ SparkplugStops

SparkplugSpec == SparkplugInit /\ [][SparkplugNext]_spbVars

----------------------------------------------------------------------------
SparkplugTypeOK ==
  /\ mqtt \in {"none", "down", "opening", "open", "closing"}
  /\ {session, bornIn} \subseteq 0 .. MaxSessions
  /\ {flag, edge, rebirth, born} \subseteq BOOLEAN
  /\ sequence \in 0 .. SeqValues - 1
  /\ spb \in {"idle", "sample", "tick", "NBIRTH", "NDATA"}
  /\ sent \in [kind : {"none", "NBIRTH", "NDATA"}, seq : 0 .. SeqValues - 1,
               session : 0 .. MaxSessions]

----------------------------------------------------------------------------
(* What the sources say, which the run that checks it shows not to hold.   *)

(* publish_sparkplug.cpp:14-15, "NBIRTH goes out on the first due scan     *)
(* after the broker connects; NDATA follows": data are published in a      *)
(* session only after a birth in that session.                             *)
DataFollowsBirth == sent.kind = "NDATA" => bornIn = sent.session
=============================================================================
