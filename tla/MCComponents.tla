---------------------------- MODULE MCComponents ----------------------------
(***************************************************************************)
(* The components beside the engine and the C2 protocol.  Some share state *)
(* with a callback of another task, some read what was written elsewhere.  *)
(* They share nothing with each other: the engine runs its nodes one after *)
(* the other, Wi-Fi belongs to the boot, and the parsers are called within *)
(* one step of the C2 client.  So each is run by itself, the one that runs *)
(* being chosen at the start.                                              *)
(***************************************************************************)
EXTENDS CaptureAudio, CaptureImage, FlowFile, FlowParser, FlowUrl, GetTouch,
        ListenHTTP, PublishMQTT, PublishSparkplug, Wifi

VARIABLE which

sensorVars  == <<audioVars, imageVars, touchVars>>
networkVars == <<httpVars, pubVars, spbVars, wifiVars>>
readerVars  == <<flowFileVars, parseVars, urlVars>>
allVars     == <<which, sensorVars, networkVars, readerVars>>

----------------------------------------------------------------------------
(* What the components are given.                                          *)

Upto(n, S) == UNION {[1 .. k -> S] : k \in 0 .. n}

(* Up to one processor and connection more than fit, with up to one        *)
(* property and relationship more than are kept.                           *)
ShortLines ==
  {d \in [props : Upto(3, 0 .. 2), rels : Upto(3, {0, 2}), untyped : {0, 1},
          loose : {0, 1}, cleared : BOOLEAN, propsFirst : BOOLEAN, longs : {0}] :
     /\ \A i \in {1, 3} \cap DOMAIN d.props : d.props[i] = 2
     /\ \A i \in {1, 3} \cap DOMAIN d.rels : d.rels[i] = 2
     /\ Len(d.props) = 3 \/ Len(d.rels) = 2
     /\ d.untyped = d.loose
     /\ ~(d.cleared /\ d.untyped = 1) /\ d.propsFirst = (Len(d.rels) = 2)}

(* One line longer than the line buffer anywhere in a flow that has more   *)
(* than fits, and two of them in one that says little.                     *)
Plain(props, rels, longs) ==
  [props |-> props, rels |-> rels, untyped |-> 0, loose |-> 0,
   cleared |-> FALSE, propsFirst |-> FALSE, longs |-> longs]

LongLines == {Plain(<<1, 1, 1>>, <<1, 1, 1>>, 1), Plain(<<1>>, <<>>, 2)}

SomeDocuments == ShortLines \cup LongLines

SomeDocument == CHOOSE d \in SomeDocuments : TRUE

(* A UUID, or the beginning of one, behind tokens of any length that may   *)
(* look like parts of one; and a URL that fills its array.                 *)
Digits(n) == [i \in 1 .. n |-> "hex"]
Tokens(lengths, mark) ==
  FlattenSeq([i \in DOMAIN lengths |-> Append(Digits(lengths[i]), mark)])
Uuid == Tokens(<<8, 4, 4, 4>>, "dash") \o Digits(12)

SomeUrls ==
  {<<"other">> \o Tokens(lengths, mark) \o token :
     lengths \in Upto(3, {4, 8}), mark \in {"dash", "other"},
     token \in {Uuid, Digits(12), SubSeq(Uuid, 1, 30)}}
  \cup {Digits(UrlBytes)}

BuiltUrls == {<<"other", "other">> \o Digits(3), <<"other">> \o Uuid}

SomeSlots == {<<<<"source", "x">>, <<"key", "x">>>>,
              <<<<"key", "">>, <<"", "x">>, <<"more", "x">>>>}

----------------------------------------------------------------------------
Init ==
  /\ which \in {"audio", "image", "touch", "http", "mqtt", "sparkplug", "wifi",
                "flowfile", "parser", "url"}
  /\ ParserInit
  /\ which # "parser" => format = "empty" /\ doc = SomeDocument
  /\ WifiInit
  /\ adopt => which = "wifi"
  /\ AudioInit /\ ImageInit /\ TouchInit
  /\ HttpInit /\ PubInit /\ SparkplugInit
  /\ FlowFileInit /\ UrlInit

Runs(name, step, rest) == which = name /\ step /\ UNCHANGED <<which, rest>>

AudioStep ==
  Runs("audio", AudioNext, <<imageVars, touchVars, networkVars, readerVars>>)
ImageStep ==
  Runs("image", ImageNext, <<audioVars, touchVars, networkVars, readerVars>>)
TouchStep ==
  Runs("touch", TouchNext, <<audioVars, imageVars, networkVars, readerVars>>)
HttpStep ==
  Runs("http", HttpNext, <<sensorVars, pubVars, spbVars, wifiVars, readerVars>>)
MqttStep ==
  Runs("mqtt", PubNext, <<sensorVars, httpVars, spbVars, wifiVars, readerVars>>)
SparkplugStep ==
  Runs("sparkplug", SparkplugNext,
       <<sensorVars, httpVars, pubVars, wifiVars, readerVars>>)
WifiStep ==
  Runs("wifi", WifiNext, <<sensorVars, httpVars, pubVars, spbVars, readerVars>>)
FlowFileStep ==
  Runs("flowfile", FlowFileNext, <<sensorVars, networkVars, parseVars, urlVars>>)
ParserStep ==
  Runs("parser", ParserNext, <<sensorVars, networkVars, flowFileVars, urlVars>>)
UrlStep ==
  Runs("url", UrlNext, <<sensorVars, networkVars, flowFileVars, parseVars>>)

Next ==
  \/ AudioStep \/ ImageStep \/ TouchStep
  \/ HttpStep \/ MqttStep \/ SparkplugStep \/ WifiStep
  \/ FlowFileStep \/ ParserStep \/ UrlStep

(* The tasks are scheduled.  An access point that answers is joined in the *)
(* end, and then gives an address in the end.                              *)
Fairness ==
  /\ WF_allVars(which = "http" /\ ListenerRuns /\ Next)
  /\ WF_allVars(which = "http" /\ ServerRuns /\ Next)
  /\ WF_allVars(which = "wifi" /\ StationBoots /\ Next)
  /\ WF_allVars(which = "wifi" /\ EventTask /\ Next)
  /\ WF_allVars(which = "wifi" /\ HostConnects /\ Next)
  /\ WF_allVars(which = "wifi" /\ (Joins \/ JoinFails) /\ Next)
  /\ SF_allVars(which = "wifi" /\ Joins /\ Next)
  /\ SF_allVars(which = "wifi" /\ GetsAddress /\ Next)

Spec == Init /\ [][Next]_allVars /\ Fairness

(* The types of all of them; no slice of sound goes beyond the clip's      *)
(* buffer, no line of a flow beyond its arrays.                            *)
TypeOK ==
  /\ AudioTypeOK /\ ImageTypeOK /\ TouchTypeOK
  /\ HttpTypeOK /\ PubTypeOK /\ SparkplugTypeOK /\ WifiTypeOK
  /\ FlowFileTypeOK /\ ParserTypeOK /\ UrlTypeOK
=============================================================================
