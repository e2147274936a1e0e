----------------------------- MODULE FlowParser -----------------------------
(***************************************************************************)
(* flow_parse: from the body the server sends to a FlowDef of fixed size.  *)
(*                                                                         *)
(* The body is MiNiFi YAML, read line by line by a machine that knows the  *)
(* section it is in, the item and the list in that section, or JSON, of    *)
(* which it walks two arrays.  The body may have been cut off anywhere by  *)
(* the buffer it was received in, and a line of YAML longer than the line  *)
(* buffer is read as several lines, of which only the first has to be one  *)
(* the server meant.                                                       *)
(*                                                                         *)
(* What a flow says is kept apart by numbers: the id, the class and the    *)
(* properties of the i-th processor have the value i, and so have the      *)
(* fields of the i-th connection; a property's key and a relationship are  *)
(* known by their place.  Zero is the empty string.                        *)
(*                                                                         *)
(* External: the order in which the server writes the fields, and cJSON,   *)
(* which refuses a text that is cut off.                                   *)
(***************************************************************************)
EXTENDS Integers, Sequences, SequencesExt

CONSTANTS
  MaxNodes,    \* kMaxFlowNodes
  MaxConns,    \* kMaxFlowConnections
  MaxProps,    \* kMaxNodeProperties
  Documents    \* the flows a server may send

(* A document: how many properties each processor and how many             *)
(* relationships each connection has, the processor without a class and    *)
(* the connection without a destination, if any, whether the first         *)
(* property of each processor is cleared, whether the properties come      *)
(* before the class, and how often a line of it is longer than the line    *)
(* buffer (bound).                                                         *)
ASSUME ParserAssumption ==
  /\ {MaxNodes, MaxConns, MaxProps} \subseteq Nat \ {0}
  /\ \A d \in Documents :
       /\ d.props \in Seq(Nat) /\ d.rels \in Seq(Nat)
       /\ {d.untyped, d.loose, d.longs} \subseteq Nat
       /\ {d.cleared, d.propsFirst} \subseteq BOOLEAN

VARIABLES
  doc,     \* the document the server sent
  format,  \* how it is written
  status,  \* "reading", or what flow_parse returns
  unread,  \* the lines, or the items, still to be read
  section, \* sec
  within,  \* sub
  proc,    \* cur_proc, 0 for -1
  conn,    \* cur_conn, 0 for -1
  nodes,   \* out.nodes
  conns,   \* out.connections
  cut,     \* whether the body was cut off inside a line
  pieces,  \* how often a line was longer than the line buffer
  intact   \* how many nodes and connections were complete before the first

outVars   == <<nodes, conns>>
placeVars == <<section, within, proc, conn>>
lineVars  == <<pieces, intact>>
parseVars == <<doc, format, status, unread, placeVars, outVars, cut, lineVars>>

Cut     == -1       \* a value that was cut off, or that nobody meant
Success == 9        \* the default relationship

EmptyNode == [id |-> 0, type |-> 0, props |-> <<>>]
EmptyConn == [id |-> 0, name |-> 0, src |-> 0, dst |-> 0, rel |-> Success]

----------------------------------------------------------------------------
(* The body, as the server writes it.                                      *)

Line(kind, key, val) == [kind |-> kind, key |-> key, val |-> val, place |-> 0]
PropLine(j, val) == [Line("prop", "key", val) EXCEPT !.place = j]

Unless(missing, i, s) == IF i = missing THEN <<>> ELSE s

ClassLine(d, i) == Unless(d.untyped, i, <<Line("field", "class", i)>>)

PropLines(d, i) ==
  <<Line("field", "Properties", 0)>> \o
  [j \in 1 .. d.props[i] |->
     PropLine(j, IF d.cleared /\ j = 1 THEN 0 ELSE i)]

ProcLines(d, i) ==
  <<Line("item", "id", i), Line("field", "name", i)>> \o
  (IF d.propsFirst THEN PropLines(d, i) \o ClassLine(d, i)
                   ELSE ClassLine(d, i) \o PropLines(d, i))

ConnLines(d, i) ==
  <<Line("item", "id", i), Line("field", "name", i),
    Line("field", "source id", i),
    Line("field", "source relationship names", 0)>> \o
  [j \in 1 .. d.rels[i] |-> Line("list", "", j)] \o
  Unless(d.loose, i, <<Line("field", "destination id", i)>>)

Yaml(d) ==
  <<Line("header", "other", 0), Line("header", "Processors", 0)>> \o
  FlattenSeq([i \in DOMAIN d.props |-> ProcLines(d, i)]) \o
  <<Line("header", "Connections", 0)>> \o
  FlattenSeq([i \in DOMAIN d.rels |-> ConnLines(d, i)])

(* The two arrays, one item after the other.                               *)
Json(d) == [i \in DOMAIN d.props |-> Line("processor", "", i)] \o
           [i \in DOMAIN d.rels |-> Line("connection", "", i)]

(* What may be left of a line the body ends in.                            *)
Shortened(l) ==
  LET keys == IF l.kind \in {"item", "list"} THEN {} ELSE {"other"}
      vals == IF l.kind = "header" THEN {} ELSE {0, Cut}
  IN  {Line(l.kind, k, 0) : k \in keys} \cup {[l EXCEPT !.val = v] : v \in vals}

(* The rest of a line that does not fit is read as a line of its own,      *)
(* which can be of any kind and have any key the reader knows, or none.    *)
FieldKeys ==
  {"id", "class", "Properties", "name", "source id", "destination id",
   "source relationship names", "other"}

Rest ==
  {Line("header", key, Cut) : key \in {"Processors", "Connections", "other"}}
  \cup {Line("item", key, Cut) : key \in {"id", "other"}}
  \cup {Line("field", key, Cut) : key \in FieldKeys}
  \cup {Line("prop", key, Cut) : key \in {"key", "other"}}
  \cup {Line(kind, "", Cut) : kind \in {"list", "spaced", "deep"}}

----------------------------------------------------------------------------
ParserInit ==
  /\ doc \in Documents /\ format \in {"YAML", "JSON", "other", "empty"}
  /\ status = "called" /\ unread = <<>>
  /\ section = "other" /\ within = "none" /\ proc = 0 /\ conn = 0
  /\ nodes = <<>> /\ conns = <<>>
  /\ cut = FALSE /\ pieces = 0 /\ intact = [nodes |-> 0, conns |-> 0]

(* The format is found out.  A body that is empty, in no known format, or  *)
(* JSON that is cut off or has no array of processors, is refused.         *)
Detect ==
  /\ status = "called"
  /\ \/ /\ format = "YAML"
        /\ status' = "reading" /\ unread' = Yaml(doc)
     \/ /\ format = "JSON"
        /\ \/ status' = "reading" /\ unread' = Json(doc)
           \/ status' = "ParseError" /\ UNCHANGED unread
     \/ format = "other" /\ status' = "ParseError" /\ UNCHANGED unread
     \/ format = "empty" /\ status' = "InvalidArg" /\ UNCHANGED unread
  /\ UNCHANGED <<doc, format, placeVars, outVars, cut, lineVars>>

Reads(kind) ==
  /\ status = "reading" /\ unread # <<>> /\ Head(unread).kind = kind
  /\ unread' = Tail(unread)
  /\ UNCHANGED <<doc, format, status, cut, lineVars>>

Key == Head(unread).key
Val == Head(unread).val

(* A line that starts neither with a space nor with a dash.                *)
ReadHeader ==
  /\ Reads("header")
  /\ section' = Key
  /\ within' = "none"
  /\ UNCHANGED <<proc, conn, outVars>>

ItemId == IF Key = "id" THEN Val ELSE 0

(* Mutant: an item beyond the limit leaves the last one current.           *)
ReadProcessorStays ==
  /\ Reads("item") /\ section = "Processors"
  /\ IF Len(nodes) < MaxNodes
     THEN /\ nodes' = Append(nodes, [EmptyNode EXCEPT !.id = ItemId])
          /\ proc' = Len(nodes) + 1
     ELSE UNCHANGED <<nodes, proc>>
  /\ within' = "processor"
  /\ UNCHANGED <<section, conn, conns>>

(* A dash in the section of processors begins one, or one to be ignored.   *)
ReadProcessor ==
  /\ Reads("item") /\ section = "Processors"
  /\ IF Len(nodes) < MaxNodes
     THEN /\ nodes' = Append(nodes, [EmptyNode EXCEPT !.id = ItemId])
          /\ proc' = Len(nodes) + 1
     ELSE proc' = 0 /\ UNCHANGED nodes
  /\ within' = "processor"
  /\ UNCHANGED <<section, conn, conns>>

ReadConnection ==
  /\ Reads("item") /\ section = "Connections"
  /\ IF Len(conns) < MaxConns
     THEN /\ conns' = Append(conns, [EmptyConn EXCEPT !.id = ItemId])
          /\ conn' = Len(conns) + 1
     ELSE conn' = 0 /\ UNCHANGED conns
  /\ within' = "connection"
  /\ UNCHANGED <<section, proc, nodes>>

InProcessor  == section = "Processors" /\ proc > 0 /\ within # "none"
InConnection == section = "Connections" /\ conn > 0 /\ within # "none"

(* Mutant: the properties end only with the next item.                     *)
ReadProcessorFieldStays ==
  /\ Reads("field") /\ InProcessor
  /\ IF within = "properties" THEN UNCHANGED <<within, nodes>>
     ELSE /\ within' = IF Key = "Properties" THEN "properties" ELSE "processor"
          /\ nodes' = CASE Key = "id"    -> [nodes EXCEPT ![proc].id = Val]
                        [] Key = "class" -> [nodes EXCEPT ![proc].type = Val]
                        [] OTHER         -> nodes
  /\ UNCHANGED <<section, proc, conn, conns>>

(* A field of a processor, which also ends its properties.                 *)
ReadProcessorField ==
  /\ Reads("field") /\ InProcessor
  /\ within' = IF Key = "Properties" THEN "properties" ELSE "processor"
  /\ nodes' = CASE Key = "id"    -> [nodes EXCEPT ![proc].id = Val]
                [] Key = "class" -> [nodes EXCEPT ![proc].type = Val]
                [] OTHER         -> nodes
  /\ UNCHANGED <<section, proc, conn, conns>>

(* A line that is indented less than a property, or the item of a list,    *)
(* ends the properties.                                                    *)
ReadSpaced ==
  /\ Reads("spaced") \/ Reads("list")
  /\ InProcessor
  /\ within' = "processor"
  /\ UNCHANGED <<section, proc, conn, outVars>>

(* A property: its key ends at the first colon.                            *)
ReadProperty ==
  /\ Reads("prop") /\ InProcessor /\ within = "properties"
  /\ nodes' = IF Key = "key" /\ Len(nodes[proc].props) < MaxProps
              THEN [nodes EXCEPT ![proc].props =
                      Append(@, <<Head(unread).place, Val>>)]
              ELSE nodes
  /\ UNCHANGED <<placeVars, conns>>

FieldOf ==
  [id |-> "id", name |-> "name", src |-> "source id", dst |-> "destination id"]

ReadConnectionField ==
  /\ Reads("field") /\ InConnection
  /\ within' = IF Key = "source relationship names" THEN "relationships"
               ELSE "connection"
  /\ conns' = [conns EXCEPT ![conn] =
       [f \in DOMAIN @ |-> IF f \in DOMAIN FieldOf /\ Key = FieldOf[f]
                           THEN Val ELSE @[f]]]
  /\ UNCHANGED <<section, proc, conn, nodes>>

(* Only the first relationship is used.                                    *)
ReadRelationship ==
  /\ Reads("list") /\ InConnection
  /\ IF within = "relationships"
     THEN conns' = [conns EXCEPT ![conn].rel = Val] /\ within' = "connection"
     ELSE UNCHANGED <<conns, within>>
  /\ UNCHANGED <<section, proc, conn, nodes>>

(* A line of an item that is ignored, of no section, or indented more than *)
(* a property.  The relationships a processor terminates follow a field,   *)
(* which has ended its properties.                                         *)
SkipLine ==
  /\ \/ Reads("item") /\ section = "other"
     \/ Reads("field") /\ ~InProcessor /\ ~InConnection
     \/ Reads("spaced") /\ ~InProcessor
     \/ Reads("list") /\ ~InProcessor /\ ~InConnection
     \/ Reads("prop") /\ ~(InProcessor /\ within = "properties")
     \/ Reads("deep")
  /\ UNCHANGED <<placeVars, outVars>>

(* An item of "processors" needs an id and a type; cleared properties are  *)
(* left out.                                                               *)
JsonProps(i) ==
  LET from == IF doc.cleared THEN 2 ELSE 1
      upTo == IF doc.props[i] - from + 1 < MaxProps
              THEN doc.props[i] ELSE from + MaxProps - 1
  IN  [j \in 1 .. upTo - from + 1 |-> <<from + j - 1, i>>]

ReadJsonProcessor ==
  /\ Reads("processor")
  /\ nodes' = IF Len(nodes) < MaxNodes /\ Val # doc.untyped
              THEN Append(nodes, [id |-> Val, type |-> Val,
                                  props |-> JsonProps(Val)])
              ELSE nodes
  /\ UNCHANGED <<placeVars, conns>>

(* An item of "connections" needs both ends; its id and name are not read. *)
SaidRel(i) == IF doc.rels[i] = 0 THEN Success ELSE 1

ReadJsonConnection ==
  /\ Reads("connection")
  /\ conns' = IF Len(conns) < MaxConns /\ Val # doc.loose
              THEN Append(conns, [EmptyConn EXCEPT
                     !.src = Val, !.dst = Val, !.rel = SaidRel(Val)])
              ELSE conns
  /\ UNCHANGED <<placeVars, nodes>>

EndOfBody ==
  /\ status = "reading" /\ unread = <<>>
  /\ status' = IF nodes = <<>> THEN "ParseError" ELSE "Ok"
  /\ UNCHANGED <<doc, format, unread, placeVars, outVars, cut, lineVars>>

(* The body ends in the next line.                                         *)
BodyIsCut ==
  /\ status = "reading" /\ format = "YAML" /\ unread # <<>> /\ ~cut
  /\ \/ unread' = <<>>
     \/ \E l \in Shortened(Head(unread)) : unread' = <<l>>
  /\ cut' = TRUE
  /\ UNCHANGED <<doc, format, status, placeVars, outVars, lineVars>>

(* The line read next does not fit in the line buffer: its first part is   *)
(* read as a line, and the rest as another, which may not fit either.  The *)
(* item it is found in may not be complete yet; those before it are.       *)
LineIsLong ==
  /\ status = "reading" /\ format = "YAML" /\ unread # <<>> /\ ~cut
  /\ pieces < doc.longs
  /\ \E first \in {Head(unread)} \cup Shortened(Head(unread)), rest \in Rest :
       unread' = <<first, rest>> \o Tail(unread)
  /\ pieces' = pieces + 1
  /\ intact' =
       IF pieces > 0 THEN intact
       ELSE [nodes |-> IF InProcessor THEN Len(nodes) - 1 ELSE Len(nodes),
             conns |-> IF InConnection THEN Len(conns) - 1 ELSE Len(conns)]
  /\ UNCHANGED <<doc, format, status, placeVars, outVars, cut>>

Parsed == status \notin {"called", "reading"} /\ UNCHANGED parseVars

ParserNext ==
  \/ Detect \/ ReadHeader \/ ReadProcessor \/ ReadConnection
  \/ ReadProcessorField \/ ReadSpaced \/ ReadProperty
  \/ ReadConnectionField \/ ReadRelationship \/ SkipLine
  \/ ReadJsonProcessor \/ ReadJsonConnection \/ EndOfBody
  \/ BodyIsCut \/ LineIsLong \/ Parsed

ParserSpec == ParserInit /\ [][ParserNext]_parseVars

----------------------------------------------------------------------------
ParserTypeOK ==
  /\ doc \in Documents
  /\ status \in {"called", "reading", "Ok", "ParseError", "InvalidArg"}
  /\ section \in {"Processors", "Connections", "other"}
  /\ within \in {"none", "processor", "properties", "connection",
                 "relationships"}
  /\ proc \in 0 .. Len(nodes) /\ Len(nodes) <= MaxNodes
  /\ conn \in 0 .. Len(conns) /\ Len(conns) <= MaxConns
  /\ \A i \in DOMAIN nodes : Len(nodes[i].props) <= MaxProps

(* What the document says, within the limits, and as far as its format is  *)
(* read: JSON leaves out cleared properties, processors without a type,    *)
(* connections without an end, and the ids and names of connections.       *)
First(n, s) == SubSeq(s, 1, IF n < Len(s) THEN n ELSE Len(s))

JsonLacks(i, s) ==
  IF format = "JSON" /\ i \in DOMAIN s THEN RemoveAt(s, i) ELSE s

SaidProps(i) ==
  First(MaxProps, JsonLacks(IF doc.cleared THEN 1 ELSE 0,
    [j \in 1 .. doc.props[i] |->
       <<j, IF doc.cleared /\ j = 1 THEN 0 ELSE i>>]))

SaidNode(i) ==
  [id |-> i, type |-> IF i = doc.untyped THEN 0 ELSE i, props |-> SaidProps(i)]

SaidNodes ==
  First(MaxNodes, JsonLacks(doc.untyped,
    [i \in DOMAIN doc.props |-> SaidNode(i)]))

SaidConn(i) ==
  LET label == IF format = "JSON" THEN 0 ELSE i
  IN  [id |-> label, name |-> label, src |-> i,
       dst |-> IF i = doc.loose THEN 0 ELSE i, rel |-> SaidRel(i)]

SaidConns ==
  First(MaxConns, JsonLacks(doc.loose,
    [i \in DOMAIN doc.rels |-> SaidConn(i)]))

Part(x, said) == x \in {0, said} \/ (cut /\ x = Cut)

PartOfNode(n, said) ==
  /\ Part(n.id, said.id) /\ Part(n.type, said.type)
  /\ Len(n.props) <= Len(said.props)
  /\ \A j \in DOMAIN n.props : /\ n.props[j][1] = said.props[j][1]
                               /\ Part(n.props[j][2], said.props[j][2])

PartOfConn(c, said) ==
  \A f \in DOMAIN c : Part(c[f], said[f]) \/ (f = "rel" /\ c.rel = Success)

NodesArePart ==
  /\ Len(nodes) <= Len(SaidNodes)
  /\ \A i \in DOMAIN nodes :
       /\ PartOfNode(nodes[i], SaidNodes[i])
       /\ i < Len(nodes) \/ ~cut => nodes[i].id = SaidNodes[i].id
       /\ i < Len(nodes) => nodes[i] = SaidNodes[i]

ConnsArePart ==
  /\ Len(conns) <= Len(SaidConns)
  /\ \A i \in DOMAIN conns :
       /\ PartOfConn(conns[i], SaidConns[i])
       /\ i < Len(conns) => conns[i] = SaidConns[i]

IntactAreSaid ==
  /\ \A i \in 1 .. intact.nodes :
       i \in DOMAIN nodes \cap DOMAIN SaidNodes /\ nodes[i] = SaidNodes[i]
  /\ \A i \in 1 .. intact.conns :
       i \in DOMAIN conns \cap DOMAIN SaidConns /\ conns[i] = SaidConns[i]

(* Wherever the body is cut off, the flow read from it is a part of the    *)
(* one that was sent: its processors and connections are the first ones,   *)
(* in order, no id, class, property or end has been read into another's,   *)
(* and all but the last are complete.  A line that does not fit in the     *)
(* line buffer can make the reader believe anything about the item it is   *)
(* in and about what follows, but nothing of it reaches back into the      *)
(* processors and connections that were complete before it.                *)
CutFlowIsPart == (pieces = 0 => NodesArePart /\ ConnsArePart) /\ IntactAreSaid

(* A body that arrives whole, with lines that fit in the line buffer, is   *)
(* read whole, in either format and whatever the order of its fields.      *)
WholeFlowIsRead ==
  status = "Ok" /\ ~cut /\ pieces = 0 => nodes = SaidNodes /\ conns = SaidConns
=============================================================================
