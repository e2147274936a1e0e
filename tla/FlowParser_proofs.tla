------------------------- MODULE FlowParser_proofs -------------------------
(***************************************************************************)
(* What is read from a flow, whatever it says and wherever its text is cut *)
(* off: nothing beyond the arrays, and nothing in the place of something   *)
(* else.  The state is tied to the place in the flow: so many lines of     *)
(* this processor, or connection, have been read, so this is what they     *)
(* have said.  From the first line that is too long only the processors    *)
(* and connections before it are followed.                                 *)
(***************************************************************************)
EXTENDS Readers_proofs

(* What is still to be read.                                               *)
UnreadOK ==
  /\ doc \in Documents
  /\ format = "YAML" => unread \in Seq(YamlLine)
  /\ format # "YAML" => unread \in Seq(JsonItem(doc))

LEMMA HeadTyped ==
  ASSUME UnreadOK, unread # <<>>
  PROVE  /\ format = "YAML" =>
              Head(unread) \in YamlLine /\ Tail(unread) \in Seq(YamlLine)
         /\ format # "YAML" =>
              /\ Head(unread) \in JsonItem(doc)
              /\ Tail(unread) \in Seq(JsonItem(doc))
         /\ Val \in Int
         /\ Head(unread).kind = "header" => Key \in Sections
         /\ Head(unread).kind = "prop" => Head(unread).place \in Nat
         /\ Head(unread).kind = "processor" => Val \in DOMAIN doc.props
<1>1. CASE format = "YAML"
  <2>1. Head(unread) \in YamlLine /\ Tail(unread) \in Seq(YamlLine)
    BY <1>1 DEF UnreadOK
  <2> QED
    BY <1>1, <2>1 DEF YamlLine, Key, Val
<1>2. CASE format # "YAML"
  <2>1. Head(unread) \in JsonItem(doc) /\ Tail(unread) \in Seq(JsonItem(doc))
    BY <1>2 DEF UnreadOK
  <2>2. /\ Head(unread).val \in Nat
        /\ Head(unread).kind \in {"processor", "connection"}
        /\ Head(unread).kind = "processor" =>
             Head(unread).val \in DOMAIN doc.props
    BY <2>1 DEF JsonItem
  <2>3. Head(unread).val \in Int
    BY <2>2
  <2>4. Head(unread).kind # "header" /\ Head(unread).kind # "prop"
    BY <2>2
  <2> QED
    BY <1>2, <2>1, <2>2, <2>3, <2>4, Zenon DEF Val
<1> QED
  BY <1>1, <1>2

LEMMA UnreadStays ==
  ASSUME ParserAssumption, UnreadOK, [ParserNext]_parseVars
  PROVE  UnreadOK'
<1>1. ASSUME UNCHANGED <<doc, format>>, unread' = unread PROVE UnreadOK'
  BY <1>1 DEF UnreadOK
<1>2. ASSUME NEW kind, Reads(kind) PROVE UnreadOK'
  BY <1>2, HeadTyped, Zenon DEF Reads, UnreadOK
<1>3. CASE Detect
  <2>1. Yaml(doc) \in Seq(YamlLine) /\ Json(doc) \in Seq(JsonItem(doc))
    BY YamlTyped, JsonTyped DEF UnreadOK
  <2> QED
    BY <1>3, <2>1 DEF Detect, UnreadOK
<1>4. CASE BodyIsCut
  <2>1. /\ format = "YAML" /\ unread # <<>> /\ UNCHANGED <<doc, format>>
        /\ \/ unread' = <<>>
           \/ \E l \in Shortened(Head(unread)) : unread' = <<l>>
    BY <1>4 DEF BodyIsCut
  <2>2. unread' \in Seq(YamlLine)
    BY <2>1, HeadTyped, ShortenedTyped, ShortSeqs, Zenon
  <2> QED
    BY <2>1, <2>2 DEF UnreadOK
<1>5. CASE LineIsLong
  <2>1. /\ format = "YAML" /\ unread # <<>> /\ UNCHANGED <<doc, format>>
        /\ \E first \in {Head(unread)} \cup Shortened(Head(unread)), rest \in Rest :
             unread' = <<first, rest>> \o Tail(unread)
    BY <1>5, Zenon DEF LineIsLong
  <2>2. PICK first \in {Head(unread)} \cup Shortened(Head(unread)), rest \in Rest :
          unread' = <<first, rest>> \o Tail(unread)
    BY <2>1, Zenon
  <2>3. first \in YamlLine
    BY <2>1, HeadTyped, ShortenedTyped, Zenon
  <2>4. <<first, rest>> \in Seq(YamlLine)
    BY <2>3, RestTyped, ShortSeqs, Zenon
  <2>5. unread' \in Seq(YamlLine)
    BY <2>1, <2>2, <2>4, HeadTyped, JoinedSeqs, Zenon
  <2> QED
    BY <2>1, <2>5 DEF UnreadOK
<1>6. CASE EndOfBody \/ Parsed \/ UNCHANGED parseVars
  BY <1>1, <1>6 DEF EndOfBody, Parsed, parseVars
<1>7. CASE \/ ReadHeader \/ ReadProcessor \/ ReadConnection
           \/ ReadProcessorField \/ ReadSpaced \/ ReadProperty
           \/ ReadConnectionField \/ ReadRelationship \/ SkipLine
           \/ ReadJsonProcessor \/ ReadJsonConnection
  BY <1>2, <1>7, Zenon
     DEF ReadHeader, ReadProcessor, ReadConnection, ReadProcessorField,
         ReadSpaced, ReadProperty, ReadConnectionField, ReadRelationship,
         SkipLine, ReadJsonProcessor, ReadJsonConnection
<1> QED
  BY <1>3, <1>4, <1>5, <1>6, <1>7 DEF ParserNext

(* The arrays of the flow, and the places in them: nothing is read into a  *)
(* processor, a connection or a property beyond the arrays.                *)
Prop == Nat \X Int
Node == [id : Int, type : Int, props : {q \in Seq(Prop) : Len(q) <= MaxProps}]
Conn == [{"id", "name", "src", "dst", "rel"} -> Int]

ArraysOK ==
  /\ nodes \in Seq(Node) /\ Len(nodes) <= MaxNodes /\ proc \in 0 .. Len(nodes)
  /\ conns \in Seq(Conn) /\ Len(conns) <= MaxConns /\ conn \in 0 .. Len(conns)

PlacesOK ==
  /\ status \in {"called", "reading", "Ok", "ParseError", "InvalidArg"}
  /\ section \in Sections
  /\ within \in {"none", "processor", "properties", "connection",
                 "relationships"}

LEMMA PlacesStay ==
  ASSUME UnreadOK, PlacesOK, [ParserNext]_parseVars
  PROVE  PlacesOK'
<1> USE DEF PlacesOK
<1>1. CASE Detect
  BY <1>1 DEF Detect, placeVars
<1>2. CASE ReadHeader
  <2>1. Key \in Sections
    BY <1>2, HeadTyped DEF ReadHeader, Reads
  <2> QED
    BY <1>2, <2>1 DEF ReadHeader, Reads
<1>3. CASE ReadProcessor \/ ReadConnection
  BY <1>3 DEF ReadProcessor, ReadConnection, Reads
<1>4. CASE ReadProcessorField \/ ReadSpaced
  BY <1>4 DEF ReadProcessorField, ReadSpaced, Reads
<1>5. CASE ReadProperty \/ ReadJsonProcessor \/ ReadJsonConnection
  BY <1>5 DEF ReadProperty, ReadJsonProcessor, ReadJsonConnection, Reads,
              placeVars
<1>6. CASE ReadConnectionField \/ ReadRelationship
  BY <1>6 DEF ReadConnectionField, ReadRelationship, Reads
<1>7. CASE SkipLine
  BY <1>7 DEF SkipLine, Reads, placeVars
<1>8. CASE EndOfBody \/ BodyIsCut \/ LineIsLong
  BY <1>8 DEF EndOfBody, BodyIsCut, LineIsLong, placeVars
<1>9. CASE Parsed \/ UNCHANGED parseVars
  BY <1>9 DEF Parsed, parseVars, placeVars
<1> QED
  BY <1>1, <1>2, <1>3, <1>4, <1>5, <1>6, <1>7, <1>8, <1>9 DEF ParserNext
LEMMA SeqAppended ==
  ASSUME NEW S, NEW q \in Seq(S), NEW x \in S
  PROVE  /\ Append(q, x) \in Seq(S) /\ Len(Append(q, x)) = Len(q) + 1
         /\ Len(q) \in Nat
OBVIOUS

(* Adding an item within its array, to be the current one.                 *)
LEMMA ItemAdded ==
  ASSUME NEW S, NEW q \in Seq(S), NEW max \in Nat, Len(q) < max, NEW x \in S
  PROVE  /\ Append(q, x) \in Seq(S) /\ Len(Append(q, x)) <= max
         /\ Len(q) + 1 \in 0 .. Len(Append(q, x))
         /\ \A i \in 0 .. Len(q) : i \in 0 .. Len(Append(q, x))
BY SeqAppended

LEMMA NodesTyped ==
  /\ \A v \in Int : [EmptyNode EXCEPT !.id = v] \in Node
  /\ \A n \in Node : \A v \in Int :
       [n EXCEPT !.id = v] \in Node /\ [n EXCEPT !.type = v] \in Node
  /\ \A n \in Node : \A x \in Prop : Len(n.props) < MaxProps =>
       [n EXCEPT !.props = Append(n.props, x)] \in Node
<1> DEFINE P == {q \in Seq(Prop) : Len(q) <= MaxProps}
<1>1. <<>> \in P
  BY ParserAssumption
<1>2. ASSUME NEW q \in P, NEW x \in Prop, Len(q) < MaxProps
      PROVE  Append(q, x) \in P
  BY <1>2, SeqAppended, ParserAssumption
<1> HIDE DEF P
<1>3. Node = [id : Int, type : Int, props : P]
  BY Zenon DEF Node, P
<1>4. \A v \in Int : [EmptyNode EXCEPT !.id = v] \in Node
  BY <1>1, <1>3 DEF EmptyNode
<1>5. \A n \in Node : \A v \in Int :
        [n EXCEPT !.id = v] \in Node /\ [n EXCEPT !.type = v] \in Node
  BY <1>3
<1>6. ASSUME NEW n \in Node, NEW x \in Prop, Len(n.props) < MaxProps
      PROVE  [n EXCEPT !.props = Append(n.props, x)] \in Node
  <2>1. n.props \in P
    BY <1>3
  <2>2. Append(n.props, x) \in P
    BY <1>2, <1>6, <2>1
  <2> QED
    BY <1>3, <2>2
<1> QED
  BY <1>4, <1>5, <1>6

LEMMA ConnsTyped ==
  /\ \A v \in Int : [EmptyConn EXCEPT !.id = v] \in Conn
  /\ \A v, w \in Int : [EmptyConn EXCEPT !.src = v, !.dst = v, !.rel = w] \in Conn
  /\ \A c \in Conn : \A v \in Int :
       /\ [c EXCEPT !.rel = v] \in Conn
       /\ \A key : [f \in DOMAIN c |-> IF f \in DOMAIN FieldOf /\ key = FieldOf[f]
                                      THEN v ELSE c[f]] \in Conn
<1>1. /\ \A v \in Int : [EmptyConn EXCEPT !.id = v] \in Conn
      /\ \A v, w \in Int :
           [EmptyConn EXCEPT !.src = v, !.dst = v, !.rel = w] \in Conn
  <2>1. EmptyConn \in Conn
    <3>1. DOMAIN EmptyConn = {"id", "name", "src", "dst", "rel"}
      BY DEF EmptyConn
    <3>2. /\ EmptyConn.id = 0 /\ EmptyConn.name = 0 /\ EmptyConn.src = 0
          /\ EmptyConn.dst = 0 /\ EmptyConn.rel = 9
      BY DEF EmptyConn, Success
    <3>3. \A f \in DOMAIN EmptyConn : EmptyConn[f] \in Int
      BY <3>1, <3>2
    <3>4. EmptyConn = [f \in DOMAIN EmptyConn |-> EmptyConn[f]]
      BY Zenon DEF EmptyConn
    <3> HIDE DEF EmptyConn
    <3> QED
      BY <3>1, <3>3, <3>4 DEF Conn
  <2>2. \A c \in Conn : \A v, w \in Int :
          /\ [c EXCEPT !.id = v] \in Conn
          /\ [c EXCEPT !.src = v, !.dst = v, !.rel = w] \in Conn
    BY DEF Conn
  <2> QED
    BY <2>1, <2>2, Zenon
<1>2. \A c \in Conn : \A v \in Int : [c EXCEPT !.rel = v] \in Conn
  BY DEF Conn
<1>3. ASSUME NEW c \in Conn, NEW v \in Int, NEW key
      PROVE  [f \in DOMAIN c |-> IF f \in DOMAIN FieldOf /\ key = FieldOf[f]
                                THEN v ELSE c[f]] \in Conn
  <2>1. DOMAIN c = {"id", "name", "src", "dst", "rel"}
        /\ \A f \in DOMAIN c : c[f] \in Int
    BY DEF Conn
  <2> QED
    BY <2>1, Zenon DEF Conn
<1> QED
  BY <1>1, <1>2, <1>3, Zenon

LEMMA JsonPropsTyped ==
  ASSUME UnreadOK, NEW i \in DOMAIN doc.props
  PROVE  /\ JsonProps(i) \in Seq(Prop) /\ Len(JsonProps(i)) <= MaxProps
         /\ i \in Int
<1>1. doc.props \in Seq(Nat)
  BY ParserAssumption DEF UnreadOK, ParserAssumption
<1>2. doc.props[i] \in Nat /\ i \in Int /\ MaxProps \in Nat /\ MaxProps > 0
  BY <1>1, ParserAssumption DEF ParserAssumption
<1> DEFINE from == IF doc.cleared THEN 2 ELSE 1
           upTo == IF doc.props[i] - from + 1 < MaxProps
                   THEN doc.props[i] ELSE from + MaxProps - 1
           m == IF upTo - from + 1 < 0 THEN 0 ELSE upTo - from + 1
<1>3. from \in {1, 2}
  OBVIOUS
<1> HIDE DEF from
<1>4. upTo \in Int /\ m \in Nat /\ m <= MaxProps /\ 1 .. upTo - from + 1 = 1 .. m
  BY <1>2, <1>3
<1>5. JsonProps(i) = [j \in 1 .. upTo - from + 1 |-> <<from + j - 1, i>>]
  BY DEF JsonProps, from
<1> HIDE DEF upTo, m
<1>6. JsonProps(i) = [j \in 1 .. m |-> <<from + j - 1, i>>]
  BY <1>4, <1>5
<1>7. \A j \in 1 .. m : <<from + j - 1, i>> \in Prop
  BY <1>2, <1>3, <1>4 DEF Prop
<1>8. JsonProps(i) \in [1 .. m -> Prop]
  BY <1>6, <1>7, Zenon
<1> HIDE DEF JsonProps
<1> QED
  BY <1>2, <1>4, <1>8, IsSeq
LEMMA ArraysStay ==
  ASSUME ParserAssumption, UnreadOK, ArraysOK, [ParserNext]_parseVars
  PROVE  ArraysOK'
<1>0. MaxNodes \in Nat /\ MaxConns \in Nat /\ MaxProps \in Nat
  BY DEF ParserAssumption
<1>1. CASE UNCHANGED <<nodes, conns, proc, conn>>
  BY <1>1 DEF ArraysOK
<1>2. CASE ReadProcessor
  <2>1. ItemId \in Int /\ UNCHANGED <<conns, conn>>
    BY <1>2, HeadTyped DEF ReadProcessor, Reads, ItemId
  <2>2. [EmptyNode EXCEPT !.id = ItemId] \in Node
    BY <2>1, NodesTyped, Zenon
  <2>3. CASE Len(nodes) < MaxNodes
    <3>1. /\ nodes' = Append(nodes, [EmptyNode EXCEPT !.id = ItemId])
          /\ proc' = Len(nodes) + 1
      BY <1>2, <2>3 DEF ReadProcessor
    <3>2. /\ nodes' \in Seq(Node) /\ Len(nodes') <= MaxNodes
          /\ proc' \in 0 .. Len(nodes')
      BY <1>0, <2>2, <2>3, <3>1, ItemAdded, Zenon DEF ArraysOK
    <3> QED
      BY <2>1, <3>2 DEF ArraysOK
  <2>4. CASE ~(Len(nodes) < MaxNodes)
    <3>1. nodes' = nodes /\ proc' = 0
      BY <1>2, <2>4 DEF ReadProcessor
    <3> QED
      BY <2>1, <3>1 DEF ArraysOK
  <2> QED
    BY <2>3, <2>4
<1>3. CASE ReadConnection
  <2>1. ItemId \in Int /\ UNCHANGED <<nodes, proc>>
    BY <1>3, HeadTyped DEF ReadConnection, Reads, ItemId
  <2>2. [EmptyConn EXCEPT !.id = ItemId] \in Conn
    BY <2>1, ConnsTyped, Zenon
  <2>3. CASE Len(conns) < MaxConns
    <3>1. /\ conns' = Append(conns, [EmptyConn EXCEPT !.id = ItemId])
          /\ conn' = Len(conns) + 1
      BY <1>3, <2>3 DEF ReadConnection
    <3>2. /\ conns' \in Seq(Conn) /\ Len(conns') <= MaxConns
          /\ conn' \in 0 .. Len(conns')
      BY <1>0, <2>2, <2>3, <3>1, ItemAdded, Zenon DEF ArraysOK
    <3> QED
      BY <2>1, <3>2 DEF ArraysOK
  <2>4. CASE ~(Len(conns) < MaxConns)
    <3>1. conns' = conns /\ conn' = 0
      BY <1>3, <2>4 DEF ReadConnection
    <3> QED
      BY <2>1, <3>1 DEF ArraysOK
  <2> QED
    BY <2>3, <2>4
<1>4. ASSUME UNCHANGED <<conns, proc, conn>>, proc \in 1 .. Len(nodes),
             NEW n \in Node, nodes' = [nodes EXCEPT ![proc] = n]
      PROVE  ArraysOK'
  <2>1. /\ [nodes EXCEPT ![proc] = n] \in Seq(Node)
        /\ Len([nodes EXCEPT ![proc] = n]) = Len(nodes)
    <3>1. nodes \in Seq(Node) /\ proc \in 1 .. Len(nodes) /\ n \in Node
      BY <1>4 DEF ArraysOK
    <3> QED
      BY <3>1
  <2> QED
    BY <1>4, <2>1 DEF ArraysOK
<1>5. ASSUME UNCHANGED <<nodes, proc, conn>>, conn \in 1 .. Len(conns),
             NEW c \in Conn, conns' = [conns EXCEPT ![conn] = c]
      PROVE  ArraysOK'
  <2>1. /\ [conns EXCEPT ![conn] = c] \in Seq(Conn)
        /\ Len([conns EXCEPT ![conn] = c]) = Len(conns)
    <3>1. conns \in Seq(Conn) /\ conn \in 1 .. Len(conns) /\ c \in Conn
      BY <1>5 DEF ArraysOK
    <3> QED
      BY <3>1
  <2> QED
    BY <1>5, <2>1 DEF ArraysOK
<1>6. InProcessor => proc \in 1 .. Len(nodes) /\ nodes[proc] \in Node
  BY DEF InProcessor, ArraysOK
<1>7. InConnection => conn \in 1 .. Len(conns) /\ conns[conn] \in Conn
  BY DEF InConnection, ArraysOK
<1>8. CASE ReadProcessorField
  <2>1. Val \in Int /\ UNCHANGED <<conns, proc, conn>> /\ InProcessor
    BY <1>8, HeadTyped DEF ReadProcessorField, Reads
  <2>2. \/ nodes' = nodes
        \/ nodes' = [nodes EXCEPT ![proc] = [nodes[proc] EXCEPT !.id = Val]]
        \/ nodes' = [nodes EXCEPT ![proc] = [nodes[proc] EXCEPT !.type = Val]]
    BY <1>8 DEF ReadProcessorField
  <2>3. /\ [nodes[proc] EXCEPT !.id = Val] \in Node
        /\ [nodes[proc] EXCEPT !.type = Val] \in Node
    BY <1>6, <2>1, NodesTyped, Zenon
  <2> QED
    BY <1>1, <1>4, <1>6, <2>1, <2>2, <2>3, Zenon
<1>9. CASE ReadProperty
  <2>1. /\ Val \in Int /\ Head(unread).place \in Nat
        /\ UNCHANGED <<conns, proc, conn>> /\ InProcessor
    BY <1>9, HeadTyped DEF ReadProperty, Reads, placeVars
  <2> DEFINE x == <<Head(unread).place, Val>>
             n == [nodes[proc] EXCEPT !.props = Append(nodes[proc].props, x)]
  <2>2. \/ nodes' = nodes
        \/ /\ Len(nodes[proc].props) < MaxProps
           /\ nodes' = [nodes EXCEPT ![proc] = n]
    BY <1>9 DEF ReadProperty
  <2>3. Len(nodes[proc].props) < MaxProps => n \in Node
    <3>1. x \in Prop
      BY <2>1 DEF Prop
    <3> HIDE DEF x
    <3> QED
      BY <1>6, <2>1, <3>1, NodesTyped, Zenon
  <2> HIDE DEF n
  <2> QED
    BY <1>1, <1>4, <1>6, <2>1, <2>2, <2>3, Zenon
<1>10. CASE ReadConnectionField
  <2>1. Val \in Int /\ UNCHANGED <<nodes, proc, conn>> /\ InConnection
    BY <1>10, HeadTyped DEF ReadConnectionField, Reads
  <2> DEFINE c == [f \in DOMAIN conns[conn] |->
                     IF f \in DOMAIN FieldOf /\ Key = FieldOf[f]
                     THEN Val ELSE conns[conn][f]]
  <2>2. conns' = [conns EXCEPT ![conn] = c]
    BY <1>10, Zenon DEF ReadConnectionField
  <2>3. c \in Conn
    BY <1>7, <2>1, ConnsTyped, Zenon
  <2> HIDE DEF c
  <2> QED
    BY <1>5, <1>7, <2>1, <2>2, <2>3, Zenon
<1>11. CASE ReadRelationship
  <2>1. Val \in Int /\ UNCHANGED <<nodes, proc, conn>> /\ InConnection
    BY <1>11, HeadTyped DEF ReadRelationship, Reads
  <2>2. \/ conns' = conns
        \/ conns' = [conns EXCEPT ![conn] = [conns[conn] EXCEPT !.rel = Val]]
    BY <1>11 DEF ReadRelationship
  <2>3. [conns[conn] EXCEPT !.rel = Val] \in Conn
    BY <1>7, <2>1, ConnsTyped, Zenon
  <2> QED
    BY <1>1, <1>5, <1>7, <2>1, <2>2, <2>3, Zenon
<1>12. CASE ReadJsonProcessor
  <2>1. Val \in DOMAIN doc.props /\ UNCHANGED <<conns, proc, conn>>
    BY <1>12, HeadTyped DEF ReadJsonProcessor, Reads, placeVars
  <2> DEFINE n == [id |-> Val, type |-> Val, props |-> JsonProps(Val)]
  <2>2. n \in Node
    BY <2>1, JsonPropsTyped DEF Node
  <2>3. \/ nodes' = nodes
        \/ Len(nodes) < MaxNodes /\ nodes' = Append(nodes, n)
    BY <1>12 DEF ReadJsonProcessor
  <2> HIDE DEF n
  <2>4. CASE Len(nodes) < MaxNodes /\ nodes' = Append(nodes, n)
    <3>1. /\ nodes' \in Seq(Node) /\ Len(nodes') <= MaxNodes
          /\ proc \in 0 .. Len(nodes')
      BY <1>0, <2>2, <2>4, ItemAdded, Zenon DEF ArraysOK
    <3> QED
      BY <2>1, <3>1 DEF ArraysOK
  <2> QED
    BY <1>1, <2>1, <2>3, <2>4
<1>13. CASE ReadJsonConnection
  <2>1. Val \in Int /\ UNCHANGED <<nodes, proc, conn>>
    BY <1>13, HeadTyped DEF ReadJsonConnection, Reads, placeVars
  <2> DEFINE c == [EmptyConn EXCEPT !.src = Val, !.dst = Val, !.rel = SaidRel(Val)]
  <2>2. c \in Conn
    <3>1. SaidRel(Val) \in Int
      BY DEF SaidRel, Success
    <3> QED
      BY <2>1, <3>1, ConnsTyped, Zenon
  <2>3. \/ conns' = conns
        \/ Len(conns) < MaxConns /\ conns' = Append(conns, c)
    BY <1>13, Zenon DEF ReadJsonConnection
  <2> HIDE DEF c
  <2>4. CASE Len(conns) < MaxConns /\ conns' = Append(conns, c)
    <3>1. /\ conns' \in Seq(Conn) /\ Len(conns') <= MaxConns
          /\ conn \in 0 .. Len(conns')
      BY <1>0, <2>2, <2>4, ItemAdded, Zenon DEF ArraysOK
    <3> QED
      BY <2>1, <3>1 DEF ArraysOK
  <2> QED
    BY <1>1, <2>1, <2>3, <2>4
<1>14. CASE \/ Detect \/ ReadHeader \/ ReadSpaced \/ SkipLine \/ EndOfBody
            \/ BodyIsCut \/ LineIsLong \/ Parsed \/ UNCHANGED parseVars
  <2>1. UNCHANGED <<nodes, conns, proc, conn>>
    BY <1>14 DEF Detect, ReadHeader, ReadSpaced, SkipLine, EndOfBody,
                 BodyIsCut, LineIsLong, Parsed, parseVars, placeVars, outVars
  <2> QED
    BY <1>1, <2>1
<1> QED
  BY <1>2, <1>3, <1>8, <1>9, <1>10, <1>11, <1>12, <1>13, <1>14, Zenon
     DEF ParserNext

----------------------------------------------------------------------------
(* What may have been read of the processors.                              *)

(* What may have been read of the k-th processor, whose last value may be  *)
(* cut off where c holds.                                                  *)
ValueOf(v, said, c) == v = said \/ (c /\ v \in {0, Cut})

PropsOf(p, k, c) ==
  /\ Len(p) <= Len(SaidProps(k))
  /\ \A j \in DOMAIN p : /\ p[j][1] = SaidProps(k)[j][1]
                         /\ ValueOf(p[j][2], SaidProps(k)[j][2], c)

NodeOf(n, k, c) ==
  /\ ValueOf(n.id, k, c)
  /\ n.type = 0 \/ ValueOf(n.type, SaidNode(k).type, c)
  /\ PropsOf(n.props, k, c)

(* The processors q are the first k, or the first of them.                 *)
NodesAre(q, k, c) ==
  \A x \in 1 .. Len(q) : x \in 1 .. k /\ NodeOf(q[x], x, c /\ x = Len(q))

Complete(q) == \A x \in 1 .. Len(q) : x < Len(q) => q[x] = SaidNode(x)

LEMMA ValuesOf ==
  ASSUME NEW v, NEW said, NEW c, ValueOf(v, said, c)
  PROVE  /\ ~c => v = said
         /\ (c => cut) => Part(v, said)
         /\ \A b : (c => b) => ValueOf(v, said, b)
BY DEF ValueOf, Part

LEMMA NodeOfMore ==
  ASSUME NEW n, NEW k, NEW c, NEW b, c => b, NodeOf(n, k, c)
  PROVE  NodeOf(n, k, b)
<1>1. \A v, said : ValueOf(v, said, c) => ValueOf(v, said, b)
  BY DEF ValueOf
<1> QED
  BY <1>1, Zenon DEF NodeOf, PropsOf

(* Processors read so far are so when more has been read.                  *)
LEMMA NodesAreMore ==
  ASSUME NEW S, NEW q \in Seq(S), NEW k \in Nat, NEW m \in Nat, k <= m,
         NEW c, NEW b, c => b, NodesAre(q, k, c)
  PROVE  NodesAre(q, m, b)
<1>1. \A x \in 1 .. Len(q) : x \in 1 .. k /\ NodeOf(q[x], x, c /\ x = Len(q))
  BY Zenon DEF NodesAre
<1>2. \A y : y \in 1 .. k => y \in 1 .. m
  OBVIOUS
<1>3. \A x : (c /\ x = Len(q)) => (b /\ x = Len(q))
  OBVIOUS
<1> QED
  BY <1>1, <1>2, <1>3, NodeOfMore, Zenon DEF NodesAre

(* The last item of a sequence, replaced or added.                         *)
LEMMA LastReplaced ==
  ASSUME NEW S, NEW q \in Seq(S), NEW n \in S, Len(q) > 0
  PROVE  LET r == [q EXCEPT ![Len(q)] = n]
         IN  /\ r \in Seq(S) /\ Len(r) = Len(q) /\ r[Len(q)] = n
             /\ \A x \in 1 .. Len(q) : x # Len(q) => r[x] = q[x]
OBVIOUS

LEMMA LastAdded ==
  ASSUME NEW S, NEW q \in Seq(S), NEW n \in S
  PROVE  LET r == Append(q, n)
         IN  /\ r \in Seq(S) /\ Len(r) = Len(q) + 1 /\ r[Len(q) + 1] = n
             /\ \A x \in 1 .. Len(q) : r[x] = q[x]
OBVIOUS

(* The last processor changes, and keeps to what is said.                  *)
LEMMA LastChanges ==
  ASSUME NEW S, NEW q \in Seq(S), NEW r \in Seq(S), NEW k \in Nat,
         NEW c, NodesAre(q, k, FALSE), Len(q) > 0, Len(r) = Len(q),
         \A x \in 1 .. Len(q) : x # Len(q) => r[x] = q[x],
         NodeOf(r[Len(q)], Len(q), c)
  PROVE  NodesAre(r, k, c)
<1>1. NodesAre(q, k, c)
  <2>1. k <= k
    OBVIOUS
  <2> QED
    BY <2>1, NodesAreMore, Zenon
<1>2. ASSUME NEW x \in 1 .. Len(q)
      PROVE  x \in 1 .. k /\ NodeOf(r[x], x, c /\ x = Len(q))
  <2>1. x \in 1 .. k /\ NodeOf(q[x], x, c /\ x = Len(q))
    BY <1>1, Zenon DEF NodesAre
  <2>2. CASE x = Len(q)
    <3>1. NodeOf(r[x], x, c)
      BY <2>2, Zenon
    <3>2. NodeOf(r[x], x, c /\ x = Len(q))
      BY <2>2, <3>1, Zenon DEF NodeOf, PropsOf, ValueOf
    <3> QED
      BY <2>1, <3>2, Zenon
  <2>3. CASE x # Len(q)
    BY <2>1, <2>3, Zenon
  <2> QED
    BY <2>2, <2>3, Zenon
<1> QED
  BY <1>2, Zenon DEF NodesAre

(* A processor added at the end.                                           *)
LEMMA OneAdded ==
  ASSUME NEW S, NEW q \in Seq(S), NEW r \in Seq(S), NEW k \in Nat, NEW m \in Nat,
         k <= m, NEW c, NodesAre(q, k, FALSE), Len(r) = Len(q) + 1,
         \A x \in 1 .. Len(q) : r[x] = q[x],
         Len(q) + 1 \in 1 .. m, NodeOf(r[Len(q) + 1], Len(q) + 1, c)
  PROVE  NodesAre(r, m, c)
<1>1. PICK n \in Nat : n = Len(q)
  OBVIOUS
<1>2. \A x \in 1 .. n : x \in 1 .. k /\ NodeOf(q[x], x, FALSE)
  <2>1. \A x : (FALSE /\ x = Len(q)) <=> FALSE
    OBVIOUS
  <2> QED
    BY <1>1, <2>1, NodeOfMore, Zenon DEF NodesAre
<1>3. /\ \A x \in 1 .. n + 1 : x = n + 1 \/ x \in 1 .. n
      /\ \A x : x \in 1 .. k => x \in 1 .. m
  BY <1>1
<1>4. \A x \in 1 .. n : r[x] = q[x]
  BY <1>1, Zenon
<1>5. n + 1 \in 1 .. m /\ NodeOf(r[n + 1], n + 1, c)
  BY <1>1, Zenon
<1>6. ASSUME NEW x \in 1 .. n + 1
      PROVE  x \in 1 .. m /\ NodeOf(r[x], x, c /\ x = n + 1)
  <2>1. CASE x = n + 1
    <3>1. NodeOf(r[x], x, c)
      BY <1>5, <2>1, Zenon
    <3>2. NodeOf(r[x], x, c /\ x = n + 1)
      BY <2>1, <3>1, Zenon DEF NodeOf, PropsOf, ValueOf
    <3> QED
      BY <1>5, <2>1, <3>2, Zenon
  <2>2. CASE x \in 1 .. n
    <3>1. NodeOf(r[x], x, c /\ x = n + 1)
      BY <1>2, <1>4, <2>2, NodeOfMore, Zenon
    <3> QED
      BY <1>2, <1>3, <2>2, <3>1, Zenon
  <2> QED
    BY <1>3, <2>1, <2>2, Zenon
<1> QED
  BY <1>1, <1>6, Zenon DEF NodesAre

(* Processors that are read as the document says are a part of it.         *)
LEMMA PartOfFlow ==
  ASSUME ParserAssumption, doc \in Documents, format # "JSON",
         NEW S, nodes \in Seq(S), Len(nodes) <= MaxNodes,
         NEW k \in 0 .. Len(doc.props), NEW c, c => cut,
         NodesAre(nodes, k, c), Complete(nodes)
  PROVE  NodesArePart
<1>1. PICK n \in Nat : n = Len(nodes) /\ DOMAIN nodes = 1 .. n
  <2>1. Len(nodes) \in Nat /\ DOMAIN nodes = 1 .. Len(nodes)
    BY SeqIs, Zenon
  <2> QED
    BY <2>1, Zenon
<1>2. PICK m \in Nat : m = Len(doc.props)
  BY DocumentIs, Zenon
<1>3. /\ MaxNodes \in Nat /\ n <= MaxNodes /\ k \in 0 .. m
      /\ doc.untyped \in Nat
  BY <1>1, <1>2, DocumentIs DEF ParserAssumption
<1>4. \A x \in 1 .. n : x \in 1 .. k /\ NodeOf(nodes[x], x, c /\ x = n)
  BY <1>1, Zenon DEF NodesAre
<1>5. /\ Len(SaidNodes) = Least(MaxNodes, m)
      /\ \A x \in 1 .. Len(SaidNodes) : SaidNodes[x] = SaidNode(x)
  <2>1. HowMany(doc.untyped, m) = m /\ \A x : Which(doc.untyped, x) = x
    BY <1>2, <1>3, NumbersAre, Zenon
  <2> QED
    BY <1>2, <2>1, SaidNodesAre, Zenon
<1>6. n <= Len(SaidNodes)
  <2>1. n <= m
    <3>1. n > 0 => n \in 1 .. k
      BY <1>1, <1>4
    <3> QED
      BY <1>1, <1>2, <1>3, <3>1
  <2>2. n <= Least(MaxNodes, m)
    BY <1>3, <2>1 DEF Least
  <2> QED
    BY <1>5, <2>2, Zenon
<1>7. ASSUME NEW x \in 1 .. n
      PROVE  /\ PartOfNode(nodes[x], SaidNodes[x])
             /\ x < n \/ ~cut => nodes[x].id = SaidNodes[x].id
             /\ x < n => nodes[x] = SaidNodes[x]
  <2> DEFINE b == c /\ x = n
  <2>1. NodeOf(nodes[x], x, b)
    BY <1>4, Zenon
  <2>2. x < n \/ ~cut => ~b
    <3>1. x < n => x # n
      BY <1>1
    <3> QED
      BY <3>1, Zenon
  <2>3. b => cut
    BY Zenon
  <2> HIDE DEF b
  <2>4. SaidNodes[x] = SaidNode(x)
    <3>1. Len(SaidNodes) \in Nat
      BY <1>2, <1>3, <1>5 DEF Least
    <3>2. x \in 1 .. Len(SaidNodes)
      BY <1>1, <1>6, <3>1
    <3> QED
      BY <1>5, <3>2, Zenon
  <2>5. SaidNode(x).id = x /\ SaidNode(x).props = SaidProps(x)
    BY DEF SaidNode
  <2>6. /\ ValueOf(nodes[x].id, x, b)
        /\ nodes[x].type = 0 \/ ValueOf(nodes[x].type, SaidNode(x).type, b)
        /\ PropsOf(nodes[x].props, x, b)
    BY <2>1, Zenon DEF NodeOf
  <2>7. PartOfNode(nodes[x], SaidNode(x))
    <3>1. Part(nodes[x].id, SaidNode(x).id)
      BY <2>3, <2>5, <2>6, Zenon DEF Part, ValueOf
    <3>2. Part(nodes[x].type, SaidNode(x).type)
      <4>1. nodes[x].type = 0 => Part(nodes[x].type, SaidNode(x).type)
        BY Zenon DEF Part
      <4> QED
        BY <2>3, <2>6, <4>1, Zenon DEF Part, ValueOf
    <3>3. /\ Len(nodes[x].props) <= Len(SaidProps(x))
          /\ \A j \in DOMAIN nodes[x].props :
               /\ nodes[x].props[j][1] = SaidProps(x)[j][1]
               /\ Part(nodes[x].props[j][2], SaidProps(x)[j][2])
      BY <2>3, <2>6, Zenon DEF PropsOf, Part, ValueOf
    <3> QED
      BY <2>5, <3>1, <3>2, <3>3 DEF PartOfNode
  <2>8. x < n \/ ~cut => nodes[x].id = SaidNode(x).id
    BY <2>2, <2>5, <2>6, Zenon DEF ValueOf
  <2>9. x < n => nodes[x] = SaidNode(x)
    BY <1>1, Zenon DEF Complete
  <2> QED
    BY <2>4, <2>7, <2>8, <2>9, Zenon
<1> QED
  BY <1>1, <1>6, <1>7, Zenon DEF NodesArePart

(* What is said of a processor is part of it.                              *)
LEMMA PartOfItself ==
  ASSUME ParserAssumption, doc \in Documents, NEW S, nodes \in Seq(S),
         Len(nodes) <= Len(SaidNodes),
         \A x \in 1 .. Len(nodes) : nodes[x] = SaidNodes[x]
  PROVE  NodesArePart
<1>1. Len(nodes) \in Nat /\ DOMAIN nodes = 1 .. Len(nodes)
  BY SeqIs, Zenon
<1>2. Len(SaidNodes) \in Nat
  <2>1. HowMany(doc.untyped, Len(doc.props)) \in Nat /\ MaxNodes \in Nat
    <3>1. doc.untyped \in Nat /\ Len(doc.props) \in Nat
      BY DocumentIs, Zenon
    <3>2. HowMany(doc.untyped, Len(doc.props)) \in 0 .. Len(doc.props)
      BY <3>1, NumbersAre, Zenon
    <3> QED
      BY <3>2 DEF ParserAssumption
  <2> QED
    BY <2>1, SaidNodesAre DEF Least
<1>3. ASSUME NEW x \in DOMAIN nodes
      PROVE  /\ nodes[x] = SaidNodes[x] /\ PartOfNode(SaidNodes[x], SaidNodes[x])
  <2>1. x \in 1 .. Len(nodes) /\ x <= Len(SaidNodes) /\ x \in 1 .. Len(SaidNodes)
    BY <1>1, <1>2
  <2>2. /\ SaidNodes[x] = SaidNode(Which(doc.untyped, x))
        /\ Which(doc.untyped, x) \in 1 .. Len(doc.props)
    BY <2>1, SaidNodesAre, Zenon
  <2>3. \A v : Part(v, v)
    BY Zenon DEF Part
  <2>4. Len(SaidNodes[x].props) <= Len(SaidNodes[x].props)
    <3>1. \A i \in 1 .. Len(doc.props) : Len(SaidProps(i)) \in Nat
      <4> TAKE i \in 1 .. Len(doc.props)
      <4>1. MaxProps \in Nat /\ OneCleared \in Nat /\ doc.props[i] \in Nat
        BY DocumentIs DEF ParserAssumption, OneCleared
      <4>2. HowMany(OneCleared, doc.props[i]) \in Nat
        <5>1. HowMany(OneCleared, doc.props[i]) \in 0 .. doc.props[i]
          BY <4>1, NumbersAre, Zenon
        <5> QED
          BY <4>1, <5>1
      <4>3. Len(SaidProps(i)) = Least(MaxProps, HowMany(OneCleared, doc.props[i]))
        BY SaidPropsAre, Zenon
      <4> QED
        BY <4>1, <4>2, <4>3 DEF Least
    <3>2. \A i : SaidNode(i).props = SaidProps(i)
      BY DEF SaidNode
    <3>3. Len(SaidNodes[x].props) \in Nat
      BY <2>2, <3>1, <3>2, Zenon
    <3> QED
      BY <3>3
  <2>5. PartOfNode(SaidNodes[x], SaidNodes[x])
    BY <2>3, <2>4, Zenon DEF PartOfNode
  <2> QED
    BY <2>1, <2>5, Zenon
<1> QED
  BY <1>3, Zenon DEF NodesArePart

----------------------------------------------------------------------------
(* What the lines do.                                                      *)

ReadLine ==
  \/ ReadHeader \/ ReadProcessor \/ ReadConnection
  \/ ReadProcessorField \/ ReadSpaced \/ ReadProperty
  \/ ReadConnectionField \/ ReadRelationship \/ SkipLine
  \/ ReadJsonProcessor \/ ReadJsonConnection

Kind == Head(unread).kind

Skipped == UNCHANGED <<section, within, proc, conn, nodes, conns>>

(* What all the actions that read a line have in common.                   *)
LEMMA LineRead ==
  ASSUME ReadLine
  PROVE  /\ status = "reading" /\ unread # <<>> /\ unread' = Tail(unread)
         /\ UNCHANGED <<doc, format, status, cut, lineVars>>
         /\ Kind \in {"header", "item", "field", "spaced", "prop", "list",
                      "deep", "processor", "connection"}
<1>1. ASSUME NEW kind, Reads(kind)
      PROVE  /\ status = "reading" /\ unread # <<>> /\ unread' = Tail(unread)
             /\ UNCHANGED <<doc, format, status, cut, lineVars>> /\ Kind = kind
  BY <1>1, Zenon DEF Reads, Kind
<1> QED
  BY <1>1, Zenon
     DEF ReadLine, ReadHeader, ReadProcessor, ReadConnection, ReadProcessorField,
         ReadSpaced, ReadProperty, ReadConnectionField, ReadRelationship,
         SkipLine, ReadJsonProcessor, ReadJsonConnection

(* Which of the actions reads a line.                                      *)
LEMMA ReadBy ==
  ASSUME ReadLine
  PROVE  /\ Kind = "header" => ReadHeader
         /\ Kind = "item" => ReadProcessor \/ ReadConnection \/ SkipLine
         /\ Kind = "field" => ReadProcessorField \/ ReadConnectionField \/ SkipLine
         /\ Kind = "spaced" => ReadSpaced \/ SkipLine
         /\ Kind = "prop" => ReadProperty \/ SkipLine
         /\ Kind = "list" => ReadSpaced \/ ReadRelationship \/ SkipLine
         /\ Kind = "deep" => SkipLine
         /\ Kind = "processor" => ReadJsonProcessor
         /\ Kind = "connection" => ReadJsonConnection
<1>1. \A kind : Reads(kind) => Kind = kind
  BY Zenon DEF Reads, Kind
<1>2. /\ ReadHeader => Kind = "header"
      /\ ReadProcessor \/ ReadConnection => Kind = "item"
      /\ ReadProcessorField \/ ReadConnectionField => Kind = "field"
      /\ ReadSpaced => Kind \in {"spaced", "list"}
      /\ ReadProperty => Kind = "prop"
      /\ ReadRelationship => Kind = "list"
      /\ SkipLine => Kind \in {"item", "field", "spaced", "list", "prop", "deep"}
      /\ ReadJsonProcessor => Kind = "processor"
      /\ ReadJsonConnection => Kind = "connection"
  BY <1>1, Zenon
     DEF ReadHeader, ReadProcessor, ReadConnection, ReadProcessorField,
         ReadSpaced, ReadProperty, ReadConnectionField, ReadRelationship,
         SkipLine, ReadJsonProcessor, ReadJsonConnection
<1> HIDE DEF Kind
<1> QED
  BY <1>2 DEF ReadLine

(* A line that is skipped leaves the place and the arrays as they are.     *)
LEMMA SkippedAre ==
  ASSUME SkipLine
  PROVE  /\ Skipped
         /\ Kind = "item" => section = "other"
         /\ Kind = "field" => ~InProcessor /\ ~InConnection
         /\ Kind = "spaced" => ~InProcessor
         /\ Kind = "list" => ~InProcessor /\ ~InConnection
         /\ Kind = "prop" => ~(InProcessor /\ within = "properties")
<1>1. Skipped
  BY Zenon DEF SkipLine, Skipped, placeVars, outVars
<1>2. \/ Kind = "item" /\ section = "other"
      \/ Kind = "field" /\ ~InProcessor /\ ~InConnection
      \/ Kind = "spaced" /\ ~InProcessor
      \/ Kind = "list" /\ ~InProcessor /\ ~InConnection
      \/ Kind = "prop" /\ ~(InProcessor /\ within = "properties")
      \/ Kind = "deep"
  BY Zenon DEF SkipLine, Reads, Kind
<1> HIDE DEF Kind
<1>3. /\ Kind = "item" => section = "other"
      /\ Kind = "field" => ~InProcessor /\ ~InConnection
      /\ Kind = "spaced" => ~InProcessor
      /\ Kind = "list" => ~InProcessor /\ ~InConnection
      /\ Kind = "prop" => ~(InProcessor /\ within = "properties")
  BY <1>2
<1> QED
  BY <1>1, <1>3, Zenon

LEMMA HeaderRead ==
  ASSUME ReadLine, Kind = "header"
  PROVE  section' = Key /\ within' = "none" /\ UNCHANGED <<proc, conn, nodes, conns>>
BY ReadBy, Zenon DEF ReadHeader, outVars

(* What a dash does.                                                       *)
LEMMA ItemRead ==
  ASSUME ReadLine, Kind = "item"
  PROVE  /\ section = "Processors" =>
              /\ IF Len(nodes) < MaxNodes
                 THEN /\ nodes' = Append(nodes, [EmptyNode EXCEPT !.id = ItemId])
                      /\ proc' = Len(nodes) + 1
                 ELSE proc' = 0 /\ nodes' = nodes
              /\ within' = "processor" /\ UNCHANGED <<section, conn, conns>>
         /\ section = "Connections" =>
              /\ IF Len(conns) < MaxConns
                 THEN /\ conns' = Append(conns, [EmptyConn EXCEPT !.id = ItemId])
                      /\ conn' = Len(conns) + 1
                 ELSE conn' = 0 /\ conns' = conns
              /\ within' = "connection" /\ UNCHANGED <<section, proc, nodes>>
         /\ section = "other" => Skipped
<1>1. ReadProcessor \/ ReadConnection \/ SkipLine
  BY ReadBy, Zenon
<1>2. /\ ReadProcessor => section = "Processors"
      /\ ReadConnection => section = "Connections"
      /\ SkipLine => section = "other" /\ Skipped
  BY SkippedAre, Zenon DEF ReadProcessor, ReadConnection
<1>3. /\ section = "Processors" => section # "Connections" /\ section # "other"
      /\ section = "Connections" => section # "other"
  OBVIOUS
<1>4. CASE ReadProcessor
  BY <1>2, <1>3, <1>4, Zenon DEF ReadProcessor
<1>5. CASE ReadConnection
  BY <1>2, <1>3, <1>5, Zenon DEF ReadConnection
<1>6. CASE SkipLine
  BY <1>2, <1>3, <1>6, Zenon
<1> QED
  BY <1>1, <1>4, <1>5, <1>6, Zenon

LEMMA OneSection ==
  ASSUME InConnection
  PROVE  ~InProcessor
BY DEF InConnection, InProcessor

(* What a field does.                                                      *)
LEMMA FieldRead ==
  ASSUME ReadLine, Kind = "field"
  PROVE  /\ InProcessor =>
              /\ within' = IF Key = "Properties" THEN "properties" ELSE "processor"
              /\ nodes' = CASE Key = "id"    -> [nodes EXCEPT ![proc].id = Val]
                            [] Key = "class" -> [nodes EXCEPT ![proc].type = Val]
                            [] OTHER         -> nodes
              /\ UNCHANGED <<section, proc, conn, conns>>
         /\ InConnection =>
              /\ within' = IF Key = "source relationship names"
                           THEN "relationships" ELSE "connection"
              /\ conns' = [conns EXCEPT ![conn] =
                   [f \in DOMAIN @ |-> IF f \in DOMAIN FieldOf /\ Key = FieldOf[f]
                                       THEN Val ELSE @[f]]]
              /\ UNCHANGED <<section, proc, conn, nodes>>
         /\ ~InProcessor /\ ~InConnection => Skipped
<1>1. ReadProcessorField \/ ReadConnectionField \/ SkipLine
  BY ReadBy, Zenon
<1>2. CASE ReadProcessorField
  <2>1. InProcessor /\ ~InConnection
    BY <1>2, OneSection, Zenon DEF ReadProcessorField
  <2> QED
    BY <1>2, <2>1, Zenon DEF ReadProcessorField
<1>3. CASE ReadConnectionField
  <2>1. InConnection /\ ~InProcessor
    BY <1>3, OneSection, Zenon DEF ReadConnectionField
  <2> QED
    BY <1>3, <2>1, Zenon DEF ReadConnectionField
<1>4. CASE SkipLine
  BY <1>4, SkippedAre, Zenon
<1> QED
  BY <1>1, <1>2, <1>3, <1>4, Zenon

(* What a property does.                                                   *)
LEMMA PropRead ==
  ASSUME ReadLine, Kind = "prop"
  PROVE  /\ UNCHANGED <<section, within, proc, conn, conns>>
         /\ nodes' =
              IF /\ InProcessor /\ within = "properties"
                 /\ Key = "key" /\ Len(nodes[proc].props) < MaxProps
              THEN [nodes EXCEPT ![proc].props =
                      Append(@, <<Head(unread).place, Val>>)]
              ELSE nodes
<1>1. ReadProperty \/ SkipLine
  BY ReadBy, Zenon
<1>2. CASE ReadProperty
  BY <1>2, Zenon DEF ReadProperty, placeVars
<1>3. CASE SkipLine
  BY <1>3, SkippedAre, Zenon DEF Skipped
<1> QED
  BY <1>1, <1>2, <1>3, Zenon

(* What an entry of a list does, other than in a processor.                *)
LEMMA ListRead ==
  ASSUME ReadLine, Kind = "list", ~InProcessor
  PROVE  /\ UNCHANGED <<section, proc, conn, nodes>>
         /\ IF InConnection /\ within = "relationships"
            THEN conns' = [conns EXCEPT ![conn].rel = Val] /\ within' = "connection"
            ELSE UNCHANGED <<conns, within>>
<1>1. ReadRelationship \/ SkipLine
  BY ReadBy, Zenon DEF ReadSpaced
<1>2. CASE ReadRelationship
  BY <1>2, Zenon DEF ReadRelationship
<1>3. CASE SkipLine
  BY <1>3, SkippedAre, Zenon DEF Skipped
<1> QED
  BY <1>1, <1>2, <1>3, Zenon

(* What is said does not change while it is read.                          *)
LEMMA SaidStay ==
  ASSUME doc' = doc, format' = format, NEW i
  PROVE  (SaidProps(i))' = SaidProps(i) /\ (SaidNode(i))' = SaidNode(i)
<1>1. (SaidProps(i))' = SaidProps(i)
  BY Zenon DEF SaidProps, First, JsonLacks, RemoveAt
<1>2. (SaidNode(i))' = SaidNode(i)
  BY <1>1, Zenon DEF SaidNode
<1> QED
  BY <1>1, <1>2

LEMMA NodesStay ==
  ASSUME doc' = doc, format' = format, NEW k, NEW c
  PROVE  /\ (NodesAre(nodes, k, c))' <=> NodesAre(nodes', k, c)
         /\ Complete(nodes)' <=> Complete(nodes')
<1>1. \A i : (SaidProps(i))' = SaidProps(i) /\ (SaidNode(i))' = SaidNode(i)
  BY SaidStay, Zenon
<1>2. \A n, j, b : (NodeOf(n, j, b))' <=> NodeOf(n, j, b)
  BY <1>1, ZenonT(40) DEF NodeOf, PropsOf
<1>3. (NodesAre(nodes, k, c))' <=> NodesAre(nodes', k, c)
  BY <1>2, Zenon DEF NodesAre
<1>4. Complete(nodes)' <=> Complete(nodes')
  BY <1>1, Zenon DEF Complete
<1> QED
  BY <1>3, <1>4

(* A line that is read where m was written: m, or what is left of it.      *)
Like(l, m, c) == l = m \/ (c /\ l \in Shortened(m))

(* What is left of a line is of its kind, and of its value.                *)
LEMMA LikeIs ==
  ASSUME NEW l, NEW m \in YamlLine, NEW c, Like(l, m, c)
  PROVE  /\ l.kind = m.kind /\ ValueOf(l.val, m.val, c)
         /\ l.key \in {m.key, "other"} /\ (~c => l = m)
         /\ m.kind \in {"item", "list"} => l.key = m.key
         /\ l.key # "other" => l.key = m.key /\ l.place = m.place
<1>1. m \in [kind : {"header", "item", "field", "prop", "list", "spaced", "deep"},
             key : Keys, val : Int, place : Nat]
  BY DEF YamlLine
<1>2. CASE l = m
  BY <1>2, Zenon DEF ValueOf
<1>3. CASE c /\ l = Line(m.kind, "other", 0) /\ m.kind \notin {"item", "list"}
  <2>1. l.kind = m.kind /\ l.key = "other" /\ l.val = 0
    BY <1>3 DEF Line
  <2> QED
    BY <1>3, <2>1, Zenon DEF ValueOf
<1>4. ASSUME c, NEW v \in {0, Cut}, l = [m EXCEPT !.val = v]
      PROVE  /\ l.kind = m.kind /\ ValueOf(l.val, m.val, c)
             /\ l.key = m.key /\ l.place = m.place
  <2>1. l.kind = m.kind /\ l.val = v /\ l.key = m.key /\ l.place = m.place
    BY <1>1, <1>4
  <2> QED
    BY <1>4, <2>1, Zenon DEF ValueOf
<1>5. \/ l = m
      \/ c /\ l = Line(m.kind, "other", 0) /\ m.kind \notin {"item", "list"}
      \/ c /\ \E v \in {0, Cut} : l = [m EXCEPT !.val = v]
  BY DEF Like, Shortened
<1>6. CASE c /\ \E v \in {0, Cut} : l = [m EXCEPT !.val = v]
  BY <1>4, <1>6, Zenon
<1> QED
  BY <1>2, <1>3, <1>5, <1>6, Zenon

(* The last of the processors that are read so far.                        *)
LEMMA LastIs ==
  ASSUME NEW S, NEW q \in Seq(S), NEW k \in Nat, NodesAre(q, k, FALSE), Len(q) > 0
  PROVE  Len(q) \in 1 .. k /\ NodeOf(q[Len(q)], Len(q), FALSE)
<1>1. Len(q) \in 1 .. Len(q)
  OBVIOUS
<1>2. \A x : (FALSE /\ x = Len(q)) <=> FALSE
  OBVIOUS
<1> QED
  BY <1>1, <1>2, NodeOfMore, Zenon DEF NodesAre

(* The fields of a processor, one of which is set.                         *)
LEMMA NodeSet ==
  ASSUME NEW n \in Node, NEW v
  PROVE  /\ [n EXCEPT !.type = v].type = v
         /\ [n EXCEPT !.type = v].id = n.id
         /\ [n EXCEPT !.type = v].props = n.props
         /\ [n EXCEPT !.props = v].props = v
         /\ [n EXCEPT !.props = v].id = n.id
         /\ [n EXCEPT !.props = v].type = n.type
         /\ n.id \in Int /\ n.type \in Int /\ n.props \in Seq(Prop)
         /\ Len(n.props) <= MaxProps
         /\ n = [id |-> n.id, type |-> n.type, props |-> n.props]
<1> DEFINE P == {q \in Seq(Prop) : Len(q) <= MaxProps}
<1>1. n \in [id : Int, type : Int, props : P]
  BY DEF Node
<1>2. n.props \in P => n.props \in Seq(Prop) /\ Len(n.props) <= MaxProps
  OBVIOUS
<1> HIDE DEF P
<1> QED
  BY <1>1, <1>2

(* The last processor takes the class, or a property, that is read.        *)
LEMMA ClassTaken ==
  ASSUME NEW q \in Seq(Node), Len(q) > 0, NEW i \in Nat, NEW c,
         i # doc.untyped, NEW v \in Int, ValueOf(v, i, c),
         NodesAre(q, i, FALSE), Len(q) = i
  PROVE  LET n == [q[Len(q)] EXCEPT !.type = v]
         IN  /\ n \in Node /\ n.type = v /\ n.props = q[Len(q)].props
             /\ NodesAre([q EXCEPT ![Len(q)] = n], i, c)
<1> DEFINE m == Len(q)
           n == [q[m] EXCEPT !.type = v]
           r == [q EXCEPT ![m] = n]
<1>1. m \in Nat /\ m \in 1 .. m /\ q[m] \in Node
  OBVIOUS
<1>2. n \in Node
  BY <1>1, NodesTyped, Zenon
<1>3. n.type = v /\ n.props = q[m].props /\ n.id = q[m].id
  BY <1>1, NodeSet, Zenon
<1>4. /\ r \in Seq(Node) /\ Len(r) = m /\ r[m] = n
      /\ \A x \in 1 .. m : x # m => r[x] = q[x]
  <2> HIDE DEF n
  <2> QED
    BY <1>1, <1>2
<1>5. NodeOf(n, m, c)
  <2>1. NodeOf(q[m], i, FALSE)
    BY LastIs, Zenon
  <2>2. NodeOf(q[m], i, c)
    BY <2>1, NodeOfMore, Zenon
  <2>3. SaidNode(i).type = i
    BY DEF SaidNode
  <2> QED
    BY <1>3, <2>2, <2>3, Zenon DEF NodeOf
<1> HIDE DEF n, r
<1>6. NodesAre(r, i, c)
  BY <1>4, <1>5, LastChanges, Zenon
<1> QED
  BY <1>2, <1>3, <1>6, Zenon DEF n, r, m

(* The properties that YAML gives a processor.                             *)
LEMMA YamlPropsAre ==
  ASSUME ParserAssumption, doc \in Documents, format # "JSON",
         NEW i \in 1 .. Len(doc.props)
  PROVE  /\ Len(SaidProps(i)) = Least(MaxProps, doc.props[i])
         /\ doc.props[i] \in Nat /\ MaxProps \in Nat /\ MaxProps > 0
         /\ DOMAIN SaidProps(i) = 1 .. Len(SaidProps(i))
         /\ \A j \in 1 .. doc.props[i] : j <= MaxProps =>
              j <= Len(SaidProps(i)) /\ SaidProps(i)[j] = <<j, PropVal(i, j)>>
<1>1. doc.props[i] \in Nat /\ OneCleared \in Nat
  BY DocumentIs DEF OneCleared
<1>2. MaxProps \in Nat /\ MaxProps > 0
  BY DEF ParserAssumption
<1>3. /\ HowMany(OneCleared, doc.props[i]) = doc.props[i]
      /\ \A x : Which(OneCleared, x) = x
  BY <1>1, NumbersAre, Zenon
<1>4. /\ Len(SaidProps(i)) = Least(MaxProps, doc.props[i])
      /\ DOMAIN SaidProps(i) = 1 .. Len(SaidProps(i))
      /\ \A j \in 1 .. Len(SaidProps(i)) : SaidProps(i)[j] = <<j, PropVal(i, j)>>
  BY <1>3, SaidPropsAre, Zenon
<1>5. ASSUME NEW j \in 1 .. doc.props[i], j <= MaxProps
      PROVE  j \in 1 .. Least(MaxProps, doc.props[i])
             /\ j <= Least(MaxProps, doc.props[i])
  BY <1>1, <1>2, <1>5 DEF Least
<1> QED
  BY <1>1, <1>2, <1>4, <1>5, Zenon

(* The last processor takes its j-th property next.                        *)
TakesNext(q, i, j) ==
  Len(q) = i /\ j <= MaxProps /\ Len(q[Len(q)].props) = j - 1

(* The last processor takes a property.                                    *)
LEMMA PropTaken ==
  ASSUME ParserAssumption, doc \in Documents, format # "JSON",
         NEW q \in Seq(Node), Len(q) > 0, NEW i \in 1 .. Len(doc.props),
         NEW c, NodesAre(q, i, FALSE),
         NEW j \in 1 .. doc.props[i], TakesNext(q, i, j),
         NEW v \in Int, ValueOf(v, PropVal(i, j), c)
  PROVE  LET n == [q[Len(q)] EXCEPT !.props = Append(q[Len(q)].props, <<j, v>>)]
         IN  /\ n \in Node /\ n.type = q[Len(q)].type /\ Len(n.props) = j
             /\ NodesAre([q EXCEPT ![Len(q)] = n], i, c)
<1> DEFINE m == Len(q)
           p == q[m].props
           s == Append(p, <<j, v>>)
           n == [q[m] EXCEPT !.props = s]
           r == [q EXCEPT ![m] = n]
<1>0. m = i /\ j <= MaxProps /\ Len(p) = j - 1
  BY Zenon DEF TakesNext
<1>1. m \in Nat /\ m \in 1 .. m /\ q[m] \in Node
  OBVIOUS
<1>2. /\ doc.props[i] \in Nat /\ MaxProps \in Nat /\ i \in Nat /\ j \in Nat
      /\ j - 1 < MaxProps
  <2>1. doc.props[i] \in Nat /\ MaxProps \in Nat
    BY YamlPropsAre, Zenon
  <2> QED
    BY <1>0, <2>1, DocumentIs
<1>3. p \in Seq(Prop) /\ Len(p) = j - 1
  BY <1>0, <1>1, NodeSet, Zenon
<1>4. <<j, v>> \in Prop
  BY <1>2 DEF Prop
<1>5. n \in Node
  <2>1. Len(p) < MaxProps
    BY <1>2, <1>3
  <2> QED
    BY <1>1, <1>4, <2>1, NodesTyped, Zenon
<1>6. n.type = q[m].type /\ n.props = s /\ n.id = q[m].id
  BY <1>1, NodeSet, Zenon
<1>7. /\ Len(s) = j /\ s[j] = <<j, v>> /\ DOMAIN s = 1 .. j
      /\ \A x \in 1 .. j : x # j => s[x] = p[x] /\ x \in DOMAIN p
  <2>0. \A x \in 1 .. j : x # j => x \in 1 .. j - 1
    BY <1>2
  <2> DEFINE e == <<j, v>>
  <2>1. e \in Prop
    BY <1>4
  <2> HIDE DEF e, p
  <2>2. /\ Len(Append(p, e)) = j /\ Append(p, e)[j] = e
        /\ DOMAIN Append(p, e) = 1 .. j /\ DOMAIN p = 1 .. j - 1
    BY <1>2, <1>3, <2>1
  <2>3. \A x \in 1 .. j - 1 : Append(p, e)[x] = p[x]
    BY <1>2, <1>3, <2>1
  <2> QED
    BY <2>0, <2>2, <2>3, Zenon DEF e
<1>8. /\ r \in Seq(Node) /\ Len(r) = m /\ r[m] = n
      /\ \A x \in 1 .. m : x # m => r[x] = q[x]
  <2> HIDE DEF n
  <2> QED
    BY <1>1, <1>5
<1>9. NodeOf(n, i, c)
  <2>1. NodeOf(q[m], i, c)
    <3>1. NodeOf(q[m], i, FALSE)
      BY <1>0, <1>2, LastIs, Zenon
    <3> QED
      BY <3>1, NodeOfMore, Zenon
  <2>2. PropsOf(s, i, c)
    <3>1. /\ j <= Len(SaidProps(i)) /\ SaidProps(i)[j] = <<j, PropVal(i, j)>>
      BY <1>0, YamlPropsAre, Zenon
    <3>2. PropsOf(p, i, c)
      BY <2>1, Zenon DEF NodeOf
    <3> HIDE DEF s
    <3>3. ASSUME NEW x \in 1 .. j
          PROVE  /\ s[x][1] = SaidProps(i)[x][1]
                 /\ ValueOf(s[x][2], SaidProps(i)[x][2], c)
      <4>1. CASE x = j
        <5>1. s[x] = <<j, v>> /\ SaidProps(i)[x] = <<j, PropVal(i, j)>>
          BY <1>7, <3>1, <4>1, Zenon
        <5>2. s[x][1] = j /\ s[x][2] = v
          BY <5>1
        <5>3. SaidProps(i)[x][1] = j /\ SaidProps(i)[x][2] = PropVal(i, j)
          BY <5>1
        <5> QED
          BY <5>2, <5>3, Zenon
      <4>2. CASE x # j
        <5>1. s[x] = p[x] /\ x \in DOMAIN p
          BY <1>7, <4>2, Zenon
        <5> HIDE DEF p
        <5>2. /\ p[x][1] = SaidProps(i)[x][1]
              /\ ValueOf(p[x][2], SaidProps(i)[x][2], c)
          BY <3>2, <5>1, Zenon DEF PropsOf
        <5> QED
          BY <5>1, <5>2, Zenon
      <4> QED
        BY <4>1, <4>2, Zenon
    <3> QED
      BY <1>7, <3>1, <3>3, Zenon DEF PropsOf
  <2> QED
    BY <1>6, <2>1, <2>2, Zenon DEF NodeOf
<1>10. NodeOf(r[m], m, c)
  BY <1>0, <1>8, <1>9, Zenon
<1> HIDE DEF n, r, s
<1>11. NodesAre(r, i, c)
  BY <1>2, <1>8, <1>10, LastChanges, Zenon
<1>12. Len(n.props) = j
  BY <1>6, <1>7, Zenon
<1> QED
  BY <1>5, <1>6, <1>11, <1>12, Zenon DEF n, r, s, m, p

(* An item that begins the next processor.                                 *)
LEMMA NodeTaken ==
  ASSUME NEW q \in Seq(Node), NEW i \in Nat, NEW c, NodesAre(q, i, FALSE),
         Len(q) = i, NEW v \in Int, ValueOf(v, i + 1, c)
  PROVE  LET n == [EmptyNode EXCEPT !.id = v]
         IN  /\ n \in Node /\ n.props = <<>> /\ n.type = 0
             /\ NodesAre(Append(q, n), i + 1, c)
<1> DEFINE n == [EmptyNode EXCEPT !.id = v]
           r == Append(q, n)
           m == Len(q)
<1>1. n \in Node /\ m \in Nat
  <2>1. n \in Node
    BY NodesTyped, Zenon
  <2>2. m \in Nat
    OBVIOUS
  <2> QED
    BY <2>1, <2>2
<1>2. n.id = v /\ n.props = <<>> /\ n.type = 0
  BY DEF EmptyNode
<1>3. /\ r \in Seq(Node) /\ Len(r) = m + 1 /\ r[m + 1] = n
      /\ \A x \in 1 .. m : r[x] = q[x]
  <2> HIDE DEF n
  <2> QED
    BY <1>1
<1>4. m + 1 = i + 1 /\ m + 1 \in 1 .. i + 1
  BY <1>1
<1>5. NodeOf(n, i + 1, c)
  <2>1. PropsOf(<<>>, i + 1, c)
    <3>1. Len(<<>>) <= Len(SaidProps(i + 1)) /\ DOMAIN <<>> = {}
      OBVIOUS
    <3> QED
      BY <3>1, Zenon DEF PropsOf
  <2> QED
    BY <1>2, <2>1, Zenon DEF NodeOf
<1>6. NodeOf(r[m + 1], m + 1, c)
  BY <1>3, <1>4, <1>5, Zenon
<1>7. i <= i + 1 /\ i + 1 \in Nat
  OBVIOUS
<1> HIDE DEF n, r
<1>8. NodesAre(r, i + 1, c)
  BY <1>3, <1>4, <1>6, <1>7, OneAdded, Zenon
<1> QED
  BY <1>1, <1>2, <1>8, Zenon DEF n, r, m

----------------------------------------------------------------------------
(* The place in the section of the processors.                             *)

----------------------------------------------------------------------------
(* Where the reader is while t lines of the i-th processor are read: the   *)
(* number of processors, the one that is current, the list within it and   *)
(* the number of its properties.                                           *)
CurrentAt(count, p, w, n, i, t) ==
  /\ count = Least(MaxNodes, i)
  /\ p \in {0, count}
  /\ p # 0 =>
       /\ p = i
       /\ t < PropsAt(doc, i) => n = 0
       /\ w = "properties" =>
            t >= PropsAt(doc, i) /\ n = Least(MaxProps, t - PropsAt(doc, i))

(* All that was said in these lines is there: y is the type of the current *)
(* processor.                                                              *)
LastProp(i) == PropsAt(doc, i) + doc.props[i]

ExactAt(p, w, n, y, i, t) ==
  /\ p = IF i <= MaxNodes THEN i ELSE 0
  /\ p # 0 => /\ w # "none"
              /\ t \in PropsAt(doc, i) .. LastProp(i) => w = "properties"
              /\ t >= LastProp(i) => n = Least(MaxProps, doc.props[i])
              /\ i # doc.untyped /\ t >= ClassAt(doc, i) => y = i

(* The place after one more line.                                          *)
LEMMA CurrentStays ==
  ASSUME ParserAssumption, doc \in Documents, NEW i \in 1 .. Len(doc.props),
         NEW t \in Nat, NEW count \in Nat, NEW p \in Nat, NEW w, NEW n \in Nat,
         CurrentAt(count, p, w, n, i, t), NEW v
  PROVE  /\ p = 0 \/ v # "properties" \/ t + 1 = PropsAt(doc, i) =>
              CurrentAt(count, p, v, n, i, t + 1)
         /\ IsPropAt(doc, i, t + 1) =>
              CurrentAt(count, p, w,
                        IF p # 0 /\ w = "properties" /\ n < MaxProps
                        THEN n + 1 ELSE n, i, t + 1)
<1>1. PICK o \in Nat : o = PropsAt(doc, i)
  BY ProcLineIs
<1>2. MaxProps \in Nat /\ MaxProps > 0
  BY DEF ParserAssumption
<1>3. ASSUME p = 0 \/ v # "properties" \/ t + 1 = o
      PROVE  CurrentAt(count, p, v, n, i, t + 1)
  BY <1>1, <1>2, <1>3 DEF CurrentAt, Least
<1>4. ASSUME IsPropAt(doc, i, t + 1)
      PROVE  CurrentAt(count, p, w,
                       IF p # 0 /\ w = "properties" /\ n < MaxProps
                       THEN n + 1 ELSE n, i, t + 1)
  <2>1. t + 1 > o
    BY <1>1, <1>4 DEF IsPropAt
  <2> QED
    BY <1>1, <1>2, <2>1 DEF CurrentAt, Least
<1> QED
  BY <1>1, <1>3, <1>4, Zenon

LEMMA PlacesCounted ==
  ASSUME NEW t \in Nat, NEW o \in Nat, NEW b \in Nat, NEW k \in Nat
  PROVE  /\ t + 1 = 2 /\ o > 2 /\ k > 2 =>
              /\ t + 1 \notin o .. o + b /\ ~(t + 1 >= o + b)
              /\ ~(t + 1 >= k)
         /\ t + 1 = o /\ t + 1 >= o + b => b = 0
         /\ t + 1 # k /\ t + 1 >= k => t >= k
         /\ t + 1 > o /\ t + 1 <= o + b => t \in o .. o + b
         /\ t + 1 <= o + b /\ t + 1 >= o + b => (t + 1) - o = b
         /\ t + 1 = k /\ k # o /\ ~(k > o /\ k <= o + b) =>
              /\ t + 1 \notin o .. o + b
              /\ t + 1 >= o + b => t >= o + b
OBVIOUS

(* The same for all that was said.                                         *)
LEMMA ExactStays ==
  ASSUME ParserAssumption, doc \in Documents, NEW i \in 1 .. Len(doc.props),
         NEW t \in Nat, t < ProcSize(doc, i), NEW p \in Nat, NEW w,
         NEW n \in Nat, NEW y, NEW v, NEW m \in Nat, NEW z,
         ExactAt(p, w, n, y, i, t)
  PROVE  /\ t + 1 = 2 => ExactAt(p, "processor", n, y, i, t + 1)
         /\ t + 1 = PropsAt(doc, i) /\ (p # 0 => n = 0) =>
              ExactAt(p, "properties", n, y, i, t + 1)
         /\ /\ IsPropAt(doc, i, t + 1)
            /\ p # 0 => m = Least(MaxProps, (t + 1) - PropsAt(doc, i))
            => ExactAt(p, w, m, y, i, t + 1)
         /\ i # doc.untyped /\ t + 1 = ClassAt(doc, i) =>
              ExactAt(p, "processor", n, i, i, t + 1)
<1>1. PICK o \in Nat : o = PropsAt(doc, i) /\ o > 2
  <2>1. PropsAt(doc, i) \in {3, 4}
    BY ProcLineIs, Zenon
  <2> QED
    BY <2>1
<1>2. PICK b \in Nat : b = doc.props[i]
  BY DocumentIs
<1>3. PICK k \in Nat : k = ClassAt(doc, i) /\ k > 2
  BY ProcLineIs
<1>4. /\ IsPropAt(doc, i, t + 1) => t + 1 > o /\ t + 1 <= o + b
      /\ i # doc.untyped => k # o /\ ~(k > o /\ k <= o + b)
      /\ IsPropAt(doc, i, t + 1) /\ i # doc.untyped => t + 1 # k
  <2>0. i > 0
    BY DocumentIs
  <2>1. \A x : IsPropAt(doc, i, x) <=> x > o /\ x <= o + b
    BY <1>1, <1>2, <2>0, Zenon DEF IsPropAt
  <2>2. i # doc.untyped => k # o /\ ~IsPropAt(doc, i, k)
    BY <1>1, <1>3, ProcLineIs, Zenon
  <2> QED
    BY <2>1, <2>2, Zenon
<1>5. MaxProps \in Nat /\ MaxProps > 0
  BY DEF ParserAssumption
<1>6. \A pp, ww, nn, yy, tt : ExactAt(pp, ww, nn, yy, i, tt) <=>
        /\ pp = IF i <= MaxNodes THEN i ELSE 0
        /\ pp # 0 => /\ ww # "none"
                     /\ tt \in o .. o + b => ww = "properties"
                     /\ tt >= o + b => nn = Least(MaxProps, b)
                     /\ i # doc.untyped /\ tt >= k => yy = i
  BY <1>1, <1>2, <1>3 DEF ExactAt, LastProp
<1>7. /\ p = IF i <= MaxNodes THEN i ELSE 0
      /\ p # 0 => /\ w # "none"
                  /\ t \in o .. o + b => w = "properties"
                  /\ t >= o + b => n = Least(MaxProps, b)
                  /\ i # doc.untyped /\ t >= k => y = i
  BY <1>6, Zenon
<1>8. /\ "processor" # "none" /\ "properties" # "none"
      /\ Least(MaxProps, 0) = 0
  BY <1>5 DEF Least
<1>9. ASSUME t + 1 = 2 PROVE ExactAt(p, "processor", n, y, i, t + 1)
  <2>1. /\ t + 1 \notin o .. o + b /\ ~(t + 1 >= o + b)
        /\ ~(t + 1 >= k)
    <3>1. t + 1 = 2 /\ o > 2 /\ k > 2
      BY <1>1, <1>3, <1>9, Zenon
    <3> QED
      BY <3>1, PlacesCounted
  <2> QED
    BY <1>6, <1>7, <1>8, <2>1, Zenon
<1>10. ASSUME t + 1 = o, p # 0 => n = 0
       PROVE  ExactAt(p, "properties", n, y, i, t + 1)
  <2>1. t + 1 >= o + b => b = 0
    BY <1>10, PlacesCounted, Zenon
  <2>2. i # doc.untyped /\ t + 1 >= k => t >= k
    BY <1>4, <1>10, PlacesCounted, Zenon
  <2>3. p # 0 => (t + 1 >= o + b => n = Least(MaxProps, b))
    BY <1>8, <1>10, <2>1, Zenon
  <2>4. p # 0 => (i # doc.untyped /\ t + 1 >= k => y = i)
    BY <1>7, <2>2, Zenon
  <2> QED
    BY <1>6, <1>7, <1>8, <2>3, <2>4, SMT
<1>11. ASSUME IsPropAt(doc, i, t + 1), p # 0 => m = Least(MaxProps, (t + 1) - o)
       PROVE  ExactAt(p, w, m, y, i, t + 1)
  <2>1. t + 1 > o /\ t + 1 <= o + b /\ (i # doc.untyped => t + 1 # k)
    BY <1>4, <1>11, Zenon
  <2>2. t \in o .. o + b /\ (t + 1 >= o + b => (t + 1) - o = b)
    BY <2>1, PlacesCounted, Zenon
  <2>3. i # doc.untyped /\ t + 1 >= k => t >= k
    BY <2>1, PlacesCounted, Zenon
  <2> QED
    BY <1>6, <1>7, <1>11, <2>2, <2>3, Zenon
<1>12. ASSUME i # doc.untyped, t + 1 = k
       PROVE  ExactAt(p, "processor", n, i, i, t + 1)
  <2>1. t + 1 \notin o .. o + b /\ (t + 1 >= o + b => t >= o + b)
    BY <1>4, <1>12, PlacesCounted, Zenon
  <2> QED
    BY <1>6, <1>7, <1>8, <2>1, Zenon
<1> QED
  BY <1>1, <1>3, <1>9, <1>10, <1>11, <1>12, Zenon

(* A field that is neither an id nor a class changes no processor.         *)
LEMMA PlainRead ==
  ASSUME ReadLine, Kind = "field", section # "Connections",
         Key \notin {"id", "class"}
  PROVE  /\ UNCHANGED <<section, proc, conn, nodes, conns>>
         /\ InProcessor =>
              within' = IF Key = "Properties" THEN "properties" ELSE "processor"
         /\ ~InProcessor => within' = within
<1>1. ~InConnection
  BY DEF InConnection
<1>2. CASE InProcessor
  <2>1. /\ within' = IF Key = "Properties" THEN "properties" ELSE "processor"
        /\ nodes' = CASE Key = "id"    -> [nodes EXCEPT ![proc].id = Val]
                      [] Key = "class" -> [nodes EXCEPT ![proc].type = Val]
                      [] OTHER         -> nodes
        /\ UNCHANGED <<section, proc, conn, conns>>
    BY <1>2, FieldRead, Zenon
  <2> HIDE DEF Key, Val
  <2>2. nodes' = nodes
    BY <2>1
  <2> QED
    BY <1>2, <2>1, <2>2, Zenon
<1>3. CASE ~InProcessor
  BY <1>1, <1>3, FieldRead, Zenon DEF Skipped
<1> QED
  BY <1>2, <1>3

(* A class is taken by the current processor.                              *)
LEMMA ClassRead ==
  ASSUME ReadLine, Kind = "field", section # "Connections", Key = "class"
  PROVE  /\ UNCHANGED <<section, proc, conn, conns>>
         /\ InProcessor => /\ within' = "processor"
                           /\ nodes' = [nodes EXCEPT ![proc].type = Val]
         /\ ~InProcessor => within' = within /\ nodes' = nodes
<1>1. ~InConnection
  BY DEF InConnection
<1>2. CASE InProcessor
  <2>1. /\ within' = IF Key = "Properties" THEN "properties" ELSE "processor"
        /\ nodes' = CASE Key = "id"    -> [nodes EXCEPT ![proc].id = Val]
                      [] Key = "class" -> [nodes EXCEPT ![proc].type = Val]
                      [] OTHER         -> nodes
        /\ UNCHANGED <<section, proc, conn, conns>>
    BY <1>2, FieldRead, Zenon
  <2> HIDE DEF Key, Val
  <2>2. Key = "class" => Key # "id" /\ Key # "Properties"
    OBVIOUS
  <2>3. nodes' = [nodes EXCEPT ![proc].type = Val] /\ within' = "processor"
    BY <2>1, <2>2
  <2> QED
    BY <1>2, <2>1, <2>3, Zenon
<1>3. CASE ~InProcessor
  BY <1>1, <1>3, FieldRead, Zenon DEF Skipped
<1> QED
  BY <1>2, <1>3

----------------------------------------------------------------------------
(* The current processor, if there is one.                                 *)
CurProps(q, p) == IF p = 0 THEN 0 ELSE Len(q[p].props)
CurType(q, p)  == IF p = 0 THEN 0 ELSE q[p].type

Placed(i, t) ==
  CurrentAt(Len(nodes), proc, within, CurProps(nodes, proc), i, t)

Exact(i, t) ==
  /\ \A x \in 1 .. Len(nodes) : x < i => nodes[x] = SaidNode(x)
  /\ ExactAt(proc, within, CurProps(nodes, proc), CurType(nodes, proc), i, t)

(* The state in which t lines of the i-th processor have been read.        *)
Here(i, t) ==
  /\ section = "Processors" /\ conns = <<>>
  /\ ProcPlace(doc, i, t) /\ NodesAre(nodes, i, FALSE)
  /\ Placed(i, t) /\ Exact(i, t)

SameButLast(q, r) ==
  /\ r \in Seq(Node) /\ Len(r) = Len(q)
  /\ \A x \in 1 .. Len(q) : x # Len(q) => r[x] = q[x]

(* What the place in the flow says of the state.                           *)
LEMMA HereIs ==
  ASSUME ParserAssumption, UnreadOK, PlacesOK, ArraysOK, NEW i, NEW t, Here(i, t)
  PROVE  /\ i \in Nat /\ i \in 0 .. Len(doc.props) /\ t \in Nat
         /\ i # 0 => i \in 1 .. Len(doc.props)
         /\ Len(nodes) \in Nat /\ proc \in Nat
         /\ CurProps(nodes, proc) \in Nat
         /\ InProcessor =>
              /\ proc # 0 /\ proc = Len(nodes) /\ proc = i
              /\ Len(nodes) > 0 /\ nodes[proc] \in Node
              /\ CurProps(nodes, proc) = Len(nodes[proc].props)
              /\ CurType(nodes, proc) = nodes[proc].type
         /\ proc # 0 => InProcessor
         /\ Len(nodes) <= i
         /\ Complete(nodes)
<1>1. /\ i \in 0 .. Len(doc.props) /\ t \in 0 .. ProcSize(doc, i)
      /\ section = "Processors" /\ NodesAre(nodes, i, FALSE)
      /\ Placed(i, t) /\ Exact(i, t)
  BY Zenon DEF Here, ProcPlace
<1>2. /\ Len(doc.props) \in Nat /\ doc \in Documents
      /\ MaxNodes \in Nat
  BY DocumentIs DEF UnreadOK, ParserAssumption
<1>3. i \in Nat /\ t \in Nat /\ (i # 0 => i \in 1 .. Len(doc.props))
  BY <1>1, <1>2
<1>4. /\ Len(nodes) \in Nat /\ proc \in 0 .. Len(nodes) /\ proc \in Nat
      /\ proc # 0 => proc \in 1 .. Len(nodes) /\ nodes[proc] \in Node
      /\ proc > 0 <=> proc # 0
  BY DEF ArraysOK
<1>5. CurProps(nodes, proc) \in Nat
  <2>1. CASE proc = 0
    BY <2>1 DEF CurProps
  <2>2. CASE proc # 0
    <3>1. nodes[proc].props \in Seq(Prop)
      BY <1>4, <2>2, NodeSet, Zenon
    <3>2. Len(nodes[proc].props) \in Nat
      BY <3>1
    <3> QED
      BY <2>2, <3>2, Zenon DEF CurProps
  <2> QED
    BY <2>1, <2>2
<1>6. CurrentAt(Len(nodes), proc, within, CurProps(nodes, proc), i, t)
  BY <1>1, Zenon DEF Placed
<1>7. ASSUME InProcessor
      PROVE  /\ proc # 0 /\ proc = Len(nodes) /\ proc = i
             /\ Len(nodes) > 0 /\ nodes[proc] \in Node
             /\ CurProps(nodes, proc) = Len(nodes[proc].props)
             /\ CurType(nodes, proc) = nodes[proc].type
  <2>1. proc # 0
    BY <1>4, <1>7, Zenon DEF InProcessor
  <2>2. proc \in {0, Len(nodes)} /\ proc = i
    BY <1>6, <2>1, Zenon DEF CurrentAt
  <2>3. proc = Len(nodes) /\ Len(nodes) > 0
    BY <1>4, <2>1, <2>2
  <2> QED
    BY <1>4, <2>1, <2>2, <2>3, Zenon DEF CurProps, CurType
<1>8. proc # 0 => InProcessor
  <2>1. proc # 0 => within # "none"
    BY <1>1, Zenon DEF Exact, ExactAt
  <2> QED
    BY <1>1, <1>4, <2>1, Zenon DEF InProcessor
<1>9. Len(nodes) <= i
  <2>1. Len(nodes) = Least(MaxNodes, i)
    BY <1>6, Zenon DEF CurrentAt
  <2> QED
    BY <1>2, <1>3, <2>1 DEF Least
<1>10. Complete(nodes)
  <2>1. SUFFICES ASSUME NEW x \in 1 .. Len(nodes), x < Len(nodes)
                 PROVE  nodes[x] = SaidNode(x)
    BY Zenon DEF Complete
  <2>2. x < i
    BY <1>3, <1>4, <1>9, <2>1
  <2> QED
    BY <1>1, <2>2, Zenon DEF Exact
<1> QED
  BY <1>1, <1>3, <1>4, <1>5, <1>7, <1>8, <1>9, <1>10, Zenon

(* What reading a line of a processor does, or what is left of the line.   *)
ReadAs(l, i, t, c) ==
  /\ UNCHANGED <<section, proc, conn, conns>> /\ SameButLast(nodes, nodes')
  /\ NodesAre(nodes', i, c)
  /\ Head(unread) = l =>
       /\ CurrentAt(Len(nodes), proc, within', CurProps(nodes', proc), i, t + 1)
       /\ ExactAt(proc, within', CurProps(nodes', proc), CurType(nodes', proc),
                  i, t + 1)

(* A field of a processor is read as the flow says.                        *)
LEMMA FieldTaken ==
  ASSUME ParserAssumption, UnreadOK, PlacesOK, ArraysOK, ReadLine,
         NEW i, NEW t, NEW c, Here(i, t),
         t < ProcSize(doc, i), i # 0, NEW m \in YamlLine, Like(Head(unread), m, c),
         m.kind = "field", m.key \in {"name", "Properties"},
         m.key = "name" => t + 1 = 2,
         m.key = "Properties" => t + 1 = PropsAt(doc, i)
  PROVE  ReadAs(m, i, t, c)
<1>1. /\ i \in Nat /\ t \in Nat /\ i \in 1 .. Len(doc.props)
      /\ Len(nodes) \in Nat /\ proc \in Nat /\ CurProps(nodes, proc) \in Nat
      /\ doc \in Documents
  BY HereIs, Zenon DEF UnreadOK
<1>2. proc # 0 => InProcessor
  BY HereIs, Zenon
<1>3. section = "Processors" /\ section # "Connections"
  BY DEF Here
<1>4. /\ Kind = "field" /\ Key \in {m.key, "other"}
      /\ Head(unread) = m => Key = m.key
  BY LikeIs, Zenon DEF Kind, Key
<1>5. Key \notin {"id", "class"}
  <2> HIDE DEF Key
  <2> QED
    BY <1>4
<1>6. /\ UNCHANGED <<section, proc, conn, nodes, conns>>
      /\ InProcessor =>
           within' = IF Key = "Properties" THEN "properties" ELSE "processor"
      /\ ~InProcessor => within' = within
  BY <1>3, <1>4, <1>5, PlainRead, Zenon
<1>7. SameButLast(nodes, nodes')
  <2>1. nodes \in Seq(Node)
    BY DEF ArraysOK
  <2> QED
    BY <1>6, <2>1, Zenon DEF SameButLast
<1>8. NodesAre(nodes', i, c)
  <2>1. nodes \in Seq(Node) /\ i <= i
    BY <1>1 DEF ArraysOK
  <2>2. NodesAre(nodes, i, FALSE) /\ (FALSE => c)
    BY Zenon DEF Here
  <2>3. NodesAre(nodes, i, c)
    BY <1>1, <2>1, <2>2, NodesAreMore, Zenon
  <2> QED
    BY <1>6, <2>3, Zenon
<1> DEFINE n == CurProps(nodes, proc)
           y == CurType(nodes, proc)
<1>9. CurProps(nodes', proc) = n /\ CurType(nodes', proc) = y
  BY <1>6, Zenon DEF CurProps, CurType
<1>10. ASSUME Head(unread) = m
       PROVE  CurrentAt(Len(nodes), proc, within', n, i, t + 1)
  <2>1. CurrentAt(Len(nodes), proc, within, n, i, t)
    BY Zenon DEF Here, Placed
  <2>2. proc = 0 \/ within' # "properties" \/ t + 1 = PropsAt(doc, i)
    <3>1. CASE m.key = "Properties"
      BY <3>1, Zenon
    <3>2. CASE m.key = "name" /\ InProcessor
      <4>1. Key = "name"
        BY <1>4, <1>10, <3>2, Zenon
      <4> HIDE DEF Key
      <4> QED
        BY <1>6, <3>2, <4>1
    <3>3. CASE ~InProcessor
      BY <1>2, <3>3, Zenon
    <3> QED
      BY <3>1, <3>2, <3>3
  <2> HIDE DEF n
  <2> QED
    BY <1>1, <2>1, <2>2, CurrentStays, Zenon DEF n
<1>11. ASSUME Head(unread) = m
       PROVE  ExactAt(proc, within', n, y, i, t + 1)
  <2>1. ExactAt(proc, within, n, y, i, t)
    BY Zenon DEF Here, Exact
  <2>2. proc # 0 =>
          within' = IF m.key = "Properties" THEN "properties" ELSE "processor"
    BY <1>2, <1>4, <1>6, <1>11, Zenon
  <2>3. CASE m.key = "name"
    <3>1. ExactAt(proc, "processor", n, y, i, t + 1)
      BY <1>1, <2>1, <2>3, ExactStays, Zenon
    <3>2. proc # 0 => within' = "processor"
      BY <2>2, <2>3
    <3> QED
      BY <3>1, <3>2, Zenon DEF ExactAt
  <2>4. CASE m.key = "Properties"
    <3>0. t + 1 = PropsAt(doc, i)
      BY <2>4, Zenon
    <3>1. proc # 0 => n = 0
      <4>1. CurrentAt(Len(nodes), proc, within, n, i, t)
        BY Zenon DEF Here, Placed
      <4>2. t < PropsAt(doc, i) /\ ~(t > PropsAt(doc, i))
        BY <1>1, <3>0
      <4> HIDE DEF n
      <4> QED
        BY <4>1, <4>2, Zenon DEF CurrentAt
    <3>2. ExactAt(proc, "properties", n, y, i, t + 1)
      BY <1>1, <2>1, <3>0, <3>1, ExactStays, Zenon
    <3>3. proc # 0 => within' = "properties"
      BY <2>2, <2>4
    <3> QED
      BY <3>2, <3>3, Zenon DEF ExactAt
  <2> QED
    BY <2>3, <2>4, Zenon
<1> HIDE DEF n, y
<1> QED
  BY <1>6, <1>7, <1>8, <1>9, <1>10, <1>11, Zenon DEF ReadAs

(* A line that is not taken leaves all as it is.                           *)
LEMMA NothingTaken ==
  ASSUME ParserAssumption, UnreadOK, PlacesOK, ArraysOK,
         NEW i, NEW t, NEW c, Here(i, t), nodes' = nodes
  PROVE  /\ SameButLast(nodes, nodes') /\ NodesAre(nodes', i, c)
         /\ CurProps(nodes', proc) = CurProps(nodes, proc)
         /\ CurType(nodes', proc) = CurType(nodes, proc)
<1>1. i \in Nat /\ i <= i
  <2>1. i \in Nat
    BY HereIs, Zenon
  <2> QED
    BY <2>1
<1>2. nodes \in Seq(Node) /\ NodesAre(nodes, i, FALSE) /\ (FALSE => c)
  BY Zenon DEF ArraysOK, Here
<1>3. NodesAre(nodes, i, c)
  BY <1>1, <1>2, NodesAreMore, Zenon
<1> QED
  BY <1>2, <1>3, Zenon DEF SameButLast, CurProps, CurType

(* The class of a processor is read as the flow says.                      *)
LEMMA ClassLineTaken ==
  ASSUME ParserAssumption, UnreadOK, PlacesOK, ArraysOK, ReadLine,
         NEW i, NEW t, NEW c, Here(i, t),
         t < ProcSize(doc, i), i # 0, NEW m \in YamlLine, Like(Head(unread), m, c),
         m = Line("field", "class", i), i # doc.untyped, t + 1 = ClassAt(doc, i)
  PROVE  ReadAs(m, i, t, c)
<1>1. /\ i \in Nat /\ t \in Nat /\ i \in 1 .. Len(doc.props)
      /\ Len(nodes) \in Nat /\ proc \in Nat /\ CurProps(nodes, proc) \in Nat
      /\ doc \in Documents
  BY HereIs, Zenon DEF UnreadOK
<1>2. /\ InProcessor =>
           /\ proc # 0 /\ proc = Len(nodes) /\ proc = i
           /\ Len(nodes) > 0 /\ nodes[proc] \in Node
           /\ CurProps(nodes, proc) = Len(nodes[proc].props)
      /\ proc # 0 => InProcessor
  BY HereIs, Zenon
<1>3. section # "Connections"
  BY DEF Here
<1>4. m.kind = "field" /\ m.key = "class" /\ m.val = i
  BY DEF Line
<1>5. /\ Kind = "field" /\ Key \in {"class", "other"} /\ ValueOf(Val, i, c)
      /\ Head(unread) = m => Key = "class" /\ Val = i
  <2>1. /\ Kind = m.kind /\ Key \in {m.key, "other"} /\ ValueOf(Val, m.val, c)
        /\ Head(unread) = m => Key = m.key /\ Val = m.val
    BY LikeIs, Zenon DEF Kind, Key, Val
  <2> QED
    BY <1>4, <2>1, Zenon
<1>6. CASE InProcessor /\ Key = "class"
  <2>1. /\ UNCHANGED <<section, proc, conn, conns>> /\ within' = "processor"
        /\ nodes' = [nodes EXCEPT ![proc].type = Val]
    BY <1>3, <1>5, <1>6, ClassRead, Zenon
  <2> DEFINE n == [nodes[Len(nodes)] EXCEPT !.type = Val]
             r == [nodes EXCEPT ![Len(nodes)] = n]
  <2>2. /\ nodes \in Seq(Node) /\ proc = Len(nodes) /\ proc # 0
        /\ Len(nodes) > 0 /\ Len(nodes) = i
    BY <1>2, <1>6, Zenon DEF ArraysOK
  <2>3. nodes' = r
    <3>1. nodes' = [nodes EXCEPT ![Len(nodes)].type = Val]
      BY <2>1, <2>2, Zenon
    <3> QED
      BY <3>1
  <2>4. Val \in Int
    <3>1. unread # <<>>
      BY LineRead, Zenon
    <3> QED
      BY <3>1, HeadTyped, Zenon
  <2>5. NodesAre(nodes, i, FALSE)
    BY Zenon DEF Here
  <2>6. /\ n \in Node /\ n.type = Val /\ n.props = nodes[Len(nodes)].props
        /\ NodesAre(r, i, c)
    <3>1. ValueOf(Val, i, c) /\ i \in Nat
      BY <1>1, <1>5
    <3>2. Len(nodes) > 0 /\ Len(nodes) = i /\ nodes \in Seq(Node)
      BY <2>2, Zenon
    <3> HIDE DEF Val
    <3>3. \A q \in Seq(Node), v \in Int :
            Len(q) > 0 /\ ValueOf(v, i, c) /\ NodesAre(q, i, FALSE) /\ Len(q) = i =>
              LET d == [q[Len(q)] EXCEPT !.type = v]
              IN  /\ d \in Node /\ d.type = v /\ d.props = q[Len(q)].props
                  /\ NodesAre([q EXCEPT ![Len(q)] = d], i, c)
      BY <3>1, ClassTaken, Zenon
    <3> QED
      BY <2>4, <2>5, <3>1, <3>2, <3>3, Zenon
  <2> HIDE DEF n
  <2>7. /\ r \in Seq(Node) /\ Len(r) = Len(nodes) /\ r[Len(nodes)] = n
        /\ \A x \in 1 .. Len(nodes) : x # Len(nodes) => r[x] = nodes[x]
    BY <2>2, <2>6
  <2> HIDE DEF r
  <2>8. /\ SameButLast(nodes, nodes') /\ NodesAre(nodes', i, c)
        /\ CurProps(nodes', proc) = CurProps(nodes, proc)
        /\ CurType(nodes', proc) = Val
    BY <2>2, <2>3, <2>6, <2>7, Zenon DEF SameButLast, CurProps, CurType
  <2> DEFINE k == CurProps(nodes, proc)
             y == CurType(nodes, proc)
  <2>9. CurrentAt(Len(nodes), proc, within', k, i, t + 1)
    <3>1. CurrentAt(Len(nodes), proc, within, k, i, t)
      BY Zenon DEF Here, Placed
    <3>2. within' # "properties"
      BY <2>1
    <3> HIDE DEF k
    <3> QED
      BY <1>1, <3>1, <3>2, CurrentStays, Zenon DEF k
  <2>10. ASSUME Head(unread) = m
         PROVE  ExactAt(proc, within', k, Val, i, t + 1)
    <3>1. ExactAt(proc, within, k, y, i, t)
      BY Zenon DEF Here, Exact
    <3>2. ExactAt(proc, "processor", k, i, i, t + 1)
      BY <1>1, <3>1, ExactStays, Zenon
    <3> QED
      BY <1>5, <2>1, <2>10, <3>2, Zenon
  <2> HIDE DEF k
  <2> QED
    BY <2>1, <2>8, <2>9, <2>10, Zenon DEF ReadAs, k
<1>7. CASE ~(InProcessor /\ Key = "class")
  <2>1. /\ UNCHANGED <<section, proc, conn, nodes, conns>>
        /\ ~InProcessor => within' = within
    <3>1. CASE Key = "class"
      <4>1. ~InProcessor
        BY <1>7, <3>1
      <4> QED
        BY <1>3, <1>5, <3>1, <4>1, ClassRead, Zenon
    <3>2. CASE Key # "class"
      <4>1. Key \notin {"id", "class"}
        <5> HIDE DEF Key
        <5> QED
          BY <1>5, <3>2
      <4> QED
        BY <1>3, <1>5, <4>1, PlainRead, Zenon
    <3> QED
      BY <3>1, <3>2, Zenon
  <2> DEFINE k == CurProps(nodes, proc)
             y == CurType(nodes, proc)
  <2>2. /\ SameButLast(nodes, nodes') /\ NodesAre(nodes', i, c)
        /\ CurProps(nodes', proc) = k /\ CurType(nodes', proc) = y
    BY <2>1, NothingTaken, Zenon
  <2>3. ASSUME Head(unread) = m
        PROVE  CurrentAt(Len(nodes), proc, within', k, i, t + 1)
    <3>1. CurrentAt(Len(nodes), proc, within, k, i, t)
      BY Zenon DEF Here, Placed
    <3>2. proc = 0
      BY <1>2, <1>5, <1>7, <2>3, Zenon
    <3> HIDE DEF k
    <3> QED
      BY <1>1, <3>1, <3>2, CurrentStays, Zenon DEF k
  <2>4. ASSUME Head(unread) = m
        PROVE  ExactAt(proc, within', k, y, i, t + 1)
    <3>1. ExactAt(proc, within, k, y, i, t)
      BY Zenon DEF Here, Exact
    <3>2. proc = 0
      BY <1>2, <1>5, <1>7, <2>4, Zenon
    <3> QED
      BY <3>1, <3>2, Zenon DEF ExactAt
  <2> HIDE DEF k, y
  <2> QED
    BY <2>1, <2>2, <2>3, <2>4, Zenon DEF ReadAs
<1> QED
  BY <1>6, <1>7, Zenon

(* The line l is that of the j-th property of the i-th processor.          *)
PropertyAt(l, i, j, t) ==
  /\ l.kind = "prop" /\ l.key = "key" /\ l.place = j /\ l.val = PropVal(i, j)
  /\ j \in 1 .. doc.props[i] /\ j \in Nat /\ t >= PropsAt(doc, i)
  /\ t - PropsAt(doc, i) = j - 1

(* Which property a line of a processor is.                                *)
LEMMA PropertyIs ==
  ASSUME ParserAssumption, doc \in Documents, NEW i \in 1 .. Len(doc.props),
         NEW t \in Nat, IsPropAt(doc, i, t + 1)
  PROVE  LET j == (t + 1) - PropsAt(doc, i)
         IN  PropertyAt(PropOf(doc, i, j), i, j, t)
<1>1. PICK o \in Nat : o = PropsAt(doc, i)
  <2>1. PropsAt(doc, i) \in {3, 4}
    BY ProcLineIs, Zenon
  <2> QED
    BY <2>1
<1>2. PICK b \in Nat : b = doc.props[i]
  BY DocumentIs
<1>3. t + 1 > o /\ t + 1 <= o + b
  BY <1>1, <1>2, Zenon DEF IsPropAt
<1> DEFINE j == (t + 1) - o
<1>4. /\ PropOf(doc, i, j).kind = "prop" /\ PropOf(doc, i, j).key = "key"
      /\ PropOf(doc, i, j).place = j /\ PropOf(doc, i, j).val = PropVal(i, j)
  <2> HIDE DEF j
  <2> QED
    BY DEF PropOf, PropLine, Line, PropVal
<1>5. j \in 1 .. b /\ j \in Nat /\ t >= o /\ t - o = j - 1
  BY <1>3
<1> HIDE DEF j
<1>6. PropertyAt(PropOf(doc, i, j), i, j, t)
  BY <1>1, <1>2, <1>4, <1>5, Zenon DEF PropertyAt
<1> QED
  BY <1>1, <1>6, Zenon DEF j

(* A property of a processor is read as the flow says.                     *)
LEMMA PropLineTaken ==
  ASSUME ParserAssumption, UnreadOK, PlacesOK, ArraysOK, format # "JSON", ReadLine,
         NEW i, NEW t, NEW c, Here(i, t),
         t < ProcSize(doc, i), i # 0, NEW m \in YamlLine, Like(Head(unread), m, c),
         IsPropAt(doc, i, t + 1), m = PropOf(doc, i, (t + 1) - PropsAt(doc, i))
  PROVE  ReadAs(m, i, t, c)
<1>1. /\ i \in Nat /\ t \in Nat /\ i \in 1 .. Len(doc.props)
      /\ Len(nodes) \in Nat /\ proc \in Nat /\ CurProps(nodes, proc) \in Nat
      /\ doc \in Documents
  BY HereIs, Zenon DEF UnreadOK
<1>2. /\ InProcessor =>
           /\ proc # 0 /\ proc = Len(nodes) /\ proc = i
           /\ Len(nodes) > 0 /\ nodes[proc] \in Node
           /\ CurProps(nodes, proc) = Len(nodes[proc].props)
      /\ proc # 0 => InProcessor
  BY HereIs, Zenon
<1>3. PICK j : j = (t + 1) - PropsAt(doc, i)
  OBVIOUS
<1>4. /\ m.kind = "prop" /\ m.key = "key" /\ m.place = j /\ m.val = PropVal(i, j)
      /\ j \in 1 .. doc.props[i] /\ j \in Nat /\ t >= PropsAt(doc, i)
      /\ t - PropsAt(doc, i) = j - 1
  <2>1. PropertyAt(m, i, j, t)
    BY <1>1, <1>3, PropertyIs, Zenon
  <2> QED
    BY <2>1, Zenon DEF PropertyAt
<1>5. /\ Kind = "prop" /\ ValueOf(Val, PropVal(i, j), c)
      /\ Key # "other" => Head(unread).place = j
      /\ Head(unread) = m => Key = "key"
  <2>1. /\ Kind = m.kind /\ ValueOf(Val, m.val, c)
        /\ Key # "other" => Head(unread).place = m.place
        /\ Head(unread) = m => Key = m.key
    BY LikeIs, Zenon DEF Kind, Key, Val
  <2> QED
    BY <1>4, <2>1, Zenon
<1>6. MaxProps \in Nat /\ MaxProps > 0
  BY DEF ParserAssumption
<1> DEFINE k == CurProps(nodes, proc)
           y == CurType(nodes, proc)
           takes == /\ InProcessor /\ within = "properties"
                    /\ Key = "key" /\ Len(nodes[proc].props) < MaxProps
           new == <<Head(unread).place, Val>>
<1>7. /\ UNCHANGED <<section, within, proc, conn, conns>>
      /\ nodes' = IF takes THEN [nodes EXCEPT ![proc].props = Append(@, new)]
                  ELSE nodes
  BY <1>5, PropRead, Zenon
<1>8. /\ SameButLast(nodes, nodes') /\ NodesAre(nodes', i, c)
      /\ CurProps(nodes', proc) = IF takes THEN k + 1 ELSE k
      /\ CurType(nodes', proc) = y
  <2>1. CASE takes
    <3>1. /\ nodes \in Seq(Node) /\ proc = Len(nodes) /\ proc # 0
          /\ Len(nodes) > 0 /\ within = "properties"
          /\ k = Len(nodes[Len(nodes)].props) /\ k < MaxProps
          /\ Len(nodes) = i
      BY <1>2, <2>1, Zenon DEF ArraysOK
    <3>2. k = Least(MaxProps, j - 1)
      <4>1. CurrentAt(Len(nodes), proc, within, k, i, t)
        BY Zenon DEF Here, Placed
      <4> HIDE DEF k
      <4>2. k = Least(MaxProps, t - PropsAt(doc, i))
        BY <3>1, <4>1, Zenon DEF CurrentAt
      <4> QED
        BY <1>4, <4>2, Zenon
    <3>3. k = j - 1 /\ j <= MaxProps /\ k + 1 = j
      <4> HIDE DEF k
      <4> QED
        BY <1>4, <1>6, <3>1, <3>2 DEF Least
    <3>4. Val \in Int /\ new = <<j, Val>>
      <4>1. unread # <<>>
        BY LineRead, Zenon
      <4>2. Key = "key" => Key # "other"
        <5> HIDE DEF Key
        <5> QED
          OBVIOUS
      <4> QED
        BY <1>5, <2>1, <4>1, <4>2, HeadTyped, Zenon
    <3>5. NodesAre(nodes, i, FALSE)
      BY Zenon DEF Here
    <3> DEFINE n == [nodes[Len(nodes)] EXCEPT !.props =
                       Append(nodes[Len(nodes)].props, <<j, Val>>)]
               r == [nodes EXCEPT ![Len(nodes)] = n]
    <3>6. /\ n \in Node /\ n.type = nodes[Len(nodes)].type /\ Len(n.props) = j
          /\ NodesAre(r, i, c)
      <4>1. Len(nodes[Len(nodes)].props) = j - 1
        BY <3>1, <3>3, Zenon
      <4>2. /\ i \in 1 .. Len(doc.props) /\ doc \in Documents
            /\ nodes \in Seq(Node) /\ Len(nodes) > 0
            /\ TakesNext(nodes, i, j) /\ j \in 1 .. doc.props[i]
            /\ Val \in Int /\ ValueOf(Val, PropVal(i, j), c)
        BY <1>1, <1>4, <1>5, <3>1, <3>3, <3>4, <4>1, Zenon DEF TakesNext
      <4> HIDE DEF Val
      <4> QED
        BY <3>5, <4>2, PropTaken, Zenon
    <3>7. nodes' = r
      <4>1. nodes' = [nodes EXCEPT ![Len(nodes)].props = Append(@, <<j, Val>>)]
        BY <1>7, <2>1, <3>1, <3>4, Zenon
      <4> QED
        BY <4>1
    <3> HIDE DEF n
    <3>8. /\ r \in Seq(Node) /\ Len(r) = Len(nodes) /\ r[Len(nodes)] = n
          /\ \A x \in 1 .. Len(nodes) : x # Len(nodes) => r[x] = nodes[x]
      BY <3>1, <3>6
    <3> HIDE DEF r
    <3>9. CurProps(nodes', proc) = j /\ CurType(nodes', proc) = y
      BY <3>1, <3>6, <3>7, <3>8, Zenon DEF CurProps, CurType
    <3>10. SameButLast(nodes, nodes') /\ NodesAre(nodes', i, c)
      BY <3>6, <3>7, <3>8, Zenon DEF SameButLast
    <3> HIDE DEF k, takes, y
    <3> QED
      BY <2>1, <3>3, <3>9, <3>10, Zenon
  <2>2. CASE ~takes
    <3>1. nodes' = nodes
      BY <1>7, <2>2, Zenon
    <3> HIDE DEF takes
    <3> QED
      BY <2>2, <3>1, NothingTaken, Zenon
  <2> QED
    BY <2>1, <2>2
<1>9. ASSUME Head(unread) = m
      PROVE  CurrentAt(Len(nodes), proc, within', CurProps(nodes', proc), i, t + 1)
  <2>1. CurrentAt(Len(nodes), proc, within, k, i, t)
    BY Zenon DEF Here, Placed
  <2>2. takes <=> proc # 0 /\ within = "properties" /\ k < MaxProps
    BY <1>2, <1>5, <1>9, Zenon
  <2> HIDE DEF k, takes
  <2>3. CurrentAt(Len(nodes), proc, within,
                  IF proc # 0 /\ within = "properties" /\ k < MaxProps
                  THEN k + 1 ELSE k, i, t + 1)
    BY <1>1, <2>1, CurrentStays, Zenon DEF k
  <2> QED
    BY <1>7, <1>8, <2>2, <2>3, Zenon
<1>10. ASSUME Head(unread) = m
       PROVE  ExactAt(proc, within', CurProps(nodes', proc),
                      CurType(nodes', proc), i, t + 1)
  <2>1. ExactAt(proc, within, k, y, i, t)
    BY Zenon DEF Here, Exact
  <2>2. /\ CurrentAt(Len(nodes), proc, within', CurProps(nodes', proc), i, t + 1)
        /\ within' = within
    BY <1>7, <1>9, <1>10, Zenon
  <2>3. CurProps(nodes', proc) \in Nat
    <3> HIDE DEF k, takes
    <3>1. k \in Nat
      BY <1>1, Zenon DEF k
    <3> QED
      BY <1>8, <3>1
  <2>4. proc # 0 => CurProps(nodes', proc) = Least(MaxProps, (t + 1) - PropsAt(doc, i))
    <3>1. SUFFICES ASSUME proc # 0
                   PROVE  CurProps(nodes', proc)
                            = Least(MaxProps, (t + 1) - PropsAt(doc, i))
      BY Zenon
    <3>2. within = "properties"
      <4>1. t \in PropsAt(doc, i) .. LastProp(i)
        <5>1. PICK o \in Nat : o = PropsAt(doc, i)
          <6>1. PropsAt(doc, i) \in {3, 4}
            BY <1>1, ProcLineIs, Zenon
          <6> QED
            BY <6>1
        <5>2. PICK b \in Nat : b = doc.props[i]
          BY <1>1, DocumentIs
        <5>3. t + 1 > o /\ t + 1 <= o + b
          BY <5>1, <5>2, Zenon DEF IsPropAt
        <5>4. t \in o .. o + b
          BY <1>1, <5>3
        <5> QED
          BY <5>1, <5>2, <5>4, Zenon DEF LastProp
      <4> QED
        BY <2>1, <3>1, <4>1, Zenon DEF ExactAt
    <3> QED
      BY <2>2, <3>1, <3>2, Zenon DEF CurrentAt
  <2> HIDE DEF k, y
  <2>5. ExactAt(proc, within, CurProps(nodes', proc), y, i, t + 1)
    BY <1>1, <2>1, <2>3, <2>4, ExactStays, Zenon DEF k
  <2> QED
    BY <1>8, <2>2, <2>5, Zenon
<1> QED
  BY <1>7, <1>8, <1>9, <1>10, Zenon DEF ReadAs

(* A processor of which nothing is missing.                                *)
LEMMA NodeComplete ==
  ASSUME ParserAssumption, doc \in Documents, format # "JSON",
         NEW i \in 1 .. Len(doc.props), NEW n \in Node, NodeOf(n, i, FALSE),
         Len(n.props) = Least(MaxProps, doc.props[i]),
         i # doc.untyped => n.type = i
  PROVE  n = SaidNode(i)
<1>1. /\ n.id = i /\ (n.type = 0 \/ n.type = SaidNode(i).type)
      /\ \A j \in DOMAIN n.props : /\ n.props[j][1] = SaidProps(i)[j][1]
                                   /\ n.props[j][2] = SaidProps(i)[j][2]
  BY Zenon DEF NodeOf, PropsOf, ValueOf
<1>2. /\ n.props \in Seq(Prop)
      /\ n = [id |-> n.id, type |-> n.type, props |-> n.props]
  BY NodeSet, Zenon
<1>3. n.type = IF i = doc.untyped THEN 0 ELSE i
  <2>1. SaidNode(i).type = IF i = doc.untyped THEN 0 ELSE i
    BY DEF SaidNode
  <2> QED
    BY <1>1, <2>1, Zenon
<1>4. n.props = SaidProps(i)
  <2> DEFINE p == n.props
             s == SaidProps(i)
  <2>1. Len(p) = Len(s)
    BY YamlPropsAre, Zenon
  <2>2. /\ Len(p) \in Nat /\ DOMAIN p = 1 .. Len(p)
        /\ \A j \in 1 .. Len(p) : p[j] \in Prop
    BY <1>2, SeqIs, Zenon
  <2>3. Listed(p) /\ Listed(s)
    BY <1>2, SeqListed, SaidPropsAre, Zenon
  <2>4. ASSUME NEW j \in 1 .. Len(p)
        PROVE  p[j] = s[j]
    <3>1. s[j] = <<Which(OneCleared, j), PropVal(i, Which(OneCleared, j))>>
      BY <2>1, <2>4, SaidPropsAre, Zenon
    <3>2. p[j] = <<p[j][1], p[j][2]>>
      <4> DEFINE e == p[j]
      <4>1. e \in Prop
        BY <2>2, Zenon
      <4> HIDE DEF e
      <4>2. e = <<e[1], e[2]>>
        BY <4>1 DEF Prop
      <4> QED
        BY <4>2 DEF e
    <3>3. p[j][1] = s[j][1] /\ p[j][2] = s[j][2]
      BY <1>1, <2>2, <2>4, Zenon
    <3> HIDE DEF p, s
    <3>4. s[j] = <<s[j][1], s[j][2]>>
      BY <3>1
    <3> QED
      BY <3>2, <3>3, <3>4, Zenon
  <2> HIDE DEF p, s
  <2>5. p = s
    BY <2>1, <2>3, <2>4, SameListed, Zenon
  <2> QED
    BY <2>5 DEF p, s
<1> QED
  BY <1>1, <1>2, <1>3, <1>4, Zenon DEF SaidNode

(* Nothing is missing of the processors read.                              *)
LEMMA AllSaid ==
  ASSUME ParserAssumption, UnreadOK, PlacesOK, ArraysOK, format # "JSON",
         NEW i, NEW t, Here(i, t), t = ProcSize(doc, i)
  PROVE  /\ Len(nodes) = Least(MaxNodes, i) /\ Len(nodes) <= i
         /\ \A x \in 1 .. Len(nodes) : nodes[x] = SaidNode(x)
<1>1. /\ i \in Nat /\ t \in Nat /\ doc \in Documents /\ Len(nodes) \in Nat
      /\ i # 0 => i \in 1 .. Len(doc.props)
      /\ Len(nodes) <= i
  BY HereIs, Zenon DEF UnreadOK
<1>2. /\ \A x \in 1 .. Len(nodes) : x < i => nodes[x] = SaidNode(x)
      /\ ExactAt(proc, within, CurProps(nodes, proc), CurType(nodes, proc), i, t)
      /\ CurrentAt(Len(nodes), proc, within, CurProps(nodes, proc), i, t)
      /\ NodesAre(nodes, i, FALSE)
  BY Zenon DEF Here, Exact, Placed
<1>3. Len(nodes) = Least(MaxNodes, i)
  BY <1>2, Zenon DEF CurrentAt
<1>4. ASSUME NEW x \in 1 .. Len(nodes), ~(x < i)
      PROVE  nodes[x] = SaidNode(x)
  <2>0. MaxNodes \in Nat
    BY DEF ParserAssumption
  <2>1. x = i /\ i # 0 /\ Len(nodes) = i /\ i <= MaxNodes /\ i > 0
    BY <1>1, <1>3, <1>4, <2>0 DEF Least
  <2>2. proc = i /\ proc # 0
    BY <1>1, <1>2, <2>1, Zenon DEF ExactAt
  <2>3. LastProp(i) <= t /\ t >= LastProp(i)
    <3>1. PropsAt(doc, i) + doc.props[i] <= ProcSize(doc, i)
      BY <1>1, <2>1, ProcLineIs, Zenon
    <3> QED
      BY <3>1 DEF LastProp
  <2>4. i # doc.untyped => t >= ClassAt(doc, i)
    <3>1. i # doc.untyped => ClassAt(doc, i) <= ProcSize(doc, i)
      BY <1>1, <2>1, ProcLineIs, Zenon
    <3> QED
      BY <3>1
  <2>5. /\ CurProps(nodes, proc) = Least(MaxProps, doc.props[i])
        /\ i # doc.untyped => CurType(nodes, proc) = i
    BY <1>2, <2>2, <2>3, <2>4, Zenon DEF ExactAt
  <2>6. /\ Len(nodes[i].props) = Least(MaxProps, doc.props[i])
        /\ i # doc.untyped => nodes[i].type = i
    BY <2>2, <2>5, Zenon DEF CurProps, CurType
  <2>7. NodeOf(nodes[i], i, FALSE)
    <3>1. nodes \in Seq(Node)
      BY DEF ArraysOK
    <3>2. Len(nodes) > 0
      BY <2>1
    <3>3. NodeOf(nodes[Len(nodes)], Len(nodes), FALSE)
      BY <1>1, <1>2, <3>1, <3>2, LastIs, Zenon
    <3> QED
      BY <2>1, <3>3, Zenon
  <2>8. nodes[i] \in Node
    <3>1. nodes \in Seq(Node)
      BY DEF ArraysOK
    <3> QED
      BY <1>4, <2>1, <3>1, SeqIs, Zenon
  <2>9. nodes[i] = SaidNode(i)
    BY <1>1, <2>1, <2>6, <2>7, <2>8, NodeComplete, Zenon
  <2> QED
    BY <2>1, <2>9, Zenon
<1> QED
  BY <1>1, <1>2, <1>3, <1>4, Zenon

(* What a step has to leave for i and t to be where the reader is then.    *)
Becomes(i, t) ==
  /\ section' = "Processors" /\ conns' = <<>>
  /\ ProcPlace(doc, i, t) /\ NodesAre(nodes', i, FALSE)
  /\ CurrentAt(Len(nodes'), proc', within', CurProps(nodes', proc'), i, t)
  /\ \A x \in 1 .. Len(nodes') : x < i => nodes'[x] = SaidNode(x)
  /\ ExactAt(proc', within', CurProps(nodes', proc'), CurType(nodes', proc'), i, t)

(* A step that leaves this leads to that place.                            *)
LEMMA HereStays ==
  ASSUME doc' = doc, format' = format, NEW i, NEW t, Becomes(i, t)
  PROVE  Here(i, t)'
<1>1. /\ section' = "Processors" /\ conns' = <<>>
      /\ ProcPlace(doc, i, t) /\ NodesAre(nodes', i, FALSE)
      /\ CurrentAt(Len(nodes'), proc', within', CurProps(nodes', proc'), i, t)
      /\ \A x \in 1 .. Len(nodes') : x < i => nodes'[x] = SaidNode(x)
      /\ ExactAt(proc', within', CurProps(nodes', proc'), CurType(nodes', proc'),
                 i, t)
  BY Zenon DEF Becomes
<1>2. \A a, p, w, n : (CurrentAt(a, p, w, n, i, t))'
                        <=> CurrentAt(a, p, w, n, i, t)
  <2>1. PropsAt(doc', i) = PropsAt(doc, i)
    BY Zenon
  <2> QED
    BY <2>1, SMT DEF CurrentAt
<1>3. \A p, w, n, y : (ExactAt(p, w, n, y, i, t))' <=> ExactAt(p, w, n, y, i, t)
  BY ZenonT(40) DEF ExactAt, LastProp
<1>4. ProcPlace(doc', i, t)
  BY <1>1, Zenon
<1>5. (NodesAre(nodes, i, FALSE))'
  BY <1>1, NodesStay, Zenon
<1>6. \A x : (SaidNode(x))' = SaidNode(x)
  BY SaidStay, Zenon
<1>7. Placed(i, t)'
  BY <1>1, <1>2, Zenon DEF Placed
<1>8. Exact(i, t)'
  BY <1>1, <1>3, <1>6, Zenon DEF Exact
<1> QED
  BY <1>1, <1>4, <1>5, <1>7, <1>8, Zenon DEF Here

----------------------------------------------------------------------------
(* The next line of the processors.                                        *)

(* The next line of a processor that is read.                              *)
LEMMA ProcLineRead ==
  ASSUME ParserAssumption, UnreadOK, PlacesOK, ArraysOK, format # "JSON", ReadLine,
         NEW i, NEW t, NEW c, Here(i, t),
         t < ProcSize(doc, i),
         Like(Head(unread), ProcLine(doc, i, t + 1), c)
  PROVE  ReadAs(ProcLine(doc, i, t + 1), i, t, c)
<1> DEFINE m == ProcLine(doc, i, t + 1)
<1>1. /\ i \in Nat /\ t \in Nat /\ doc \in Documents
      /\ i # 0 => i \in 1 .. Len(doc.props)
  BY HereIs, Zenon DEF UnreadOK
<1>2. i # 0 /\ i \in 1 .. Len(doc.props) /\ t # 0
  <2>1. i # 0
    BY <1>1 DEF ProcSize
  <2>2. t # 0
    BY <2>1, Zenon DEF Here, ProcPlace
  <2> QED
    BY <1>1, <2>1, <2>2, Zenon
<1>3. t + 1 \in 1 .. ProcSize(doc, i) /\ t + 1 # 1 /\ t + 1 \in Nat
  <2>1. ProcSize(doc, i) \in Nat
    BY <1>1, <1>2, ProcLineIs, Zenon
  <2> QED
    BY <1>1, <1>2, <2>1
<1>4. m \in YamlLine
  <2>1. /\ ProcLines(doc, i) \in Seq(YamlLine)
        /\ Len(ProcLines(doc, i)) = ProcSize(doc, i)
        /\ ProcLines(doc, i)[t + 1] = m
    BY <1>1, <1>2, <1>3, ProcLinesAre, Zenon
  <2> QED
    <3>1. t + 1 \in 1 .. Len(ProcLines(doc, i))
      BY <1>3, <2>1, Zenon
    <3>2. ProcLines(doc, i)[t + 1] \in YamlLine
      BY <2>1, <3>1, SeqIs, Zenon
    <3> QED
      BY <2>1, <3>2, Zenon
<1>5. Like(Head(unread), m, c)
  OBVIOUS
<1>6. CASE t + 1 = 2
  <2>1. ProcLine(doc, i, 2) = Line("field", "name", i)
    BY <1>1, <1>2, ProcLineIs, Zenon
  <2>4. m = Line("field", "name", i)
    BY <1>6, <2>1, Zenon
  <2>2. m.kind = "field" /\ m.key = "name"
    BY <2>4 DEF Line
  <2> HIDE DEF m
  <2>3. ReadAs(m, i, t, c)
    BY <1>2, <1>4, <1>5, <1>6, <2>2, FieldTaken, Zenon
  <2> QED
    BY <2>3 DEF m
<1>7. CASE t + 1 = PropsAt(doc, i)
  <2>1. ProcLine(doc, i, PropsAt(doc, i)) = Line("field", "Properties", 0)
    BY <1>1, <1>2, ProcLineIs, Zenon
  <2>4. m = Line("field", "Properties", 0)
    BY <1>7, <2>1, Zenon
  <2>2. m.kind = "field" /\ m.key = "Properties"
    BY <2>4 DEF Line
  <2> HIDE DEF m
  <2>3. ReadAs(m, i, t, c)
    BY <1>2, <1>4, <1>5, <1>7, <2>2, FieldTaken, Zenon
  <2> QED
    BY <2>3 DEF m
<1>8. CASE IsPropAt(doc, i, t + 1)
  <2>1. m = PropOf(doc, i, (t + 1) - PropsAt(doc, i))
    BY <1>1, <1>2, <1>3, <1>8, ProcLineIs, Zenon
  <2> HIDE DEF m
  <2>2. ReadAs(m, i, t, c)
    BY <1>2, <1>4, <1>5, <1>8, <2>1, PropLineTaken, Zenon
  <2> QED
    BY <2>2 DEF m
<1>9. CASE i # doc.untyped /\ t + 1 = ClassAt(doc, i)
  <2>1. m = Line("field", "class", i)
    BY <1>1, <1>2, <1>9, ProcLineIs, Zenon
  <2> HIDE DEF m
  <2>2. ReadAs(m, i, t, c)
    BY <1>2, <1>4, <1>5, <1>9, <2>1, ClassLineTaken, Zenon
  <2> QED
    BY <2>2 DEF m
<1>10. \/ t + 1 \in {1, 2, PropsAt(doc, i)} \/ IsPropAt(doc, i, t + 1)
       \/ i # doc.untyped /\ t + 1 = ClassAt(doc, i)
  BY <1>1, <1>2, <1>3, ProcLineIs, Zenon
<1> QED
  BY <1>3, <1>6, <1>7, <1>8, <1>9, <1>10, Zenon

(* No processor is current, and none takes the line.                       *)
LEMMA NoneTakes ==
  ASSUME ReadLine, section # "Connections", proc = 0, Kind \in {"field", "prop"}
  PROVE  nodes' = nodes
<1>1. ~InProcessor /\ ~InConnection
  BY DEF InProcessor, InConnection
<1>2. CASE Kind = "field"
  <2>1. Skipped
    BY <1>1, <1>2, FieldRead, Zenon
  <2> QED
    BY <2>1 DEF Skipped
<1>3. CASE Kind = "prop"
  <2> HIDE DEF Kind
  <2> QED
    BY <1>1, <1>3, PropRead, Zenon
<1> QED
  BY <1>2, <1>3

(* A line of a processor that is read whole.                               *)
LEMMA WholeLineRead ==
  ASSUME ParserAssumption, UnreadOK, PlacesOK, ArraysOK, format # "JSON", ReadLine,
         NEW i, NEW t, Here(i, t), t < ProcSize(doc, i),
         Head(unread) = ProcLine(doc, i, t + 1)
  PROVE  Becomes(i, t + 1)
<1> DEFINE m == ProcLine(doc, i, t + 1)
<1>1. ReadAs(m, i, t, FALSE)
  <2>1. Like(Head(unread), m, FALSE)
    BY DEF Like
  <2> QED
    BY <2>1, ProcLineRead, Zenon
<1>2. doc' = doc /\ format' = format
  BY LineRead, Zenon
<1>3. /\ UNCHANGED <<section, proc, conn, conns>> /\ SameButLast(nodes, nodes')
      /\ NodesAre(nodes', i, FALSE)
      /\ CurrentAt(Len(nodes), proc, within', CurProps(nodes', proc), i, t + 1)
      /\ ExactAt(proc, within', CurProps(nodes', proc), CurType(nodes', proc),
                 i, t + 1)
  BY <1>1, Zenon DEF ReadAs
<1>4. section' = section /\ proc' = proc /\ conns' = conns
  BY <1>3
<1>5. /\ section = "Processors" /\ conns = <<>>
      /\ ProcPlace(doc, i, t) /\ Exact(i, t)
  BY Zenon DEF Here
<1>6. ProcPlace(doc, i, t + 1)
  <2>1. i \in Nat /\ t \in Nat /\ doc \in Documents
        /\ (i # 0 => i \in 1 .. Len(doc.props))
    BY HereIs, Zenon DEF UnreadOK
  <2>2. i # 0 => ProcSize(doc, i) \in Nat
    BY <2>1, ProcLineIs, Zenon
  <2>3. i # 0
    BY <2>1 DEF ProcSize
  <2>4. t + 1 \in 0 .. ProcSize(doc, i) /\ t + 1 # 0
    BY <2>1, <2>2, <2>3
  <2> QED
    BY <1>5, <2>4, Zenon DEF ProcPlace
<1>7. Len(nodes') = Len(nodes)
      /\ \A x \in 1 .. Len(nodes) : x # Len(nodes) => nodes'[x] = nodes[x]
  BY <1>3, Zenon DEF SameButLast
<1>11. i # 0 /\ t # 0 /\ t \in Nat /\ section # "Connections"
  <2>1. i # 0 /\ t \in Nat
    <3>1. t \in Nat
      BY HereIs, Zenon
    <3> QED
      BY <3>1 DEF ProcSize
  <2> QED
    BY <1>5, <2>1, Zenon DEF ProcPlace
<1>8. ASSUME NEW x \in 1 .. Len(nodes'), x < i
      PROVE  nodes'[x] = SaidNode(x)
  <2>1. nodes[x] = SaidNode(x)
    BY <1>5, <1>7, <1>8, Zenon DEF Exact
  <2>2. CASE x # Len(nodes)
    BY <1>7, <2>1, <2>2, Zenon
  <2>3. CASE x = Len(nodes)
    <3>1. proc = 0
      <4>1. proc = IF i <= MaxNodes THEN i ELSE 0
        BY <1>3, Zenon DEF ExactAt
      <4>2. proc \in 0 .. Len(nodes) /\ Len(nodes) \in Nat /\ i \in Nat
        BY HereIs, Zenon DEF ArraysOK
      <4> QED
        BY <1>8, <2>3, <4>1, <4>2
    <3>2. nodes' = nodes
      <4>1. Kind \in {"field", "prop"}
        <5>1. t + 1 # 1
          BY HereIs, <1>11
        <5> QED
          BY <5>1 DEF Kind, ProcLine, Line, PropOf, PropLine
      <4> QED
        BY <1>11, <3>1, <4>1, NoneTakes, Zenon
    <3> QED
      BY <2>1, <3>2, Zenon
  <2> QED
    BY <2>2, <2>3, Zenon
<1>9. /\ section' = "Processors" /\ conns' = <<>>
      /\ CurrentAt(Len(nodes'), proc', within', CurProps(nodes', proc'), i, t + 1)
      /\ ExactAt(proc', within', CurProps(nodes', proc'), CurType(nodes', proc'),
                 i, t + 1)
  BY <1>3, <1>4, <1>5, <1>7, Zenon
<1>10. NodesAre(nodes', i, FALSE)
  BY <1>3, Zenon
<1> QED
  BY <1>6, <1>8, <1>9, <1>10, Zenon DEF Becomes

(* The place of the first line of the next processor.                      *)
LEMMA NextPlace ==
  ASSUME ParserAssumption, doc \in Documents, NEW i \in Nat, i + 1 <= Len(doc.props)
  PROVE  /\ ProcPlace(doc, i + 1, 1) /\ i + 1 \in 1 .. Len(doc.props)
         /\ ~(1 \in PropsAt(doc, i + 1) .. LastProp(i + 1))
         /\ ~(1 >= LastProp(i + 1)) /\ ~(1 >= ClassAt(doc, i + 1))
         /\ 1 < PropsAt(doc, i + 1)
<1>1. i + 1 \in 1 .. Len(doc.props) /\ i + 1 \in 0 .. Len(doc.props)
  BY DocumentIs
<1>2. /\ ProcSize(doc, i + 1) \in Nat
      /\ PropsAt(doc, i + 1) + doc.props[i + 1] <= ProcSize(doc, i + 1)
      /\ PropsAt(doc, i + 1) \in {3, 4} /\ doc.props[i + 1] \in Nat
      /\ ClassAt(doc, i + 1) \in Nat /\ ClassAt(doc, i + 1) > 2
  BY <1>1, ProcLineIs, DocumentIs, Zenon
<1>3. 1 \in 0 .. ProcSize(doc, i + 1)
  <2>1. \A a \in {3, 4} : \A b, n \in Nat : a + b <= n => 1 \in 0 .. n
    OBVIOUS
  <2> QED
    BY <1>2, <2>1, Zenon
<1>4. ProcPlace(doc, i + 1, 1)
  <2>1. 1 # 0
    OBVIOUS
  <2> QED
    BY <1>1, <1>3, <2>1, Zenon DEF ProcPlace
<1>5. LastProp(i + 1) = PropsAt(doc, i + 1) + doc.props[i + 1]
  BY DEF LastProp
<1>6. \A o, b, k \in Nat : o \in {3, 4} /\ k > 2 =>
        /\ ~(1 \in o .. o + b) /\ ~(1 >= o + b) /\ ~(1 >= k) /\ 1 < o
  OBVIOUS
<1>7. PropsAt(doc, i + 1) \in Nat
  BY <1>2
<1> QED
  BY <1>1, <1>2, <1>4, <1>5, <1>6, <1>7, Zenon

(* The first line of the next processor, which begins it or, where the     *)
(* array is full, is ignored.                                              *)
LEMMA NextTaken ==
  ASSUME ParserAssumption, UnreadOK, PlacesOK, ArraysOK, format # "JSON", ReadLine,
         NEW i, NEW t, NEW c \in BOOLEAN, Here(i, t),
         t = ProcSize(doc, i), i + 1 <= Len(doc.props),
         Kind = "item", Key = "id", Val \in Int, ValueOf(Val, i + 1, c)
  PROVE  /\ NodesAre(nodes', i + 1, c) /\ Complete(nodes') /\ conns' = conns
         /\ ~c => Becomes(i + 1, 1)
<1> DEFINE n == [EmptyNode EXCEPT !.id = Val]
           r == Append(nodes, n)
           p == IF Len(nodes) < MaxNodes THEN Len(nodes) + 1 ELSE 0
           full == ~(Len(nodes) < MaxNodes)
<1>1. /\ i \in Nat /\ doc \in Documents /\ Len(nodes) \in Nat
      /\ Complete(nodes)
  BY HereIs, Zenon DEF UnreadOK
<1>2. /\ NodesAre(nodes, i, FALSE) /\ conns = <<>> /\ section = "Processors"
      /\ Len(nodes) = Least(MaxNodes, i)
  BY Zenon DEF Here, Placed, CurrentAt
<1>3. /\ ~full => Len(nodes) = i
      /\ (IF full THEN Len(nodes) ELSE Len(nodes) + 1) = Least(MaxNodes, i + 1)
      /\ p = IF i + 1 <= MaxNodes THEN i + 1 ELSE 0
  <2> DEFINE k == Len(nodes)
  <2>1. k \in Nat /\ k = Least(MaxNodes, i)
    BY <1>1, <1>2, Zenon
  <2> HIDE DEF k
  <2>2. /\ k < MaxNodes => k = i
        /\ (IF ~(k < MaxNodes) THEN k ELSE k + 1) = Least(MaxNodes, i + 1)
        /\ (IF k < MaxNodes THEN k + 1 ELSE 0) = IF i + 1 <= MaxNodes THEN i + 1 ELSE 0
    BY <1>1, <2>1 DEF Least, ParserAssumption
  <2> QED
    BY <2>2, Zenon DEF k
<1>4. /\ full => proc' = 0 /\ nodes' = nodes
      /\ ~full => nodes' = r /\ proc' = Len(nodes) + 1
      /\ within' = "processor" /\ UNCHANGED <<section, conn, conns>>
  <2>1. ItemId = Val
    BY DEF ItemId
  <2> HIDE DEF Kind, Key, Val, ItemId
  <2>2. IF Len(nodes) < MaxNodes
        THEN /\ nodes' = Append(nodes, [EmptyNode EXCEPT !.id = ItemId])
             /\ proc' = Len(nodes) + 1
        ELSE proc' = 0 /\ nodes' = nodes
    BY <1>2, ItemRead, Zenon
  <2>3. within' = "processor" /\ UNCHANGED <<section, conn, conns>>
    BY <1>2, ItemRead, Zenon
  <2>4. CASE full
    BY <2>2, <2>3, <2>4, Zenon
  <2>5. CASE ~full
    BY <2>1, <2>2, <2>3, <2>5, Zenon
  <2> QED
    BY <2>4, <2>5, Zenon
<1>5. ~full => /\ n \in Node /\ n.props = <<>> /\ n.type = 0
               /\ NodesAre(r, i + 1, c)
  <2>1. nodes \in Seq(Node)
    BY DEF ArraysOK
  <2> QED
    BY <1>1, <1>2, <1>3, <2>1, NodeTaken, Zenon
<1>6. ~full => /\ r \in Seq(Node) /\ Len(r) = Len(nodes) + 1
               /\ r[Len(nodes) + 1] = n
               /\ \A x \in 1 .. Len(nodes) : r[x] = nodes[x]
  <2>1. nodes \in Seq(Node)
    BY DEF ArraysOK
  <2>2. ~full => n \in Node
    BY <1>5, Zenon
  <2> HIDE DEF n
  <2>3. \A k \in Node : LET w == Append(nodes, k)
                       IN  /\ w \in Seq(Node) /\ Len(w) = Len(nodes) + 1
                           /\ w[Len(nodes) + 1] = k
                           /\ \A x \in 1 .. Len(nodes) : w[x] = nodes[x]
    BY <2>1, LastAdded
  <2> QED
    BY <2>2, <2>3, Zenon
<1>7. NodesAre(nodes', i + 1, c)
  <2>1. CASE full
    <3>1. nodes \in Seq(Node) /\ i + 1 \in Nat /\ i <= i + 1 /\ (FALSE => c)
      BY <1>1 DEF ArraysOK
    <3>2. NodesAre(nodes, i + 1, c)
      BY <1>1, <1>2, <3>1, NodesAreMore, Zenon
    <3> QED
      BY <1>4, <2>1, <3>2, Zenon
  <2> QED
    BY <1>4, <1>5, <2>1, Zenon
<1>8. /\ \A x \in 1 .. Len(nodes) : nodes[x] = SaidNode(x)
      /\ Len(nodes) <= i
  BY AllSaid, Zenon
<1>9. /\ Len(nodes') \in Nat
      /\ Len(nodes') = IF full THEN Len(nodes) ELSE Len(nodes) + 1
      /\ \A x \in 1 .. Len(nodes) : nodes'[x] = nodes[x]
  <2> HIDE DEF r
  <2> QED
    BY <1>1, <1>4, <1>6
<1>10. ASSUME NEW x \in 1 .. Len(nodes'), x < Len(nodes') \/ x < i + 1
       PROVE  nodes'[x] = SaidNode(x)
  <2>1. x \in 1 .. Len(nodes)
    BY <1>1, <1>3, <1>9, <1>10
  <2> QED
    BY <1>8, <1>9, <2>1, Zenon
<1>11. Complete(nodes')
  BY <1>10, Zenon DEF Complete
<1>12. /\ CurProps(nodes', proc') = 0
       /\ proc' = p /\ proc' \in {0, Len(nodes')}
  <2>1. CASE full
    <3>1. proc' = 0 /\ p = 0
      BY <1>4, <2>1, Zenon
    <3> QED
      BY <3>1, Zenon DEF CurProps
  <2>2. CASE ~full
    <3>1. proc' = Len(nodes) + 1 /\ p = Len(nodes) + 1 /\ proc' = Len(nodes')
          /\ nodes' = r
      BY <1>4, <1>9, <2>2, Zenon
    <3>2. nodes'[proc'].props = <<>>
      BY <1>5, <1>6, <2>2, <3>1, Zenon
    <3>3. CurProps(nodes', proc') = 0
      BY <3>2 DEF CurProps
    <3> QED
      BY <3>1, <3>3, Zenon
  <2> QED
    BY <2>1, <2>2, Zenon
<1>13. CurrentAt(Len(nodes'), proc', within', CurProps(nodes', proc'), i + 1, 1)
  <2>1. Len(nodes') = Least(MaxNodes, i + 1)
    BY <1>3, <1>9, Zenon
  <2>2. within' # "properties"
    BY <1>4
  <2>3. proc' # 0 => proc' = i + 1
    BY <1>3, <1>12, Zenon
  <2> QED
    BY <1>12, <2>1, <2>2, <2>3, Zenon DEF CurrentAt
<1>14. ExactAt(proc', within', CurProps(nodes', proc'),
               CurType(nodes', proc'), i + 1, 1)
  <2>1. within' # "none"
    BY <1>4
  <2>2. proc' = IF i + 1 <= MaxNodes THEN i + 1 ELSE 0
    BY <1>3, <1>12, Zenon
  <2> QED
    BY <1>1, <2>1, <2>2, NextPlace, Zenon DEF ExactAt
<1>15. section' = "Processors" /\ conns' = conns /\ conns' = <<>>
  BY <1>2, <1>4
<1>16. ASSUME ~c
       PROVE  Becomes(i + 1, 1)
  <2>1. NodesAre(nodes', i + 1, FALSE)
    <3>1. c = FALSE
      BY <1>16, Zenon
    <3> QED
      BY <1>7, <3>1, Zenon
  <2>2. ProcPlace(doc, i + 1, 1)
    BY <1>1, NextPlace, Zenon
  <2> QED
    BY <1>10, <1>13, <1>14, <1>15, <2>1, <2>2, Zenon DEF Becomes
<1> QED
  BY <1>7, <1>11, <1>15, <1>16, Zenon

(* In the section of the processors, u is what is left of the document.    *)
InProcs(u) == \E i, t : Here(i, t) /\ u = ProcUnread(doc, i, t)

(* Which line comes next.                                                  *)
ProcLineNext(u, i, t) ==
  /\ t < ProcSize(doc, i)
  /\ NextIs(u, ProcLine(doc, i, t + 1), ProcUnread(doc, i, t + 1))

ProcItemNext(u, i, t) ==
  /\ t = ProcSize(doc, i) /\ i + 1 <= Len(doc.props)
  /\ NextIs(u, Line("item", "id", i + 1), ProcUnread(doc, i + 1, 1))

ConnsNext(u, i, t) ==
  /\ t = ProcSize(doc, i) /\ i = Len(doc.props)
  /\ NextIs(u, Line("header", "Connections", 0), ConnUnread(doc, 0, 0))

(* One of these is next in the section of the processors.                  *)
LEMMA ProcNextIs ==
  ASSUME ParserAssumption, UnreadOK, PlacesOK, ArraysOK, NEW u,
         NEW i, NEW t, Here(i, t), u = ProcUnread(doc, i, t)
  PROVE  ProcLineNext(u, i, t) \/ ProcItemNext(u, i, t) \/ ConnsNext(u, i, t)
<1>1. /\ i \in Nat /\ t \in Nat /\ doc \in Documents
      /\ i # 0 => i \in 1 .. Len(doc.props)
  BY HereIs, Zenon DEF UnreadOK
<1>2. ProcPlace(doc, i, t)
  BY Zenon DEF Here
<1>3. /\ i \in 0 .. Len(doc.props) /\ Len(doc.props) \in Nat
      /\ t \in 0 .. ProcSize(doc, i) /\ ProcSize(doc, i) \in Nat
  <2>1. i # 0 => ProcSize(doc, i) \in Nat
    BY <1>1, ProcLineIs, Zenon
  <2>2. ProcSize(doc, 0) = 0
    BY DEF ProcSize
  <2>3. ProcSize(doc, i) \in Nat
    BY <1>1, <2>1, <2>2
  <2> QED
    BY <1>1, <1>2, <2>3, DocumentIs, Zenon DEF ProcPlace
<1>4. CASE t < ProcSize(doc, i)
  <2>1. NextIs(u, ProcLine(doc, i, t + 1), ProcUnread(doc, i, t + 1))
    BY <1>1, <1>2, <1>4, ProcUnreadIs, Zenon
  <2> QED
    BY <1>4, <2>1, Zenon DEF ProcLineNext, NextIs
<1>5. CASE t = ProcSize(doc, i) /\ i < Len(doc.props)
  <2>1. NextIs(u, Line("item", "id", i + 1), ProcUnread(doc, i + 1, 1))
    BY <1>1, <1>2, <1>5, ProcUnreadIs, Zenon
  <2>2. i + 1 <= Len(doc.props)
    BY <1>3, <1>5
  <2> QED
    BY <1>5, <2>1, <2>2, Zenon DEF ProcItemNext
<1>6. CASE t = ProcSize(doc, i) /\ i = Len(doc.props)
  BY <1>1, <1>2, <1>6, ProcUnreadIs, Zenon DEF ConnsNext
<1>7. \/ t < ProcSize(doc, i)
      \/ t = ProcSize(doc, i) /\ i < Len(doc.props)
      \/ t = ProcSize(doc, i) /\ i = Len(doc.props)
  <2>1. \A a, b, m, n \in Nat : a \in 0 .. b /\ m \in 0 .. n =>
          m < n \/ (m = n /\ a < b) \/ (m = n /\ a = b)
    OBVIOUS
  <2> QED
    BY <1>1, <1>3, <2>1, Zenon
<1> QED
  BY <1>4, <1>5, <1>6, <1>7, Zenon

LEMMA InProcsNext ==
  ASSUME doc' = doc, format' = format, NEW i, NEW t, Becomes(i, t),
         NEW u, u = ProcUnread(doc, i, t)
  PROVE  (InProcs(u))'
<1>1. Here(i, t)'
  BY HereStays, Zenon
<1>2. u = (ProcUnread(doc, i, t))'
  BY Zenon
<1> QED
  BY <1>1, <1>2, Zenon DEF InProcs

----------------------------------------------------------------------------
(* The section of the connections.                                         *)

(* What the document says stays as it is.                                  *)
LEMMA FlowStays ==
  ASSUME doc' = doc, format' = format
  PROVE  /\ SaidNodes' = SaidNodes /\ SaidConns' = SaidConns
         /\ \A i : (SaidConn(i))' = SaidConn(i)
<1>1. \A i : (SaidNode(i))' = SaidNode(i)
  BY SaidStay, Zenon
<1>2. \A i : (SaidConn(i))' = SaidConn(i)
  BY Zenon DEF SaidConn, SaidRel
<1>3. SaidNodes' = SaidNodes
  BY <1>1, Zenon DEF SaidNodes, First, JsonLacks, RemoveAt
<1>4. SaidConns' = SaidConns
  BY <1>2, Zenon DEF SaidConns, First, JsonLacks, RemoveAt
<1> QED
  BY <1>2, <1>3, <1>4, Zenon

(* All the processors have been read.                                      *)
NodesRead ==
  /\ nodes = SaidNodes /\ Complete(nodes)
  /\ NodesAre(nodes, Len(doc.props), FALSE)

(* What t lines of the i-th connection say of it.                          *)
ConnIs(e, i, t) ==
  /\ e.id = i /\ e.name = (IF t >= 2 THEN i ELSE 0)
  /\ e.src = (IF t >= 3 THEN i ELSE 0)
  /\ e.dst = (IF t > 4 + doc.rels[i] THEN i ELSE 0)
  /\ e.rel = (IF t > 4 /\ doc.rels[i] # 0 THEN 1 ELSE Success)

ConnsAt(q, i, t) ==
  /\ Len(q) = Least(MaxConns, i)
  /\ \A x \in 1 .. Len(q) : IF x < i THEN q[x] = SaidConn(x) ELSE ConnIs(q[x], i, t)

(* The state in which t lines of the i-th connection have been read.       *)
ConnHere(i, t) ==
  /\ section = "Connections" /\ ConnPlace(doc, i, t) /\ NodesRead
  /\ conn = IF i <= MaxConns THEN i ELSE 0
  /\ conn # 0 => within = IF t = 4 THEN "relationships" ELSE "connection"
  /\ ConnsAt(conns, i, t)

InConns(u) == \E i, t : ConnHere(i, t) /\ u = ConnUnread(doc, i, t)

BecomesConn(i, t) ==
  /\ section' = "Connections" /\ ConnPlace(doc, i, t)
  /\ conn' = IF i <= MaxConns THEN i ELSE 0
  /\ conn' # 0 => within' = IF t = 4 THEN "relationships" ELSE "connection"
  /\ ConnsAt(conns', i, t)

LEMMA InConnsNext ==
  ASSUME doc' = doc, format' = format, nodes' = nodes, NodesRead,
         NEW i, NEW t, BecomesConn(i, t), NEW u, u = ConnUnread(doc, i, t)
  PROVE  (InConns(u))'
<1>1. /\ section' = "Connections" /\ ConnPlace(doc, i, t)
      /\ conn' = IF i <= MaxConns THEN i ELSE 0
      /\ conn' # 0 => within' = IF t = 4 THEN "relationships" ELSE "connection"
      /\ ConnsAt(conns', i, t)
  BY Zenon DEF BecomesConn
<1>2. NodesRead'
  <2>1. \A k : (NodesAre(nodes, k, FALSE))' <=> NodesAre(nodes', k, FALSE)
    BY NodesStay, Zenon
  <2>2. Complete(nodes)' <=> Complete(nodes')
    BY NodesStay, Zenon
  <2>3. /\ nodes = SaidNodes /\ Complete(nodes)
        /\ NodesAre(nodes, Len(doc.props), FALSE)
    BY Zenon DEF NodesRead
  <2> QED
    BY <2>1, <2>2, <2>3, FlowStays, Zenon DEF NodesRead
<1>3. (ConnsAt(conns, i, t))'
  <2>1. \A x : (SaidConn(x))' = SaidConn(x)
    BY FlowStays, Zenon
  <2>2. \A e : (ConnIs(e, i, t))' <=> ConnIs(e, i, t)
    BY Zenon DEF ConnIs
  <2>3. /\ Len(conns') = Least(MaxConns, i)
        /\ \A x \in 1 .. Len(conns') :
             IF x < i THEN conns'[x] = SaidConn(x) ELSE ConnIs(conns'[x], i, t)
    BY <1>1, Zenon DEF ConnsAt
  <2> QED
    BY <2>1, <2>2, <2>3, Zenon DEF ConnsAt
<1>4. (ConnPlace(doc, i, t))'
  BY <1>1, Zenon
<1>5. (ConnHere(i, t))'
  BY <1>1, <1>2, <1>3, <1>4, Zenon DEF ConnHere
<1>6. u = (ConnUnread(doc, i, t))'
  BY Zenon
<1> QED
  BY <1>5, <1>6, Zenon DEF InConns

(* A connection whose lines have all been read.                            *)
LEMMA ConnComplete ==
  ASSUME ParserAssumption, doc \in Documents, format # "JSON",
         NEW i \in 1 .. Len(doc.rels), NEW e \in Conn,
         ConnIs(e, i, ConnSize(doc, i))
  PROVE  e = SaidConn(i)
<1>1. /\ doc.rels[i] \in Nat /\ i \in Nat
      /\ ConnSize(doc, i) = 4 + doc.rels[i] + (IF i # doc.loose THEN 1 ELSE 0)
  <2>1. i # 0 /\ doc.rels[i] \in Nat /\ i \in Nat
    BY DocumentIs
  <2> QED
    BY <2>1, Zenon DEF ConnSize
<1> DEFINE s == ConnSize(doc, i)
<1>2. /\ s >= 2 /\ s >= 3 /\ (s > 4 + doc.rels[i] <=> i # doc.loose)
      /\ doc.rels[i] # 0 => s > 4
  <2>1. \A b \in Nat : /\ 4 + b + 0 >= 2 /\ 4 + b + 0 >= 3 /\ ~(4 + b + 0 > 4 + b)
                       /\ 4 + b + 1 >= 2 /\ 4 + b + 1 >= 3 /\ 4 + b + 1 > 4 + b
                       /\ b # 0 => 4 + b + 0 > 4 /\ 4 + b + 1 > 4
    OBVIOUS
  <2>2. IF i # doc.loose THEN s = 4 + doc.rels[i] + 1 ELSE s = 4 + doc.rels[i] + 0
    BY <1>1, Zenon
  <2> HIDE DEF s
  <2> QED
    BY <1>1, <2>1, <2>2, Zenon
<1> HIDE DEF s
<1>3. /\ e.id = i /\ e.name = i /\ e.src = i
      /\ e.dst = IF i = doc.loose THEN 0 ELSE i
      /\ e.rel = IF doc.rels[i] = 0 THEN Success ELSE 1
  <2>1. ConnIs(e, i, s)
    BY DEF s
  <2> QED
    BY <1>2, <2>1, Zenon DEF ConnIs
<1>4. SaidConn(i) = [id |-> i, name |-> i, src |-> i,
                     dst |-> IF i = doc.loose THEN 0 ELSE i,
                     rel |-> IF doc.rels[i] = 0 THEN Success ELSE 1]
  BY Zenon DEF SaidConn, SaidRel
<1> HIDE DEF Success
<1> DEFINE d == IF i = doc.loose THEN 0 ELSE i
           l == IF doc.rels[i] = 0 THEN Success ELSE 1
<1>5. e.dst = d /\ e.rel = l
      /\ SaidConn(i) = [id |-> i, name |-> i, src |-> i, dst |-> d, rel |-> l]
  BY <1>3, <1>4, Zenon
<1> HIDE DEF d, l
<1>6. e = [id |-> i, name |-> i, src |-> i, dst |-> d, rel |-> l]
  BY <1>3, <1>5 DEF Conn
<1> QED
  BY <1>5, <1>6, Zenon

(* What has been read of the processors after the next line, or after what *)
(* is left of it, which c says.                                            *)
ProcsReadTo(c) ==
  /\ conns' = <<>> /\ Complete(nodes')
  /\ \E k \in 0 .. Len(doc.props) : NodesAre(nodes', k, c)

(* A line of the current processor is read.                                *)
LEMMA ProcLineStep ==
  ASSUME ParserAssumption, UnreadOK, PlacesOK, ArraysOK, format # "JSON", ReadLine,
         NEW i, NEW t, NEW c \in BOOLEAN, Here(i, t), NEW u,
         ProcLineNext(u, i, t), Like(Head(unread), Head(u), c)
  PROVE  /\ ProcsReadTo(c)
         /\ unread = u => (InProcs(unread))'
<1> DEFINE m == ProcLine(doc, i, t + 1)
<1>1. /\ t < ProcSize(doc, i) /\ Head(u) = m
      /\ Tail(u) = ProcUnread(doc, i, t + 1)
  BY Zenon DEF ProcLineNext, NextIs
<1>2. ReadAs(m, i, t, c)
  <2>1. Like(Head(unread), m, c)
    BY <1>1, Zenon
  <2> QED
    BY <1>1, <2>1, ProcLineRead, Zenon
<1>3. /\ SameButLast(nodes, nodes') /\ NodesAre(nodes', i, c)
      /\ UNCHANGED <<section, proc, conn, conns>>
  BY <1>2, Zenon DEF ReadAs
<1>4. Complete(nodes) /\ conns = <<>> /\ i \in 0 .. Len(doc.props)
  BY HereIs, Zenon DEF Here
<1>5. Complete(nodes')
  <2>1. /\ Len(nodes') = Len(nodes)
        /\ \A x \in 1 .. Len(nodes) : x # Len(nodes) => nodes'[x] = nodes[x]
    BY <1>3, Zenon DEF SameButLast
  <2>2. \A x \in 1 .. Len(nodes) : x < Len(nodes) => x # Len(nodes)
    <3>1. Len(nodes) \in Nat
      BY HereIs, Zenon
    <3> QED
      BY <3>1
  <2> QED
    BY <1>4, <2>1, <2>2, Zenon DEF Complete
<1>6. ProcsReadTo(c)
  <2>1. conns' = conns
    BY <1>3
  <2> QED
    BY <1>3, <1>4, <1>5, <2>1, Zenon DEF ProcsReadTo
<1>7. ASSUME unread = u
      PROVE  (InProcs(unread))'
  <2>1. Head(unread) = m
    BY <1>1, <1>7, Zenon
  <2>2. Becomes(i, t + 1)
    BY <1>1, <2>1, WholeLineRead, Zenon
  <2>3. /\ unread' = Tail(unread)
        /\ doc' = doc /\ format' = format
    BY LineRead, Zenon
  <2> DEFINE v == Tail(u)
  <2>4. unread' = v
    BY <1>7, <2>3
  <2>5. v = ProcUnread(doc, i, t + 1)
    BY <1>1
  <2> HIDE DEF v
  <2>6. (InProcs(v))'
    BY <2>2, <2>3, <2>5, InProcsNext, Zenon
  <2> QED
    BY <2>4, <2>6, Zenon
<1> QED
  BY <1>6, <1>7, Zenon

(* The first line of a processor is read.                                  *)
LEMMA ProcItemStep ==
  ASSUME ParserAssumption, UnreadOK, PlacesOK, ArraysOK, format = "YAML", ReadLine,
         NEW i, NEW t, NEW c \in BOOLEAN, Here(i, t), NEW u,
         ProcItemNext(u, i, t), Like(Head(unread), Head(u), c)
  PROVE  /\ ProcsReadTo(c)
         /\ unread = u => (InProcs(unread))'
<1> DEFINE m == Line("item", "id", i + 1)
<1>1. /\ t = ProcSize(doc, i) /\ i + 1 <= Len(doc.props)
      /\ Head(u) = m /\ Tail(u) = ProcUnread(doc, i + 1, 1)
  BY Zenon DEF ProcItemNext, NextIs
<1>2. /\ i \in Nat /\ i + 1 \in Nat /\ doc \in Documents /\ m \in YamlLine
      /\ i + 1 \in 0 .. Len(doc.props)
  <2>1. i \in Nat /\ doc \in Documents
    BY HereIs, Zenon DEF UnreadOK
  <2>2. i + 1 \in Nat /\ i + 1 \in 0 .. Len(doc.props)
    BY <1>1, <2>1, DocumentIs
  <2> QED
    BY <2>1, <2>2, ItemLineTyped, Zenon
<1>3. conns = <<>>
  BY Zenon DEF Here
<1>4. /\ unread' = Tail(unread) /\ unread # <<>>
      /\ doc' = doc /\ format' = format
  BY LineRead, Zenon
<1>5. m.kind = "item" /\ m.key = "id" /\ m.val = i + 1
  BY DEF Line
<1>6. ASSUME NEW b \in BOOLEAN, Like(Head(unread), m, b)
      PROVE  /\ NodesAre(nodes', i + 1, b) /\ Complete(nodes')
             /\ conns' = conns /\ (~b => Becomes(i + 1, 1))
  <2>1. /\ Kind = "item" /\ Key = "id" /\ ValueOf(Val, i + 1, b)
    <3>1. m \in YamlLine
      BY <1>2, Zenon
    <3> HIDE DEF m
    <3>2. /\ Head(unread).kind = m.kind /\ ValueOf(Head(unread).val, m.val, b)
          /\ m.kind = "item" => Head(unread).key = m.key
      <4>1. m.kind = "item" => m.kind \in {"item", "list"}
        OBVIOUS
      <4>2. /\ Head(unread).kind = m.kind /\ ValueOf(Head(unread).val, m.val, b)
        BY <1>6, <3>1, LikeIs, Zenon
      <4>3. m.kind \in {"item", "list"} => Head(unread).key = m.key
        BY <1>6, <3>1, LikeIs, SMT
      <4> QED
        BY <4>1, <4>2, <4>3, Zenon
    <3> QED
      BY <1>5, <3>2, Zenon DEF Kind, Key, Val
  <2>2. Val \in Int
    BY <1>4, HeadTyped, Zenon
  <2>3. format # "JSON"
    OBVIOUS
  <2> HIDE DEF Kind, Key, Val
  <2> QED
    BY <1>1, <2>1, <2>2, <2>3, NextTaken, Zenon
<1>7. ProcsReadTo(c)
  <2>1. Like(Head(unread), m, c)
    BY <1>1, Zenon
  <2> HIDE DEF m
  <2>2. NodesAre(nodes', i + 1, c) /\ Complete(nodes') /\ conns' = conns
    BY <1>6, <2>1, Zenon
  <2> QED
    BY <1>2, <1>3, <2>2, Zenon DEF ProcsReadTo
<1>8. ASSUME unread = u
      PROVE  (InProcs(unread))'
  <2>1. Like(Head(unread), m, FALSE) /\ FALSE \in BOOLEAN
    BY <1>1, <1>8, Zenon DEF Like
  <2>2. Becomes(i + 1, 1)
    BY <1>6, <2>1, Zenon
  <2> DEFINE v == Tail(u)
  <2>3. unread' = v
    BY <1>4, <1>8
  <2>4. v = ProcUnread(doc, i + 1, 1)
    BY <1>1
  <2> HIDE DEF v
  <2>5. (InProcs(v))'
    BY <1>4, <2>2, <2>4, InProcsNext, Zenon
  <2> QED
    BY <2>3, <2>5, Zenon
<1> QED
  BY <1>7, <1>8, Zenon

(* The section of the connections begins.                                  *)
LEMMA ConnsStep ==
  ASSUME ParserAssumption, UnreadOK, PlacesOK, ArraysOK, format = "YAML", ReadLine,
         NEW i, NEW t, NEW c \in BOOLEAN, Here(i, t), NEW u,
         ConnsNext(u, i, t), Like(Head(unread), Head(u), c)
  PROVE  /\ ProcsReadTo(c)
         /\ unread = u => (InConns(unread))'
<1> DEFINE m == Line("header", "Connections", 0)
<1>1. /\ t = ProcSize(doc, i) /\ i = Len(doc.props)
      /\ Head(u) = m /\ Tail(u) = ConnUnread(doc, 0, 0)
  BY Zenon DEF ConnsNext, NextIs
<1>2. /\ i \in Nat /\ doc \in Documents /\ m \in YamlLine
      /\ i \in 0 .. Len(doc.props) /\ format # "JSON"
  BY HereIs, HeadersTyped DEF UnreadOK, Sections
<1>3. /\ conns = <<>> /\ Complete(nodes) /\ NodesAre(nodes, i, FALSE)
  BY HereIs, Zenon DEF Here
<1>4. /\ unread' = Tail(unread) /\ unread # <<>>
      /\ doc' = doc /\ format' = format
  BY LineRead, Zenon
<1>5. m.kind = "header" /\ m.key = "Connections"
  BY DEF Line
<1>6. Kind = "header"
  <2>1. Like(Head(unread), m, c)
    BY <1>1, Zenon
  <2> QED
    <3>1. m \in YamlLine
      BY <1>2, Zenon
    <3> HIDE DEF m
    <3>2. Head(unread).kind = m.kind
      BY <2>1, <3>1, LikeIs, Zenon
    <3> QED
      BY <1>5, <3>2, Zenon DEF Kind
<1>7. section' = Key /\ within' = "none" /\ UNCHANGED <<proc, conn, nodes, conns>>
  <2> HIDE DEF Key, Kind
  <2> QED
    BY <1>6, HeaderRead, Zenon
<1>8. nodes' = nodes /\ conns' = conns /\ conn' = conn
  BY <1>7
<1>9. ProcsReadTo(c)
  <2>1. nodes \in Seq(Node) /\ i <= i /\ (FALSE => c)
    BY <1>2 DEF ArraysOK
  <2>2. NodesAre(nodes, i, c)
    BY <1>2, <1>3, <2>1, NodesAreMore, Zenon
  <2> QED
    BY <1>2, <1>3, <1>8, <2>2, Zenon DEF ProcsReadTo
<1>10. ASSUME unread = u
       PROVE  (InConns(unread))'
  <2>1. section' = "Connections"
    <3>1. Key = "Connections"
      BY <1>1, <1>5, <1>10, Zenon DEF Key
    <3> QED
      BY <1>7, <3>1, Zenon
  <2>2. NodesRead
    <3>1. /\ Len(nodes) = Least(MaxNodes, i)
          /\ \A x \in 1 .. Len(nodes) : nodes[x] = SaidNode(x)
      BY <1>1, <1>2, AllSaid, Zenon
    <3>2. /\ Len(SaidNodes) = Least(MaxNodes, HowMany(doc.untyped, i))
          /\ Listed(SaidNodes)
          /\ \A x \in 1 .. Len(SaidNodes) :
               SaidNodes[x] = SaidNode(Which(doc.untyped, x))
      BY <1>1, <1>2, SaidNodesAre, Zenon
    <3>3. HowMany(doc.untyped, i) = i /\ \A x : Which(doc.untyped, x) = x
      BY <1>2, DocumentIs, NumbersAre, Zenon
    <3>4. nodes \in Seq(Node)
      BY DEF ArraysOK
    <3>5. Listed(nodes)
      BY <3>4, SeqListed, Zenon
    <3>6. nodes = SaidNodes
      BY <3>1, <3>2, <3>3, <3>5, SameListed, Zenon
    <3> QED
      BY <1>1, <1>3, <3>6, Zenon DEF NodesRead
  <2>3. BecomesConn(0, 0)
    <3>1. conn = 0 /\ Len(conns) = 0 /\ MaxConns \in Nat
      BY <1>3 DEF ArraysOK, ParserAssumption
    <3>2. /\ Least(MaxConns, 0) = 0 /\ ConnsAt(<<>>, 0, 0)
          /\ conn' = IF 0 <= MaxConns THEN 0 ELSE 0
      BY <1>8, <3>1 DEF Least, ConnsAt
    <3>3. ConnPlace(doc, 0, 0)
      BY <1>2, YamlIs, Zenon
    <3>4. ConnsAt(conns', 0, 0) /\ ~(conn' # 0)
      BY <1>3, <1>8, <3>1, <3>2, Zenon
    <3> QED
      BY <2>1, <3>2, <3>3, <3>4, Zenon DEF BecomesConn
  <2> DEFINE v == Tail(u)
  <2>4. unread' = v
    BY <1>4, <1>10
  <2>5. v = ConnUnread(doc, 0, 0)
    BY <1>1
  <2> HIDE DEF v
  <2>6. (InConns(v))'
    BY <1>4, <1>8, <2>2, <2>3, <2>5, InConnsNext, Zenon
  <2> QED
    BY <2>4, <2>6, Zenon
<1> QED
  BY <1>9, <1>10, Zenon

(* The next line of the processors, or what is left of it.                 *)
LEMMA ProcsStep ==
  ASSUME ParserAssumption, UnreadOK, PlacesOK, ArraysOK, format = "YAML", ReadLine,
         NEW c \in BOOLEAN, NEW u, InProcs(u), Like(Head(unread), Head(u), c)
  PROVE  /\ ProcsReadTo(c)
         /\ unread = u => (InProcs(unread))' \/ (InConns(unread))'
<1>1. PICK i, t : Here(i, t) /\ u = ProcUnread(doc, i, t)
  BY Zenon DEF InProcs
<1>2. format # "JSON"
  OBVIOUS
<1>3. ProcLineNext(u, i, t) \/ ProcItemNext(u, i, t) \/ ConnsNext(u, i, t)
  BY <1>1, ProcNextIs, Zenon
<1>4. CASE ProcLineNext(u, i, t)
  BY <1>1, <1>2, <1>4, ProcLineStep, Zenon
<1>5. CASE ProcItemNext(u, i, t)
  BY <1>1, <1>5, ProcItemStep, Zenon
<1>6. CASE ConnsNext(u, i, t)
  BY <1>1, <1>6, ConnsStep, Zenon
<1> QED
  BY <1>3, <1>4, <1>5, <1>6, Zenon

(* What may have been read of a field of the i-th connection, and of all.  *)
InPart(v, said, c) == v = 0 \/ ValueOf(v, said, c)

ConnOf(e, i, c) ==
  /\ InPart(e.id, i, c) /\ InPart(e.name, i, c) /\ InPart(e.src, i, c)
  /\ InPart(e.dst, IF i = doc.loose THEN 0 ELSE i, c)
  /\ e.rel = Success \/ InPart(e.rel, SaidRel(i), c)

WithField(e, key, v) ==
  [f \in DOMAIN e |-> IF f \in DOMAIN FieldOf /\ key = FieldOf[f] THEN v ELSE e[f]]

FieldSet(g, e, key, v) ==
  /\ g \in Conn /\ g.rel = e.rel
  /\ g.id = IF key = "id" THEN v ELSE e.id
  /\ g.name = IF key = "name" THEN v ELSE e.name
  /\ g.src = IF key = "source id" THEN v ELSE e.src
  /\ g.dst = IF key = "destination id" THEN v ELSE e.dst

(* A connection one field of which is set.                                 *)
LEMMA WithFieldIs ==
  ASSUME NEW e \in Conn, NEW key, NEW v \in Int
  PROVE  FieldSet(WithField(e, key, v), e, key, v)
  BY DEF WithField, Conn, FieldOf, FieldSet

LEMMA WithRelIs ==
  ASSUME NEW e \in Conn, NEW v \in Int
  PROVE  LET g == [e EXCEPT !.rel = v]
         IN  /\ g \in Conn /\ g.id = e.id /\ g.rel = v
             /\ g.name = e.name /\ g.src = e.src /\ g.dst = e.dst
  BY DEF Conn

(* What the lines of a connection have said is part of it.                 *)
LEMMA ConnOfIs ==
  ASSUME ParserAssumption, doc \in Documents, NEW i \in 1 .. Len(doc.rels), NEW t,
         ConnPlace(doc, i, t), NEW e, ConnIs(e, i, t), NEW c
  PROVE  ConnOf(e, i, c)
<1>1. \A v, s : v = s => InPart(v, s, c)
  BY Zenon DEF InPart, ValueOf
<1>2. InPart(e.id, i, c) /\ InPart(e.name, i, c) /\ InPart(e.src, i, c)
  BY Zenon DEF ConnIs, InPart, ValueOf
<1>3. InPart(e.dst, IF i = doc.loose THEN 0 ELSE i, c)
  <2>1. t > 4 + doc.rels[i] => i # doc.loose
    <3>1. t \in 0 .. ConnSize(doc, i) /\ doc.rels[i] \in Nat /\ i # 0
      BY DocumentIs DEF ConnPlace
    <3>2. ConnSize(doc, i) = 4 + doc.rels[i] + (IF i # doc.loose THEN 1 ELSE 0)
      BY <3>1, Zenon DEF ConnSize
    <3> QED
      BY <3>1, <3>2
  <2>2. e.dst = IF t > 4 + doc.rels[i] THEN i ELSE 0
    BY Zenon DEF ConnIs
  <2>3. CASE t > 4 + doc.rels[i]
    BY <1>1, <2>1, <2>2, <2>3, Zenon
  <2>4. CASE ~(t > 4 + doc.rels[i])
    BY <2>2, <2>4, Zenon DEF InPart
  <2> QED
    BY <2>3, <2>4, Zenon
<1>4. e.rel = Success \/ InPart(e.rel, SaidRel(i), c)
  <2>1. e.rel = IF t > 4 /\ doc.rels[i] # 0 THEN 1 ELSE Success
    BY Zenon DEF ConnIs
  <2>2. CASE doc.rels[i] # 0
    <3>1. SaidRel(i) = 1
      BY <2>2, Zenon DEF SaidRel
    <3> QED
      BY <1>1, <2>1, <3>1, Zenon
  <2>3. CASE doc.rels[i] = 0
    BY <2>1, <2>3, Zenon
  <2> QED
    BY <2>2, <2>3, Zenon
<1> QED
  BY <1>2, <1>3, <1>4, Zenon DEF ConnOf

(* The connection that is current, and the others.                         *)
LEMMA ConnHereIs ==
  ASSUME ParserAssumption, UnreadOK, ArraysOK, NEW i, NEW t, ConnHere(i, t)
  PROVE  /\ i \in Nat /\ i \in 0 .. Len(doc.rels) /\ t \in Nat /\ doc \in Documents
         /\ i # 0 => i \in 1 .. Len(doc.rels) /\ t # 0
         /\ Len(conns) \in Nat /\ conns \in Seq(Conn) /\ MaxConns \in Nat
         /\ InConnection <=> conn # 0
         /\ ~InProcessor
         /\ conn # 0 => /\ conn = i /\ i # 0 /\ Len(conns) = i /\ conn \in 1 .. Len(conns)
                        /\ conns[conn] \in Conn /\ ConnIs(conns[conn], i, t)
         /\ conn = 0 => Len(conns) = i \/ Len(conns) < i
         /\ Len(conns) <= i
         /\ \A x \in 1 .. Len(conns) : x # conn => x < i /\ conns[x] = SaidConn(x)
<1>1. /\ section = "Connections" /\ ConnPlace(doc, i, t)
      /\ conn = IF i <= MaxConns THEN i ELSE 0
      /\ conn # 0 => within = IF t = 4 THEN "relationships" ELSE "connection"
      /\ Len(conns) = Least(MaxConns, i)
      /\ \A x \in 1 .. Len(conns) :
           IF x < i THEN conns[x] = SaidConn(x) ELSE ConnIs(conns[x], i, t)
  BY Zenon DEF ConnHere, ConnsAt
<1>2. /\ doc \in Documents /\ MaxConns \in Nat /\ MaxConns > 0 /\ conns \in Seq(Conn)
      /\ Len(conns) \in Nat /\ Len(doc.rels) \in Nat
  <2>1. doc \in Documents
    BY DEF UnreadOK
  <2> QED
    BY <2>1, DocumentIs DEF ArraysOK, ParserAssumption
<1>3. /\ i \in Nat /\ i \in 0 .. Len(doc.rels) /\ t \in Nat
      /\ i # 0 => i \in 1 .. Len(doc.rels) /\ t # 0
  <2>1. /\ i \in 0 .. Len(doc.rels) /\ t \in 0 .. ConnSize(doc, i)
        /\ i # 0 => t # 0
    BY <1>1, Zenon DEF ConnPlace
  <2> QED
    BY <1>2, <2>1
<1>4. /\ conn # 0 => conn = i /\ i # 0 /\ Len(conns) = i /\ conn \in 1 .. Len(conns)
      /\ Len(conns) <= i
      /\ \A x \in 1 .. Len(conns) : x # conn => x < i
  <2>1. Len(conns) = IF MaxConns < i THEN MaxConns ELSE i
    BY <1>1, Zenon DEF Least
  <2>2. conn = IF i <= MaxConns THEN i ELSE 0
    BY <1>1, Zenon
  <2> QED
    BY <1>2, <1>3, <2>1, <2>2
<1>5. InConnection <=> conn # 0
  <2>1. conn \in Nat
    BY <1>1, <1>3
  <2>2. conn # 0 => within # "none"
    BY <1>1
  <2>3. conn > 0 <=> conn # 0
    BY <2>1
  <2> QED
    BY <1>1, <2>2, <2>3, Zenon DEF InConnection
<1>6. ~InProcessor
  BY <1>1 DEF InProcessor
<1>7. conn # 0 => conns[conn] \in Conn /\ ConnIs(conns[conn], i, t)
  <2> SUFFICES ASSUME conn # 0
               PROVE  conns[conn] \in Conn /\ ConnIs(conns[conn], i, t)
    BY Zenon
  <2>1. conn = i /\ conn \in 1 .. Len(conns) /\ ~(conn < i)
    BY <1>3, <1>4
  <2>2. ConnIs(conns[conn], i, t)
    BY <1>1, <2>1, Zenon
  <2> QED
    BY <1>2, <2>1, <2>2, SeqIs, Zenon
<1>8. \A x \in 1 .. Len(conns) : x # conn => conns[x] = SaidConn(x)
  BY <1>1, <1>4, Zenon
<1>9. Len(conns) = i \/ Len(conns) < i
  BY <1>2, <1>3, <1>4
<1> QED
  BY <1>2, <1>3, <1>4, <1>5, <1>6, <1>7, <1>8, <1>9, Zenon

(* What reading a line of a connection does, or what is left of the line.  *)
ConnReadAs(l, i, t, c) ==
  /\ nodes' = nodes /\ section' = section /\ conn' = conn
  /\ Len(conns') = Len(conns)
  /\ \A x \in 1 .. Len(conns) : x # conn => conns'[x] = conns[x]
  /\ conn # 0 =>
       /\ ConnOf(conns'[conn], i, c)
       /\ Head(unread) = l =>
            /\ ConnIs(conns'[conn], i, t + 1)
            /\ within' = IF t + 1 = 4 THEN "relationships" ELSE "connection"

(* The current connection, if there is one, becomes e.                     *)
ConnBecomes(e) ==
  /\ nodes' = nodes /\ section' = section /\ conn' = conn
  /\ IF conn = 0 THEN conns' = conns ELSE conns' = [conns EXCEPT ![conn] = e]

LEMMA ConnBecomesIs ==
  ASSUME ParserAssumption, UnreadOK, ArraysOK, NEW i, NEW t, ConnHere(i, t),
         NEW e, ConnBecomes(e), NEW c, NEW l,
         conn # 0 => /\ ConnOf(e, i, c)
                     /\ Head(unread) = l =>
                          /\ ConnIs(e, i, t + 1)
                          /\ within' = IF t + 1 = 4 THEN "relationships" ELSE "connection"
  PROVE  ConnReadAs(l, i, t, c)
<1>1. /\ Len(conns) \in Nat /\ conns \in Seq(Conn)
      /\ conn # 0 => conn \in 1 .. Len(conns)
  BY ConnHereIs, Zenon
<1>2. /\ nodes' = nodes /\ section' = section /\ conn' = conn
      /\ conn = 0 => conns' = conns
      /\ conn # 0 => conns' = [conns EXCEPT ![conn] = e]
  BY Zenon DEF ConnBecomes
<1>3. /\ Len(conns') = Len(conns)
      /\ \A x \in 1 .. Len(conns) : x # conn => conns'[x] = conns[x]
      /\ conn # 0 => conns'[conn] = e
  BY <1>1, <1>2
<1> QED
  BY <1>2, <1>3, Zenon DEF ConnReadAs

(* What a field of a connection does to the current one.                   *)
LEMMA ConnFieldRead ==
  ASSUME ParserAssumption, UnreadOK, ArraysOK, NEW i, NEW t, ConnHere(i, t), ReadLine,
         Kind = "field"
  PROVE  /\ ConnBecomes(WithField(conns[conn], Key, Val))
         /\ conn # 0 => within' = IF Key = "source relationship names"
                                 THEN "relationships" ELSE "connection"
<1>1. (InConnection <=> conn # 0) /\ ~InProcessor
  BY ConnHereIs, Zenon
<1> HIDE DEF Key, Val, Kind
<1>2. CASE conn # 0
  <2>1. /\ within' = IF Key = "source relationship names"
                     THEN "relationships" ELSE "connection"
        /\ conns' = [conns EXCEPT ![conn] =
                   [f \in DOMAIN @ |-> IF f \in DOMAIN FieldOf /\ Key = FieldOf[f]
                                       THEN Val ELSE @[f]]]
        /\ UNCHANGED <<section, proc, conn, nodes>>
    BY <1>1, <1>2, FieldRead, Zenon
  <2>2. conns' = [conns EXCEPT ![conn] = WithField(conns[conn], Key, Val)]
    BY <2>1, Zenon DEF WithField
  <2> QED
    BY <1>2, <2>1, <2>2, Zenon DEF ConnBecomes
<1>3. CASE conn = 0
  <2>1. Skipped
    BY <1>1, <1>3, FieldRead, Zenon
  <2> QED
    BY <1>3, <2>1, Zenon DEF ConnBecomes, Skipped
<1> QED
  BY <1>2, <1>3

(* What a relationship does to the current one.                            *)
LEMMA ConnListRead ==
  ASSUME ParserAssumption, UnreadOK, ArraysOK, NEW i, NEW t, ConnHere(i, t), ReadLine,
         Kind = "list"
  PROVE  /\ t = 4 => ConnBecomes([conns[conn] EXCEPT !.rel = Val])
         /\ t # 4 => ConnBecomes(conns[conn])
         /\ conn # 0 => within' = "connection"
<1>1. (InConnection <=> conn # 0) /\ ~InProcessor
  BY ConnHereIs, Zenon
<1>2. conn # 0 => within = IF t = 4 THEN "relationships" ELSE "connection"
  BY Zenon DEF ConnHere
<1>3. /\ nodes' = nodes /\ section' = section /\ conn' = conn
      /\ IF InConnection /\ within = "relationships"
         THEN conns' = [conns EXCEPT ![conn].rel = Val] /\ within' = "connection"
         ELSE UNCHANGED <<conns, within>>
  <2> HIDE DEF Val, Kind
  <2>1. UNCHANGED <<section, proc, conn, nodes>>
    BY <1>1, ListRead, Zenon
  <2>2. IF InConnection /\ within = "relationships"
        THEN conns' = [conns EXCEPT ![conn].rel = Val] /\ within' = "connection"
        ELSE UNCHANGED <<conns, within>>
    BY <1>1, ListRead, Zenon
  <2> QED
    BY <2>1, <2>2, Zenon
<1> HIDE DEF Val, Kind
<1>4. conns = [conns EXCEPT ![conn] = conns[conn]]
  <2>1. conns \in Seq(Conn)
    BY DEF ArraysOK
  <2> QED
    BY <2>1
<1>5. CASE conn = 0
  <2>1. conns' = conns
    BY <1>1, <1>3, <1>5, Zenon
  <2> QED
    BY <1>3, <1>5, <2>1, Zenon DEF ConnBecomes
<1>6. CASE conn # 0 /\ t = 4
  <2>1. conns' = [conns EXCEPT ![conn].rel = Val] /\ within' = "connection"
    BY <1>1, <1>2, <1>3, <1>6, Zenon
  <2>2. conns' = [conns EXCEPT ![conn] = [conns[conn] EXCEPT !.rel = Val]]
    BY <2>1, Zenon
  <2> QED
    BY <1>3, <1>6, <2>1, <2>2, Zenon DEF ConnBecomes
<1>7. CASE conn # 0 /\ t # 4
  <2>1. within = "connection"
    BY <1>2, <1>7, Zenon
  <2>2. conns' = conns /\ within' = within
    BY <1>3, <2>1
  <2> QED
    BY <1>3, <1>4, <1>7, <2>1, <2>2, Zenon DEF ConnBecomes
<1> QED
  BY <1>5, <1>6, <1>7, Zenon

(* The lines of a connection that are fields.                              *)
ConnFieldAt(k, v, i, t) ==
  \/ k = "name" /\ v = i /\ t = 2
  \/ k = "source id" /\ v = i /\ t = 3
  \/ k = "source relationship names" /\ v = 0 /\ t = 4
  \/ k = "destination id" /\ v = i /\ t = 5 + doc.rels[i] /\ i # doc.loose

(* A field that is read whole adds what it says.                           *)
LEMMA FieldAdds ==
  ASSUME NEW e \in Conn, NEW i \in Nat, NEW t \in Nat, t # 0, doc.rels[i] \in Nat,
         ConnIs(e, i, t), NEW k, NEW v \in Int, ConnFieldAt(k, v, i, t + 1)
  PROVE  /\ ConnIs(WithField(e, k, v), i, t + 1)
         /\ k = "source relationship names" <=> t + 1 = 4
<1> DEFINE g == WithField(e, k, v)
<1>1. /\ g.rel = e.rel
      /\ g.id = IF k = "id" THEN v ELSE e.id
      /\ g.name = IF k = "name" THEN v ELSE e.name
      /\ g.src = IF k = "source id" THEN v ELSE e.src
      /\ g.dst = IF k = "destination id" THEN v ELSE e.dst
  <2>1. FieldSet(g, e, k, v)
    BY WithFieldIs, Zenon
  <2> HIDE DEF g
  <2> QED
    BY <2>1, Zenon DEF FieldSet
<1>2. /\ e.id = i /\ e.name = (IF t >= 2 THEN i ELSE 0)
      /\ e.src = (IF t >= 3 THEN i ELSE 0)
      /\ e.dst = (IF t > 4 + doc.rels[i] THEN i ELSE 0)
      /\ e.rel = (IF t > 4 /\ doc.rels[i] # 0 THEN 1 ELSE Success)
  BY Zenon DEF ConnIs
<1> HIDE DEF g
<1> DEFINE b == doc.rels[i]
<1>3. /\ t + 1 = 2 => /\ t + 1 >= 2 /\ ~(t + 1 >= 3) /\ ~(t + 1 > 4 + b) /\ ~(t + 1 > 4)
                      /\ ~(t >= 3) /\ ~(t > 4 + b) /\ ~(t > 4) /\ t + 1 # 4
      /\ t + 1 = 3 => /\ t + 1 >= 2 /\ t >= 2 /\ t + 1 >= 3
                      /\ ~(t + 1 > 4 + b) /\ ~(t + 1 > 4)
                      /\ ~(t > 4 + b) /\ ~(t > 4) /\ t + 1 # 4
      /\ t + 1 = 4 => /\ t + 1 >= 2 /\ t >= 2 /\ t + 1 >= 3 /\ t >= 3
                      /\ ~(t + 1 > 4 + b) /\ ~(t + 1 > 4) /\ ~(t > 4 + b) /\ ~(t > 4)
      /\ t + 1 = 5 + b => /\ t + 1 >= 2 /\ t >= 2 /\ t + 1 >= 3 /\ t >= 3
                          /\ t + 1 > 4 + b /\ t + 1 > 4 /\ (b # 0 => t > 4)
                          /\ t + 1 # 4
  <2> HIDE DEF b
  <2>1. b \in Nat
    BY DEF b
  <2> QED
    BY <2>1
<1>4. CASE k = "name" /\ v = i /\ t + 1 = 2
  <2>1. k # "id" /\ k # "source id" /\ k # "destination id" /\ k # "source relationship names"
    BY <1>4
  <2> QED
    BY <1>1, <1>2, <1>3, <1>4, <2>1, Zenon DEF ConnIs, g
<1>5. CASE k = "source id" /\ v = i /\ t + 1 = 3
  <2>1. k # "id" /\ k # "name" /\ k # "destination id" /\ k # "source relationship names"
    BY <1>5
  <2> QED
    BY <1>1, <1>2, <1>3, <1>5, <2>1, Zenon DEF ConnIs, g
<1>6. CASE k = "source relationship names" /\ v = 0 /\ t + 1 = 4
  <2>1. k # "id" /\ k # "name" /\ k # "source id" /\ k # "destination id"
    BY <1>6
  <2> QED
    BY <1>1, <1>2, <1>3, <1>6, <2>1, Zenon DEF ConnIs, g
<1>7. CASE k = "destination id" /\ v = i /\ t + 1 = 5 + doc.rels[i]
  <2>1. k # "id" /\ k # "name" /\ k # "source id" /\ k # "source relationship names"
    BY <1>7
  <2> QED
    BY <1>1, <1>2, <1>3, <1>7, <2>1, Zenon DEF ConnIs, g
<1> HIDE DEF b
<1> QED
  BY <1>4, <1>5, <1>6, <1>7, Zenon DEF ConnFieldAt, g

(* A field that is cut off adds nothing of another.                        *)
LEMMA FieldKeeps ==
  ASSUME NEW e \in Conn, NEW i, NEW t, NEW c, ConnOf(e, i, c),
         NEW k, NEW v, ConnFieldAt(k, v, i, t),
         NEW l, l \in {k, "other"}, NEW w \in Int, ValueOf(w, v, c)
  PROVE  ConnOf(WithField(e, l, w), i, c)
<1> DEFINE g == WithField(e, l, w)
<1>1. /\ g.rel = e.rel
      /\ g.id = IF l = "id" THEN w ELSE e.id
      /\ g.name = IF l = "name" THEN w ELSE e.name
      /\ g.src = IF l = "source id" THEN w ELSE e.src
      /\ g.dst = IF l = "destination id" THEN w ELSE e.dst
  <2>1. FieldSet(g, e, l, w)
    BY WithFieldIs, Zenon
  <2> HIDE DEF g
  <2> QED
    BY <2>1, Zenon DEF FieldSet
<1>2. /\ InPart(e.id, i, c) /\ InPart(e.name, i, c) /\ InPart(e.src, i, c)
      /\ InPart(e.dst, IF i = doc.loose THEN 0 ELSE i, c)
      /\ e.rel = Success \/ InPart(e.rel, SaidRel(i), c)
  BY Zenon DEF ConnOf
<1>3. InPart(w, v, c)
  BY Zenon DEF InPart
<1>4. /\ l \in {"name", "source id"} => v = i
      /\ l = "destination id" => v = i /\ i # doc.loose
      /\ l # "id"
  BY DEF ConnFieldAt
<1> HIDE DEF g
<1>5. InPart(g.name, i, c)
  BY <1>1, <1>2, <1>3, <1>4, Zenon
<1>6. InPart(g.src, i, c)
  BY <1>1, <1>2, <1>3, <1>4, Zenon
<1>7. InPart(g.dst, IF i = doc.loose THEN 0 ELSE i, c)
  BY <1>1, <1>2, <1>3, <1>4, Zenon
<1>8. ConnOf(g, i, c)
  BY <1>1, <1>2, <1>4, <1>5, <1>6, <1>7, Zenon DEF ConnOf
<1> QED
  BY <1>8, Zenon DEF g

(* A field of a connection is read as the flow says.                       *)
LEMMA ConnFieldTaken ==
  ASSUME ParserAssumption, UnreadOK, ArraysOK, format = "YAML", ReadLine,
         NEW i, NEW t, NEW c, ConnHere(i, t), i # 0,
         NEW k \in Keys, NEW v \in Int, ConnFieldAt(k, v, i, t + 1),
         Like(Head(unread), Line("field", k, v), c)
  PROVE  ConnReadAs(Line("field", k, v), i, t, c)
<1> DEFINE m == Line("field", k, v)
<1>1. m.kind = "field" /\ m.key = k /\ m.val = v /\ m \in YamlLine
  <2>1. m \in YamlLine
    BY LineTyped, Zenon
  <2> QED
    BY <2>1 DEF Line
<1> HIDE DEF m
<1>2. Like(Head(unread), m, c)
  BY Zenon DEF m
<1>3. /\ Kind = "field" /\ ValueOf(Val, v, c) /\ Key \in {k, "other"}
      /\ Head(unread) = m => Key = k /\ Val = v
  BY <1>1, <1>2, LikeIs, Zenon DEF Kind, Key, Val
<1>4. Val \in Int
  BY HeadTyped, LineRead, Zenon
<1>5. /\ i \in Nat /\ t \in Nat /\ doc \in Documents /\ i \in 1 .. Len(doc.rels)
      /\ t # 0 /\ doc.rels[i] \in Nat /\ ConnPlace(doc, i, t)
  <2>1. /\ i \in Nat /\ t \in Nat /\ doc \in Documents /\ i \in 1 .. Len(doc.rels)
        /\ t # 0
    BY ConnHereIs, Zenon
  <2> QED
    BY <2>1, DocumentIs, Zenon DEF ConnHere
<1>6. conn # 0 => conns[conn] \in Conn /\ ConnIs(conns[conn], i, t)
  BY ConnHereIs, Zenon
<1> DEFINE e == WithField(conns[conn], Key, Val)
<1>7. ConnBecomes(e) /\ (conn # 0 => within' = IF Key = "source relationship names"
                                              THEN "relationships" ELSE "connection")
  BY <1>3, ConnFieldRead, Zenon
<1> HIDE DEF Key, Val, Kind
<1>8. conn # 0 => ConnOf(e, i, c)
  <2>1. conn # 0 => ConnOf(conns[conn], i, c)
    BY <1>5, <1>6, ConnOfIs, Zenon
  <2> QED
    BY <1>3, <1>4, <1>6, <2>1, FieldKeeps, Zenon
<1>9. conn # 0 /\ Head(unread) = m =>
        /\ ConnIs(e, i, t + 1)
        /\ within' = IF t + 1 = 4 THEN "relationships" ELSE "connection"
  <2> SUFFICES ASSUME conn # 0, Head(unread) = m
               PROVE  /\ ConnIs(e, i, t + 1)
                      /\ within' = IF t + 1 = 4 THEN "relationships" ELSE "connection"
    BY Zenon
  <2>1. Key = k /\ Val = v
    BY <1>3, Zenon
  <2>2. /\ ConnIs(WithField(conns[conn], k, v), i, t + 1)
        /\ k = "source relationship names" <=> t + 1 = 4
    BY <1>5, <1>6, FieldAdds, Zenon
  <2> QED
    BY <1>7, <2>1, <2>2, Zenon
<1> HIDE DEF e
<1>10. ConnReadAs(m, i, t, c)
  BY <1>7, <1>8, <1>9, ConnBecomesIs, Zenon
<1> QED
  BY <1>10 DEF m

(* The first relationship is the one that counts.                          *)
LEMMA ListAdds ==
  ASSUME NEW e \in Conn, NEW i \in Nat, NEW t \in Nat, doc.rels[i] \in Nat,
         ConnIs(e, i, t), t + 1 \in 5 .. 4 + doc.rels[i], NEW c, ConnOf(e, i, c),
         NEW w \in Int, ValueOf(w, (t + 1) - 4, c)
  PROVE  /\ t # 4 => ConnIs(e, i, t + 1)
         /\ t = 4 => /\ ConnOf([e EXCEPT !.rel = w], i, c)
                     /\ w = 1 => ConnIs([e EXCEPT !.rel = w], i, t + 1)
<1> DEFINE b == doc.rels[i]
<1>1. /\ b # 0 /\ ~(t + 1 > 4 + b) /\ ~(t > 4 + b) /\ t + 1 >= 2 /\ t >= 2
      /\ t + 1 >= 3 /\ t >= 3 /\ t + 1 > 4 /\ (t # 4 <=> t > 4)
      /\ t = 4 => (t + 1) - 4 = 1
  <2> HIDE DEF b
  <2>1. b \in Nat /\ t + 1 \in 5 .. 4 + b
    BY DEF b
  <2> QED
    BY <2>1
<1>2. /\ e.id = i /\ e.name = (IF t >= 2 THEN i ELSE 0)
      /\ e.src = (IF t >= 3 THEN i ELSE 0)
      /\ e.dst = (IF t > 4 + b THEN i ELSE 0)
      /\ e.rel = (IF t > 4 /\ b # 0 THEN 1 ELSE Success)
  BY Zenon DEF ConnIs
<1>3. t # 4 => ConnIs(e, i, t + 1)
  BY <1>1, <1>2, Zenon DEF ConnIs
<1> DEFINE g == [e EXCEPT !.rel = w]
<1>4. g.id = e.id /\ g.rel = w /\ g.name = e.name /\ g.src = e.src /\ g.dst = e.dst
  BY DEF Conn
<1> HIDE DEF g, b
<1>5. t = 4 /\ w = 1 => ConnIs(g, i, t + 1)
  BY <1>1, <1>2, <1>4, Zenon DEF ConnIs, b
<1>6. t = 4 => ConnOf(g, i, c)
  <2>1. SaidRel(i) = 1
    BY <1>1, Zenon DEF SaidRel, b
  <2>2. t = 4 => InPart(w, 1, c)
    BY <1>1, Zenon DEF InPart
  <2> QED
    BY <1>4, <2>1, <2>2, Zenon DEF ConnOf
<1> QED
  BY <1>3, <1>5, <1>6, Zenon DEF g

LEMMA ListCounted ==
  ASSUME NEW t \in Nat
  PROVE  /\ (t + 1) - 4 \in Int /\ (t = 4 => (t + 1) - 4 = 1)
         /\ \A k \in Nat : t + 1 \in 5 .. 4 + k => t + 1 # 4
OBVIOUS

(* A relationship is read as the flow says.                                *)
LEMMA ConnListTaken ==
  ASSUME ParserAssumption, UnreadOK, ArraysOK, format = "YAML", ReadLine,
         NEW i, NEW t, NEW c, ConnHere(i, t), i # 0,
         t + 1 \in 5 .. 4 + doc.rels[i],
         Like(Head(unread), Line("list", "", (t + 1) - 4), c)
  PROVE  ConnReadAs(Line("list", "", (t + 1) - 4), i, t, c)
<1> DEFINE v == (t + 1) - 4
           m == Line("list", "", v)
<1>5. /\ i \in Nat /\ t \in Nat /\ doc \in Documents /\ i \in 1 .. Len(doc.rels)
      /\ t # 0 /\ doc.rels[i] \in Nat /\ ConnPlace(doc, i, t)
  <2>1. /\ i \in Nat /\ t \in Nat /\ doc \in Documents /\ i \in 1 .. Len(doc.rels)
        /\ t # 0
    BY ConnHereIs, Zenon
  <2> QED
    BY <2>1, DocumentIs, Zenon DEF ConnHere
<1>0. v \in Int /\ t \in Nat
  BY <1>5, ListCounted, Zenon
<1> HIDE DEF v
<1>1. m.kind = "list" /\ m.val = v /\ m \in YamlLine
  <2>1. "" \in Keys
    BY DEF Keys
  <2>2. m \in YamlLine
    BY <1>0, <2>1, LineTyped, Zenon
  <2> QED
    BY <2>2 DEF Line
<1> HIDE DEF m
<1>2. Like(Head(unread), m, c)
  BY Zenon DEF m, v
<1>3. /\ Kind = "list" /\ ValueOf(Val, v, c)
      /\ Head(unread) = m => Val = v
  BY <1>1, <1>2, LikeIs, Zenon DEF Kind, Val
<1>4. Val \in Int
  BY HeadTyped, LineRead, Zenon
<1>6. conn # 0 => conns[conn] \in Conn /\ ConnIs(conns[conn], i, t)
  BY ConnHereIs, Zenon
<1>7. /\ t = 4 => ConnBecomes([conns[conn] EXCEPT !.rel = Val])
      /\ t # 4 => ConnBecomes(conns[conn])
      /\ conn # 0 => within' = "connection"
  BY <1>3, ConnListRead, Zenon
<1> HIDE DEF Val, Kind
<1>8. conn # 0 => ConnOf(conns[conn], i, c)
  BY <1>5, <1>6, ConnOfIs, Zenon
<1>9. conn # 0 =>
        /\ t # 4 => ConnIs(conns[conn], i, t + 1)
        /\ t = 4 => /\ ConnOf([conns[conn] EXCEPT !.rel = Val], i, c)
                    /\ Val = 1 => ConnIs([conns[conn] EXCEPT !.rel = Val], i, t + 1)
  BY <1>3, <1>4, <1>5, <1>6, <1>8, ListAdds, Zenon DEF v
<1>10. t + 1 # 4 /\ (t = 4 => v = 1)
  BY <1>0, <1>5, ListCounted, Zenon DEF v
<1>11. CASE t = 4
  <2> DEFINE e == [conns[conn] EXCEPT !.rel = Val]
  <2>1. conn # 0 => ConnOf(e, i, c)
    BY <1>9, <1>11, Zenon
  <2>2. conn # 0 /\ Head(unread) = m =>
          /\ ConnIs(e, i, t + 1)
          /\ within' = IF t + 1 = 4 THEN "relationships" ELSE "connection"
    BY <1>3, <1>7, <1>9, <1>10, <1>11, Zenon
  <2>3. ConnBecomes(e)
    BY <1>7, <1>11, Zenon
  <2> HIDE DEF e
  <2>4. ConnReadAs(m, i, t, c)
    BY <2>1, <2>2, <2>3, ConnBecomesIs, Zenon
  <2> QED
    BY <2>4 DEF m, v
<1>12. CASE t # 4
  <2>2. conn # 0 /\ Head(unread) = m =>
          /\ ConnIs(conns[conn], i, t + 1)
          /\ within' = IF t + 1 = 4 THEN "relationships" ELSE "connection"
    BY <1>7, <1>9, <1>10, <1>12, Zenon
  <2>3. ConnBecomes(conns[conn])
    BY <1>7, <1>12, Zenon
  <2> DEFINE e == conns[conn]
  <2>5. ConnBecomes(e) /\ (conn # 0 => ConnOf(e, i, c))
    BY <1>8, <2>3, Zenon
  <2>6. conn # 0 /\ Head(unread) = m =>
          /\ ConnIs(e, i, t + 1)
          /\ within' = IF t + 1 = 4 THEN "relationships" ELSE "connection"
    BY <2>2, Zenon
  <2> HIDE DEF e
  <2>4. ConnReadAs(m, i, t, c)
    BY <2>5, <2>6, ConnBecomesIs, Zenon
  <2> QED
    BY <2>4 DEF m, v
<1> QED
  BY <1>11, <1>12

(* The next line of a connection.                                          *)
LEMMA ConnLineTaken ==
  ASSUME ParserAssumption, UnreadOK, ArraysOK, format = "YAML", ReadLine,
         NEW i, NEW t, NEW c, ConnHere(i, t), t < ConnSize(doc, i),
         Like(Head(unread), ConnLine(doc, i, t + 1), c)
  PROVE  ConnReadAs(ConnLine(doc, i, t + 1), i, t, c)
<1>1. /\ i \in Nat /\ t \in Nat /\ doc \in Documents
      /\ i # 0 => i \in 1 .. Len(doc.rels) /\ t # 0
  BY ConnHereIs, Zenon
<1>2. i # 0 /\ i \in 1 .. Len(doc.rels) /\ t # 0
  <2>1. i # 0
    BY <1>1 DEF ConnSize
  <2> QED
    BY <1>1, <2>1, Zenon
<1>3. t + 1 \in 1 .. ConnSize(doc, i) /\ t + 1 # 1 /\ 0 \in Int /\ i \in Int
  <2>1. ConnSize(doc, i) \in Nat
    BY <1>1, <1>2, ConnLineIs, Zenon
  <2> QED
    BY <1>1, <1>2, <2>1
<1>4. ASSUME NEW k \in Keys, NEW v \in Int, ConnFieldAt(k, v, i, t + 1),
             ConnLine(doc, i, t + 1) = Line("field", k, v)
      PROVE  ConnReadAs(ConnLine(doc, i, t + 1), i, t, c)
  <2> DEFINE m == ConnLine(doc, i, t + 1)
             f == Line("field", k, v)
  <2>1. m = f /\ Like(Head(unread), f, c)
    BY <1>4
  <2>2. ConnReadAs(f, i, t, c)
    BY <1>2, <1>4, <2>1, ConnFieldTaken, Zenon
  <2> HIDE DEF m, f
  <2>3. ConnReadAs(m, i, t, c)
    BY <2>1, <2>2, Zenon
  <2> QED
    BY <2>3 DEF m
<1>5. CASE t + 1 = 2
  <2>3. ConnLine(doc, i, 2) = Line("field", "name", i)
    BY <1>1, <1>2, ConnLineIs, Zenon
  <2>1. ConnLine(doc, i, t + 1) = Line("field", "name", i)
    BY <1>5, <2>3, Zenon
  <2>2. ConnFieldAt("name", i, i, t + 1) /\ "name" \in Keys
    BY <1>5 DEF ConnFieldAt, Keys
  <2> QED
    BY <1>3, <1>4, <2>1, <2>2, Zenon
<1>6. CASE t + 1 = 3
  <2>3. ConnLine(doc, i, 3) = Line("field", "source id", i)
    BY <1>1, <1>2, ConnLineIs, Zenon
  <2>1. ConnLine(doc, i, t + 1) = Line("field", "source id", i)
    BY <1>6, <2>3, Zenon
  <2>2. ConnFieldAt("source id", i, i, t + 1) /\ "source id" \in Keys
    BY <1>6 DEF ConnFieldAt, Keys
  <2> QED
    BY <1>3, <1>4, <2>1, <2>2, Zenon
<1>7. CASE t + 1 = 4
  <2>3. ConnLine(doc, i, 4) = Line("field", "source relationship names", 0)
    BY <1>1, <1>2, ConnLineIs, Zenon
  <2>1. ConnLine(doc, i, t + 1) = Line("field", "source relationship names", 0)
    BY <1>7, <2>3, Zenon
  <2>2. /\ ConnFieldAt("source relationship names", 0, i, t + 1)
        /\ "source relationship names" \in Keys
    BY <1>7 DEF ConnFieldAt, Keys
  <2> QED
    BY <1>3, <1>4, <2>1, <2>2, Zenon
<1>8. CASE i # doc.loose /\ t + 1 = 5 + doc.rels[i]
  <2>1. ConnLine(doc, i, 5 + doc.rels[i]) = Line("field", "destination id", i)
    BY <1>1, <1>2, <1>8, ConnLineIs, Zenon
  <2>2. ConnLine(doc, i, t + 1) = Line("field", "destination id", i)
    BY <1>8, <2>1, Zenon
  <2>3. ConnFieldAt("destination id", i, i, t + 1) /\ "destination id" \in Keys
    BY <1>8, Zenon DEF ConnFieldAt, Keys
  <2> QED
    BY <1>3, <1>4, <2>2, <2>3, Zenon
<1>9. CASE t + 1 \in 5 .. 4 + doc.rels[i]
  <2>1. ConnLine(doc, i, t + 1) = Line("list", "", (t + 1) - 4)
    BY <1>1, <1>2, <1>9, ConnLineIs, Zenon
  <2> DEFINE m == ConnLine(doc, i, t + 1)
             f == Line("list", "", (t + 1) - 4)
  <2>2. m = f /\ Like(Head(unread), f, c)
    BY <2>1
  <2>3. ConnReadAs(f, i, t, c)
    BY <1>2, <1>9, <2>2, ConnListTaken, Zenon
  <2> HIDE DEF m, f
  <2>4. ConnReadAs(m, i, t, c)
    BY <2>2, <2>3, Zenon
  <2> QED
    BY <2>4 DEF m
<1>10. \/ t + 1 \in 1 .. 4 \/ t + 1 \in 5 .. 4 + doc.rels[i]
       \/ i # doc.loose /\ t + 1 = 5 + doc.rels[i]
  BY <1>1, <1>2, <1>3, ConnLineIs, Zenon
<1>11. t + 1 \in 1 .. 4 => t + 1 = 2 \/ t + 1 = 3 \/ t + 1 = 4
  <2>1. \A k \in Int : k \in 1 .. 4 /\ k # 1 => k = 2 \/ k = 3 \/ k = 4
    OBVIOUS
  <2>2. t + 1 \in Int
    <3>1. t \in Nat
      BY <1>1, Zenon
    <3> QED
      BY <3>1
  <2> QED
    BY <1>3, <2>1, <2>2, Zenon
<1> QED
  BY <1>5, <1>6, <1>7, <1>8, <1>9, <1>10, <1>11, Zenon

(* Connections of which the first is complete, but for the last of them.   *)
ConnsPart(q, c) ==
  /\ Len(q) <= MaxConns /\ Len(q) <= Len(doc.rels)
  /\ \A x \in 1 .. Len(q) : /\ x < Len(q) => q[x] = SaidConn(x)
                           /\ ConnOf(q[x], x, c)

(* What is said of a connection is part of it.                             *)
LEMMA SaidIsPart ==
  ASSUME format # "JSON", NEW i, NEW c
  PROVE  ConnOf(SaidConn(i), i, c)
<1> DEFINE d == IF i = doc.loose THEN 0 ELSE i
           r == SaidRel(i)
<1>1. SaidConn(i) = [id |-> i, name |-> i, src |-> i, dst |-> d, rel |-> r]
  BY Zenon DEF SaidConn
<1> HIDE DEF d, r
<1>2. /\ SaidConn(i).id = i /\ SaidConn(i).name = i /\ SaidConn(i).src = i
      /\ SaidConn(i).dst = d /\ SaidConn(i).rel = r
  BY <1>1
<1>3. \A v : InPart(v, v, c)
  BY Zenon DEF InPart, ValueOf
<1> QED
  BY <1>2, <1>3, Zenon DEF ConnOf, d, r

ConnsReadTo(c) == nodes' = nodes /\ ConnsPart(conns', c)

(* A line of the current connection is read.                               *)
LEMMA ConnLineStep ==
  ASSUME ParserAssumption, UnreadOK, ArraysOK, format = "YAML", ReadLine,
         NEW i, NEW t, NEW c, ConnHere(i, t), t < ConnSize(doc, i), NEW u,
         NextIs(u, ConnLine(doc, i, t + 1), ConnUnread(doc, i, t + 1)),
         Like(Head(unread), Head(u), c)
  PROVE  /\ ConnsReadTo(c)
         /\ unread = u => (InConns(unread))'
<1> DEFINE m == ConnLine(doc, i, t + 1)
<1>1. Head(u) = m /\ Tail(u) = ConnUnread(doc, i, t + 1)
  BY Zenon DEF NextIs
<1>2. ConnReadAs(m, i, t, c)
  <2>1. Like(Head(unread), m, c)
    BY <1>1, Zenon
  <2> QED
    BY <2>1, ConnLineTaken, Zenon
<1>3. /\ nodes' = nodes /\ section' = section /\ conn' = conn
      /\ Len(conns') = Len(conns)
      /\ \A x \in 1 .. Len(conns) : x # conn => conns'[x] = conns[x]
      /\ conn # 0 =>
           /\ ConnOf(conns'[conn], i, c)
           /\ Head(unread) = m =>
                /\ ConnIs(conns'[conn], i, t + 1)
                /\ within' = IF t + 1 = 4 THEN "relationships" ELSE "connection"
  BY <1>2, Zenon DEF ConnReadAs
<1>4. /\ i \in Nat /\ i \in 0 .. Len(doc.rels) /\ t \in Nat /\ doc \in Documents
      /\ i # 0 => i \in 1 .. Len(doc.rels) /\ t # 0
      /\ Len(conns) \in Nat /\ MaxConns \in Nat /\ Len(conns) <= i
      /\ conn # 0 => conn = i /\ Len(conns) = i
      /\ \A x \in 1 .. Len(conns) : x # conn => x < i /\ conns[x] = SaidConn(x)
  BY ConnHereIs, Zenon
<1>5. /\ section = "Connections" /\ ConnPlace(doc, i, t) /\ NodesRead
      /\ conn = IF i <= MaxConns THEN i ELSE 0
      /\ Len(conns) = Least(MaxConns, i)
  BY Zenon DEF ConnHere, ConnsAt
<1>6. Len(conns) <= MaxConns /\ Len(conns) <= Len(doc.rels)
  <2>1. Len(doc.rels) \in Nat
    BY <1>4, DocumentIs, Zenon
  <2> QED
    BY <1>4, <1>5, <2>1 DEF Least
<1>7. ConnsReadTo(c)
  <2>1. ASSUME NEW x \in 1 .. Len(conns')
        PROVE  /\ x < Len(conns') => conns'[x] = SaidConn(x)
               /\ ConnOf(conns'[x], x, c)
    <3>1. x \in 1 .. Len(conns)
      BY <1>3, <2>1, Zenon
    <3>2. CASE x = conn
      <4>1. conn # 0 /\ ~(x < Len(conns')) /\ x = i
        BY <1>3, <1>4, <3>1, <3>2
      <4> QED
        BY <1>3, <3>2, <4>1, Zenon
    <3>3. CASE x # conn
      <4>1. conns'[x] = SaidConn(x)
        BY <1>3, <1>4, <3>1, <3>3, Zenon
      <4> QED
        BY <4>1, SaidIsPart
    <3> QED
      BY <3>2, <3>3
  <2>2. Len(conns') <= MaxConns /\ Len(conns') <= Len(doc.rels)
    BY <1>3, <1>6, Zenon
  <2> QED
    BY <1>3, <2>1, <2>2, Zenon DEF ConnsReadTo, ConnsPart
<1>8. ASSUME unread = u
      PROVE  (InConns(unread))'
  <2>1. Head(unread) = m
    BY <1>1, <1>8, Zenon
  <2>2. ConnPlace(doc, i, t + 1)
    <3>1. i # 0
      BY <1>4 DEF ConnSize
    <3>2. ConnSize(doc, i) \in Nat
      BY <1>4, <3>1, ConnLineIs, Zenon
    <3>3. t + 1 \in 0 .. ConnSize(doc, i) /\ t + 1 # 0
      BY <1>4, <3>2
    <3> QED
      BY <1>5, <3>3, Zenon DEF ConnPlace
  <2>3. ASSUME NEW x \in 1 .. Len(conns')
        PROVE  IF x < i THEN conns'[x] = SaidConn(x) ELSE ConnIs(conns'[x], i, t + 1)
    <3>1. x \in 1 .. Len(conns)
      BY <1>3, <2>3, Zenon
    <3>2. CASE x = conn
      <4>1. conn # 0 /\ ~(x < i)
        BY <1>4, <3>1, <3>2
      <4> QED
        BY <1>3, <2>1, <3>2, <4>1, Zenon
    <3>3. CASE x # conn
      BY <1>3, <1>4, <3>1, <3>3, Zenon
    <3> QED
      BY <3>2, <3>3
  <2>4. BecomesConn(i, t + 1)
    <3>1. ConnsAt(conns', i, t + 1)
      BY <1>3, <1>5, <2>3, Zenon DEF ConnsAt
    <3>2. conn' # 0 => within' = IF t + 1 = 4 THEN "relationships" ELSE "connection"
      BY <1>3, <2>1, Zenon
    <3>3. conn' = IF i <= MaxConns THEN i ELSE 0
      BY <1>3, <1>5, Zenon
    <3> QED
      BY <1>3, <1>5, <2>2, <3>1, <3>2, <3>3, Zenon DEF BecomesConn
  <2> DEFINE v == Tail(u)
  <2>5. /\ unread' = v /\ doc' = doc /\ format' = format
    BY <1>8, LineRead, Zenon
  <2>6. v = ConnUnread(doc, i, t + 1)
    BY <1>1
  <2> HIDE DEF v
  <2>7. (InConns(v))'
    BY <1>3, <1>5, <2>4, <2>5, <2>6, InConnsNext, Zenon
  <2> QED
    BY <2>5, <2>7, Zenon
<1> QED
  BY <1>7, <1>8, Zenon

(* A connection that begins.                                               *)
LEMMA NewConn ==
  ASSUME NEW i \in Nat, NEW c, NEW v \in Int, ValueOf(v, i, c)
  PROVE  LET e == [EmptyConn EXCEPT !.id = v]
         IN  /\ e \in Conn /\ ConnOf(e, i, c)
             /\ v = i /\ doc.rels[i] \in Nat => ConnIs(e, i, 1)
<1> DEFINE e == [EmptyConn EXCEPT !.id = v]
<1>1. e \in Conn
  BY ConnsTyped, Zenon
<1>2. e.id = v /\ e.name = 0 /\ e.src = 0 /\ e.dst = 0 /\ e.rel = Success
  BY DEF EmptyConn
<1> HIDE DEF e
<1>3. ConnOf(e, i, c)
  BY <1>2, Zenon DEF ConnOf, InPart
<1>4. v = i /\ doc.rels[i] \in Nat => ConnIs(e, i, 1)
  <2>1. \A b \in Nat : ~(1 >= 2) /\ ~(1 >= 3) /\ ~(1 > 4 + b) /\ ~(1 > 4)
    OBVIOUS
  <2> QED
    BY <1>2, <2>1, Zenon DEF ConnIs
<1> QED
  BY <1>1, <1>3, <1>4, Zenon DEF e

(* The first line of a connection is read.                                 *)
LEMMA ConnItemStep ==
  ASSUME ParserAssumption, UnreadOK, PlacesOK, ArraysOK, format = "YAML", ReadLine,
         NEW i, NEW t, NEW c, ConnHere(i, t), t = ConnSize(doc, i), NEW u,
         i + 1 <= Len(doc.rels),
         NextIs(u, Line("item", "id", i + 1), ConnUnread(doc, i + 1, 1)),
         Like(Head(unread), Head(u), c)
  PROVE  /\ ConnsReadTo(c)
         /\ unread = u => (InConns(unread))'
<1> DEFINE m == Line("item", "id", i + 1)
           e == [EmptyConn EXCEPT !.id = Val]
           full == ~(Len(conns) < MaxConns)
<1>1. Head(u) = m /\ Tail(u) = ConnUnread(doc, i + 1, 1)
  BY Zenon DEF NextIs
<1>2. /\ i \in Nat /\ i \in 0 .. Len(doc.rels) /\ t \in Nat /\ doc \in Documents
      /\ i # 0 => i \in 1 .. Len(doc.rels)
      /\ Len(conns) \in Nat /\ MaxConns \in Nat /\ conns \in Seq(Conn)
      /\ Len(conns) <= i
      /\ conn # 0 => /\ conn = i /\ i # 0 /\ conns[conn] \in Conn
                     /\ ConnIs(conns[conn], i, t)
      /\ \A x \in 1 .. Len(conns) : x # conn => conns[x] = SaidConn(x)
  BY ConnHereIs, Zenon
<1>3. /\ section = "Connections" /\ NodesRead /\ Len(conns) = Least(MaxConns, i)
  BY Zenon DEF ConnHere, ConnsAt
<1>4. /\ i + 1 \in Nat /\ i + 1 \in 1 .. Len(doc.rels) /\ doc.rels[i + 1] \in Nat
      /\ i + 1 # 0 /\ Len(doc.rels) \in Nat
  <2>1. Len(doc.rels) \in Nat
    BY <1>2, DocumentIs, Zenon
  <2>2. i + 1 \in Nat /\ i + 1 \in 1 .. Len(doc.rels) /\ i + 1 # 0
    BY <1>2, <2>1
  <2> QED
    BY <1>2, <2>1, <2>2, DocumentIs, Zenon
<1>5. /\ Kind = "item" /\ Key = "id" /\ ValueOf(Val, i + 1, c)
      /\ Head(unread) = m => Val = i + 1
  <2>1. m \in YamlLine
    BY <1>4, ItemLineTyped, Zenon
  <2>2. Like(Head(unread), m, c)
    BY <1>1, Zenon
  <2>3. m.kind = "item" /\ m.key = "id" /\ m.val = i + 1
    BY DEF Line
  <2> HIDE DEF m
  <2>4. Head(unread).kind = m.kind /\ ValueOf(Head(unread).val, m.val, c)
    BY <2>1, <2>2, LikeIs, Zenon
  <2>5. m.kind \in {"item", "list"} => Head(unread).key = m.key
    BY <2>1, <2>2, LikeIs, SMT
  <2>6. m.kind \in {"item", "list"}
    BY <2>3
  <2> QED
    BY <2>3, <2>4, <2>5, <2>6, Zenon DEF Kind, Key, Val
<1>6. Val \in Int
  BY HeadTyped, LineRead, Zenon
<1>7. /\ full => conn' = 0 /\ conns' = conns
      /\ ~full => conns' = Append(conns, e) /\ conn' = Len(conns) + 1
      /\ nodes' = nodes /\ section' = section /\ within' = "connection"
  <2>1. ItemId = Val
    BY <1>5, Zenon DEF ItemId
  <2> HIDE DEF Kind, Key, Val, ItemId
  <2>2. IF Len(conns) < MaxConns
        THEN /\ conns' = Append(conns, [EmptyConn EXCEPT !.id = ItemId])
             /\ conn' = Len(conns) + 1
        ELSE conn' = 0 /\ conns' = conns
    BY <1>3, <1>5, ItemRead, Zenon
  <2>3. within' = "connection" /\ UNCHANGED <<section, proc, nodes>>
    BY <1>3, <1>5, ItemRead, Zenon
  <2>4. CASE full
    BY <2>2, <2>3, <2>4, Zenon
  <2>5. CASE ~full
    BY <2>1, <2>2, <2>3, <2>5, Zenon
  <2> QED
    BY <2>4, <2>5, Zenon
<1> HIDE DEF Kind, Key
<1>8. \A x \in 1 .. Len(conns) : conns[x] = SaidConn(x)
  <2> SUFFICES ASSUME NEW x \in 1 .. Len(conns)
               PROVE  conns[x] = SaidConn(x)
    BY Zenon
  <2>1. CASE x = conn
    <3>1. conn # 0
      BY <1>2, <2>1
    <3>2. conns[conn] = SaidConn(i)
      <4>1. format # "JSON"
        OBVIOUS
      <4> QED
        BY <1>2, <3>1, <4>1, ConnComplete, Zenon
    <3> QED
      BY <1>2, <2>1, <3>1, <3>2, Zenon
  <2> QED
    BY <1>2, <2>1, Zenon
<1>9. e \in Conn /\ ConnOf(e, i + 1, c) /\ (Val = i + 1 => ConnIs(e, i + 1, 1))
  <2> HIDE DEF Val
  <2> QED
    BY <1>4, <1>5, <1>6, NewConn, Zenon
<1> HIDE DEF e, Val
<1>10. /\ full => Len(conns) = MaxConns /\ MaxConns <= i
       /\ ~full => Len(conns) = i /\ i + 1 <= MaxConns
  BY <1>2, <1>3 DEF Least
<1>11. /\ ~full => /\ Len(conns') = i + 1 /\ conns'[i + 1] = e /\ conn' = i + 1
                   /\ \A x \in 1 .. i : conns'[x] = conns[x]
  <2> HIDE DEF full
  <2> SUFFICES ASSUME ~full
               PROVE  /\ Len(conns') = i + 1 /\ conns'[i + 1] = e /\ conn' = i + 1
                      /\ \A x \in 1 .. i : conns'[x] = conns[x]
    BY Zenon
  <2>1. /\ Len(conns) = i /\ conns' = Append(conns, e) /\ conn' = Len(conns) + 1
        /\ conns \in Seq(Conn) /\ e \in Conn
    BY <1>2, <1>7, <1>9, <1>10, Zenon
  <2> QED
    BY <2>1
<1> HIDE DEF full
<1>12. \A x \in 1 .. Len(conns') :
         /\ x < i + 1 => conns'[x] = SaidConn(x)
         /\ x < Len(conns') => conns'[x] = SaidConn(x)
         /\ ConnOf(conns'[x], x, c)
         /\ Head(unread) = m /\ ~(x < i + 1) => ConnIs(conns'[x], i + 1, 1)
  <2> SUFFICES ASSUME NEW x \in 1 .. Len(conns')
               PROVE  /\ x < i + 1 => conns'[x] = SaidConn(x)
                      /\ x < Len(conns') => conns'[x] = SaidConn(x)
                      /\ ConnOf(conns'[x], x, c)
                      /\ Head(unread) = m /\ ~(x < i + 1) =>
                           ConnIs(conns'[x], i + 1, 1)
    BY Zenon
  <2>1. CASE full
    <3>1. conns' = conns
      BY <1>7, <2>1, Zenon
    <3>2. conns'[x] = SaidConn(x)
      BY <1>8, <3>1, Zenon
    <3>3. x < i + 1
      BY <1>2, <1>10, <2>1, <3>1
    <3> QED
      BY <3>2, <3>3, SaidIsPart, Zenon
  <2>2. CASE ~full /\ x # i + 1
    <3>1. x \in 1 .. i /\ x \in 1 .. Len(conns)
      BY <1>2, <1>10, <1>11, <2>2
    <3>2. conns'[x] = SaidConn(x) /\ x < i + 1
      <4>1. conns'[x] = SaidConn(x)
        BY <1>8, <1>11, <2>2, <3>1, Zenon
      <4>2. x < i + 1
        BY <1>2, <3>1
      <4> QED
        BY <4>1, <4>2
    <3> QED
      BY <3>2, SaidIsPart, Zenon
  <2>3. CASE ~full /\ x = i + 1
    <3>1. ~(x < i + 1) /\ ~(x < Len(conns'))
      BY <1>2, <1>11, <2>3
    <3> QED
      BY <1>5, <1>9, <1>11, <2>3, <3>1, Zenon
  <2> QED
    BY <2>1, <2>2, <2>3, Zenon
<1>13. ConnsReadTo(c)
  <2>1. Len(conns') <= MaxConns /\ Len(conns') <= Len(doc.rels)
    <3>1. CASE full
      <4>1. conns' = conns
        BY <1>7, <3>1, Zenon
      <4> QED
        BY <1>2, <1>4, <1>10, <3>1, <4>1
    <3>2. CASE ~full
      BY <1>2, <1>4, <1>10, <1>11, <3>2
    <3> QED
      BY <3>1, <3>2
  <2> QED
    BY <1>7, <1>12, <2>1, Zenon DEF ConnsReadTo, ConnsPart
<1>14. ASSUME unread = u
       PROVE  (InConns(unread))'
  <2>1. Head(unread) = m
    BY <1>1, <1>14, Zenon
  <2>2. ConnPlace(doc, i + 1, 1)
    <3>1. ConnSize(doc, i + 1) \in Nat /\ ConnSize(doc, i + 1) >= 4 + doc.rels[i + 1]
      BY <1>2, <1>4, ConnLineIs, Zenon
    <3>2. 1 \in 0 .. ConnSize(doc, i + 1) /\ i + 1 \in 0 .. Len(doc.rels) /\ 1 # 0
      BY <1>4, <3>1
    <3> QED
      BY <3>2, Zenon DEF ConnPlace
  <2>3. ConnsAt(conns', i + 1, 1)
    <3>1. Len(conns') = Least(MaxConns, i + 1)
      <4>1. CASE full
        <5>1. conns' = conns
          BY <1>7, <4>1, Zenon
        <5> QED
          BY <1>2, <1>10, <4>1, <5>1 DEF Least
      <4>2. CASE ~full
        BY <1>2, <1>10, <1>11, <4>2 DEF Least
      <4> QED
        BY <4>1, <4>2
    <3>2. \A x \in 1 .. Len(conns') :
            IF x < i + 1 THEN conns'[x] = SaidConn(x) ELSE ConnIs(conns'[x], i + 1, 1)
      BY <1>12, <2>1, Zenon
    <3> QED
      BY <3>1, <3>2, Zenon DEF ConnsAt
  <2>4. conn' = IF i + 1 <= MaxConns THEN i + 1 ELSE 0
    <3>1. CASE full
      <4>1. conn' = 0
        BY <1>7, <3>1, Zenon
      <4> QED
        BY <1>2, <1>10, <3>1, <4>1
    <3>2. CASE ~full
      BY <1>10, <1>11, <3>2, Zenon
    <3> QED
      BY <3>1, <3>2
  <2>5. BecomesConn(i + 1, 1)
    <3>1. 1 # 4 /\ within' = "connection" /\ section' = "Connections"
      BY <1>3, <1>7
    <3> QED
      BY <2>2, <2>3, <2>4, <3>1, Zenon DEF BecomesConn
  <2> DEFINE v == Tail(u)
  <2>6. /\ unread' = v /\ doc' = doc /\ format' = format
    BY <1>14, LineRead, Zenon
  <2>7. v = ConnUnread(doc, i + 1, 1)
    BY <1>1
  <2> HIDE DEF v
  <2>8. (InConns(v))'
    BY <1>3, <1>7, <2>5, <2>6, <2>7, InConnsNext, Zenon
  <2> QED
    BY <2>6, <2>8, Zenon
<1> QED
  BY <1>13, <1>14, Zenon

----------------------------------------------------------------------------
(* The flow as a whole.                                                    *)

(* The next line of the connections, or what is left of it.                *)
LEMMA ConnsLineStep ==
  ASSUME ParserAssumption, UnreadOK, PlacesOK, ArraysOK, format = "YAML", ReadLine,
         NEW c, NEW u, InConns(u), u # <<>>, Like(Head(unread), Head(u), c)
  PROVE  /\ ConnsReadTo(c) /\ NodesRead
         /\ unread = u => (InConns(unread))'
<1>1. PICK i, t : ConnHere(i, t) /\ u = ConnUnread(doc, i, t)
  BY Zenon DEF InConns
<1>2. /\ i \in Nat /\ i \in 0 .. Len(doc.rels) /\ t \in Nat /\ doc \in Documents
      /\ i # 0 => i \in 1 .. Len(doc.rels)
  BY <1>1, ConnHereIs, Zenon
<1>3. ConnPlace(doc, i, t) /\ NodesRead
  BY <1>1, Zenon DEF ConnHere
<1>4. CASE t < ConnSize(doc, i)
  <2>1. NextIs(u, ConnLine(doc, i, t + 1), ConnUnread(doc, i, t + 1))
    BY <1>1, <1>2, <1>3, <1>4, ConnUnreadIs, Zenon
  <2> QED
    BY <1>1, <1>3, <1>4, <2>1, ConnLineStep, Zenon
<1>5. CASE t = ConnSize(doc, i) /\ i < Len(doc.rels)
  <2>1. NextIs(u, Line("item", "id", i + 1), ConnUnread(doc, i + 1, 1))
    BY <1>1, <1>2, <1>3, <1>5, ConnUnreadIs, Zenon
  <2>2. i + 1 <= Len(doc.rels)
    <3>1. Len(doc.rels) \in Nat
      BY <1>2, DocumentIs, Zenon
    <3> QED
      BY <1>2, <1>5, <3>1
  <2> QED
    BY <1>1, <1>3, <1>5, <2>1, <2>2, ConnItemStep, Zenon
<1>6. ~(t = ConnSize(doc, i) /\ i = Len(doc.rels))
  <2>1. t = ConnSize(doc, i) /\ i = Len(doc.rels) => u = <<>>
    BY <1>1, <1>2, <1>3, ConnUnreadIs, Zenon
  <2> QED
    BY <2>1, Zenon
<1>7. \/ t < ConnSize(doc, i)
      \/ t = ConnSize(doc, i) /\ i < Len(doc.rels)
      \/ t = ConnSize(doc, i) /\ i = Len(doc.rels)
  <2>1. \A a, b, m, n \in Nat : a \in 0 .. b /\ m \in 0 .. n =>
          m < n \/ (m = n /\ a < b) \/ (m = n /\ a = b)
    OBVIOUS
  <2>2. i # 0 => ConnSize(doc, i) \in Nat
    BY <1>2, ConnLineIs, Zenon
  <2>3. ConnSize(doc, 0) = 0
    BY DEF ConnSize
  <2>4. ConnSize(doc, i) \in Nat
    BY <1>2, <2>2, <2>3
  <2>5. Len(doc.rels) \in Nat /\ t \in 0 .. ConnSize(doc, i)
    BY <1>2, <1>3, DocumentIs, Zenon DEF ConnPlace
  <2> QED
    BY <1>2, <2>1, <2>4, <2>5, Zenon
<1> QED
  BY <1>4, <1>5, <1>6, <1>7, Zenon

(* The headers with which a flow begins.                                   *)
InHeaders(u) ==
  /\ u \in {Yaml(doc), Tail(Yaml(doc))} /\ section = "other"
  /\ proc = 0 /\ conn = 0 /\ nodes = <<>> /\ conns = <<>>

(* Before the first line, nothing has been read.                           *)
LEMMA NothingRead ==
  ASSUME ParserAssumption, NEW k \in Nat, NEW c
  PROVE  /\ NodesAre(<<>>, k, c) /\ Complete(<<>>)
         /\ CurrentAt(Len(<<>>), 0, "none", CurProps(<<>>, 0), 0, 0)
         /\ ExactAt(0, "none", CurProps(<<>>, 0), CurType(<<>>, 0), 0, 0)
<1>1. Len(<<>>) = 0 /\ Least(MaxNodes, 0) = 0 /\ 0 <= MaxNodes /\ 1 .. 0 = {}
  BY DEF Least, ParserAssumption
<1>2. NodesAre(<<>>, k, c)
  BY <1>1, Zenon DEF NodesAre
<1>3. Complete(<<>>)
  BY <1>1, Zenon DEF Complete
<1>4. CurrentAt(Len(<<>>), 0, "none", CurProps(<<>>, 0), 0, 0)
  BY <1>1, Zenon DEF CurrentAt
<1>5. ExactAt(0, "none", CurProps(<<>>, 0), CurType(<<>>, 0), 0, 0)
  BY <1>1, Zenon DEF ExactAt
<1> QED
  BY <1>2, <1>3, <1>4, <1>5

(* The headers before the processors are read.                             *)
LEMMA HeadersStep ==
  ASSUME ParserAssumption, UnreadOK, PlacesOK, ArraysOK, format = "YAML", ReadLine,
         NEW c \in BOOLEAN, NEW u, InHeaders(u), Like(Head(unread), Head(u), c)
  PROVE  /\ ProcsReadTo(c)
         /\ unread = u => (InHeaders(unread))' \/ (InProcs(unread))'
<1> DEFINE h == IF u = Yaml(doc) THEN "other" ELSE "Processors"
           m == Line("header", h, 0)
<1>1. /\ u \in {Yaml(doc), Tail(Yaml(doc))} /\ section = "other"
      /\ proc = 0 /\ conn = 0 /\ nodes = <<>> /\ conns = <<>>
  BY Zenon DEF InHeaders
<1>2. /\ doc \in Documents /\ Len(doc.props) \in Nat
      /\ 0 \in 0 .. Len(doc.props)
  <2>1. doc \in Documents
    BY DEF UnreadOK
  <2> QED
    BY <2>1, DocumentIs
<1>3. /\ Head(u) = m
      /\ Tail(u) = IF u = Yaml(doc) THEN Tail(Yaml(doc)) ELSE ProcUnread(doc, 0, 0)
  <2>1. /\ NextIs(Yaml(doc), Line("header", "other", 0), Tail(Yaml(doc)))
        /\ NextIs(Tail(Yaml(doc)), Line("header", "Processors", 0),
                  ProcUnread(doc, 0, 0))
    BY <1>2, YamlIs, Zenon
  <2> QED
    BY <1>1, <2>1, Zenon DEF NextIs
<1>4. m \in YamlLine /\ m.kind = "header" /\ m.key = h
  <2>1. m \in YamlLine
    BY HeadersTyped DEF Sections
  <2> QED
    BY <2>1 DEF Line
<1>5. Kind = "header"
  <2>1. Like(Head(unread), m, c)
    BY <1>3, Zenon
  <2> HIDE DEF m
  <2>2. Head(unread).kind = m.kind
    BY <1>4, <2>1, LikeIs, Zenon
  <2> QED
    BY <1>4, <2>2, Zenon DEF Kind
<1>6. /\ section' = Key /\ within' = "none"
      /\ proc' = 0 /\ conn' = 0 /\ nodes' = <<>> /\ conns' = <<>>
  <2> HIDE DEF Key, Kind
  <2>1. section' = Key /\ within' = "none" /\ UNCHANGED <<proc, conn, nodes, conns>>
    BY <1>5, HeaderRead, Zenon
  <2> QED
    BY <1>1, <2>1
<1>7. /\ unread' = Tail(unread) /\ doc' = doc /\ format' = format
  BY LineRead, Zenon
<1>8. ProcsReadTo(c)
  <2>1. NodesAre(<<>>, 0, c) /\ Complete(<<>>)
    BY NothingRead
  <2>2. NodesAre(nodes', 0, c) /\ Complete(nodes')
    BY <1>6, <2>1, Zenon
  <2> QED
    BY <1>2, <1>6, <2>2, Zenon DEF ProcsReadTo
<1>9. ASSUME unread = u
      PROVE  (InHeaders(unread))' \/ (InProcs(unread))'
  <2>1. section' = h
    <3>1. Key = m.key
      BY <1>3, <1>9, Zenon DEF Key
    <3> QED
      BY <1>4, <1>6, <3>1, Zenon
  <2> DEFINE v == Tail(u)
  <2>2. unread' = v
    BY <1>7, <1>9
  <2>3. CASE u = Yaml(doc)
    <3>1. v = Tail(Yaml(doc)) /\ section' = "other"
      BY <1>3, <2>1, <2>3, Zenon
    <3> HIDE DEF v
    <3>2. v \in {Yaml(doc'), Tail(Yaml(doc'))}
      BY <1>7, <3>1
    <3>3. (InHeaders(v))'
      BY <1>1, <1>6, <1>7, <3>1, <3>2, Zenon DEF InHeaders
    <3> QED
      BY <2>2, <3>3, Zenon
  <2>4. CASE u # Yaml(doc)
    <3>1. v = ProcUnread(doc, 0, 0) /\ section' = "Processors"
      BY <1>3, <2>1, <2>4, Zenon
    <3>2. Becomes(0, 0)
      <4>2. ProcPlace(doc, 0, 0)
        BY <1>2, YamlIs, Zenon
      <4>3. /\ NodesAre(<<>>, 0, FALSE)
            /\ CurrentAt(Len(<<>>), 0, "none", CurProps(<<>>, 0), 0, 0)
            /\ ExactAt(0, "none", CurProps(<<>>, 0), CurType(<<>>, 0), 0, 0)
        BY NothingRead
      <4>4. /\ NodesAre(nodes', 0, FALSE)
            /\ CurrentAt(Len(nodes'), proc', within', CurProps(nodes', proc'), 0, 0)
            /\ ExactAt(proc', within', CurProps(nodes', proc'), CurType(nodes', proc'),
                       0, 0)
        BY <1>6, <4>3, Zenon
      <4>5. 1 .. Len(nodes') = {}
        BY <1>6
      <4> QED
        BY <1>6, <3>1, <4>2, <4>4, <4>5, Zenon DEF Becomes
    <3> HIDE DEF v
    <3>3. (InProcs(v))'
      BY <1>7, <3>1, <3>2, InProcsNext, Zenon
    <3> QED
      BY <2>2, <3>3, Zenon
  <2> QED
    BY <2>3, <2>4
<1> QED
  BY <1>8, <1>9, Zenon

(* Where in the flow u is what is left to read, and what has been read of  *)
(* it: the last value may be cut off where c holds.                        *)
InYaml(u) == InHeaders(u) \/ InProcs(u) \/ InConns(u)

ReadTo(c) ==
  /\ Complete(nodes) /\ ConnsPart(conns, c)
  /\ \E k \in 0 .. Len(doc.props) : NodesAre(nodes, k, c)

LEMMA ConnsPartMore ==
  ASSUME NEW q, NEW c, NEW b, c => b, ConnsPart(q, c)
  PROVE  ConnsPart(q, b)
<1>1. \A v, said : InPart(v, said, c) => InPart(v, said, b)
  BY Zenon DEF InPart, ValueOf
<1>2. \A e, i : ConnOf(e, i, c) => ConnOf(e, i, b)
  BY <1>1, Zenon DEF ConnOf
<1> QED
  BY <1>2, Zenon DEF ConnsPart

(* What is read whole is also so where a line may be cut off.              *)
LEMMA ReadToMore ==
  ASSUME ParserAssumption, UnreadOK, ArraysOK, ReadTo(FALSE), NEW b
  PROVE  ReadTo(b)
<1>1. PICK k \in 0 .. Len(doc.props) : NodesAre(nodes, k, FALSE)
  BY Zenon DEF ReadTo
<1>3. k \in Nat /\ k <= k /\ (FALSE => b)
  <2>1. Len(doc.props) \in Nat
    BY DocumentIs, Zenon DEF UnreadOK
  <2> QED
    BY <2>1
<1>4. nodes \in Seq(Node)
  BY DEF ArraysOK
<1>5. NodesAre(nodes, k, b)
  BY <1>1, <1>3, <1>4, NodesAreMore, Zenon
<1>6. Complete(nodes) /\ ConnsPart(conns, b)
  BY <1>3, ConnsPartMore, Zenon DEF ReadTo
<1> QED
  BY <1>5, <1>6, Zenon DEF ReadTo

LEMMA NoConnsPart ==
  ASSUME ParserAssumption, UnreadOK, NEW q, q = <<>>, NEW c
  PROVE  ConnsPart(q, c)
<1>1. Len(doc.rels) \in Nat /\ MaxConns \in Nat
  BY DocumentIs DEF UnreadOK, ParserAssumption
<1>2. Len(q) = 0 /\ Len(q) <= MaxConns /\ Len(q) <= Len(doc.rels) /\ 1 .. Len(q) = {}
  BY <1>1
<1> QED
  BY <1>2, Zenon DEF ConnsPart

LEMMA HeaderNodes ==
  ASSUME ParserAssumption, UnreadOK, NEW u, InHeaders(u)
  PROVE  ReadTo(FALSE)
<1>1. nodes = <<>> /\ conns = <<>>
  BY Zenon DEF InHeaders
<1>2. 0 \in 0 .. Len(doc.props) /\ 0 \in Nat
  <2>1. Len(doc.props) \in Nat
    BY DocumentIs, Zenon DEF UnreadOK
  <2> QED
    BY <2>1
<1>3. NodesAre(<<>>, 0, FALSE) /\ Complete(<<>>)
  BY <1>2, NothingRead, Zenon
<1>4. NodesAre(nodes, 0, FALSE) /\ Complete(nodes)
  BY <1>1, <1>3, Zenon
<1> QED
  BY <1>1, <1>2, <1>4, NoConnsPart, Zenon DEF ReadTo

(* In the section of the connections, all processors have been read.       *)
LEMMA ConnsRead ==
  ASSUME ParserAssumption, UnreadOK, ArraysOK, format = "YAML", NEW u, InConns(u)
  PROVE  ReadTo(FALSE) /\ NodesRead
<1>1. PICK i, t : ConnHere(i, t) /\ u = ConnUnread(doc, i, t)
  BY Zenon DEF InConns
<1>2. /\ i \in Nat /\ i \in 0 .. Len(doc.rels) /\ t \in Nat /\ doc \in Documents
      /\ i # 0 => i \in 1 .. Len(doc.rels) /\ t # 0
      /\ Len(conns) \in Nat /\ MaxConns \in Nat
      /\ conn # 0 => /\ conn = i /\ i # 0 /\ Len(conns) = i
                     /\ ConnIs(conns[conn], i, t)
      /\ Len(conns) <= i
      /\ \A x \in 1 .. Len(conns) : x # conn => x < i /\ conns[x] = SaidConn(x)
  BY <1>1, ConnHereIs, Zenon
<1>3. /\ ConnPlace(doc, i, t) /\ NodesRead /\ Len(conns) = Least(MaxConns, i)
  BY <1>1, Zenon DEF ConnHere, ConnsAt
<1>4. Len(doc.rels) \in Nat /\ Len(doc.props) \in Nat
  BY <1>2, DocumentIs, Zenon
<1>5. Len(conns) <= MaxConns /\ Len(conns) <= Len(doc.rels)
  BY <1>2, <1>3, <1>4 DEF Least
<1>6. ASSUME NEW x \in 1 .. Len(conns)
      PROVE  /\ x < Len(conns) => conns[x] = SaidConn(x)
             /\ ConnOf(conns[x], x, FALSE)
  <2>1. CASE x = conn
    <3>1. conn # 0 /\ x = i /\ ~(x < Len(conns)) /\ i \in 1 .. Len(doc.rels)
      BY <1>2, <1>6, <2>1
    <3>2. ConnIs(conns[x], i, t)
      BY <1>2, <2>1, <3>1, Zenon
    <3>3. ConnOf(conns[x], i, FALSE)
      BY <1>2, <1>3, <3>1, <3>2, ConnOfIs, Zenon
    <3> QED
      BY <3>1, <3>3, Zenon
  <2>2. CASE x # conn
    <3>1. conns[x] = SaidConn(x)
      BY <1>2, <1>6, <2>2, Zenon
    <3>2. ConnOf(SaidConn(x), x, FALSE)
      BY SaidIsPart
    <3> QED
      BY <3>1, <3>2, Zenon
  <2> QED
    BY <2>1, <2>2
<1>7. ConnsPart(conns, FALSE)
  BY <1>5, <1>6, Zenon DEF ConnsPart
<1>8. NodesAre(nodes, Len(doc.props), FALSE)
  BY <1>3, Zenon DEF NodesRead
<1>9. Len(doc.props) \in 0 .. Len(doc.props) /\ Complete(nodes)
  <2>1. Complete(nodes)
    BY <1>3, Zenon DEF NodesRead
  <2> QED
    BY <1>4, <2>1
<1> QED
  BY <1>3, <1>7, <1>8, <1>9, Zenon DEF ReadTo

(* At every place of the flow, a part of it has been read.                 *)
LEMMA YamlRead ==
  ASSUME ParserAssumption, UnreadOK, PlacesOK, ArraysOK, format = "YAML",
         NEW u, InYaml(u)
  PROVE  ReadTo(FALSE)
<1>1. CASE InHeaders(u)
  BY <1>1, HeaderNodes, Zenon
<1>2. CASE InConns(u)
  BY <1>2, ConnsRead, Zenon
<1>3. CASE InProcs(u)
  <2>1. PICK i, t : Here(i, t)
    BY <1>3, Zenon DEF InProcs
  <2>2. Complete(nodes) /\ i \in 0 .. Len(doc.props)
    BY <2>1, HereIs, Zenon
  <2>3. NodesAre(nodes, i, FALSE) /\ conns = <<>>
    BY <2>1, Zenon DEF Here
  <2> QED
    BY <2>2, <2>3, NoConnsPart, Zenon DEF ReadTo
<1> QED
  BY <1>1, <1>2, <1>3, Zenon DEF InYaml

(* A connection of which no more has been read than what it says.          *)
LEMMA PartOfConnIs ==
  ASSUME format # "JSON", NEW e \in Conn, NEW i, ConnOf(e, i, cut)
  PROVE  PartOfConn(e, SaidConn(i))
<1> DEFINE d == IF i = doc.loose THEN 0 ELSE i
           r == SaidRel(i)
           s == SaidConn(i)
<1>1. SaidConn(i) = [id |-> i, name |-> i, src |-> i, dst |-> d, rel |-> r]
  BY Zenon DEF SaidConn
<1>2. \A v, said : InPart(v, said, cut) => Part(v, said)
  BY Zenon DEF InPart, ValueOf, Part
<1>3. /\ Part(e.id, i) /\ Part(e.name, i) /\ Part(e.src, i) /\ Part(e.dst, d)
      /\ e.rel = Success \/ Part(e.rel, r)
  BY <1>2, Zenon DEF ConnOf
<1> HIDE DEF d, r
<1>4. /\ s["id"] = i /\ s["name"] = i /\ s["src"] = i
      /\ s["dst"] = d /\ s["rel"] = r
  BY <1>1
<1>5. DOMAIN e = {"id", "name", "src", "dst", "rel"}
  BY DEF Conn
<1> HIDE DEF s
<1>6. /\ Part(e["id"], s["id"]) /\ Part(e["name"], s["name"])
      /\ Part(e["src"], s["src"]) /\ Part(e["dst"], s["dst"])
      /\ e["rel"] = Success \/ Part(e["rel"], s["rel"])
  BY <1>3, <1>4, Zenon
<1>7. PartOfConn(e, s)
  <2> SUFFICES ASSUME NEW f \in DOMAIN e
               PROVE  Part(e[f], s[f]) \/ (f = "rel" /\ e.rel = Success)
    BY Zenon DEF PartOfConn
  <2>1. f = "id" \/ f = "name" \/ f = "src" \/ f = "dst" \/ f = "rel"
    BY <1>5
  <2> QED
    BY <1>6, <2>1, Zenon
<1> QED
  BY <1>7, Zenon DEF s

(* What has been read so far is a part of the flow.                        *)
LEMMA PartRead ==
  ASSUME ParserAssumption, UnreadOK, ArraysOK, format # "JSON", ReadTo(cut)
  PROVE  NodesArePart /\ ConnsArePart
<1>1. /\ doc \in Documents /\ nodes \in Seq(Node) /\ Len(nodes) <= MaxNodes
      /\ conns \in Seq(Conn) /\ Len(conns) \in Nat /\ DOMAIN conns = 1 .. Len(conns)
  BY DEF UnreadOK, ArraysOK
<1>2. /\ Complete(nodes)
      /\ Len(conns) <= MaxConns /\ Len(conns) <= Len(doc.rels)
      /\ \A x \in 1 .. Len(conns) : /\ x < Len(conns) => conns[x] = SaidConn(x)
                                   /\ ConnOf(conns[x], x, cut)
  BY Zenon DEF ReadTo, ConnsPart
<1>3. PICK k \in 0 .. Len(doc.props) : NodesAre(nodes, k, cut)
  BY Zenon DEF ReadTo
<1>5. NodesArePart
  <2>1. cut => cut
    OBVIOUS
  <2> QED
    BY <1>1, <1>2, <1>3, <2>1, PartOfFlow, SMT
<1>6. /\ Len(SaidConns) = Least(MaxConns, Len(doc.rels))
      /\ \A x \in 1 .. Len(SaidConns) : SaidConns[x] = SaidConn(x)
  <2>1. doc.loose \in Nat /\ Len(doc.rels) \in Nat
    BY <1>1, DocumentIs, Zenon
  <2>2. /\ HowMany(doc.loose, Len(doc.rels)) = Len(doc.rels)
        /\ \A x : Which(doc.loose, x) = x
    BY <2>1, NumbersAre, Zenon
  <2> QED
    BY <1>1, <2>2, SaidConnsAre, Zenon
<1>7. /\ Len(conns) <= Len(SaidConns)
      /\ \A x \in 1 .. Len(conns) : x \in 1 .. Len(SaidConns)
  <2>1. Len(doc.rels) \in Nat /\ MaxConns \in Nat
    BY <1>1, DocumentIs DEF ParserAssumption
  <2>2. Len(SaidConns) \in Nat /\ Len(conns) <= Len(SaidConns)
    BY <1>1, <1>2, <1>6, <2>1 DEF Least
  <2> QED
    BY <1>1, <2>2
<1>8. ASSUME NEW x \in DOMAIN conns
      PROVE  /\ PartOfConn(conns[x], SaidConns[x])
             /\ x < Len(conns) => conns[x] = SaidConns[x]
  <2>1. x \in 1 .. Len(conns) /\ SaidConns[x] = SaidConn(x)
    BY <1>1, <1>6, <1>7, <1>8, Zenon
  <2>2. conns[x] \in Conn
    BY <1>1, <2>1, SeqIs, Zenon
  <2>3. PartOfConn(conns[x], SaidConn(x))
    BY <1>2, <2>1, <2>2, PartOfConnIs, Zenon
  <2> QED
    BY <1>2, <2>1, <2>3, Zenon
<1> QED
  BY <1>5, <1>7, <1>8, Zenon DEF ConnsArePart

(* JSON is read item by item.                                              *)
Begins(q, all) ==
  Len(q) <= Len(all) /\ \A x \in 1 .. Len(q) : q[x] = all[x]

JsonRead == ~cut /\ Begins(nodes, SaidNodes) /\ Begins(conns, SaidConns)

(* What has been read of the arrays is a part of the flow.                 *)
LEMMA JsonPartRead ==
  ASSUME ParserAssumption, UnreadOK, ArraysOK, JsonRead
  PROVE  NodesArePart /\ ConnsArePart
<1>1. /\ doc \in Documents /\ nodes \in Seq(Node)
      /\ DOMAIN conns = 1 .. Len(conns)
  BY DEF UnreadOK, ArraysOK
<1>2. /\ Len(nodes) <= Len(SaidNodes)
      /\ \A x \in 1 .. Len(nodes) : nodes[x] = SaidNodes[x]
      /\ Len(conns) <= Len(SaidConns)
      /\ \A x \in 1 .. Len(conns) : conns[x] = SaidConns[x]
  BY Zenon DEF JsonRead, Begins
<1>3. NodesArePart
  BY <1>1, <1>2, PartOfItself, Zenon
<1>4. \A e : PartOfConn(e, e)
  BY Zenon DEF PartOfConn, Part
<1> QED
  BY <1>1, <1>2, <1>3, <1>4, Zenon DEF ConnsArePart

(* What has been read after a step.                                        *)
ReadsTo(c) ==
  /\ Complete(nodes') /\ ConnsPart(conns', c)
  /\ \E k \in 0 .. Len(doc.props) : NodesAre(nodes', k, c)

(* What a step reads has been read after it.                               *)
LEMMA ReadsToNext ==
  ASSUME doc' = doc, format' = format, NEW c, c = cut', ReadsTo(c)
  PROVE  (ReadTo(cut))'
<1>1. PICK k \in 0 .. Len(doc.props) : NodesAre(nodes', k, c)
  BY Zenon DEF ReadsTo
<1>3. Complete(nodes') /\ ConnsPart(conns', c)
  BY Zenon DEF ReadsTo
<1>4. (NodesAre(nodes, k, c))' /\ Complete(nodes)'
  BY <1>1, <1>3, NodesStay, Zenon
<1>5. (ConnsPart(conns, c))'
  <2>1. \A x : (SaidConn(x))' = SaidConn(x)
    BY FlowStays, Zenon
  <2>2. \A e, x : (ConnOf(e, x, c))' <=> ConnOf(e, x, c)
    <3>1. \A x : (SaidRel(x))' = SaidRel(x)
      BY Zenon DEF SaidRel
    <3>2. \A v, s : (InPart(v, s, c))' <=> InPart(v, s, c)
      BY Zenon DEF InPart, ValueOf
    <3> QED
      BY <3>1, ZenonT(40) DEF ConnOf, InPart, ValueOf
  <2>3. /\ Len(conns') <= MaxConns /\ Len(conns') <= Len(doc.rels)
        /\ \A x \in 1 .. Len(conns') : /\ x < Len(conns') => conns'[x] = SaidConn(x)
                                      /\ ConnOf(conns'[x], x, c)
    BY <1>3, Zenon DEF ConnsPart
  <2> QED
    BY <2>1, <2>2, <2>3, Zenon DEF ConnsPart
<1>6. k \in 0 .. Len(doc'.props)
  BY <1>1
<1>7. (ReadTo(c))'
  BY <1>4, <1>5, <1>6, Zenon DEF ReadTo
<1> QED
  BY <1>7, Zenon

(* The next line of a flow, or what is left of it.                         *)
LEMMA YamlStep ==
  ASSUME ParserAssumption, UnreadOK, PlacesOK, ArraysOK, format = "YAML", ReadLine,
         NEW c \in BOOLEAN, NEW u, InYaml(u), u # <<>>,
         Like(Head(unread), Head(u), c)
  PROVE  /\ ReadsTo(c)
         /\ unread = u => (InYaml(unread))'
<1>1. ProcsReadTo(c) => ReadsTo(c)
  <2>1. conns' = <<>> => ConnsPart(conns', c)
    <3>1. ConnsPart(<<>>, c)
      BY NoConnsPart, Zenon
    <3> QED
      BY <3>1, Zenon
  <2> QED
    BY <2>1, Zenon DEF ProcsReadTo, ReadsTo
<1>2. ConnsReadTo(c) /\ NodesRead => ReadsTo(c)
  <2> SUFFICES ASSUME ConnsReadTo(c), NodesRead PROVE ReadsTo(c)
    OBVIOUS
  <2>1. nodes' = nodes /\ ConnsPart(conns', c)
    BY Zenon DEF ConnsReadTo
  <2>2. NodesAre(nodes, Len(doc.props), FALSE)
    BY Zenon DEF NodesRead
  <2>3. /\ Len(doc.props) \in Nat /\ Len(doc.props) <= Len(doc.props)
        /\ Len(doc.props) \in 0 .. Len(doc.props) /\ (FALSE => c)
    <3>1. Len(doc.props) \in Nat
      BY DocumentIs, Zenon DEF UnreadOK
    <3> QED
      BY <3>1
  <2>4. NodesAre(nodes, Len(doc.props), c)
    <3>1. nodes \in Seq(Node)
      BY DEF ArraysOK
    <3> QED
      BY <2>2, <2>3, <3>1, NodesAreMore, Zenon
  <2>5. Complete(nodes)
    BY Zenon DEF NodesRead
  <2>6. NodesAre(nodes', Len(doc.props), c) /\ Complete(nodes')
    BY <2>1, <2>4, <2>5, Zenon
  <2> QED
    BY <2>1, <2>3, <2>6, Zenon DEF ReadsTo
<1>3. CASE InHeaders(u)
  BY <1>1, <1>3, HeadersStep, Zenon DEF InYaml
<1>4. CASE InProcs(u)
  BY <1>1, <1>4, ProcsStep, Zenon DEF InYaml
<1>5. CASE InConns(u)
  BY <1>2, <1>5, ConnsLineStep, Zenon DEF InYaml
<1> QED
  BY <1>3, <1>4, <1>5, Zenon DEF InYaml

(* At the end of a body that is whole, all has been read.                  *)
LEMMA YamlEnds ==
  ASSUME ParserAssumption, UnreadOK, PlacesOK, ArraysOK, format = "YAML",
         InYaml(<<>>)
  PROVE  conns = SaidConns /\ nodes = SaidNodes
<1>1. doc \in Documents /\ format # "JSON" /\ conns \in Seq(Conn)
  BY DEF UnreadOK, ArraysOK
<1>2. ~InHeaders(<<>>)
  <2>1. Yaml(doc) # <<>> /\ Tail(Yaml(doc)) # <<>>
    BY <1>1, YamlIs, Zenon DEF NextIs
  <2> QED
    BY <2>1, Zenon DEF InHeaders
<1>3. ~InProcs(<<>>)
  <2> SUFFICES ASSUME NEW i, NEW t, Here(i, t), <<>> = ProcUnread(doc, i, t)
               PROVE  FALSE
    BY Zenon DEF InProcs
  <2>1. \/ ProcLineNext(<<>>, i, t) \/ ProcItemNext(<<>>, i, t)
        \/ ConnsNext(<<>>, i, t)
    BY ProcNextIs, Zenon
  <2> QED
    BY <2>1, Zenon DEF ProcLineNext, ProcItemNext, ConnsNext, NextIs
<1>4. PICK i, t : ConnHere(i, t) /\ <<>> = ConnUnread(doc, i, t)
  BY <1>2, <1>3, Zenon DEF InYaml, InConns
<1>5. /\ i \in Nat /\ i \in 0 .. Len(doc.rels) /\ t \in Nat
      /\ i # 0 => i \in 1 .. Len(doc.rels) /\ t # 0
      /\ Len(conns) \in Nat /\ MaxConns \in Nat
      /\ conn # 0 => /\ conn = i /\ i # 0 /\ conn \in 1 .. Len(conns)
                     /\ conns[conn] \in Conn /\ ConnIs(conns[conn], i, t)
      /\ \A x \in 1 .. Len(conns) : x # conn => conns[x] = SaidConn(x)
  BY <1>4, ConnHereIs, Zenon
<1>6. /\ ConnPlace(doc, i, t) /\ NodesRead /\ Len(conns) = Least(MaxConns, i)
  BY <1>4, Zenon DEF ConnHere, ConnsAt
<1>7. t = ConnSize(doc, i) /\ i = Len(doc.rels)
  <2>1. ~(t < ConnSize(doc, i)) /\ ~(t = ConnSize(doc, i) /\ i < Len(doc.rels))
    <3>1. \A l, v : ~NextIs(ConnUnread(doc, i, t), l, v)
      BY <1>4, Zenon DEF NextIs
    <3> QED
      BY <1>1, <1>6, <3>1, ConnUnreadIs, Zenon
  <2>2. \A a, b, m, n \in Nat : a \in 0 .. b /\ m \in 0 .. n =>
          m < n \/ (m = n /\ a < b) \/ (m = n /\ a = b)
    OBVIOUS
  <2>3. i # 0 => ConnSize(doc, i) \in Nat
    BY <1>1, <1>5, ConnLineIs, Zenon
  <2>4. ConnSize(doc, 0) = 0
    BY DEF ConnSize
  <2>5. ConnSize(doc, i) \in Nat
    BY <1>5, <2>3, <2>4
  <2>6. Len(doc.rels) \in Nat /\ t \in 0 .. ConnSize(doc, i)
    BY <1>1, <1>6, DocumentIs, Zenon DEF ConnPlace
  <2> QED
    BY <1>5, <2>1, <2>2, <2>5, <2>6, Zenon
<1>8. \A x \in 1 .. Len(conns) : conns[x] = SaidConn(x)
  <2>1. conn # 0 => conns[conn] = SaidConn(conn)
    BY <1>1, <1>5, <1>7, ConnComplete, Zenon
  <2>2. conn = 0 => \A x \in 1 .. Len(conns) : x # conn
    BY <1>5
  <2> QED
    BY <1>5, <2>1, <2>2, Zenon
<1>9. /\ Len(SaidConns) = Least(MaxConns, Len(doc.rels)) /\ Listed(SaidConns)
      /\ \A x \in 1 .. Len(SaidConns) : SaidConns[x] = SaidConn(x)
  <2>1. doc.loose \in Nat /\ Len(doc.rels) \in Nat
    BY <1>1, DocumentIs, Zenon
  <2>2. /\ HowMany(doc.loose, Len(doc.rels)) = Len(doc.rels)
        /\ \A x : Which(doc.loose, x) = x
    BY <1>1, <2>1, NumbersAre, Zenon
  <2> QED
    BY <1>1, <2>2, SaidConnsAre, Zenon
<1>10. conns = SaidConns
  <2>1. Listed(conns) /\ Len(conns) = Len(SaidConns)
    BY <1>1, <1>6, <1>7, <1>9, SeqListed, Zenon
  <2> QED
    BY <1>8, <1>9, <2>1, SameListed, Zenon
<1> QED
  BY <1>6, <1>10, Zenon DEF NodesRead

----------------------------------------------------------------------------
(* The arrays of JSON.                                                     *)

(* The items of the two arrays.                                            *)
LEMMA JsonItemsAre ==
  ASSUME ParserAssumption, NEW d \in Documents
  PROVE  /\ Json(d) \in Seq(JsonItem(d))
         /\ Len(Json(d)) = Len(d.props) + Len(d.rels)
         /\ \A i \in 1 .. Len(d.props) : Json(d)[i] = Line("processor", "", i)
         /\ \A i \in 1 .. Len(d.rels) :
              Json(d)[Len(d.props) + i] = Line("connection", "", i)
<1>1. /\ DOMAIN d.props = 1 .. Len(d.props) /\ Len(d.props) \in Nat
      /\ DOMAIN d.rels = 1 .. Len(d.rels) /\ Len(d.rels) \in Nat
      /\ \A i \in 1 .. Len(d.props) : i \in Nat
      /\ \A i \in 1 .. Len(d.rels) : i \in Nat
  BY DocumentIs, Zenon
<1> DEFINE T == JsonItem(d)
           ps == [i \in 1 .. Len(d.props) |-> Line("processor", "", i)]
           cs == [i \in 1 .. Len(d.rels) |-> Line("connection", "", i)]
<1>2. Json(d) = ps \o cs
  BY <1>1, Zenon DEF Json
<1>3. /\ ps \in [1 .. Len(d.props) -> T]
      /\ cs \in [1 .. Len(d.rels) -> T]
  BY <1>1, ItemTyped, Zenon
<1>4. /\ \A i \in 1 .. Len(d.props) : ps[i] = Line("processor", "", i)
      /\ \A i \in 1 .. Len(d.rels) : cs[i] = Line("connection", "", i)
  BY Zenon
<1> HIDE DEF ps, cs, T
<1>5. /\ ps \in Seq(T) /\ cs \in Seq(T)
      /\ Len(ps) = Len(d.props) /\ Len(cs) = Len(d.rels)
  BY <1>1, <1>3, IsSeq, Zenon
<1> DEFINE q == Json(d)
<1>6. q = ps \o cs
  BY <1>2
<1> HIDE DEF q
<1>7. /\ q \in Seq(T) /\ Len(q) = Len(ps) + Len(cs)
      /\ \A i \in 1 .. Len(ps) : q[i] = ps[i]
      /\ \A i \in 1 .. Len(cs) : q[Len(ps) + i] = cs[i]
  <2>1. q \in Seq(T) /\ Joined(q, ps, cs)
    BY <1>5, <1>6, ConcatIs, Zenon
  <2> QED
    BY <2>1, Zenon DEF Joined
<1>8. /\ Len(q) = Len(d.props) + Len(d.rels)
      /\ \A i \in 1 .. Len(d.props) : q[i] = Line("processor", "", i)
      /\ \A i \in 1 .. Len(d.rels) : q[Len(d.props) + i] = Line("connection", "", i)
  <2>1. Len(q) = Len(d.props) + Len(d.rels)
    BY <1>5, <1>7
  <2>2. ASSUME NEW i \in 1 .. Len(d.props)
        PROVE  q[i] = Line("processor", "", i)
    BY <1>4, <1>5, <1>7, <2>2, Zenon
  <2>3. ASSUME NEW i \in 1 .. Len(d.rels)
        PROVE  q[Len(d.props) + i] = Line("connection", "", i)
    <3>1. q[Len(ps) + i] = cs[i] /\ cs[i] = Line("connection", "", i)
      BY <1>4, <1>5, <1>7, <2>3, Zenon
    <3> QED
      BY <1>5, <3>1, Zenon
  <2> QED
    BY <2>1, <2>2, <2>3, Zenon
<1> QED
  BY <1>7, <1>8 DEF T, q

(* What reading one more of k items does to the number that is kept.       *)
CountsNext(n, m, i, k) ==
  LET a == Least(n, HowMany(m, i))
      b == Least(n, HowMany(m, i + 1))
      all == Least(n, HowMany(m, k))
  IN  /\ a \in Nat /\ a <= all
      /\ IF a < n /\ i + 1 # m
         THEN b = a + 1 /\ Which(m, b) = i + 1 /\ b <= all
         ELSE b = a

(* One more item is kept, or not.                                          *)
LEMMA CountedNext ==
  ASSUME format = "JSON", NEW n \in Nat, NEW m \in Nat, NEW k \in Nat, NEW i \in Nat,
         i < k
  PROVE  CountsNext(n, m, i, k)
BY DEF CountsNext, Least, HowMany, Which

(* An item of JSON says of a processor what is kept of it.                 *)
LEMMA JsonPropsAre ==
  ASSUME ParserAssumption, doc \in Documents, format = "JSON",
         NEW i \in 1 .. Len(doc.props)
  PROVE  JsonProps(i) = SaidProps(i)
<1> DEFINE k == doc.props[i]
           from == IF doc.cleared THEN 2 ELSE 1
           upTo == IF k - from + 1 < MaxProps THEN k ELSE from + MaxProps - 1
           m == upTo - from + 1
           s == SaidProps(i)
<1>1. /\ k \in Nat /\ MaxProps \in Nat /\ MaxProps > 0
  BY DocumentIs DEF ParserAssumption
<1>2. JsonProps(i) = [j \in 1 .. m |-> <<from + j - 1, i>>]
  BY Zenon DEF JsonProps
<1>3. /\ Len(s) = Least(MaxProps, HowMany(OneCleared, k))
      /\ Listed(s)
      /\ \A j \in 1 .. Len(s) : s[j] = <<Which(OneCleared, j),
                                         PropVal(i, Which(OneCleared, j))>>
  BY SaidPropsAre, Zenon
<1> HIDE DEF s, k
<1>4. 1 .. m = 1 .. Len(s)
  <2>1. CASE doc.cleared
    <3>1. Len(s) = Least(MaxProps, HowMany(1, k)) /\ from = 2
      BY <1>3, <2>1, Zenon DEF OneCleared
    <3> QED
      BY <1>1, <3>1 DEF Least, HowMany
  <2>2. CASE ~doc.cleared
    <3>1. Len(s) = Least(MaxProps, HowMany(0, k)) /\ from = 1
      BY <1>3, <2>2, Zenon DEF OneCleared
    <3> QED
      BY <1>1, <3>1 DEF Least, HowMany
  <2> QED
    BY <2>1, <2>2
<1>5. ASSUME NEW j \in 1 .. Len(s)
      PROVE  <<from + j - 1, i>> = s[j]
  <2>0. Len(s) \in Nat /\ j \in Nat /\ j > 0 /\ j <= k
    <3>1. Len(s) \in Nat /\ Len(s) <= k
      BY <1>1, <1>3 DEF Least, HowMany, OneCleared
    <3> QED
      BY <1>1, <3>1
  <2>1. CASE doc.cleared
    <3>1. s[j] = <<Which(1, j), PropVal(i, Which(1, j))>> /\ from = 2
      BY <1>3, <2>1, Zenon DEF OneCleared
    <3>2. Which(1, j) = j + 1 /\ j + 1 # 1 /\ 2 + j - 1 = j + 1
      BY <2>0 DEF Which
    <3>3. PropVal(i, j + 1) = i
      BY <3>2, Zenon DEF PropVal
    <3> QED
      BY <3>1, <3>2, <3>3, Zenon
  <2>2. CASE ~doc.cleared
    <3>1. s[j] = <<Which(0, j), PropVal(i, Which(0, j))>> /\ from = 1
      BY <1>3, <2>2, Zenon DEF OneCleared
    <3>2. Which(0, j) = j /\ 1 + j - 1 = j
      BY <2>0 DEF Which
    <3>3. PropVal(i, j) = i
      BY <2>2, Zenon DEF PropVal
    <3> QED
      BY <3>1, <3>2, <3>3, Zenon
  <2> QED
    BY <2>1, <2>2
<1> HIDE DEF m, from
<1>6. [j \in 1 .. m |-> <<from + j - 1, i>>] = [j \in 1 .. Len(s) |-> s[j]]
  BY <1>4, <1>5, Zenon
<1> QED
  BY <1>2, <1>3, <1>6, Zenon DEF Listed, s

(* What is read of a processor is what the document says.                  *)
LEMMA JsonNodeIs ==
  ASSUME ParserAssumption, doc \in Documents, format = "JSON",
         NEW i \in 1 .. Len(doc.props), i # doc.untyped
  PROVE  [id |-> i, type |-> i, props |-> JsonProps(i)] = SaidNode(i)
BY JsonPropsAre, Zenon DEF SaidNode

(* What is read of a connection is what the document says.                 *)
LEMMA JsonConnIs ==
  ASSUME format = "JSON", NEW i \in Int, i # doc.loose
  PROVE  [EmptyConn EXCEPT !.src = i, !.dst = i, !.rel = SaidRel(i)] = SaidConn(i)
<1> DEFINE r == SaidRel(i)
<1>1. SaidConn(i) = [id |-> 0, name |-> 0, src |-> i, dst |-> i, rel |-> r]
  BY Zenon DEF SaidConn
<1> HIDE DEF r
<1> DEFINE e == [EmptyConn EXCEPT !.src = i, !.dst = i, !.rel = r]
<1>2. e \in Conn /\ e.src = i /\ e.dst = i /\ e.rel = r /\ e.id = 0 /\ e.name = 0
  <2>1. r \in Int
    BY DEF r, SaidRel, Success
  <2> QED
    BY <2>1, ConnsTyped DEF EmptyConn
<1> HIDE DEF e
<1>3. e = [id |-> 0, name |-> 0, src |-> i, dst |-> i, rel |-> r]
  BY <1>2 DEF Conn
<1> QED
  BY <1>1, <1>3 DEF r, e

(* One more of all.                                                        *)
LEMMA BeginsMore ==
  ASSUME NEW S, NEW q \in Seq(S), NEW e \in S, NEW all, Begins(q, all),
         Len(q) + 1 <= Len(all), e = all[Len(q) + 1]
  PROVE  LET r == Append(q, e)
         IN  Begins(r, all) /\ Len(r) = Len(q) + 1
<1> DEFINE r == Append(q, e)
<1>1. /\ r \in Seq(S) /\ Len(r) = Len(q) + 1 /\ r[Len(q) + 1] = e
      /\ \A x \in 1 .. Len(q) : r[x] = q[x]
      /\ Len(q) \in Nat
  BY LastAdded
<1> HIDE DEF r
<1>2. ASSUME NEW x \in 1 .. Len(r)
      PROVE  r[x] = all[x]
  <2>1. x \in 1 .. Len(q) \/ x = Len(q) + 1
    BY <1>1
  <2> QED
    BY <1>1, <2>1, Zenon DEF Begins
<1> QED
  BY <1>1, <1>2 DEF r, Begins

(* The items that are left of the arrays after k of them.                  *)
JsonUnread(k) == SubSeq(Json(doc), k + 1, Len(Json(doc)))

LEMMA PlacesIn ==
  ASSUME NEW a \in Nat, NEW b \in Nat, NEW n \in Nat, n = a + b
  PROVE  /\ \A k \in 0 .. a - 1 : k \in Nat /\ k < n /\ k + 1 \in 1 .. a
         /\ \A k \in 0 .. b - 1 : a + k \in Nat /\ a + k < n /\ k + 1 \in 1 .. b
         /\ \A k \in Nat : k < n =>
              /\ k + 1 \in 1 .. n + 1 /\ k + 1 <= n /\ k + 1 \in 1 .. n
              /\ k + 1 + 1 \in 1 .. n + 1
         /\ 1 \in 1 .. n + 1 /\ n + 1 \in 1 .. n + 1
OBVIOUS

(* Which item of the arrays is next.                                       *)
LEMMA JsonNextIs ==
  ASSUME ParserAssumption, doc \in Documents
  PROVE  /\ \A k \in 0 .. Len(doc.props) - 1 :
              NextIs(JsonUnread(k), Line("processor", "", k + 1), JsonUnread(k + 1))
         /\ \A k \in 0 .. Len(doc.rels) - 1 :
              NextIs(JsonUnread(Len(doc.props) + k), Line("connection", "", k + 1),
                     JsonUnread(Len(doc.props) + k + 1))
         /\ JsonUnread(Len(doc.props) + Len(doc.rels)) = <<>>
         /\ JsonUnread(0) = Json(doc)
<1> DEFINE q == Json(doc)
           T == JsonItem(doc)
<1>1. /\ q \in Seq(T) /\ Len(q) = Len(doc.props) + Len(doc.rels)
      /\ \A i \in 1 .. Len(doc.props) : q[i] = Line("processor", "", i)
      /\ \A i \in 1 .. Len(doc.rels) : q[Len(doc.props) + i] = Line("connection", "", i)
  BY JsonItemsAre, Zenon
<1>2. Len(doc.props) \in Nat /\ Len(doc.rels) \in Nat
  BY DocumentIs, Zenon
<1> HIDE DEF q, T
<1>8. /\ Len(doc.props) \in Nat /\ Len(doc.rels) \in Nat
      /\ Len(q) = Len(doc.props) + Len(doc.rels) /\ Len(q) \in Nat
  BY <1>1, <1>2, SeqIs, Zenon
<1>3. \A k : JsonUnread(k) = SubSeq(q, k + 1, Len(q))
  BY Zenon DEF JsonUnread, q
<1>4. ASSUME NEW k \in Nat, k < Len(q)
      PROVE  NextIs(JsonUnread(k), q[k + 1], JsonUnread(k + 1))
  <2>1. k + 1 \in 1 .. Len(q) + 1 /\ k + 1 <= Len(q) /\ k + 1 + 1 \in 1 .. Len(q) + 1
        /\ k + 1 \in 1 .. Len(q)
    BY <1>8, <1>4, PlacesIn, Zenon
  <2>2. /\ SubSeq(q, k + 1, Len(q)) = <<q[k + 1]>> \o SubSeq(q, k + 1 + 1, Len(q))
        /\ SubSeq(q, k + 1 + 1, Len(q)) \in Seq(T) /\ q[k + 1] \in T
    <3>1. q[k + 1] \in T
      BY <1>1, <2>1, SeqIs, Zenon
    <3> QED
      BY <1>1, <2>1, <3>1, SubSeqFirst, Zenon
  <2>3. Before(q[k + 1], JsonUnread(k + 1), JsonUnread(k))
    BY <1>3, <2>2, Zenon DEF Before
  <2>4. JsonUnread(k + 1) \in Seq(T)
    BY <1>3, <2>2, Zenon
  <2> QED
    BY <2>2, <2>3, <2>4, NextOf, Zenon
<1>5. ASSUME NEW k \in 0 .. Len(doc.props) - 1
      PROVE  NextIs(JsonUnread(k), Line("processor", "", k + 1), JsonUnread(k + 1))
  <2>1. k \in Nat /\ k < Len(q) /\ k + 1 \in 1 .. Len(doc.props)
    BY <1>8, PlacesIn, Zenon
  <2>2. q[k + 1] = Line("processor", "", k + 1)
    BY <1>1, <2>1, Zenon
  <2> QED
    BY <1>4, <2>1, <2>2, Zenon
<1>6. ASSUME NEW k \in 0 .. Len(doc.rels) - 1
      PROVE  NextIs(JsonUnread(Len(doc.props) + k), Line("connection", "", k + 1),
                    JsonUnread(Len(doc.props) + k + 1))
  <2> DEFINE n == Len(doc.props) + k
  <2>1. n \in Nat /\ n < Len(q) /\ k + 1 \in 1 .. Len(doc.rels)
    BY <1>8, PlacesIn, Zenon
  <2>4. n + 1 = Len(doc.props) + (k + 1)
    <3>1. \A a \in Nat : \A b \in Int : a + b + 1 = a + (b + 1)
      OBVIOUS
    <3>2. k \in Int
      OBVIOUS
    <3> QED
      BY <1>8, <3>1, <3>2
  <2>2. q[n + 1] = Line("connection", "", k + 1)
    <3>1. q[Len(doc.props) + (k + 1)] = Line("connection", "", k + 1)
      BY <1>1, <2>1, Zenon
    <3> HIDE DEF n
    <3> QED
      BY <2>4, <3>1, Zenon
  <2>3. NextIs(JsonUnread(n), Line("connection", "", k + 1), JsonUnread(n + 1))
    <3> HIDE DEF n
    <3> QED
      BY <1>4, <2>1, <2>2, Zenon
  <2> QED
    BY <2>3
<1>7. JsonUnread(Len(doc.props) + Len(doc.rels)) = <<>> /\ JsonUnread(0) = q
  <2>1. 1 \in 1 .. Len(q) + 1 /\ Len(q) + 1 \in 1 .. Len(q) + 1
    BY <1>8, PlacesIn, Zenon
  <2>3. 0 + 1 = 1
    OBVIOUS
  <2>2. SubSeq(q, Len(q) + 1, Len(q)) = <<>> /\ SubSeq(q, 1, Len(q)) = q
    BY <1>1, <2>1, SubSeqFirst, Zenon
  <2> QED
    BY <1>1, <1>3, <2>2, <2>3, Zenon
<1> QED
  BY <1>5, <1>6, <1>7, Zenon DEF q

(* How far the arrays have been read.                                      *)
InJsonProcs(i) ==
  /\ i \in 0 .. Len(doc.props) /\ unread = JsonUnread(i)
  /\ Len(nodes) = Least(MaxNodes, HowMany(doc.untyped, i)) /\ conns = <<>>

InJsonConns(j) ==
  /\ j \in 0 .. Len(doc.rels) /\ unread = JsonUnread(Len(doc.props) + j)
  /\ Len(nodes) = Len(SaidNodes)
  /\ Len(conns) = Least(MaxConns, HowMany(doc.loose, j))

InJson == (\E i : InJsonProcs(i)) \/ (\E j : InJsonConns(j))

(* At the end of the processors begin the connections.                     *)
LEMMA JsonProcsEnd ==
  ASSUME ParserAssumption, doc \in Documents, InJsonProcs(Len(doc.props))
  PROVE  InJsonConns(0)
<1>1. /\ Len(doc.props) \in Nat /\ Len(doc.rels) \in Nat /\ MaxConns \in Nat
      /\ doc.loose \in Nat
  BY DocumentIs DEF ParserAssumption
<1>2. Least(MaxConns, HowMany(doc.loose, 0)) = 0
  BY <1>1 DEF Least, HowMany
<1>3. /\ 0 \in 0 .. Len(doc.rels) /\ Len(doc.props) + 0 = Len(doc.props)
      /\ Len(<<>>) = 0
  BY <1>1
<1>4. Len(SaidNodes) = Least(MaxNodes, HowMany(doc.untyped, Len(doc.props)))
  BY SaidNodesAre, Zenon
<1> QED
  BY <1>2, <1>3, <1>4, Zenon DEF InJsonProcs, InJsonConns

LEMMA JsonReadNext ==
  ASSUME doc' = doc, format' = format, cut' = cut, JsonRead,
         Begins(nodes', SaidNodes), Begins(conns', SaidConns)
  PROVE  JsonRead'
BY FlowStays, Zenon DEF JsonRead, Begins

(* An item of the processors is read.                                      *)
LEMMA JsonProcStep ==
  ASSUME ParserAssumption, UnreadOK, ArraysOK, format = "JSON", ReadLine, JsonRead,
         NEW i, InJsonProcs(i), i # Len(doc.props)
  PROVE  JsonRead' /\ (InJsonProcs(i + 1))'
<1>1. /\ doc \in Documents /\ nodes \in Seq(Node)
      /\ Len(doc.props) \in Nat /\ doc.untyped \in Nat /\ MaxNodes \in Nat
  BY DocumentIs DEF UnreadOK, ArraysOK, ParserAssumption
<1>2. /\ i \in 0 .. Len(doc.props) /\ unread = JsonUnread(i)
      /\ Len(nodes) = Least(MaxNodes, HowMany(doc.untyped, i)) /\ conns = <<>>
      /\ Begins(nodes, SaidNodes) /\ Begins(conns, SaidConns)
  BY Zenon DEF InJsonProcs, JsonRead
<1>3. /\ i \in Nat /\ i < Len(doc.props) /\ i + 1 \in 1 .. Len(doc.props)
      /\ i \in 0 .. Len(doc.props) - 1 /\ i + 1 \in 0 .. Len(doc.props)
  BY <1>1, <1>2
<1>4. NextIs(JsonUnread(i), Line("processor", "", i + 1), JsonUnread(i + 1))
  BY <1>1, <1>3, JsonNextIs, Zenon
<1>5. Kind = "processor" /\ Val = i + 1 /\ Tail(unread) = JsonUnread(i + 1)
  <2>1. /\ Head(unread) = Line("processor", "", i + 1)
        /\ Tail(unread) = JsonUnread(i + 1)
    BY <1>2, <1>4, Zenon DEF NextIs
  <2>2. \A v : Line("processor", "", v).kind = "processor"
               /\ Line("processor", "", v).val = v
    BY DEF Line
  <2> QED
    BY <2>1, <2>2, Zenon DEF Kind, Val
<1>6. /\ unread' = Tail(unread) /\ doc' = doc /\ format' = format
      /\ cut' = cut
  BY LineRead, Zenon
<1> DEFINE n == [id |-> i + 1, type |-> i + 1, props |-> JsonProps(i + 1)]
<1>7. /\ conns' = conns
      /\ nodes' = IF Len(nodes) < MaxNodes /\ i + 1 # doc.untyped
                  THEN Append(nodes, n) ELSE nodes
  <2>1. ReadJsonProcessor
    BY <1>5, ReadBy, Zenon
  <2> HIDE DEF Val
  <2>2. /\ conns' = conns
        /\ nodes' = IF Len(nodes) < MaxNodes /\ Val # doc.untyped
              THEN Append(nodes, [id |-> Val, type |-> Val,
                                  props |-> JsonProps(Val)])
              ELSE nodes
    BY <2>1, Zenon DEF ReadJsonProcessor
  <2> QED
    BY <1>5, <2>2, Zenon
<1>8. n \in Node
  <2>1. i + 1 \in DOMAIN doc.props
    BY <1>1, <1>3, DocumentIs, Zenon
  <2> QED
    BY <2>1, JsonPropsTyped DEF Node
<1>9. i + 1 # doc.untyped => n = SaidNode(i + 1)
  BY <1>1, <1>3, JsonNodeIs, Zenon
<1>10. /\ Len(SaidNodes) = Least(MaxNodes, HowMany(doc.untyped, Len(doc.props)))
       /\ \A x \in 1 .. Len(SaidNodes) : SaidNodes[x] = SaidNode(Which(doc.untyped, x))
  BY <1>1, SaidNodesAre, Zenon
<1> HIDE DEF n
<1> DEFINE a == Len(nodes)
           b == Least(MaxNodes, HowMany(doc.untyped, i + 1))
<1>11. /\ a \in Nat /\ a <= Len(SaidNodes)
       /\ IF a < MaxNodes /\ i + 1 # doc.untyped
          THEN b = a + 1 /\ Which(doc.untyped, b) = i + 1 /\ b <= Len(SaidNodes)
          ELSE b = a
  <2>1. CountsNext(MaxNodes, doc.untyped, i, Len(doc.props))
    BY <1>1, <1>3, CountedNext, Zenon
  <2> QED
    BY <1>2, <1>10, <2>1, Zenon DEF CountsNext
<1>12. Begins(nodes', SaidNodes) /\ Len(nodes') = b
  <2>1. CASE a < MaxNodes /\ i + 1 # doc.untyped
    <3>1. b = a + 1 /\ Which(doc.untyped, b) = i + 1 /\ b <= Len(SaidNodes)
      BY <1>11, <2>1, Zenon
    <3>2. b \in 1 .. Len(SaidNodes) /\ a + 1 <= Len(SaidNodes)
      <4>1. Len(SaidNodes) \in Nat
        BY <1>1, <1>10 DEF Least, HowMany
      <4> HIDE DEF a, b
      <4> QED
        BY <1>11, <3>1, <4>1
    <3>3. SaidNodes[a + 1] = n
      <4>1. SaidNodes[b] = SaidNode(Which(doc.untyped, b))
        BY <1>10, <3>2, Zenon
      <4> HIDE DEF a, b
      <4> QED
        BY <1>9, <2>1, <3>1, <4>1, Zenon
    <3>4. n = SaidNodes[Len(nodes) + 1] /\ Len(nodes) + 1 <= Len(SaidNodes)
      BY <3>2, <3>3
    <3>5. Begins(Append(nodes, n), SaidNodes) /\ Len(Append(nodes, n)) = Len(nodes) + 1
      BY <1>1, <1>2, <1>8, <3>4, BeginsMore
    <3>6. nodes' = Append(nodes, n)
      BY <1>7, <2>1
    <3> HIDE DEF b
    <3> QED
      BY <3>1, <3>5, <3>6, Zenon
  <2>2. CASE ~(a < MaxNodes /\ i + 1 # doc.untyped)
    <3>1. nodes' = nodes /\ b = Len(nodes)
      BY <1>7, <1>11, <2>2
    <3> QED
      BY <1>2, <3>1, Zenon
  <2> QED
    BY <2>1, <2>2
<1>13. JsonRead'
  <2>1. Begins(conns', SaidConns)
    BY <1>2, <1>7, Zenon
  <2> QED
    BY <1>6, <1>12, <2>1, JsonReadNext, Zenon
<1>14. (InJsonProcs(i + 1))'
  <2>1. /\ i + 1 \in 0 .. Len(doc'.props) /\ conns' = <<>>
    BY <1>2, <1>3, <1>6, <1>7
  <2>2. unread' = (JsonUnread(i + 1))'
    BY <1>5, <1>6, Zenon DEF JsonUnread
  <2>3. Len(nodes') = (Least(MaxNodes, HowMany(doc.untyped, i + 1)))'
    BY <1>6, <1>12, Zenon DEF HowMany, Least
  <2> QED
    BY <2>1, <2>2, <2>3, Zenon DEF InJsonProcs
<1> QED
  BY <1>13, <1>14

(* An item of the connections is read.                                     *)
LEMMA JsonConnStep ==
  ASSUME ParserAssumption, UnreadOK, ArraysOK, format = "JSON", ReadLine, JsonRead,
         NEW j, InJsonConns(j)
  PROVE  JsonRead' /\ (InJsonConns(j + 1))'
<1>1. /\ doc \in Documents /\ conns \in Seq(Conn)
      /\ Len(doc.rels) \in Nat /\ doc.loose \in Nat /\ MaxConns \in Nat
      /\ Len(doc.props) \in Nat
  BY DocumentIs DEF UnreadOK, ArraysOK, ParserAssumption
<1>2. /\ j \in 0 .. Len(doc.rels) /\ unread = JsonUnread(Len(doc.props) + j)
      /\ Len(conns) = Least(MaxConns, HowMany(doc.loose, j))
      /\ Len(nodes) = Len(SaidNodes)
      /\ Begins(nodes, SaidNodes) /\ Begins(conns, SaidConns)
  BY Zenon DEF InJsonConns, JsonRead
<1>3. /\ j \in Nat /\ j < Len(doc.rels) /\ j + 1 \in 1 .. Len(doc.rels)
      /\ j \in 0 .. Len(doc.rels) - 1 /\ j + 1 \in 0 .. Len(doc.rels)
      /\ j + 1 \in Int
  <2>1. j # Len(doc.rels)
    BY <1>1, <1>2, LineRead, JsonNextIs, Zenon
  <2>2. \A m \in Nat : \A k \in 0 .. m : k # m =>
          /\ k \in Nat /\ k < m /\ k + 1 \in 1 .. m
          /\ k \in 0 .. m - 1 /\ k + 1 \in 0 .. m /\ k + 1 \in Int
    OBVIOUS
  <2> QED
    BY <1>1, <1>2, <2>1, <2>2, Zenon
<1>4. NextIs(JsonUnread(Len(doc.props) + j), Line("connection", "", j + 1),
             JsonUnread(Len(doc.props) + j + 1))
  BY <1>1, <1>3, JsonNextIs, Zenon
<1>5. /\ Kind = "connection" /\ Val = j + 1
      /\ Tail(unread) = JsonUnread(Len(doc.props) + j + 1)
  <2>1. /\ Head(unread) = Line("connection", "", j + 1)
        /\ Tail(unread) = JsonUnread(Len(doc.props) + j + 1)
    BY <1>2, <1>4, Zenon DEF NextIs
  <2>2. \A v : Line("connection", "", v).kind = "connection"
               /\ Line("connection", "", v).val = v
    BY DEF Line
  <2> QED
    BY <2>1, <2>2, Zenon DEF Kind, Val
<1>6. /\ unread' = Tail(unread) /\ doc' = doc /\ format' = format
      /\ cut' = cut
  BY LineRead, Zenon
<1> DEFINE e == [EmptyConn EXCEPT !.src = j + 1, !.dst = j + 1, !.rel = SaidRel(j + 1)]
<1>7. /\ nodes' = nodes
      /\ conns' = IF Len(conns) < MaxConns /\ j + 1 # doc.loose
                  THEN Append(conns, e) ELSE conns
  <2>1. ReadJsonConnection
    BY <1>5, ReadBy, Zenon
  <2> HIDE DEF Val
  <2>2. /\ nodes' = nodes
        /\ conns' = IF Len(conns) < MaxConns /\ Val # doc.loose
                    THEN Append(conns, [EmptyConn EXCEPT
                           !.src = Val, !.dst = Val, !.rel = SaidRel(Val)])
                    ELSE conns
    BY <2>1, Zenon DEF ReadJsonConnection
  <2> QED
    BY <1>5, <2>2, Zenon
<1>8. e \in Conn
  <2>1. SaidRel(j + 1) \in Int
    BY DEF SaidRel, Success
  <2> QED
    BY <1>3, <2>1, ConnsTyped
<1>9. j + 1 # doc.loose => e = SaidConn(j + 1)
  BY <1>3, JsonConnIs
<1>10. /\ Len(SaidConns) = Least(MaxConns, HowMany(doc.loose, Len(doc.rels)))
       /\ \A x \in 1 .. Len(SaidConns) : SaidConns[x] = SaidConn(Which(doc.loose, x))
  BY <1>1, SaidConnsAre, Zenon
<1> HIDE DEF e
<1> DEFINE a == Len(conns)
           b == Least(MaxConns, HowMany(doc.loose, j + 1))
<1>11. /\ a \in Nat /\ a <= Len(SaidConns)
       /\ IF a < MaxConns /\ j + 1 # doc.loose
          THEN b = a + 1 /\ Which(doc.loose, b) = j + 1 /\ b <= Len(SaidConns)
          ELSE b = a
  <2>1. CountsNext(MaxConns, doc.loose, j, Len(doc.rels))
    BY <1>1, <1>3, CountedNext, Zenon
  <2> QED
    BY <1>2, <1>10, <2>1, Zenon DEF CountsNext
<1>12. Begins(conns', SaidConns) /\ Len(conns') = b
  <2>1. CASE a < MaxConns /\ j + 1 # doc.loose
    <3>1. b = a + 1 /\ Which(doc.loose, b) = j + 1 /\ b <= Len(SaidConns)
      BY <1>11, <2>1, Zenon
    <3>2. b \in 1 .. Len(SaidConns) /\ a + 1 <= Len(SaidConns)
      <4>1. Len(SaidConns) \in Nat
        BY <1>1, <1>10 DEF Least, HowMany
      <4> HIDE DEF a, b
      <4> QED
        BY <1>11, <3>1, <4>1
    <3>3. SaidConns[a + 1] = e
      <4>1. SaidConns[b] = SaidConn(Which(doc.loose, b))
        BY <1>10, <3>2, Zenon
      <4> HIDE DEF a, b
      <4> QED
        BY <1>9, <2>1, <3>1, <4>1, Zenon
    <3>4. e = SaidConns[Len(conns) + 1] /\ Len(conns) + 1 <= Len(SaidConns)
      BY <3>2, <3>3
    <3>5. Begins(Append(conns, e), SaidConns) /\ Len(Append(conns, e)) = Len(conns) + 1
      BY <1>1, <1>2, <1>8, <3>4, BeginsMore
    <3>6. conns' = Append(conns, e)
      BY <1>7, <2>1
    <3> HIDE DEF b
    <3> QED
      BY <3>1, <3>5, <3>6, Zenon
  <2>2. CASE ~(a < MaxConns /\ j + 1 # doc.loose)
    <3>1. conns' = conns /\ b = Len(conns)
      BY <1>7, <1>11, <2>2
    <3> QED
      BY <1>2, <3>1, Zenon
  <2> QED
    BY <2>1, <2>2
<1>13. JsonRead'
  <2>1. Begins(nodes', SaidNodes)
    BY <1>2, <1>7, Zenon
  <2> QED
    BY <1>6, <1>12, <2>1, JsonReadNext, Zenon
<1>14. (InJsonConns(j + 1))'
  <2>1. j + 1 \in 0 .. Len(doc'.rels)
    BY <1>3, <1>6
  <2>2. unread' = (JsonUnread(Len(doc.props) + (j + 1)))'
    <3>1. Len(doc.props) + j + 1 = Len(doc.props) + (j + 1)
      <4>1. \A a1 \in Nat : \A b1 \in Nat : a1 + b1 + 1 = a1 + (b1 + 1)
        OBVIOUS
      <4> QED
        BY <1>1, <1>3, <4>1, Zenon
    <3>2. PICK k : k = Len(doc.props) + (j + 1)
      OBVIOUS
    <3>3. unread' = JsonUnread(k)
      BY <1>5, <1>6, <3>1, <3>2, Zenon
    <3>4. unread' = (JsonUnread(k))'
      BY <1>6, <3>3, Zenon DEF JsonUnread
    <3> QED
      BY <1>6, <3>2, <3>4, Zenon
  <2>3. Len(conns') = (Least(MaxConns, HowMany(doc.loose, j + 1)))'
    BY <1>6, <1>12, Zenon DEF HowMany, Least
  <2>4. Len(nodes') = Len(SaidNodes')
    BY <1>2, <1>6, <1>7, FlowStays, Zenon
  <2> QED
    BY <2>1, <2>2, <2>3, <2>4, Zenon DEF InJsonConns
<1> QED
  BY <1>13, <1>14

(* An item is read.                                                        *)
LEMMA JsonStep ==
  ASSUME ParserAssumption, UnreadOK, ArraysOK, format = "JSON", ReadLine, JsonRead,
         InJson
  PROVE  JsonRead' /\ InJson'
<1>1. CASE \E j : InJsonConns(j)
  BY <1>1, JsonConnStep, Zenon DEF InJson
<1>2. CASE \E i : InJsonProcs(i)
  <2>1. PICK i : InJsonProcs(i)
    BY <1>2
  <2>2. CASE i # Len(doc.props)
    BY <2>1, <2>2, JsonProcStep, Zenon DEF InJson
  <2>3. CASE i = Len(doc.props)
    <3>1. doc \in Documents
      BY DEF UnreadOK
    <3>2. InJsonConns(0)
      BY <2>1, <2>3, <3>1, JsonProcsEnd, Zenon
    <3> QED
      BY <3>2, JsonConnStep, Zenon DEF InJson
  <2> QED
    BY <2>2, <2>3
<1> QED
  BY <1>1, <1>2, Zenon DEF InJson

(* At the end of the arrays, all has been read.                            *)
LEMMA JsonEnds ==
  ASSUME ParserAssumption, UnreadOK, ArraysOK, format = "JSON", JsonRead, InJson,
         unread = <<>>
  PROVE  conns = SaidConns /\ nodes = SaidNodes
<1>1. /\ doc \in Documents /\ conns \in Seq(Conn) /\ nodes \in Seq(Node)
      /\ Len(doc.rels) \in Nat /\ Len(doc.props) \in Nat
  BY DocumentIs DEF UnreadOK, ArraysOK
<1>2. /\ \A i \in 0 .. Len(doc.props) - 1 : JsonUnread(i) # <<>>
      /\ \A j \in 0 .. Len(doc.rels) - 1 : JsonUnread(Len(doc.props) + j) # <<>>
  BY <1>1, JsonNextIs, Zenon DEF NextIs
<1>3. \A m \in Nat : \A k \in 0 .. m : k \in 0 .. m - 1 \/ k = m
  OBVIOUS
<1>4. \E j : InJsonConns(j)
  <2>1. ASSUME NEW i, InJsonProcs(i)
        PROVE  i = Len(doc.props)
    <3>1. i \in 0 .. Len(doc.props) /\ unread = JsonUnread(i)
      BY <2>1, Zenon DEF InJsonProcs
    <3> QED
      BY <1>1, <1>2, <1>3, <3>1, Zenon
  <2> QED
    BY <1>1, <2>1, JsonProcsEnd, Zenon DEF InJson
<1>5. PICK j : InJsonConns(j)
  BY <1>4
<1>6. /\ j \in 0 .. Len(doc.rels) /\ unread = JsonUnread(Len(doc.props) + j)
      /\ Len(nodes) = Len(SaidNodes)
      /\ Len(conns) = Least(MaxConns, HowMany(doc.loose, j))
      /\ \A x \in 1 .. Len(nodes) : nodes[x] = SaidNodes[x]
      /\ \A x \in 1 .. Len(conns) : conns[x] = SaidConns[x]
  BY <1>5, Zenon DEF InJsonConns, JsonRead, Begins
<1>7. j = Len(doc.rels)
  BY <1>1, <1>2, <1>3, <1>6, Zenon
<1>8. /\ Len(SaidConns) = Least(MaxConns, HowMany(doc.loose, Len(doc.rels)))
      /\ Listed(SaidConns) /\ Listed(SaidNodes)
  BY <1>1, SaidConnsAre, SaidNodesAre, Zenon
<1>9. Listed(conns) /\ Listed(nodes) /\ Len(conns) = Len(SaidConns)
  BY <1>1, <1>6, <1>7, <1>8, SeqListed, Zenon
<1> QED
  BY <1>6, <1>8, <1>9, SameListed, Zenon

----------------------------------------------------------------------------
(* The steps of flow_parse.                                                *)

(* A step that only changes what is left to read keeps the place in the    *)
(* flow and what has been read of it.                                      *)
ReadOK ==
  /\ format = "JSON" => JsonRead
  /\ format # "JSON" => ReadTo(cut)

(* The place in the flow depends on these variables.                       *)
LEMMA InYamlStays ==
  ASSUME doc' = doc, format' = format, UNCHANGED placeVars,
         UNCHANGED outVars, NEW u, InYaml(u)
  PROVE  (InYaml(u))'
<1>1. /\ section' = section /\ within' = within /\ proc' = proc /\ conn' = conn
      /\ nodes' = nodes /\ conns' = conns
  BY DEF placeVars, outVars
<1>2. CASE InHeaders(u)
  <2>1. (InHeaders(u))'
    BY <1>1, <1>2, Zenon DEF InHeaders
  <2> QED
    BY <2>1, Zenon DEF InYaml
<1>3. CASE InProcs(u)
  <2>1. PICK i, t : Here(i, t) /\ u = ProcUnread(doc, i, t)
    BY <1>3, Zenon DEF InProcs
  <2>2. /\ section = "Processors" /\ conns = <<>>
        /\ ProcPlace(doc, i, t) /\ NodesAre(nodes, i, FALSE)
        /\ CurrentAt(Len(nodes), proc, within, CurProps(nodes, proc), i, t)
        /\ \A x \in 1 .. Len(nodes) : x < i => nodes[x] = SaidNode(x)
        /\ ExactAt(proc, within, CurProps(nodes, proc), CurType(nodes, proc), i, t)
    BY <2>1, Zenon DEF Here, Placed, Exact
  <2>3. Becomes(i, t)
    BY <1>1, <2>2, Zenon DEF Becomes
  <2>4. (InProcs(u))'
    BY <2>1, <2>3, InProcsNext, Zenon
  <2> QED
    BY <2>4, Zenon DEF InYaml
<1>4. CASE InConns(u)
  <2>1. PICK i, t : ConnHere(i, t) /\ u = ConnUnread(doc, i, t)
    BY <1>4, Zenon DEF InConns
  <2>2. BecomesConn(i, t) /\ NodesRead
    BY <1>1, <2>1, Zenon DEF ConnHere, BecomesConn
  <2>3. (InConns(u))'
    BY <1>1, <2>1, <2>2, InConnsNext, Zenon
  <2> QED
    BY <2>3, Zenon DEF InYaml
<1> QED
  BY <1>2, <1>3, <1>4, Zenon DEF InYaml

(* What has been read depends on these.                                    *)
LEMMA ReadStays ==
  ASSUME doc' = doc, format' = format, cut' = cut, UNCHANGED outVars,
         ReadOK
  PROVE  ReadOK'
<1>1. nodes' = nodes /\ conns' = conns
  BY DEF outVars
<1>2. CASE format = "JSON"
  <2>1. JsonRead
    BY <1>2, Zenon DEF ReadOK
  <2>2. Begins(nodes', SaidNodes) /\ Begins(conns', SaidConns)
    BY <1>1, <2>1, Zenon DEF JsonRead
  <2>3. JsonRead'
    BY <2>1, <2>2, JsonReadNext, Zenon
  <2> QED
    BY <1>2, <2>3, Zenon DEF ReadOK
<1>3. CASE format # "JSON"
  <2>1. ReadTo(cut)
    BY <1>3, Zenon DEF ReadOK
  <2>2. ReadsTo(cut)
    BY <1>1, <2>1, Zenon DEF ReadTo, ReadsTo
  <2>3. cut = cut'
    OBVIOUS
  <2>4. (ReadTo(cut))'
    BY <2>2, <2>3, ReadsToNext, Zenon
  <2> QED
    BY <1>3, <2>4, Zenon DEF ReadOK
<1> QED
  BY <1>2, <1>3

LEMMA NothingReadOK ==
  ASSUME ParserAssumption, UnreadOK, nodes = <<>>, conns = <<>>, ~cut
  PROVE  ReadOK
<1>1. Len(doc.props) \in Nat /\ 0 \in 0 .. Len(doc.props) /\ 0 \in Nat
  BY DocumentIs DEF UnreadOK
<1>2. Len(SaidNodes) \in Nat /\ Len(SaidConns) \in Nat
  BY SaidNodesAre, SaidConnsAre, DocumentIs DEF UnreadOK, ParserAssumption, Least, HowMany
<1>3. JsonRead
  <2>1. /\ Len(<<>>) = 0 /\ 1 .. Len(<<>>) = {}
        /\ 0 <= Len(SaidNodes) /\ 0 <= Len(SaidConns)
    BY <1>2
  <2>2. Begins(<<>>, SaidNodes) /\ Begins(<<>>, SaidConns)
    BY <2>1, Zenon DEF Begins
  <2> QED
    BY <2>2, Zenon DEF JsonRead
<1>4. ReadTo(cut)
  <2>1. NodesAre(<<>>, 0, cut) /\ Complete(<<>>)
    BY <1>1, NothingRead, Zenon
  <2>2. ConnsPart(<<>>, cut)
    BY NoConnsPart, Zenon
  <2> QED
    BY <1>1, <2>1, <2>2, Zenon DEF ReadTo
<1> QED
  BY <1>3, <1>4, Zenon DEF ReadOK

(* Before the format is found out.                                         *)
Untouched ==
  /\ unread = <<>> /\ section = "other" /\ proc = 0 /\ conn = 0
  /\ nodes = <<>> /\ conns = <<>> /\ ~cut

(* The place in the body: where it is cut off, one line may be left, which *)
(* is part of the next.                                                    *)
LeftOf(u, v) ==
  /\ v # <<>> /\ \E l \in Shortened(Head(v)) : u = <<l>>

InBody ==
  /\ format = "JSON" => InJson
  /\ format # "JSON" =>
       /\ format = "YAML"
       /\ ~cut => InYaml(unread)
       /\ cut => unread = <<>> \/ \E v : LeftOf(unread, v) /\ InYaml(v)

(* The inductive part of what is promised: what has been read is a part of *)
(* the flow, and it is what precedes the place in the body.                *)
SoFarOK ==
  /\ cut \in BOOLEAN /\ ReadOK
  /\ status = "called" => Untouched
  /\ status = "reading" => InBody
  /\ WholeFlowIsRead

(* The invariant of flow_parse holds at first.                             *)
LEMMA FlowBegins == ASSUME ParserAssumption, ParserInit, UnreadOK PROVE SoFarOK
<1>1. /\ status = "called" /\ unread = <<>> /\ section = "other" /\ proc = 0
      /\ conn = 0 /\ nodes = <<>> /\ conns = <<>> /\ cut = FALSE
  BY DEF ParserInit
<1>2. ReadOK
  BY <1>1, NothingReadOK, Zenon
<1>3. Untouched
  BY <1>1, Zenon DEF Untouched
<1>4. WholeFlowIsRead
  BY <1>1 DEF WholeFlowIsRead
<1>5. cut \in BOOLEAN /\ status # "reading"
  BY <1>1
<1> QED
  BY <1>2, <1>3, <1>4, <1>5, Zenon DEF SoFarOK

(* It holds after the format has been found out,                           *)
LEMMA DetectStep ==
  ASSUME ParserAssumption, UnreadOK, SoFarOK, Detect
  PROVE  SoFarOK'
<1>1. /\ status = "called" /\ doc' = doc /\ format' = format /\ cut' = cut
      /\ UNCHANGED placeVars /\ UNCHANGED outVars
      /\ section' = section /\ within' = within /\ proc' = proc /\ conn' = conn
      /\ nodes' = nodes /\ conns' = conns
      /\ status' \in {"reading", "ParseError", "InvalidArg"}
      /\ status' = "reading" =>
           \/ format = "YAML" /\ unread' = Yaml(doc)
           \/ format = "JSON" /\ unread' = Json(doc)
  BY DEF Detect, placeVars, outVars
<1>2. /\ ReadOK /\ cut \in BOOLEAN
      /\ section = "other" /\ proc = 0 /\ conn = 0
      /\ nodes = <<>> /\ conns = <<>> /\ ~cut
  BY <1>1, Zenon DEF SoFarOK, Untouched
<1>3. ReadOK'
  BY <1>1, <1>2, ReadStays, Zenon
<1>4. ASSUME status' = "reading" PROVE InBody'
  <2>1. CASE format = "YAML" /\ unread' = Yaml(doc)
    <3>1. (InYaml(unread))'
      BY <1>1, <1>2, <2>1, Zenon DEF InYaml, InHeaders
    <3>2. format' = "YAML" /\ ~cut' /\ format' # "JSON"
      BY <1>1, <1>2, <2>1
    <3> QED
      BY <3>1, <3>2, Zenon DEF InBody
  <2>2. CASE format = "JSON" /\ unread' = Json(doc)
    <3>1. doc \in Documents /\ Len(doc.props) \in Nat /\ 0 \in 0 .. Len(doc.props)
          /\ MaxNodes \in Nat /\ doc.untyped \in Nat
      BY DocumentIs DEF UnreadOK, ParserAssumption
    <3>2. Least(MaxNodes, HowMany(doc.untyped, 0)) = 0 /\ Len(<<>>) = 0
      BY <3>1 DEF Least, HowMany
    <3>3. JsonUnread(0) = Json(doc)
      BY <3>1, JsonNextIs, Zenon
    <3>4. unread' = (JsonUnread(0))'
      BY <1>1, <2>2, <3>3, Zenon DEF JsonUnread
    <3>5. Len(nodes') = (Least(MaxNodes, HowMany(doc.untyped, 0)))'
      <4>1. (Least(MaxNodes, HowMany(doc.untyped, 0)))'
              = Least(MaxNodes, HowMany(doc.untyped, 0))
        BY <1>1, Zenon DEF Least, HowMany
      <4>2. nodes' = <<>>
        BY <1>1, <1>2, Zenon
      <4> QED
        BY <3>2, <4>1, <4>2, Zenon
    <3>6. 0 \in 0 .. Len(doc'.props)
      BY <1>1, <3>1, Zenon
    <3>7. (InJsonProcs(0))'
      BY <1>1, <1>2, <3>4, <3>5, <3>6, Zenon DEF InJsonProcs
    <3>8. format' = "JSON"
      BY <1>1, <2>2
    <3> QED
      BY <3>7, <3>8, Zenon DEF InBody, InJson
  <2> QED
    BY <1>1, <1>4, <2>1, <2>2
<1>5. status' # "called" /\ status' # "Ok"
  BY <1>1
<1>6. WholeFlowIsRead'
  BY <1>5, Zenon DEF WholeFlowIsRead
<1> QED
  BY <1>1, <1>2, <1>3, <1>4, <1>5, <1>6, Zenon DEF SoFarOK

(* after a line or an item has been read,                                  *)
LEMMA ReadLineStep ==
  ASSUME ParserAssumption, UnreadOK, PlacesOK, ArraysOK, SoFarOK, ReadLine
  PROVE  SoFarOK'
<1>1. /\ status = "reading" /\ unread # <<>> /\ unread' = Tail(unread)
      /\ doc' = doc /\ format' = format /\ status' = status /\ cut' = cut
     
  BY LineRead, Zenon
<1>2. /\ ReadOK /\ InBody /\ cut \in BOOLEAN
  BY <1>1, Zenon DEF SoFarOK
<1>3. ReadOK' /\ InBody'
  <2>1. CASE format = "JSON"
    <3>1. JsonRead /\ InJson
      BY <1>2, <2>1, Zenon DEF ReadOK, InBody
    <3>2. JsonRead' /\ InJson'
      BY <2>1, <3>1, JsonStep, Zenon
    <3>3. format' = "JSON"
      BY <1>1, <2>1
    <3> QED
      BY <3>2, <3>3, Zenon DEF ReadOK, InBody
  <2>2. CASE format # "JSON" /\ ~cut
    <3>1. format = "YAML" /\ InYaml(unread)
      BY <1>2, <2>2, Zenon DEF InBody
    <3>2. Like(Head(unread), Head(unread), FALSE) /\ FALSE \in BOOLEAN
      BY Zenon DEF Like
    <3>3. ReadsTo(FALSE) /\ (InYaml(unread))'
      BY <1>1, <3>1, <3>2, YamlStep, Zenon
    <3>4. FALSE = cut' /\ format' = "YAML" /\ ~cut' /\ format' # "JSON"
      BY <1>1, <1>2, <2>2, <3>1
    <3>5. (ReadTo(cut))'
      BY <1>1, <3>3, <3>4, ReadsToNext, Zenon
    <3> QED
      BY <3>3, <3>4, <3>5, Zenon DEF ReadOK, InBody
  <2>3. CASE format # "JSON" /\ cut
    <3>1. /\ format = "YAML"
          /\ \E v : LeftOf(unread, v) /\ InYaml(v)
      BY <1>1, <1>2, <2>3, Zenon DEF InBody
    <3>2. PICK v : LeftOf(unread, v) /\ InYaml(v)
      BY <3>1, Zenon
    <3>3. PICK l \in Shortened(Head(v)) : unread = <<l>>
      BY <3>2, Zenon DEF LeftOf
    <3>4. v # <<>> /\ Head(unread) = l /\ Tail(unread) = <<>>
      <4>1. Head(<<l>>) = l /\ Tail(<<l>>) = <<>>
        OBVIOUS
      <4> QED
        BY <3>2, <3>3, <4>1, Zenon DEF LeftOf
    <3>5. Like(Head(unread), Head(v), TRUE) /\ TRUE \in BOOLEAN
      BY <3>3, <3>4, Zenon DEF Like
    <3>6. ReadsTo(TRUE)
      BY <3>1, <3>2, <3>4, <3>5, YamlStep, Zenon
    <3>7. TRUE = cut' /\ format' = "YAML" /\ format' # "JSON" /\ cut'
      BY <1>1, <1>2, <2>3, <3>1
    <3>8. (ReadTo(cut))'
      BY <1>1, <3>6, <3>7, ReadsToNext, Zenon
    <3>9. unread' = <<>>
      BY <1>1, <3>4, Zenon
    <3> QED
      BY <3>7, <3>8, <3>9, Zenon DEF ReadOK, InBody
  <2> QED
    BY <1>2, <2>1, <2>2, <2>3
<1>4. status' # "called" /\ status' # "Ok"
  BY <1>1
<1>5. WholeFlowIsRead'
  BY <1>4, Zenon DEF WholeFlowIsRead
<1> QED
  BY <1>1, <1>2, <1>3, <1>4, <1>5, Zenon DEF SoFarOK

LEMMA WholeStays ==
  ASSUME doc' = doc, format' = format, UNCHANGED <<status, outVars, cut, pieces>>,
         WholeFlowIsRead
  PROVE  WholeFlowIsRead'
<1>1. /\ status' = status /\ cut' = cut /\ pieces' = pieces
      /\ nodes' = nodes /\ conns' = conns
  BY DEF outVars
<1>2. SaidNodes' = SaidNodes /\ SaidConns' = SaidConns
  BY FlowStays, Zenon
<1>3. (cut' <=> cut) /\ (pieces' = 0 <=> pieces = 0)
  BY <1>1
<1>4. status = "Ok" /\ ~cut /\ pieces = 0 => nodes = SaidNodes /\ conns = SaidConns
  BY Zenon DEF WholeFlowIsRead
<1>5. status' = "Ok" /\ ~cut' /\ pieces' = 0 =>
        nodes' = SaidNodes' /\ conns' = SaidConns'
  BY <1>1, <1>2, <1>3, <1>4, Zenon
<1> QED
  BY <1>5, Zenon DEF WholeFlowIsRead

LEMMA InJsonStays ==
  ASSUME UNCHANGED parseVars, InJson
  PROVE  InJson'
<1>1. /\ doc' = doc /\ format' = format /\ unread' = unread
      /\ nodes' = nodes /\ conns' = conns
  BY DEF parseVars, outVars
<1>2. SaidNodes' = SaidNodes /\ SaidConns' = SaidConns
  BY <1>1, FlowStays, Zenon
<1>3. \A n, k : /\ (Least(MaxNodes, HowMany(doc.untyped, k)))'
                     = Least(MaxNodes, HowMany(doc.untyped, k))
                /\ (Least(MaxConns, HowMany(doc.loose, k)))'
                     = Least(MaxConns, HowMany(doc.loose, k))
                /\ (JsonUnread(n))' = JsonUnread(n)
  BY <1>1, Zenon DEF Least, HowMany, JsonUnread
<1>4. ASSUME NEW i, InJsonProcs(i) PROVE (InJsonProcs(i))'
  BY <1>1, <1>3, <1>4, Zenon DEF InJsonProcs
<1>5. ASSUME NEW j, InJsonConns(j) PROVE (InJsonConns(j))'
  <2>1. (JsonUnread(Len(doc.props) + j))' = JsonUnread(Len(doc.props) + j)
    BY <1>1, Zenon DEF JsonUnread
  <2> QED
    BY <1>1, <1>2, <1>3, <1>5, <2>1, Zenon DEF InJsonConns
<1> QED
  BY <1>4, <1>5, Zenon DEF InJson

(* after a step of something else,                                         *)
LEMMA StutterStep ==
  ASSUME SoFarOK, UNCHANGED parseVars
  PROVE  SoFarOK'
<1>1. /\ doc' = doc /\ format' = format /\ status' = status /\ unread' = unread
      /\ section' = section /\ within' = within /\ proc' = proc /\ conn' = conn
      /\ nodes' = nodes /\ conns' = conns /\ cut' = cut
      /\ UNCHANGED placeVars /\ UNCHANGED outVars
      /\ UNCHANGED <<status, outVars, cut, pieces>>
  BY DEF parseVars, placeVars, outVars, lineVars
<1>0. cut' <=> cut
  BY <1>1
<1>2. ReadOK' /\ WholeFlowIsRead'
  BY <1>1, ReadStays, WholeStays, Zenon DEF SoFarOK
<1>3. ASSUME InBody PROVE InBody'
  <2>1. \A v : InYaml(v) => (InYaml(v))'
    BY <1>1, InYamlStays, Zenon
  <2>2. InJson => InJson'
    BY InJsonStays, Zenon
  <2>3. InYaml(unread) => (InYaml(unread))'
    <3> SUFFICES ASSUME InYaml(unread) PROVE (InYaml(unread))'
      OBVIOUS
    <3>1. PICK w : w = unread
      OBVIOUS
    <3>2. (InYaml(w))'
      BY <2>1, <3>1, Zenon
    <3> QED
      BY <1>1, <3>1, <3>2, Zenon
  <2>4. \A v : LeftOf(unread, v) => (LeftOf(unread, v))'
    BY <1>1, Zenon DEF LeftOf
  <2> QED
    BY <1>0, <1>1, <1>3, <2>1, <2>2, <2>3, <2>4, Zenon DEF InBody
<1>4. Untouched => Untouched'
  BY <1>0, <1>1, Zenon DEF Untouched
<1> QED
  BY <1>1, <1>2, <1>3, <1>4, Zenon DEF SoFarOK

(* where the body is cut off,                                              *)
LEMMA CutStep ==
  ASSUME ParserAssumption, UnreadOK, PlacesOK, ArraysOK, SoFarOK, BodyIsCut
  PROVE  SoFarOK'
<1>1. /\ status = "reading" /\ format = "YAML" /\ unread # <<>> /\ ~cut
      /\ doc' = doc /\ format' = format /\ status' = status
      /\ cut' = TRUE /\ UNCHANGED placeVars /\ UNCHANGED outVars
      /\ nodes' = nodes /\ conns' = conns
      /\ unread' = <<>> \/ \E l \in Shortened(Head(unread)) : unread' = <<l>>
  BY DEF BodyIsCut, placeVars, outVars
<1>2. /\ format # "JSON" /\ status' # "called" /\ status' # "Ok" /\ TRUE = cut'
      /\ format' = "YAML" /\ format' # "JSON" /\ cut' /\ cut' \in BOOLEAN
  BY <1>1
<1>3. InYaml(unread)
  BY <1>1, <1>2, Zenon DEF SoFarOK, InBody
<1>4. (ReadTo(cut))'
  <2>1. ReadTo(FALSE)
    BY <1>1, <1>3, YamlRead, Zenon
  <2>2. ReadTo(TRUE)
    BY <2>1, ReadToMore, Zenon
  <2>3. ReadsTo(TRUE)
    BY <1>1, <2>2, Zenon DEF ReadTo, ReadsTo
  <2> QED
    BY <1>1, <1>2, <2>3, ReadsToNext, Zenon
<1>5. unread' = <<>> \/ \E v : (LeftOf(unread, v))' /\ (InYaml(v))'
  <2>1. PICK w : w = unread
    OBVIOUS
  <2>2. (InYaml(w))'
    <3>1. InYaml(w)
      BY <1>3, <2>1, Zenon
    <3> QED
      BY <1>1, <3>1, InYamlStays, Zenon
  <2>3. unread' = <<>> \/ (LeftOf(unread, w))'
    BY <1>1, <2>1, Zenon DEF LeftOf
  <2> QED
    BY <2>2, <2>3, Zenon
<1>6. InBody'
  BY <1>2, <1>5, Zenon DEF InBody
<1>7. WholeFlowIsRead'
  BY <1>2, Zenon DEF WholeFlowIsRead
<1> QED
  BY <1>1, <1>2, <1>3, <1>4, <1>6, <1>7, Zenon DEF SoFarOK, ReadOK

(* and at the end of the body.                                             *)
LEMMA EndStep ==
  ASSUME ParserAssumption, UnreadOK, PlacesOK, ArraysOK, SoFarOK, EndOfBody
  PROVE  SoFarOK'
<1>1. /\ status = "reading" /\ unread = <<>> /\ cut' = cut
      /\ doc' = doc /\ format' = format /\ nodes' = nodes /\ conns' = conns
      /\ UNCHANGED outVars /\ status' \in {"Ok", "ParseError"}
  BY DEF EndOfBody, outVars
<1>2. ReadOK /\ InBody /\ cut \in BOOLEAN
  BY <1>1, Zenon DEF SoFarOK
<1>3. ReadOK'
  BY <1>1, <1>2, ReadStays, Zenon
<1>4. ASSUME ~cut PROVE conns = SaidConns /\ nodes = SaidNodes
  <2>1. CASE format = "JSON"
    <3>1. JsonRead /\ InJson
      BY <1>2, <2>1, Zenon DEF ReadOK, InBody
    <3> QED
      BY <1>1, <2>1, <3>1, JsonEnds, Zenon
  <2>2. CASE format # "JSON"
    <3>1. format = "YAML" /\ InYaml(unread)
      BY <1>2, <1>4, <2>2, Zenon DEF InBody
    <3>2. InYaml(<<>>)
      BY <1>1, <3>1, Zenon
    <3> QED
      BY <3>1, <3>2, YamlEnds, Zenon
  <2> QED
    BY <2>1, <2>2
<1>5. WholeFlowIsRead'
  <2>1. SaidNodes' = SaidNodes /\ SaidConns' = SaidConns
    BY <1>1, FlowStays, Zenon
  <2> QED
    BY <1>1, <1>4, <2>1, Zenon DEF WholeFlowIsRead
<1>6. /\ status' # "called" /\ status' # "reading"
      /\ cut' \in BOOLEAN
  BY <1>1, <1>2
<1> QED
  BY <1>3, <1>5, <1>6, Zenon DEF SoFarOK

----------------------------------------------------------------------------
(* Lines that are too long.                                                *)

(* What was complete before the first of them, and what the lines are read *)
(* into from there on: only what follows.                                  *)
LongOK ==
  /\ intact.nodes \in Nat /\ intact.conns \in Nat /\ IntactAreSaid
  /\ InProcessor => proc > intact.nodes
  /\ InConnection => conn > intact.conns

(* The first n of q are those of r, too.                                   *)
SameBeginning(q, r, n) ==
  \A x \in 1 .. n : x \in DOMAIN q => x \in DOMAIN r /\ r[x] = q[x]

LEMMA SameBeginningIs ==
  ASSUME NEW S, NEW q \in Seq(S), NEW n \in Nat
  PROVE  /\ SameBeginning(q, q, n)
         /\ \A e \in S : SameBeginning(q, Append(q, e), n)
         /\ \A k \in Nat : \A e :
              k > n => SameBeginning(q, [q EXCEPT ![k] = e], n)
<1>1. SameBeginning(q, q, n)
  BY Zenon DEF SameBeginning
<1>2. ASSUME NEW e \in S PROVE SameBeginning(q, Append(q, e), n)
  BY DEF SameBeginning
<1>3. ASSUME NEW k \in Nat, NEW e, k > n
      PROVE  SameBeginning(q, [q EXCEPT ![k] = e], n)
  BY <1>3 DEF SameBeginning
<1> QED
  BY <1>1, <1>2, <1>3, Zenon

(* It remains so where the arrays are kept, and what is read next is read  *)
(* into what follows.                                                      *)
LEMMA LongStays ==
  ASSUME LongOK, doc' = doc, format' = format, intact' = intact,
         SameBeginning(nodes, nodes', intact.nodes),
         SameBeginning(conns, conns', intact.conns),
         InProcessor' => proc' > intact.nodes,
         InConnection' => conn' > intact.conns
  PROVE  LongOK'
<1>1. SaidNodes' = SaidNodes /\ SaidConns' = SaidConns
  BY FlowStays, Zenon
<1>2. /\ \A i \in 1 .. intact.nodes :
           i \in DOMAIN nodes \cap DOMAIN SaidNodes /\ nodes[i] = SaidNodes[i]
      /\ \A i \in 1 .. intact.conns :
           i \in DOMAIN conns \cap DOMAIN SaidConns /\ conns[i] = SaidConns[i]
      /\ intact.nodes \in Nat /\ intact.conns \in Nat
  BY Zenon DEF LongOK, IntactAreSaid
<1>3. \A i \in 1 .. intact.nodes :
        i \in DOMAIN nodes' \cap DOMAIN SaidNodes /\ nodes'[i] = SaidNodes[i]
  BY <1>2, Zenon DEF SameBeginning
<1>4. \A i \in 1 .. intact.conns :
        i \in DOMAIN conns' \cap DOMAIN SaidConns /\ conns'[i] = SaidConns[i]
  BY <1>2, Zenon DEF SameBeginning
<1>5. IntactAreSaid'
  BY <1>1, <1>3, <1>4, Zenon DEF IntactAreSaid
<1> QED
  BY <1>2, <1>5, Zenon DEF LongOK

(* A line that is read after the first one that was too long.              *)
LEMMA LongLineStep ==
  ASSUME ParserAssumption, UnreadOK, ArraysOK, LongOK, ReadLine
  PROVE  LongOK'
<1> DEFINE n == intact.nodes
           c == intact.conns
<1>1. doc' = doc /\ format' = format /\ intact' = intact
  BY LineRead, Zenon DEF lineVars
<1>2. /\ n \in Nat /\ c \in Nat /\ nodes \in Seq(Node) /\ conns \in Seq(Conn)
      /\ Len(nodes) \in Nat /\ Len(conns) \in Nat
      /\ proc \in Nat /\ conn \in Nat
      /\ InProcessor => proc > n
      /\ InConnection => conn > c
  BY DEF LongOK, ArraysOK
<1>3. n <= Len(nodes) /\ c <= Len(conns)
  <2>1. /\ \A i \in 1 .. n : i \in DOMAIN nodes
        /\ \A i \in 1 .. c : i \in DOMAIN conns
    BY Zenon DEF LongOK, IntactAreSaid
  <2> HIDE DEF n, c
  <2>2. n > 0 => n \in 1 .. Len(nodes)
    BY <1>2, <2>1
  <2>3. c > 0 => c \in 1 .. Len(conns)
    BY <1>2, <2>1
  <2> QED
    BY <1>2, <2>2, <2>3
<1>4. /\ SameBeginning(nodes, nodes, n) /\ SameBeginning(conns, conns, c)
      /\ \A e \in Node : SameBeginning(nodes, Append(nodes, e), n)
      /\ \A e \in Conn : SameBeginning(conns, Append(conns, e), c)
      /\ \A k \in Nat : \A e :
           k > n => SameBeginning(nodes, [nodes EXCEPT ![k] = e], n)
      /\ \A k \in Nat : \A e :
           k > c => SameBeginning(conns, [conns EXCEPT ![k] = e], c)
  BY <1>2, SameBeginningIs, Zenon
<1> HIDE DEF n, c
<1>5. SUFFICES /\ SameBeginning(nodes, nodes', n) /\ SameBeginning(conns, conns', c)
               /\ InProcessor' => proc' > n
               /\ InConnection' => conn' > c
  BY <1>1, LongStays, Zenon DEF n, c
<1>6. ItemId \in Int /\ Val \in Int
  <2>1. Val \in Int
    BY LineRead, HeadTyped, Zenon
  <2> HIDE DEF Val
  <2> QED
    BY <2>1 DEF ItemId
<1>7. ASSUME UNCHANGED <<section, within, proc, conn>>
      PROVE  /\ InProcessor' => proc' > n
             /\ InConnection' => conn' > c
  <2>1. section' = section /\ within' = within /\ proc' = proc /\ conn' = conn
    BY <1>7
  <2>2. (InProcessor' <=> InProcessor) /\ (InConnection' <=> InConnection)
    BY <2>1, Zenon DEF InProcessor, InConnection
  <2> QED
    BY <1>2, <2>1, <2>2, Zenon
<1>8. CASE ReadHeader
  <2>1. within' = "none" /\ nodes' = nodes /\ conns' = conns
    BY <1>8, Zenon DEF ReadHeader, outVars
  <2>2. ~InProcessor' /\ ~InConnection'
    BY <2>1 DEF InProcessor, InConnection
  <2> QED
    BY <1>4, <2>1, <2>2, Zenon
<1>9. CASE ReadProcessor
  <2>1. /\ section = "Processors" /\ section' = section /\ conns' = conns
        /\ IF Len(nodes) < MaxNodes
           THEN /\ nodes' = Append(nodes, [EmptyNode EXCEPT !.id = ItemId])
                /\ proc' = Len(nodes) + 1
           ELSE proc' = 0 /\ nodes' = nodes
    BY <1>9, Zenon DEF ReadProcessor
  <2>2. ~InConnection'
    BY <2>1 DEF InConnection
  <2>3. [EmptyNode EXCEPT !.id = ItemId] \in Node
    BY <1>6, NodesTyped, Zenon
  <2>4. SameBeginning(nodes, nodes', n)
    BY <1>4, <2>1, <2>3, Zenon
  <2>5. InProcessor' => proc' > n
    <3>1. proc' = Len(nodes) + 1 \/ proc' = 0
      BY <2>1, Zenon
    <3>2. InProcessor' => proc' > 0
      BY Zenon DEF InProcessor
    <3> QED
      BY <1>2, <1>3, <3>1, <3>2
  <2> QED
    BY <1>4, <2>1, <2>2, <2>4, <2>5, Zenon
<1>10. CASE ReadConnection
  <2>1. /\ section = "Connections" /\ section' = section /\ nodes' = nodes
        /\ IF Len(conns) < MaxConns
           THEN /\ conns' = Append(conns, [EmptyConn EXCEPT !.id = ItemId])
                /\ conn' = Len(conns) + 1
           ELSE conn' = 0 /\ conns' = conns
    BY <1>10, Zenon DEF ReadConnection
  <2>2. ~InProcessor'
    BY <2>1 DEF InProcessor
  <2>3. [EmptyConn EXCEPT !.id = ItemId] \in Conn
    BY <1>6, ConnsTyped, Zenon
  <2>4. SameBeginning(conns, conns', c)
    BY <1>4, <2>1, <2>3, Zenon
  <2>5. InConnection' => conn' > c
    <3>1. conn' = Len(conns) + 1 \/ conn' = 0
      BY <2>1, Zenon
    <3>2. InConnection' => conn' > 0
      BY Zenon DEF InConnection
    <3> QED
      BY <1>2, <1>3, <3>1, <3>2
  <2> QED
    BY <1>4, <2>1, <2>2, <2>4, <2>5, Zenon
<1>11. ASSUME InProcessor, section' = section, proc' = proc
       PROVE  (InProcessor' => proc' > n) /\ (InConnection' => conn' > c)
  <2>1. section = "Processors" /\ proc > n
    BY <1>2, <1>11, Zenon DEF InProcessor
  <2>2. ~InConnection'
    BY <1>11, <2>1 DEF InConnection
  <2> QED
    BY <1>11, <2>1, <2>2, Zenon
<1>12. ASSUME InConnection, section' = section, conn' = conn
       PROVE  (InProcessor' => proc' > n) /\ (InConnection' => conn' > c)
  <2>1. section = "Connections" /\ conn > c
    BY <1>2, <1>12, Zenon DEF InConnection
  <2>2. ~InProcessor'
    BY <1>12, <2>1 DEF InProcessor
  <2> QED
    BY <1>12, <2>1, <2>2, Zenon
<1>13. CASE ReadProcessorField
  <2>1. /\ InProcessor /\ section' = section /\ proc' = proc /\ conns' = conns
        /\ nodes' = CASE Key = "id"    -> [nodes EXCEPT ![proc].id = Val]
                      [] Key = "class" -> [nodes EXCEPT ![proc].type = Val]
                      [] OTHER         -> nodes
    BY <1>13, Zenon DEF ReadProcessorField
  <2> HIDE DEF Key, Val
  <2>2. \/ nodes' = [nodes EXCEPT ![proc].id = Val]
        \/ nodes' = [nodes EXCEPT ![proc].type = Val]
        \/ nodes' = nodes
    BY <2>1
  <2>3. SameBeginning(nodes, nodes', n)
    BY <1>2, <1>4, <2>1, <2>2, Zenon
  <2> QED
    BY <1>4, <1>11, <2>1, <2>3, Zenon
<1>14. CASE ReadSpaced
  <2>1. /\ InProcessor /\ section' = section /\ proc' = proc
        /\ nodes' = nodes /\ conns' = conns
    BY <1>14, Zenon DEF ReadSpaced, outVars
  <2> QED
    BY <1>4, <1>11, <2>1, Zenon
<1>15. CASE ReadProperty
  <2>1. /\ InProcessor /\ UNCHANGED placeVars /\ conns' = conns
        /\ nodes' = IF Key = "key" /\ Len(nodes[proc].props) < MaxProps
                    THEN [nodes EXCEPT ![proc].props =
                            Append(@, <<Head(unread).place, Val>>)]
                    ELSE nodes
    BY <1>15, Zenon DEF ReadProperty
  <2> DEFINE e == [nodes[proc] EXCEPT !.props =
                     Append(@, <<Head(unread).place, Val>>)]
  <2>2. nodes' = nodes \/ nodes' = [nodes EXCEPT ![proc] = e]
    BY <2>1, Zenon
  <2> HIDE DEF e
  <2>3. SameBeginning(nodes, nodes', n)
    BY <1>2, <1>4, <2>1, <2>2, Zenon
  <2>4. UNCHANGED <<section, within, proc, conn>>
    BY <2>1, Zenon DEF placeVars
  <2> QED
    BY <1>4, <1>7, <2>1, <2>3, <2>4, Zenon
<1>16. CASE ReadConnectionField
  <2>1. /\ InConnection /\ section' = section /\ conn' = conn /\ nodes' = nodes
        /\ \E e : conns' = [conns EXCEPT ![conn] = e]
    BY <1>16, Zenon DEF ReadConnectionField
  <2>2. SameBeginning(conns, conns', c)
    BY <1>2, <1>4, <2>1, Zenon
  <2> QED
    BY <1>4, <1>12, <2>1, <2>2, Zenon
<1>17. CASE ReadRelationship
  <2>1. /\ InConnection /\ section' = section /\ conn' = conn /\ nodes' = nodes
        /\ conns' = [conns EXCEPT ![conn].rel = Val] \/ conns' = conns
    BY <1>17, Zenon DEF ReadRelationship
  <2> HIDE DEF Val
  <2>2. SameBeginning(conns, conns', c)
    BY <1>2, <1>4, <2>1, Zenon
  <2> QED
    BY <1>4, <1>12, <2>1, <2>2, Zenon
<1>18. CASE SkipLine
  <2>1. /\ UNCHANGED <<section, within, proc, conn>>
        /\ nodes' = nodes /\ conns' = conns
    BY <1>18, SkippedAre, Zenon DEF Skipped
  <2> QED
    BY <1>4, <1>7, <2>1, Zenon
<1>19. CASE ReadJsonProcessor
  <2>1. /\ UNCHANGED <<section, within, proc, conn>> /\ conns' = conns
        /\ nodes' = IF Len(nodes) < MaxNodes /\ Val # doc.untyped
                    THEN Append(nodes, [id |-> Val, type |-> Val,
                                        props |-> JsonProps(Val)])
                    ELSE nodes
    BY <1>19, Zenon DEF ReadJsonProcessor, placeVars
  <2>2. [id |-> Val, type |-> Val, props |-> JsonProps(Val)] \in Node
    <3>1. Val \in DOMAIN doc.props
      BY <1>19, LineRead, HeadTyped, Zenon DEF ReadJsonProcessor, Reads, Val
    <3> HIDE DEF Val
    <3> QED
      BY <1>6, <3>1, JsonPropsTyped DEF Node, UnreadOK
  <2> HIDE DEF Val
  <2>3. SameBeginning(nodes, nodes', n)
    BY <1>4, <2>1, <2>2, Zenon
  <2> QED
    BY <1>4, <1>7, <2>1, <2>3, Zenon
<1>20. CASE ReadJsonConnection
  <2> DEFINE e == [EmptyConn EXCEPT !.src = Val, !.dst = Val, !.rel = SaidRel(Val)]
  <2>1. /\ UNCHANGED <<section, within, proc, conn>> /\ nodes' = nodes
        /\ conns' = conns \/ conns' = Append(conns, e)
    BY <1>20, Zenon DEF ReadJsonConnection, placeVars
  <2>2. e \in Conn
    <3>1. SaidRel(Val) \in Int
      BY DEF SaidRel, Success
    <3> HIDE DEF Val
    <3> QED
      BY <1>6, <3>1, ConnsTyped, Zenon
  <2> HIDE DEF e
  <2>3. SameBeginning(conns, conns', c)
    BY <1>4, <2>1, <2>2, Zenon
  <2> QED
    BY <1>4, <1>7, <2>1, <2>3, Zenon
<1> QED
  BY <1>8, <1>9, <1>10, <1>13, <1>14, <1>15, <1>16, <1>17, <1>18, <1>19, <1>20,
     Zenon DEF ReadLine

(* A step that reads no line.                                              *)
LEMMA LongOtherStep ==
  ASSUME ArraysOK, LongOK, doc' = doc, format' = format, intact' = intact,
         UNCHANGED placeVars, UNCHANGED outVars
  PROVE  LongOK'
<1>1. /\ section' = section /\ within' = within /\ proc' = proc /\ conn' = conn
      /\ nodes' = nodes /\ conns' = conns
  BY DEF placeVars, outVars
<1>2. /\ SameBeginning(nodes, nodes', intact.nodes)
      /\ SameBeginning(conns, conns', intact.conns)
  <2>1. \A q, k : SameBeginning(q, q, k)
    BY Zenon DEF SameBeginning
  <2> QED
    BY <1>1, <2>1, Zenon
<1>3. (InProcessor' <=> InProcessor) /\ (InConnection' <=> InConnection)
  BY <1>1, Zenon DEF InProcessor, InConnection
<1>4. (InProcessor => proc > intact.nodes) /\ (InConnection => conn > intact.conns)
  BY Zenon DEF LongOK
<1> QED
  BY <1>1, <1>2, <1>3, <1>4, LongStays, Zenon

(* All that has been read is complete, but for the item that is current.   *)
LEMMA CompleteSoFar ==
  ASSUME ParserAssumption, UnreadOK, PlacesOK, ArraysOK, format = "YAML",
         NEW u, InYaml(u)
  PROVE  /\ InProcessor => proc = Len(nodes) /\ proc > 0
         /\ InConnection => conn = Len(conns) /\ conn > 0
         /\ ~InProcessor => \A x \in 1 .. Len(nodes) : nodes[x] = SaidNode(x)
         /\ ~InConnection => \A x \in 1 .. Len(conns) : conns[x] = SaidConn(x)
<1>1. CASE InHeaders(u)
  <2>1. section = "other" /\ nodes = <<>> /\ conns = <<>>
    BY <1>1, Zenon DEF InHeaders
  <2>2. ~InProcessor /\ ~InConnection
    BY <2>1 DEF InProcessor, InConnection
  <2>3. 1 .. Len(nodes) = {} /\ 1 .. Len(conns) = {}
    BY <2>1
  <2> QED
    BY <2>2, <2>3, Zenon
<1>2. CASE InProcs(u)
  <2>1. PICK i, t : Here(i, t)
    BY <1>2, Zenon DEF InProcs
  <2>2. /\ section = "Processors" /\ conns = <<>> /\ Len(nodes) = Least(MaxNodes, i)
        /\ proc = IF i <= MaxNodes THEN i ELSE 0
        /\ \A x \in 1 .. Len(nodes) : x < i => nodes[x] = SaidNode(x)
    BY <2>1, Zenon DEF Here, Placed, Exact, CurrentAt, ExactAt
  <2>3. /\ i \in Nat /\ Len(nodes) \in Nat /\ proc \in Nat /\ MaxNodes \in Nat
        /\ InProcessor => proc = Len(nodes) /\ Len(nodes) > 0
        /\ proc # 0 => InProcessor
    BY <2>1, HereIs DEF ParserAssumption
  <2>4. ~InConnection
    BY <2>2 DEF InConnection
  <2>5. 1 .. Len(conns) = {}
    BY <2>2
  <2>6. ASSUME ~InProcessor, NEW x \in 1 .. Len(nodes) PROVE nodes[x] = SaidNode(x)
    <3>1. proc = 0
      BY <2>3, <2>6, Zenon
    <3>2. x < i
      BY <2>2, <2>3, <3>1 DEF Least
    <3> QED
      BY <2>2, <3>2, Zenon
  <2>7. InProcessor => proc = Len(nodes) /\ proc > 0
    BY <2>3
  <2> QED
    BY <2>4, <2>5, <2>6, <2>7, Zenon
<1>3. CASE InConns(u)
  <2>1. PICK i, t : ConnHere(i, t)
    BY <1>3, Zenon DEF InConns
  <2>2. /\ ~InProcessor /\ (InConnection <=> conn # 0)
        /\ Len(conns) \in Nat /\ i \in Nat
        /\ conn # 0 => conn = i /\ i # 0 /\ Len(conns) = i
        /\ \A x \in 1 .. Len(conns) : x # conn => conns[x] = SaidConn(x)
    BY <2>1, ConnHereIs, Zenon
  <2>3. InConnection => conn = Len(conns) /\ conn > 0
    BY <2>2
  <2>4. ASSUME ~InConnection, NEW x \in 1 .. Len(conns) PROVE conns[x] = SaidConn(x)
    <3>1. conn = 0
      BY <2>2, <2>4, Zenon
    <3>2. x # conn
      BY <2>2, <3>1
    <3> QED
      BY <2>2, <3>2, Zenon
  <2>5. nodes = SaidNodes
    BY <2>1, Zenon DEF ConnHere, NodesRead
  <2>6. \A x \in 1 .. Len(nodes) : nodes[x] = SaidNode(x)
    <3>1. /\ Len(doc.props) \in Nat /\ doc.untyped \in Nat /\ doc \in Documents
          /\ format # "JSON"
      BY DocumentIs DEF UnreadOK
    <3>2. \A x : Which(doc.untyped, x) = x
      BY <3>1, NumbersAre, Zenon
    <3>3. \A x \in 1 .. Len(SaidNodes) : SaidNodes[x] = SaidNode(x)
      BY <3>1, <3>2, SaidNodesAre, Zenon
    <3> QED
      BY <2>5, <3>3, Zenon
  <2> QED
    BY <2>2, <2>3, <2>4, <2>6, Zenon
<1> QED
  BY <1>1, <1>2, <1>3, Zenon DEF InYaml

(* The first line that is too long.                                        *)
LEMMA LongBegins ==
  ASSUME ParserAssumption, UnreadOK, PlacesOK, ArraysOK, SoFarOK, LineIsLong,
         pieces = 0
  PROVE  LongOK'
<1> DEFINE n == IF InProcessor THEN Len(nodes) - 1 ELSE Len(nodes)
           c == IF InConnection THEN Len(conns) - 1 ELSE Len(conns)
<1>1. /\ status = "reading" /\ format = "YAML" /\ format # "JSON" /\ ~cut
      /\ doc' = doc /\ format' = format /\ section' = section /\ within' = within
      /\ proc' = proc /\ conn' = conn /\ nodes' = nodes /\ conns' = conns
      /\ intact' = [nodes |-> n, conns |-> c]
  BY DEF LineIsLong, placeVars, outVars
<1>2. InYaml(unread)
  BY <1>1, Zenon DEF SoFarOK, InBody
<1>3. /\ InProcessor => proc = Len(nodes) /\ proc > 0
      /\ InConnection => conn = Len(conns) /\ conn > 0
      /\ ~InProcessor => \A x \in 1 .. Len(nodes) : nodes[x] = SaidNode(x)
      /\ ~InConnection => \A x \in 1 .. Len(conns) : conns[x] = SaidConn(x)
  BY <1>1, <1>2, CompleteSoFar, Zenon
<1>4. NodesArePart /\ ConnsArePart
  <2>1. ReadTo(cut)
    BY <1>1, Zenon DEF SoFarOK, ReadOK
  <2> QED
    BY <1>1, <2>1, PartRead, Zenon
<1>5. /\ Len(nodes) <= Len(SaidNodes) /\ Len(conns) <= Len(SaidConns)
      /\ \A x \in DOMAIN nodes : x < Len(nodes) => nodes[x] = SaidNodes[x]
      /\ \A x \in DOMAIN conns : x < Len(conns) => conns[x] = SaidConns[x]
  BY <1>4, Zenon DEF NodesArePart, ConnsArePart
<1>6. /\ Len(nodes) \in Nat /\ DOMAIN nodes = 1 .. Len(nodes)
      /\ Len(conns) \in Nat /\ DOMAIN conns = 1 .. Len(conns)
      /\ doc \in Documents
  BY DEF ArraysOK, UnreadOK
<1>7. /\ DOMAIN SaidNodes = 1 .. Len(SaidNodes)
      /\ DOMAIN SaidConns = 1 .. Len(SaidConns)
      /\ Len(SaidNodes) \in Nat /\ Len(SaidConns) \in Nat
      /\ \A x \in 1 .. Len(SaidNodes) : SaidNodes[x] = SaidNode(x)
      /\ \A x \in 1 .. Len(SaidConns) : SaidConns[x] = SaidConn(x)
  <2>1. /\ doc.untyped \in Nat /\ doc.loose \in Nat
        /\ Len(doc.props) \in Nat /\ Len(doc.rels) \in Nat
    BY <1>6, DocumentIs, Zenon
  <2>2. /\ HowMany(doc.untyped, Len(doc.props)) = Len(doc.props)
        /\ HowMany(doc.loose, Len(doc.rels)) = Len(doc.rels)
        /\ \A x : Which(doc.untyped, x) = x /\ Which(doc.loose, x) = x
    BY <1>1, <2>1, NumbersAre, Zenon
  <2>3. /\ Len(SaidNodes) = Least(MaxNodes, Len(doc.props))
        /\ Len(SaidConns) = Least(MaxConns, Len(doc.rels))
    BY <1>6, <2>2, SaidNodesAre, SaidConnsAre, Zenon
  <2>4. Len(SaidNodes) \in Nat /\ Len(SaidConns) \in Nat
    BY <2>1, <2>3 DEF Least, ParserAssumption
  <2> QED
    BY <1>6, <2>2, <2>4, SaidNodesAre, SaidConnsAre, Zenon
<1>8. n \in Nat /\ c \in Nat
  <2>1. InProcessor => Len(nodes) - 1 \in Nat
    BY <1>3, <1>6
  <2>2. InConnection => Len(conns) - 1 \in Nat
    BY <1>3, <1>6
  <2> QED
    BY <1>6, <2>1, <2>2, Zenon
<1>9. ASSUME NEW x \in 1 .. n
      PROVE  x \in DOMAIN nodes \cap DOMAIN SaidNodes /\ nodes[x] = SaidNodes[x]
  <2>1. x \in 1 .. Len(nodes) /\ (InProcessor => x < Len(nodes))
    BY <1>6
  <2>2. x \in 1 .. Len(SaidNodes)
    BY <1>5, <1>6, <1>7, <2>1
  <2>3. nodes[x] = SaidNodes[x]
    BY <1>3, <1>5, <1>6, <1>7, <2>1, <2>2, Zenon
  <2> QED
    BY <1>6, <1>7, <2>1, <2>2, <2>3, Zenon
<1>10. ASSUME NEW x \in 1 .. c
       PROVE  x \in DOMAIN conns \cap DOMAIN SaidConns /\ conns[x] = SaidConns[x]
  <2>1. x \in 1 .. Len(conns) /\ (InConnection => x < Len(conns))
    BY <1>6
  <2>2. x \in 1 .. Len(SaidConns)
    BY <1>5, <1>6, <1>7, <2>1
  <2>3. conns[x] = SaidConns[x]
    BY <1>3, <1>5, <1>6, <1>7, <2>1, <2>2, Zenon
  <2> QED
    BY <1>6, <1>7, <2>1, <2>2, <2>3, Zenon
<1>11. (InProcessor => proc > n) /\ (InConnection => conn > c)
  BY <1>3, <1>6
<1> HIDE DEF n, c
<1>12. intact'.nodes = n /\ intact'.conns = c
  BY <1>1
<1>13. IntactAreSaid'
  <2>1. SaidNodes' = SaidNodes /\ SaidConns' = SaidConns
    BY <1>1, FlowStays, Zenon
  <2> QED
    BY <1>1, <1>9, <1>10, <1>12, <2>1, Zenon DEF IntactAreSaid
<1>14. (InProcessor' <=> InProcessor) /\ (InConnection' <=> InConnection)
  BY <1>1, Zenon DEF InProcessor, InConnection
<1> QED
  BY <1>1, <1>8, <1>11, <1>12, <1>13, <1>14, Zenon DEF LongOK

----------------------------------------------------------------------------
(* What is promised of flow_parse.                                         *)

FlowOK ==
  /\ pieces \in Nat
  /\ pieces = 0 => SoFarOK /\ intact = [nodes |-> 0, conns |-> 0]
  /\ pieces > 0 => LongOK

(* Every step of flow_parse keeps it.                                      *)
LEMMA FlowStep ==
  ASSUME ParserAssumption, UnreadOK, PlacesOK, ArraysOK, FlowOK,
         [ParserNext]_parseVars
  PROVE  FlowOK'
<1>1. \/ Detect \/ ReadLine \/ EndOfBody \/ BodyIsCut
      \/ LineIsLong \/ UNCHANGED parseVars
  BY Zenon DEF ParserNext, ReadLine, Parsed
<1>2. CASE LineIsLong
  <2>1. /\ pieces' = pieces + 1 /\ pieces \in Nat /\ doc' = doc /\ format' = format
        /\ UNCHANGED placeVars /\ UNCHANGED outVars
        /\ pieces > 0 => intact' = intact
    BY <1>2 DEF LineIsLong, FlowOK
  <2>2. pieces' \in Nat /\ pieces' # 0
    BY <2>1
  <2>3. LongOK'
    <3>1. CASE pieces = 0
      BY <1>2, <3>1, LongBegins, Zenon DEF FlowOK
    <3>2. CASE pieces > 0
      BY <2>1, <3>2, LongOtherStep, Zenon DEF FlowOK
    <3>3. pieces = 0 \/ pieces > 0
      BY <2>1
    <3> QED
      BY <3>1, <3>2, <3>3, Zenon
  <2> QED
    BY <2>2, <2>3, Zenon DEF FlowOK
<1>3. CASE Detect \/ ReadLine \/ EndOfBody \/ BodyIsCut \/ UNCHANGED parseVars
  <2>1. pieces' = pieces /\ intact' = intact /\ doc' = doc /\ format' = format
    <3>1. UNCHANGED <<doc, format, lineVars>>
      <4>1. Detect \/ EndOfBody \/ BodyIsCut \/ UNCHANGED parseVars =>
              UNCHANGED <<doc, format, lineVars>>
        BY DEF Detect, EndOfBody, BodyIsCut, parseVars
      <4> QED
        BY <1>3, <4>1, LineRead, Zenon
    <3> QED
      BY <3>1, Zenon DEF lineVars
  <2>2. SoFarOK => SoFarOK'
    BY <1>3, DetectStep, ReadLineStep, EndStep, CutStep, StutterStep, Zenon
  <2>3. LongOK => LongOK'
    <3>1. CASE ReadLine
      BY <3>1, LongLineStep, Zenon
    <3>2. CASE Detect \/ EndOfBody \/ BodyIsCut \/ UNCHANGED parseVars
      <4>1. UNCHANGED placeVars /\ UNCHANGED outVars
        BY <3>2 DEF Detect, EndOfBody, BodyIsCut, parseVars
      <4> QED
        BY <2>1, <4>1, LongOtherStep, Zenon
    <3> QED
      BY <1>3, <3>1, <3>2, Zenon
  <2>4. pieces' \in Nat /\ (pieces' = 0 => pieces = 0) /\ (pieces' > 0 => pieces > 0)
    BY <2>1, Zenon DEF FlowOK
  <2>5. intact' = intact
    BY <2>1, Zenon
  <2> QED
    BY <2>2, <2>3, <2>4, <2>5, Zenon DEF FlowOK
<1> QED
  BY <1>1, <1>2, <1>3, Zenon

(* It implies what is promised.                                            *)
LEMMA FlowSafe ==
  ASSUME ParserAssumption, UnreadOK, ArraysOK, FlowOK
  PROVE  CutFlowIsPart /\ WholeFlowIsRead
<1>1. CASE pieces = 0
  <2>1. SoFarOK /\ intact.nodes = 0 /\ intact.conns = 0
    BY <1>1 DEF FlowOK
  <2>2. NodesArePart /\ ConnsArePart
    <3>1. CASE format = "JSON"
      BY <2>1, <3>1, JsonPartRead, Zenon DEF SoFarOK, ReadOK
    <3>2. CASE format # "JSON"
      BY <2>1, <3>2, PartRead, Zenon DEF SoFarOK, ReadOK
    <3> QED
      BY <3>1, <3>2
  <2>3. IntactAreSaid
    <3>1. 1 .. 0 = {}
      OBVIOUS
    <3> QED
      BY <2>1, <3>1, Zenon DEF IntactAreSaid
  <2>4. WholeFlowIsRead
    BY <2>1, Zenon DEF SoFarOK
  <2> QED
    BY <2>2, <2>3, <2>4, Zenon DEF CutFlowIsPart
<1>2. CASE pieces > 0
  <2>1. IntactAreSaid
    BY <1>2, Zenon DEF FlowOK, LongOK
  <2>2. pieces # 0
    BY <1>2
  <2> QED
    BY <2>1, <2>2, Zenon DEF CutFlowIsPart, WholeFlowIsRead
<1>3. pieces = 0 \/ pieces > 0
  BY DEF FlowOK
<1> QED
  BY <1>1, <1>2, <1>3, Zenon

(* The inductive invariant of flow_parse.                                  *)
ParserInv == UnreadOK /\ PlacesOK /\ ArraysOK /\ FlowOK

LEMMA ParserInvariant == ParserSpec => []ParserInv
<1>1. ParserInit => ParserInv
  <2> SUFFICES ASSUME ParserInit PROVE ParserInv
    OBVIOUS
  <2>1. UnreadOK
    BY DEF ParserInit, UnreadOK
  <2>2. PlacesOK
    BY DEF ParserInit, PlacesOK, Sections
  <2>3. ArraysOK
    BY ParserAssumption DEF ParserInit, ArraysOK, ParserAssumption
  <2>4. FlowOK
    <3>1. SoFarOK
      BY <2>1, ParserAssumption, FlowBegins, Zenon
    <3>2. pieces = 0 /\ intact = [nodes |-> 0, conns |-> 0] /\ pieces \in Nat
          /\ ~(pieces > 0)
      BY DEF ParserInit
    <3> QED
      BY <3>1, <3>2, Zenon DEF FlowOK
  <2> QED
    BY <2>1, <2>2, <2>3, <2>4, Zenon DEF ParserInv
<1>2. ParserInv /\ [ParserNext]_parseVars => ParserInv'
  BY ParserAssumption, UnreadStays, PlacesStay, ArraysStay, FlowStep, Zenon
     DEF ParserInv
<1> QED
  BY <1>1, <1>2, PTL DEF ParserSpec

(* Wherever the body is cut off, flow_parse has read a part of the flow    *)
(* that was sent: the first processors and connections, all but the last   *)
(* complete, nothing of one in another.  However many lines do not fit in  *)
(* the line buffer, and whatever their rests are taken for, the processors *)
(* and connections that were complete before the first of them stay as     *)
(* they were sent.                                                         *)
THEOREM FlowIsPart == ParserSpec => []CutFlowIsPart
<1>1. ParserInv => CutFlowIsPart
  BY ParserAssumption, FlowSafe, Zenon DEF ParserInv
<1> QED
  BY <1>1, ParserInvariant, PTL

(* A body that arrives whole, with lines that fit in the line buffer, is   *)
(* read whole, in both formats and whatever the order of its fields.       *)
THEOREM FlowIsRead == ParserSpec => []WholeFlowIsRead
<1>1. ParserInv => WholeFlowIsRead
  BY ParserAssumption, FlowSafe, Zenon DEF ParserInv
<1> QED
  BY <1>1, ParserInvariant, PTL

(* Type correctness of flow_parse.                                         *)
LEMMA ParserTyped == ParserSpec => []ParserTypeOK
<1>1. ParserInv => ParserTypeOK
  <2> SUFFICES ASSUME UnreadOK, PlacesOK, ArraysOK PROVE ParserTypeOK
    BY DEF ParserInv
  <2>1. \A i \in DOMAIN nodes : Len(nodes[i].props) <= MaxProps
    <3>1. \A i \in DOMAIN nodes : nodes[i] \in Node
      BY DEF ArraysOK
    <3>2. \A n \in Node : Len(n.props) <= MaxProps
      BY DEF Node
    <3> QED
      BY <3>1, <3>2, Zenon
  <2> QED
    BY <2>1, Zenon DEF UnreadOK, PlacesOK, ArraysOK, Sections, ParserTypeOK
<1> QED
  BY <1>1, ParserInvariant, PTL
=============================================================================
