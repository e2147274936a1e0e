---------------------------- MODULE MCFlowEngine ----------------------------
(* Small flows for the flow engine.                                        *)
EXTENDS FlowEngine

CONSTANTS a, b

Link(s, d, id) == [src |-> s, dst |-> d, id |-> id]

(* A source and a sink.                                                    *)
Pair  == [nodes |-> 2, conns |-> <<Link(1, 2, a)>>]
(* A source, a processor that passes its input on, and a sink.             *)
Chain == [nodes |-> 3, conns |-> <<Link(1, 2, a), Link(2, 3, b)>>]
(* One source feeding two sinks.                                           *)
Fan   == [nodes |-> 3, conns |-> <<Link(1, 2, a), Link(1, 3, b)>>]
(* The boot-default graph, whose connection has no id.                     *)
Default == [nodes |-> 2, conns |-> <<Link(1, 2, NoId)>>]
(* A flow none of whose processors is known.                               *)
Idle == [nodes |-> 0, conns |-> <<>>]

Copies == Origin \X ConnId

JustPair  == {Pair}
FanOrDefault == {Fan, Default}
ChainOrIdle  == {Chain, Idle}
=============================================================================
