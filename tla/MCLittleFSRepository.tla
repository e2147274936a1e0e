------------------------ MODULE MCLittleFSRepository ------------------------
(* Payloads of one and of two bytes.                                       *)
EXTENDS LittleFSRepository

CONSTANTS small, big

SmallAndBig == {small, big}

SizeSmallAndBig == [p \in {small, big} |-> IF p = small THEN 1 ELSE 2]
=============================================================================
