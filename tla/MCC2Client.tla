----------------------------- MODULE MCC2Client -----------------------------
(* Flows of each kind for the C2 client: a YAML body has no id and a JSON  *)
(* body has one; nameless has no id at all, foreign has no processor the   *)
(* device knows, and broken does not parse.                                *)
EXTENDS C2Client

CONSTANTS yaml, yaml2, json, nameless, foreign, broken, describe

(* The two flows of the same kind are interchangeable.                     *)
FlowSymmetry == Permutations({yaml, yaml2})
=============================================================================
