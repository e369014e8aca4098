------------------------ MODULE MCSchemaAdaptation ------------------------
(***************************************************************************)
(* A schema with an optional struct that holds an optional dictionary      *)
(* column (like the body of a log record and its string) and a dictionary  *)
(* column that is always there and starts with wider indices.  Index types *)
(* hold 1, 2 and 3 values instead of 2^8 - 1, 2^16 - 1 and 2^32 - 1.        *)
(***************************************************************************)
EXTENDS SchemaAdaptation, TLC

MCField == {"body", "str", "key"}
MCPath == [f \in MCField |-> IF f = "str" THEN {"body", "str"} ELSE {f}]
MCOptional == {"body", "str"}
MCDictionary == {"str", "key"}
MCIndexMaxCard == <<1, 2, 3>>
MCMinCard == [f \in MCDictionary |-> IF f = "key" THEN 2 ELSE 1]

MCSymmetry == Permutations(Value)
=============================================================================
