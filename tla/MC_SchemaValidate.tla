------------------------- MODULE MC_SchemaValidate -------------------------
(* Model-checking instance of SchemaValidate: two keys, so that a catalog  *)
(* can miss, add, reorder or mis-type an entry before or after a matching  *)
(* one, and binary attribute values, so that every checked and unchecked   *)
(* field can differ independently.                                         *)
EXTENDS SchemaValidate

MCKeys == {1, 2}
MCVals == {0, 1}
MCNoKey == 0
=============================================================================
