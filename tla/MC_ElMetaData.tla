--------------------------- MODULE MC_ElMetaData ---------------------------
(* Model-checking instance of ElMetaData: one track, one caller string   *)
(* and integer besides the hardware literals; the per-slot setters are     *)
(* exercised on an unknown slot, where a per-slot write undoes a literal.  *)
EXTENDS ElMetaData

MCTexts == {"1", "T"}
MCInts == {1, 7}
MCSingleTypes == {"unknown_15"}
MCSingleInts == {"unknown_11"}
=============================================================================
