--------------------------- MODULE MC_ElStorage ---------------------------
(* Model-checking instance of ElStorage.  The version triples are one on   *)
(* each side of every threshold of the version dispatch (1.7.1, 1.11.1,    *)
(* 1.15.0, 1.18.0) plus one the registry does not know; two track ids let  *)
(* a get or an update hit an id with no row while another has one.         *)
EXTENDS ElStorage

MCTriples == {<<1, 6, 0>>, <<1, 7, 1>>, <<1, 11, 1>>, <<1, 15, 0>>,
              <<1, 18, 0>>, <<2, 0, 0>>}
=============================================================================
