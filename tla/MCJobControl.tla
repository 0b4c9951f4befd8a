--------------------------- MODULE MCJobControl ---------------------------
(* Instances of JobControl for TLC: the constants have their values in the  *)
(* configurations.                                                          *)
EXTENDS JobControl
=============================================================================
