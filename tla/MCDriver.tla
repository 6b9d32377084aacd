------------------------------ MODULE MCDriver ------------------------------
(***************************************************************************)
(* Driver with one frame for each radio: s1 on radio A, which is up while  *)
(* WCH11P_init still runs, and s2 on radio B.                              *)
(***************************************************************************)
EXTENDS Driver

CONSTANTS s1, s2

MCSkbs == {s1, s2}
MCRadioOf == [s \in MCSkbs |-> IF s = s1 THEN "A" ELSE "B"]
=============================================================================
