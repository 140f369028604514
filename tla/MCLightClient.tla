-------------------------- MODULE MCLightClient --------------------------
(***************************************************************************)
(* Four periods of two slots and a committee of three; chains that         *)
(* finalize soon, late, and nothing.                                       *)
(***************************************************************************)
EXTENDS LightClient

Later(m, n) == IF m > n THEN m - n ELSE 0

MCHistories ==
  { [s \in Slots |-> Later(s, 1)], [s \in Slots |-> IF s < 4 THEN 0 ELSE 3], [s \in Slots |-> 0] }
=============================================================================
