------------------------------ MODULE PilotMC ------------------------------
(***************************************************************************)
(* The model values of the symbols for the runs of Pilot.                  *)
(***************************************************************************)
EXTENDS PilotInv

CONSTANTS s1, s2, s3

OneSymbol    == {s1}
ThreeSymbols == {s1, s2, s3}

=============================================================================
