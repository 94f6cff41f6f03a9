------------------------------ MODULE MCIntake ------------------------------
(* Instances of Intake for TLC; the cfg files say which platform, what its *)
(* users do and how much goes wrong.                                       *)
EXTENDS Intake
=============================================================================
