------------------------------ MODULE MCRateGate ------------------------------
(* Instance of RateGate for TLC: three senders and two channels, so that a  *)
(* queue forms at one while the other is free.                              *)
EXTENDS RateGate

CONSTANTS s1, s2, s3, c1, c2

MCSenders == {s1, s2, s3}
MCChannels == {c1, c2}
===============================================================================
