------------------------------ MODULE MCRevival ------------------------------
(* Instance of Revival for TLC: a bridge with two or three endpoints.       *)
EXTENDS Revival

CONSTANTS a, b, c3

Two == <<a, b>>
Three == <<a, b, c3>>
===============================================================================
