---------------------------- MODULE MCAttachments ----------------------------
(* An instance of Attachments for TLC: a target of each kind and a file that *)
(* fits, one that is too large, and one of unknown size.                     *)
EXTENDS Attachments

CONSTANTS mm, slack

MCTargets == <<mm, slack>>
MCFiles == <<[size |-> 1, bytes |-> 1], [size |-> 3, bytes |-> 3],
             [size |-> 0, bytes |-> 1]>>
=============================================================================
