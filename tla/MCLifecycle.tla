------------------------------ MODULE MCLifecycle ------------------------------
(* An instance of Lifecycle for TLC: a Mattermost server and a Slack         *)
(* workspace, hence four jobs.                                               *)
EXTENDS Lifecycle

CONSTANTS mm, slack

MCNeeded == <<mm, slack>>
=============================================================================
