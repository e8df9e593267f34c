------------------------------- MODULE MCChat -------------------------------
(* Instances of Chat for TLC.                                              *)
EXTENDS Chat

AllAnswers   == Errors \cup {"stream"}
HandlerOps   == {"Select", "EnsureFresh", "MarkAuthError", "MarkDisabled", "MarkCooldown"}
ClockedOps   == HandlerOps \cup {"Tick"}
CrowdOps     == HandlerOps \cup {"Restart"}
CrowdAnswers == {"stream", "401", "queue"}
=============================================================================
