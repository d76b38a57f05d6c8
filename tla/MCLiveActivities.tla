-------------------------- MODULE MCLiveActivities --------------------------
(* LiveActivities with one token and two consumers.                        *)
EXTENDS LiveActivities
=============================================================================
