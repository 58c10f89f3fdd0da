---------------------------- MODULE MCLiveStatus ----------------------------
(* A small instance of LiveStatus: a job of a few samples.                   *)
EXTENDS LiveStatus
=============================================================================
