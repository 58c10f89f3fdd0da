---------------------------- MODULE MCLiveStream ----------------------------
(* A small instance of LiveStream: a file that takes several reads, some of  *)
(* them short.                                                               *)
EXTENDS LiveStream
=============================================================================
