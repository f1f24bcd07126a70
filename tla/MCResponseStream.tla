-------------------------- MODULE MCResponseStream --------------------------
(* Small instances of ResponseStream for TLC. *)
EXTENDS ResponseStream

AllKinds == {"simple", "each", "call"}
OnlyEach == {"each"}
BothModes == {"ractor", "threaded"}
OnlyRactor == {"ractor"}
=============================================================================
