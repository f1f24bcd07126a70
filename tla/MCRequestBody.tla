--------------------------- MODULE MCRequestBody ---------------------------
(* Small instances of RequestBody for TLC. *)
EXTENDS RequestBody

NoneOrThree == {0, 3}
SomeLengths == {0, 1, 3}
SecondByte == {2}
=============================================================================
