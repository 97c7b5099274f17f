--------------------------- MODULE MCStreamBuffers ---------------------------
(* Two operations.  There is a buffer for every object that can be open and *)
(* for the channel's slot.  A member array is kept as it was, kept grown or *)
(* too large to keep; a scratch goes to the pool or to the channel.         *)
EXTENDS StreamBuffers

MCCapacities == {1, 2, 3}
MCScratches == {1, 2}
=============================================================================
