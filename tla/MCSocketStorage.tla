--------------------------- MODULE MCSocketStorage --------------------------
(* A finite instance of SocketStorage for TLC.                             *)
EXTENDS SocketStorage

SomeDurations == {0, 1, 3}
=============================================================================
