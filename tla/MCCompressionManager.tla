------------------------ MODULE MCCompressionManager ------------------------
(* Two users of the compression manager and the end of the logger. *)
EXTENDS CompressionManager

CONSTANTS u1, u2
=============================================================================
