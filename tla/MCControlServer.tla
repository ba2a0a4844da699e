--------------------------- MODULE MCControlServer ---------------------------
(* Instances of ControlServer for TLC.                                       *)
EXTENDS ControlServer

ThreeDescriptors == 1..3
AnyPort == {0, 1}
=============================================================================
