---------------------------- MODULE MCSourceNode ----------------------------
(* Instance of SourceNode for TLC; all constants are numbers given in the *)
(* configurations.                                                         *)
EXTENDS SourceNode
=============================================================================
