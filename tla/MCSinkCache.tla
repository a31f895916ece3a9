---------------------------- MODULE MCSinkCache ----------------------------
(* Model-checking instance of SinkCache: the constants are set in the      *)
(* .cfg files; this module only fixes the specification TLC explores.      *)
EXTENDS SinkCache

=============================================================================
