------------------------ MODULE MCDumbRequestHandler ------------------------
(* Small instances of DumbRequestHandler for TLC.                          *)
EXTENDS DumbRequestHandler
=============================================================================
