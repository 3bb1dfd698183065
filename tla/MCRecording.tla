---------------------------- MODULE MCRecording ----------------------------
(* Recording on small instances: every bound is a number of the cfg.        *)
EXTENDS Recording
=============================================================================
