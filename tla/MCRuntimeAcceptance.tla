------------------------ MODULE MCRuntimeAcceptance ------------------------
(***************************************************************************)
(* RuntimeAcceptance for TLC.                                              *)
(***************************************************************************)
EXTENDS RuntimeAcceptance

CONSTANTS p, q
=============================================================================
