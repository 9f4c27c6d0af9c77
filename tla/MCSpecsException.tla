-------------------------- MODULE MCSpecsException --------------------------
(* TLC instances of SpecsException.                                        *)
EXTENDS SpecsException
=============================================================================
