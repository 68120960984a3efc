------------------------------- MODULE MCLfsFile -------------------------------
(* The handles are interchangeable.                                        *)
EXTENDS LfsFile, TLC

Handles == Permutations(Handle)
===============================================================================
