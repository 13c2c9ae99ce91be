------------------------------- MODULE MCMemory -------------------------------
(* Small instances of Memory for TLC.                                          *)
EXTENDS Memory

CONSTANTS s1, s2, e1, p1
===============================================================================
