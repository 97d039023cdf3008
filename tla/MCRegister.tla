------------------------------ MODULE MCRegister ------------------------------
(* Register with few servers, entries and Plugins.                         *)
EXTENDS Register

CONSTANTS n1, n2, s1, s2, p1, d1, d2
=============================================================================
