---------------------------- MODULE MCStatements ----------------------------
(* Three scripts of one connection, and as many pointers as may be live.   *)
EXTENDS Statements

CONSTANTS g1, g2, g3, p1, p2, p3, p4
=============================================================================
