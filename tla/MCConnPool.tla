----------------------------- MODULE MCConnPool -----------------------------
(* The pool on a small instance: calls that outnumber the connections.     *)
EXTENDS ConnPool

CONSTANTS c1, c2, c3, c4, k1, k2, k3

MCCalls == {c1, c2, c3, c4}
MCConns == {k1, k2, k3}
AllDelays == {-1, 0, 1}
Patient == {-1}
=============================================================================
