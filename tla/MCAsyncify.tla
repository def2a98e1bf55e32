----------------------------- MODULE MCAsyncify -----------------------------
(* Three calls, as many stacks as calls that may be suspended at once.     *)
EXTENDS Asyncify

CONSTANTS call1, call2, call3, s1, s2, s3
=============================================================================
