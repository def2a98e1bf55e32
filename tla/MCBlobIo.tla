------------------------------ MODULE MCBlobIo ------------------------------
(* A blob of six bytes, a buffer of three, and a stream that may be longer. *)
EXTENDS BlobIo

DefaultOrSome == {-1, 0, 2, 4}
InTheBlobOrNot == {-1, 0, 1, 7}
=============================================================================
