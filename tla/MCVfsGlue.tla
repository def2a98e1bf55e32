----------------------------- MODULE MCVfsGlue ------------------------------
(* Two files, and two versions of what they read, the later the shorter.   *)
EXTENDS VfsGlue, TLC

Symmetry == Permutations(Files)
MCSize == <<3, 2>>
=============================================================================
