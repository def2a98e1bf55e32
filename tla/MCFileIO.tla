------------------------------ MODULE MCFileIO ------------------------------
(* Two connections and a database of up to three pages.                    *)
EXTENDS FileIO, TLC

Symmetry == Permutations(Files)
=============================================================================
