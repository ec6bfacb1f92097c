---------------------------- MODULE MCFileTransfers ---------------------------
EXTENDS FileTransfers, TLC

(* The files are interchangeable.                                          *)
Symmetry == Permutations(Paths)
=============================================================================
