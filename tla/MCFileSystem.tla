---------------------------- MODULE MCFileSystem ----------------------------
(***************************************************************************)
(* FileSystem for TLC: names are interchangeable, so any permutation of    *)
(* them is a symmetry of the safety runs.                                  *)
(***************************************************************************)
EXTENDS FileSystem, TLC

NameSymmetry == Permutations(Names)
=============================================================================
