--------------------------- MODULE MCUploadSession ----------------------------
(* UploadSession for TLC. *)
EXTENDS UploadSession, TLC

\* The sessions that begin before there is a target.
NoTargetSpec == target = NoIno /\ Spec

\* Owners and inode numbers are interchangeable.
Symmetry == Permutations(Owners) \union Permutations(Inodes)
===============================================================================
