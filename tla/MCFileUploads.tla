------------------------------ MODULE MCFileUploads ------------------------------
(***************************************************************************)
(* TLC instances of FileUploads.  Nothing tells one file, call, folder or  *)
(* text from another.                                                      *)
(***************************************************************************)
EXTENDS FileUploads, TLC

Symmetric == Permutations(Files) \union Permutations(Calls) \union Permutations(Folders)
                \union Permutations(Texts) \union Permutations(Opaque)
==================================================================================
