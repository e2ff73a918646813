-------------------------- MODULE MCDirectorySwap ---------------------------
(***************************************************************************)
(* DirectorySwap alone, for the builds of the benchmark artifacts.         *)
(***************************************************************************)
EXTENDS DirectorySwap
=============================================================================
