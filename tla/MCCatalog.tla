----------------------------- MODULE MCCatalog -----------------------------
(***************************************************************************)
(* Small instances of Catalog for TLC.                                     *)
(***************************************************************************)
EXTENDS Catalog

\* Requests are interchangeable; ids are not, since lists order them.
Symmetry == Permutations(Request)
=============================================================================
