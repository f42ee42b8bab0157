---------------------------- MODULE MCSavedStore -----------------------------
(* Small instances of SavedStore; the constants' values are in the .cfg    *)
(* files.                                                                  *)
EXTENDS SavedStore, TLC

Symmetry == Permutations(Aliases) \union Permutations(Ids)
=============================================================================
