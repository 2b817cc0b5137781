------------------------------ MODULE MCUpdatePlan ------------------------------
(***************************************************************************)
(* Every list of up to three containers in every order, with every choice  *)
(* of at most MaxLinks links each, circular ones and ones to containers    *)
(* that are not listed included.                                           *)
(***************************************************************************)
EXTENDS UpdatePlan

CONSTANT MaxLinks

MCLists == SetToAllKPermutations(Name)
MCLinks == [Name -> SeqOf(Name, MaxLinks)]
================================================================================
