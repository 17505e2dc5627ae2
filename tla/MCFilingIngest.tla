--------------------------- MODULE MCFilingIngest ---------------------------
(* Symmetry of the pollers and of the workers: nothing in the pipeline     *)
(* tells two of them apart.                                                *)
EXTENDS FilingIngest, TLC

Symmetry == Permutations(Pollers) \union Permutations(Workers)
=============================================================================
