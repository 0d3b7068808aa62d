-------------------------- MODULE MCInternalTable --------------------------
(* InternalTable for TLC: keys, rows and non-empty values are                *)
(* interchangeable.                                                          *)
EXTENDS InternalTable, TLC

Symm == Permutations(TableKeys) \cup Permutations(RowNames) \cup Permutations(Values \ {Empty})
============================================================================
