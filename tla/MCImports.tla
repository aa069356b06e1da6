------------------------------- MODULE MCImports -------------------------------
EXTENDS Imports, TLC

ImportSymmetry == Permutations(Imports) \cup Permutations(Copies)
================================================================================
