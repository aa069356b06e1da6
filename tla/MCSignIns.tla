------------------------------- MODULE MCSignIns -------------------------------
EXTENDS SignIns, TLC

SignInSymmetry == Permutations(Accounts) \cup Permutations(Addresses) \cup Permutations(Requests)
================================================================================
