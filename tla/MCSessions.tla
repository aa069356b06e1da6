------------------------------ MODULE MCSessions ------------------------------
EXTENDS Sessions, TLC
CONSTANTS desk, phone, d1, d2, p1

TwoBrowsers == [t \in Tabs |-> IF t = p1 THEN phone ELSE desk]

TokenSymmetry == Permutations(Tokens) \cup Permutations(Requests)
TabSymmetry == TokenSymmetry \cup Permutations({d1, d2})
===============================================================================
