----------------------------- MODULE MCChallenges -----------------------------
EXTENDS Challenges, TLC

ChallengeSymmetry == Permutations(Ids) \cup Permutations(Codes) \cup Permutations(Requests)
===============================================================================
