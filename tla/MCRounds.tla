------------------------------- MODULE MCRounds -------------------------------
EXTENDS Rounds, TLC

RoundSymmetry == Permutations(Metas) \cup Permutations(Requests) \cup Permutations(Clubs)
                 \cup Permutations(Holes)
===============================================================================
