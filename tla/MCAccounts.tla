------------------------------ MODULE MCAccounts ------------------------------
EXTENDS Accounts, TLC

AccountSymmetry ==
    Permutations(Users) \cup Permutations(Emails) \cup Permutations(Subjects)
        \cup Permutations(Requests)
===============================================================================
