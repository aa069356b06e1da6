------------------------------- MODULE MCApiKeys -------------------------------
EXTENDS ApiKeys, TLC
================================================================================
