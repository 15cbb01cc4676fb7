------------------------------ MODULE MCAccounts ------------------------------
EXTENDS Accounts, TLC

CONSTANTS ana, bia, eva, r1, r2

MCSymmetry == Permutations({ana, bia, eva}) \cup Permutations({r1, r2})
===============================================================================
