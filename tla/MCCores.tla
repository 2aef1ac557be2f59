------------------------------ MODULE MCCores ------------------------------
EXTENDS Cores, TLC
CONSTANTS A, B
MCThreadCount == A :> 2 @@ B :> 1
=============================================================================
