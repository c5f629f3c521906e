------------------------------ MODULE MCMilling ------------------------------
EXTENDS Milling
=============================================================================
