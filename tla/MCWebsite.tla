------------------------------ MODULE MCWebsite ------------------------------
EXTENDS Website

CONSTANTS t1, t2
=============================================================================
