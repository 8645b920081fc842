------------------------------ MODULE MCResync ------------------------------
EXTENDS Resync

CONSTANTS o1, o2, o3, o4, o5, o6, w1, w2

\* a resource with four pages, and one that needs no work
MCPages == << <<{o1, o2}, {o3}, {o4}, {o5}>>, <<{o6}>> >>
=============================================================================
