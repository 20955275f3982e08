---------------------------- MODULE MCHostControl ----------------------------
EXTENDS HostControl, TLC

\* Links are interchangeable until an Offer takes one.
LinkSymmetry == Permutations(Links)
=============================================================================
