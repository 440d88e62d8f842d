---------------------------- MODULE MCLiveSession ---------------------------
EXTENDS LiveSession, TLC

MCSymmetry == Permutations(Sessions)
=============================================================================
