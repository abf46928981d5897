---------------------------- MODULE MCCardRules ----------------------------
EXTENDS CardRules, TLC

MCSymmetry == Permutations(Tokens) \cup Permutations(Groups)
=============================================================================
