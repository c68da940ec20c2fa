----------------------------- MODULE MCHelperBudget ----------------------------
(* Three calls on a budget of two or three helpers.                        *)
EXTENDS HelperBudget, TLC

CONSTANTS c1, c2, c3

MCCalls == {c1, c2, c3}
MCLimits == {2, 3}
CallSymmetry == Permutations(MCCalls)
===============================================================================
