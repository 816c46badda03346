-------------------------- MODULE MCCashDeposits ---------------------------
(* One deposit, two help desk requests at once, two business days.        *)
EXTENDS CashDeposits, TLC

CONSTANTS d1, c1, c2

MCSymmetry == Permutations(Callers)
============================================================================
