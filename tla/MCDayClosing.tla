--------------------------- MODULE MCDayClosing ---------------------------
(* One branch and Production, with a recipient each.                      *)
EXTENDS DayClosing, TLC

CONSTANTS i1, i2, branch, production, manager, baker

MCEntitled == (manager :> {branch} @@ baker :> {production})
===========================================================================
