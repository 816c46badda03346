------------------------- MODULE MCWhatsAppOutbox -------------------------
(* Model values and symmetry for the runs of WhatsAppOutbox.              *)
EXTENDS WhatsAppOutbox, TLC

CONSTANTS m1, m2, w1, w2

MCSymmetry == Permutations(Workers)
===========================================================================
