--------------------------- MODULE MCEnrollClient ---------------------------
(* Three slots: one enrolled, one failing, one never reached.                  *)
EXTENDS EnrollClient
=============================================================================
