----------------------------- MODULE MCSummary -----------------------------
(* A small instance of MonthlySummary: a bill and a credit note. *)
EXTENDS MonthlySummary

MCAmounts == {-5, 8}
=============================================================================
