--------------------------- MODULE MCExamResults ---------------------------
(***************************************************************************)
(* A small instance of ExamResults: an EXAM with a short answer and a      *)
(* program, worth one point each.                                          *)
(***************************************************************************)
EXTENDS ExamResults, TLC

CONSTANTS s, c, p1, p2

TwoProcesses == {p1, p2}
Processes == Permutations(TwoProcesses)
=============================================================================
