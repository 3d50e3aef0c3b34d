------------------------------ MODULE MCResults ------------------------------
(***************************************************************************)
(* An EXAM with a short answer and a program, by two handlers.  A          *)
(* behaviour for TLC is of one of two parts: one with the reports of the   *)
(* proctoring, where the program earns nothing and is not judged again,    *)
(* and one without them, for the sums of both.                             *)
(***************************************************************************)
EXTENDS MCExamResults

VARIABLE part

\* The program is handed in by submitSession only, which gives it no point.
OfShortAnswer ==
  /\ mark[c] \in {None, 0}
  /\ \A p \in Process : /\ proc[p].pc = "save" => proc[p].item = s
                        /\ proc[p].pc = "grade" => proc[p].items = {s}

Reports == {"log", "sum", "warn", "cancel", "penalty"}

\* More than the least is awarded while nothing else is graded.
OfBoth ==
  /\ At(Reports) = {}
  /\ awarded \notin 0..5 => Cardinality(At({"grade", "commit", "sync", "award"})) <= 1

WithinPart == (part = "conduct" => OfShortAnswer) /\ (part = "sums" => OfBoth)

InitOfParts == Init /\ part \in {"conduct", "sums"}

NextOfParts == Next /\ UNCHANGED part /\ WithinPart'

SpecOfParts == InitOfParts /\ [][NextOfParts]_<<vars, part>>
=============================================================================
