---------------------------- MODULE MCBookingSlots ----------------------------
(***************************************************************************)
(* Small instances of BookingSlots.  One unit of time is a quarter of an   *)
(* hour, or half of one where only the order of the instants matters.      *)
(***************************************************************************)
EXTENDS BookingSlots, TLC

CONSTANTS an, bo, k1, k2, p1, p2

Ask(who, booth, kind, start, end) ==
  [who |-> who, booth |-> booth, kind |-> kind, start |-> start, end |-> end,
   date |-> DayOf(start)]

\* The same slot for two students.
Contended == {Ask(an, k1, "PRACTICE", 1, 2), Ask(bo, k1, "PRACTICE", 1, 2)}

\* EXAMs at both booths, so that a transfer can bring a second one to the booth,
\* and a session between them that keeps no gap.
AroundExams == {Ask(an, k1, "EXAM", 2, 4), Ask(an, k2, "PRACTICE", 4, 5),
                Ask(an, k2, "EXAM", 5, 7)}

BoAtK1 == {<<bo, k1>>}

Processes == Permutations({p1, p2})

\* The students of Contended ask for the same.
Alike == Processes \cup Permutations({an, bo})
=============================================================================
