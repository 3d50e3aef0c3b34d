------------------------- MODULE MCBookingLifecycle -------------------------
(***************************************************************************)
(* Small instances of BookingLifecycle.  One unit of time is a quarter of  *)
(* an hour: check-in opens one unit early and an EXAM is missed one unit   *)
(* after its start, as the defaults of the code have it.                   *)
(***************************************************************************)
EXTENDS BookingLifecycle, TLC

CONSTANTS an, k1, b1, b2, r1, r2, j1

\* One EXAM.
OneExam == [b \in {b1} |->
  [who |-> an, booth |-> k1, kind |-> "EXAM", start |-> 1, end |-> 2]]

\* An EXAM and, after the gap the rules require, a PRACTICE at the same booth:
\* at the end of the first both are in their check-in windows.
TwoInARow == [b \in {b1, b2} |->
  IF b = b1 THEN [who |-> an, booth |-> k1, kind |-> "EXAM", start |-> 1, end |-> 2]
            ELSE [who |-> an, booth |-> k1, kind |-> "PRACTICE", start |-> 3, end |-> 4]]

TwoRequests == {r1, r2}
Requests == Permutations(TwoRequests)
=============================================================================
