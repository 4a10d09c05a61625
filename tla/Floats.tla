------------------------------- MODULE Floats -------------------------------
(***************************************************************************)
(* Python's floats as far as the program's decisions need them: a number   *)
(* or "not a number", compared as IEEE 754 says, and min and max as Python *)
(* computes them: the first argument stays unless the other one compares.  *)
(* Infinity is a number beyond all that occur.                             *)
(***************************************************************************)
EXTENDS Integers

Float == [nan : BOOLEAN, val : Int]

Number(n) == [nan |-> FALSE, val |-> n]
NotANumber == [nan |-> TRUE, val |-> 0]
Infinity == Number(1000)

\* a < b: false whenever one of the two is not a number.
Below(a, b) == ~a.nan /\ ~b.nan /\ a.val < b.val

\* min(a, b) and max(a, b)
PyMin(a, b) == IF Below(b, a) THEN b ELSE a
PyMax(a, b) == IF Below(a, b) THEN b ELSE a

=============================================================================
