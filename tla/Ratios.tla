-------------------------------- MODULE Ratios --------------------------------
(***************************************************************************)
(* Fractions, as pairs of integers whose second is positive, and the order *)
(* in which the tools list what they have scored.                          *)
(***************************************************************************)
EXTENDS Integers, FiniteSets, Functions

CONSTANTS ValueError, KeyError   \* the answer of any of the tools where the code raises one

ASSUME ValueErrorAssumption == ValueError \notin Int   \* nobody takes the error for a number

Ratio(n, d)  == IF d = 0 THEN <<0, 1>> ELSE <<n, d>>    \* _safe_ratio
Leq(a, b)    == a[1] * b[2] <= b[1] * a[2]
Equal(a, b)  == a[1] * b[2] = b[1] * a[2]
Plus(a, b)   == <<a[1] * b[2] + b[1] * a[2], a[2] * b[2]>>
Divide(a, b) == Ratio(a[1] * b[2], a[2] * b[1])

\* The sum of a function's fractions.
SumRatios(f) == FoldFunction(Plus, <<0, 1>>, f)

-----------------------------------------------------------------------------
(* Sorting: the better score first, then the smaller id *)

Before(score, d, e) == score[d] > score[e] \/ (score[d] = score[e] /\ d < e)

InOrder(S, score) ==
  LET place == [d \in S |-> Cardinality({e \in S : Before(score, e, d)}) + 1]
  IN  [r \in 1..Cardinality(S) |-> CHOOSE d \in S : place[d] = r]

\* The elements of a sequence that are at some of its places.
Picked(s, places) ==
  LET place == InOrder(places, [n \in places |-> 0])
  IN  [k \in DOMAIN place |-> s[place[k]]]
=============================================================================
