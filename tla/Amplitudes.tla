------------------------------ MODULE Amplitudes ------------------------------
(***************************************************************************)
(* Complex amplitudes, abstracted to the field of 17 elements.  The gates  *)
(* of the repository have their entries in the ring generated by i, by     *)
(* 1/sqrt(2) and by roots of unity, here up to the sixteenth.  That ring   *)
(* maps onto this field, with i to 4 and 1/sqrt(2) to 3, and the map       *)
(* respects sums and products: what the code computes with exact           *)
(* arithmetic is computed here modulo 17, and equal amplitudes have equal  *)
(* images.                                                                 *)
(***************************************************************************)
EXTENDS Integers, Functions

Amplitude == 0..16

Plus(a, b) == (a + b) % 17
Minus(a, b) == (a - b) % 17
Times(a, b) == (a * b) % 17

I == 4
InvSqrt2 == 3
RootOfUnity8 == 15
RootOfUnity16 == 7
Half == 9

\* The sum of the values of f.
Total(f) == SumFunction(f) % 17

\* The inverse of 2^n.
InversePower2(n) == (Half ^ n) % 17

ASSUME FieldOfAmplitudes ==
  /\ Times(I, I) = Minus(0, 1)
  /\ Times(2, Times(InvSqrt2, InvSqrt2)) = 1
  /\ Times(RootOfUnity8, RootOfUnity8) = I
  /\ Times(RootOfUnity16, RootOfUnity16) = RootOfUnity8
  /\ Times(2, Half) = 1
===============================================================================
