------------------------------- MODULE Field61 -------------------------------
(***************************************************************************)
(* The prime field of VDPF values, vdpf/include/field61.h.  The code fixes *)
(* Modulus to 2^61 - 1; sums and products are formed in 128 bits, so they  *)
(* never wrap before the reduction.                                        *)
(***************************************************************************)
EXTENDS Integers

CONSTANT Modulus

ASSUME ModulusAssumption == Modulus \in Nat \ {0, 1}

Element == 0 .. Modulus - 1

field61_reduce(v) == v % Modulus

field61_add(left, right) == field61_reduce(left + right)

field61_mul(left, right) == field61_reduce(left * right)

\* Defined by the code for reduced arguments only.
field61_sub(left, right) ==
  IF left >= right THEN left - right ELSE Modulus - (right - left)

\* Variant: zero is not told apart.
field61_neg_unreduced(v) == Modulus - v

field61_neg(v) == IF v = 0 THEN 0 ELSE Modulus - v
=============================================================================
