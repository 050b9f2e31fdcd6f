-------------------------------- MODULE MCAPInt --------------------------------
(***************************************************************************)
(* Integers of one, two and three words of WordBits bits, with every value *)
(* there is, and the calls that keep their promise at each width.          *)
(***************************************************************************)
EXTENDS APInt

\* Every call that keeps its promise, with every operand of n bits.
MCOps == [n \in Widths |-> AllOps \ Broken(n)]

\* The same client, which also makes calls that are broken.
MCWith(more) == [n \in Widths |-> MCOps[n] \cup more]
MCWithLongDivision == MCWith({"udiv_long", "urem_long"})
MCWithDivRem == MCWith({"udivrem_long"})
MCWithSignedCmp == MCWith({"signed_cmp"})

\* The calls and their answers tell states apart only as long as they are made.
MCView == <<a, b>>
-----------------------------------------------------------------------------
(***************************************************************************)
(* Of two integers of several words, midint_nip_udiv gives the quotient    *)
(* and midint_nip_urem the remainder, as the comment on knuth_bignum_div   *)
(* says it computes them.                                                  *)
(***************************************************************************)
LongDivisionExact ==
  [][/\ call'.op = "udiv_long" => Value(a') = Value(a) \div Value(b)
     /\ call'.op = "urem_long" => Value(a') = Value(a) % Value(b)]_vars

(***************************************************************************)
(* midint_udivrem may be given its operands for its outputs: of a number   *)
(* less than its divisor it leaves the number itself as the remainder.     *)
(***************************************************************************)
DivRemInPlace ==
  [][call'.op = "udivrem_long" /\ Value(a) < Value(b) =>
       Value(a') = 0 /\ Value(b') = Value(a)]_vars

(***************************************************************************)
(* midint_signed_cmp returns -1, 0 or 1 as a is less than, equal to or     *)
(* greater than b, both taken as signed.                                   *)
(***************************************************************************)
SignedCmpOrders ==
  [][call'.op = "signed_cmp" =>
       LET Signed(v) == IF Negative(v) THEN Value(v) - 2^v.n ELSE Value(v)
       IN  out' = Cmp(Signed(a), Signed(b))]_vars
=============================================================================
