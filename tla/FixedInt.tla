------------------------------- MODULE FixedInt -------------------------------
(***************************************************************************)
(* What include/apint.h promises: a holds the integer x and b the integer  *)
(* y, of n and m bits in two's complement, and a call does to them what    *)
(* its name says, whatever the words they are kept in.                     *)
(***************************************************************************)
EXTENDS Integers

VARIABLES
  n, x,   \* the width and the value, as an unsigned number, of a
  m, y,   \* and those of b
  call,   \* the last call: its name op, its immediate k, the width of a after it
  out     \* what it returned

vars == <<n, x, m, y, call, out>>

Signed(v, bits) == IF v >= 2^(bits - 1) THEN v - 2^bits ELSE v

Bit(v, k) == (v \div 2^k) % 2

\* The number of width bits with ones in those places.
FromBits(width, ones) ==
  LET sum[k \in 0..width] ==
        IF k = 0 THEN 0 ELSE sum[k-1] + (IF k-1 \in ones THEN 2^(k-1) ELSE 0)
  IN  sum[width]

Abs(v) == IF v < 0 THEN -v ELSE v

\* Division rounds towards zero, as that of C++ does.
Quotient(p, q) == IF (p < 0) = (q < 0) THEN Abs(p) \div Abs(q) ELSE -(Abs(p) \div Abs(q))
Remainder(p, q) == p - q * Quotient(p, q)

Order(p, q) == CASE p < q -> -1 [] p > q -> 1 [] OTHER -> 0

Holds(p) == IF p THEN 1 ELSE 0
-----------------------------------------------------------------------------
\* The calls that give a a new value, which is kept modulo 2^width.
Result(c) ==
  CASE c.op = "init"        -> c.k
    [] c.op = "assign"      -> y
    [] c.op = "assign_uimm" -> c.k
    [] c.op \in {"zext", "trunc", "trunc_in_bignum"} -> x
    [] c.op = "sext"        -> Signed(x, n)
    [] c.op = "add"         -> x + y
    [] c.op = "add_uimm"    -> x + c.k
    [] c.op = "sub"         -> x - y
    [] c.op = "sub_uimm"    -> x - c.k
    [] c.op = "mul"         -> x * y
    [] c.op = "mul_uimm"    -> x * c.k
    [] c.op \in {"udiv", "udiv_long"} -> x \div y
    [] c.op \in {"urem", "urem_long"} -> x % y
    [] c.op \in {"sdiv", "sdiv_long"} -> Quotient(Signed(x, n), Signed(y, n))
    [] c.op \in {"srem", "srem_long"} -> Remainder(Signed(x, n), Signed(y, n))
    [] c.op = "shl"         -> x * 2^c.k
    [] c.op = "lshr"        -> x \div 2^c.k
    [] c.op \in {"ashr", "ashr_far"} -> Signed(x, n) \div 2^c.k
    [] c.op = "not"         -> -x - 1
    [] c.op = "negate"      -> -x
    [] c.op = "and"         -> FromBits(n, {k \in 0..n-1 : Bit(x, k) = 1 /\ Bit(y, k) = 1})
    [] c.op = "or"          -> FromBits(n, {k \in 0..n-1 : Bit(x, k) = 1 \/ Bit(y, k) = 1})
    [] c.op = "xor"         -> FromBits(n, {k \in 0..n-1 : Bit(x, k) # Bit(y, k)})
    [] c.op = "inc_bit"     -> x + 2^c.k
    [] c.op = "flip_bit"    -> IF Bit(x, c.k) = 1 THEN x - 2^c.k ELSE x + 2^c.k
    [] c.op = "get_umax"    -> 2^n - 1
    [] c.op = "get_smax"    -> 2^(n-1) - 1
    [] c.op = "get_smin"    -> 2^(n-1)

\* The calls that change nothing and return a number.
Answer(c) ==
  CASE c.op = "get_bit"           -> Bit(x, c.k)
    [] c.op = "is_zero"           -> Holds(x = 0)
    [] c.op \in {"is_signed_min", "is_smin"} -> Holds(x = 2^(n-1))
    [] c.op = "is_all_ones"       -> Holds(x = 2^n - 1)
    [] c.op = "is_negative"       -> Holds(Signed(x, n) < 0)
    [] c.op = "is_pow2"           -> Holds(\E k \in 0..n-1 : x = 2^k)
    [] c.op = "is_eq"             -> Holds(x = y)
    [] c.op \in {"unsigned_cmp", "unsigned_cmp_diff_sizes"} -> Order(x, y)
    [] c.op = "unsigned_cmp_imm"  -> Order(x, c.k)
    [] c.op = "signed_cmp"        -> Order(Signed(x, n), Signed(y, m))
    [] c.op = "to_uint"           -> x
    [] c.op = "to_sint"           -> Signed(x, n)

Answers == {"get_bit", "is_zero", "is_signed_min", "is_smin", "is_all_ones",
            "is_negative", "is_pow2", "is_eq", "unsigned_cmp", "unsigned_cmp_diff_sizes",
            "unsigned_cmp_imm", "signed_cmp", "to_uint", "to_sint"}

Ask == /\ call'.op \in Answers
       /\ out' = Answer(call')
       /\ UNCHANGED <<n, x, m, y>>

Copy == /\ call'.op = "copy"
        /\ <<m', y'>> = <<n, x>>
        /\ UNCHANGED <<n, x, out>>

\* The product of all bits, in twice as many.
FullMul == /\ call'.op = "ufullmul"
           /\ n' = 2 * n /\ x' = x * y
           /\ UNCHANGED <<m, y, out>>

\* The quotient and the remainder in one call, in place of the operands.
DivRem == /\ call'.op \in {"udivrem", "udivrem_long", "sdivrem", "sdivrem_long"}
          /\ LET unsigned == call'.op \in {"udivrem", "udivrem_long"}
                 p == IF unsigned THEN x ELSE Signed(x, n)
                 q == IF unsigned THEN y ELSE Signed(y, n)
             IN  /\ x' = Quotient(p, q) % 2^n
                 /\ y' = Remainder(p, q) % 2^m
          /\ UNCHANGED <<n, m, out>>

Compute == /\ call'.op \notin Answers \cup {"copy", "ufullmul", "udivrem", "udivrem_long",
                                            "sdivrem", "sdivrem_long"}
           /\ n' = call'.n
           /\ x' = Result(call') % 2^n'
           /\ UNCHANGED <<m, y, out>>

Init == x = 0 /\ y = 0

Next == Ask \/ Copy \/ FullMul \/ DivRem \/ Compute

Spec == Init /\ [][Next]_vars
=============================================================================
