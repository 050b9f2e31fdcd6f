--------------------------------- MODULE Types ---------------------------------
(***************************************************************************)
(* struct midpar_Type as far as conversions look at it                     *)
(* (include/parser/type.h), the questions src/sema/type.c answers about    *)
(* it, and implicit conversions and their ranks (src/sema/typecheck.c).    *)
(* volatile is left out: it is treated as const is.                        *)
(***************************************************************************)
EXTENDS Naturals, Sequences

Integral == {"CHAR", "SCHAR", "UCHAR", "WCHAR", "CHAR16", "CHAR32", "SHORT",
             "USHORT", "INT", "UINT", "LONG", "ULONG", "LONGLONG", "ULONGLONG",
             "BOOL"}

Floating == {"FLOAT", "DOUBLE", "LONGDOUBLE"}

Named == {"STRUCT", "UNION"}

Specs == Integral \cup Floating \cup Named \cup {"VOID", "NULLPTR", "ARRAY"}

\* quals: whether each level of indirection is const, that of the outermost
\* pointer first.  class: the class it names.  elem: of an array, the specifier
\* and the quals of an element.
Elem == [spec : Specs, quals : Seq(BOOLEAN)]

Type == [spec : Specs, quals : Seq(BOOLEAN) \ {<<>>}, ref : {"none", "lv", "rv"},
         class : Nat, elem : Seq(Elem)]

ValueTypes == {"LVALUE", "XVALUE", "PRVALUE"}

Plain(spec) ==
  [spec |-> spec, quals |-> <<FALSE>>, ref |-> "none", class |-> 0, elem |-> <<>>]

Indir(type) == Len(type.quals) - 1

IsRvalue(valtype) == valtype # "LVALUE"

IsScalar(type) == Indir(type) > 0 \/ type.spec \in Integral \cup Floating

IsVoidPtr(type) == Indir(type) = 1 /\ type.spec = "VOID"

IsNullptr(type) == Indir(type) = 0 /\ type.spec = "NULLPTR"

IsClass(type) == Indir(type) = 0 /\ type.spec \in Named
-----------------------------------------------------------------------------
NonconstLvRef(type) == type.ref = "lv" /\ ~type.quals[1]

\* A reference that cannot be bound to a value of that kind.
Unbindable(valtype, dest) ==
  \/ dest.ref = "rv" /\ ~IsRvalue(valtype)
  \/ NonconstLvRef(dest) /\ IsRvalue(valtype)

IsValidArrayToPtr(src, dest) ==
  /\ src.spec = "ARRAY" /\ Indir(src) = 0
  /\ ~NonconstLvRef(dest)
  /\ src.elem[1].spec = dest.spec
  /\ src.elem[1].quals = Tail(dest.quals)

\* midsema_can_convert.  Which class a type names is not looked at.
CanConvert(src, valtype, dest) ==
  /\ ~Unbindable(valtype, dest)
  /\ \/ Indir(src) = 0 /\ Indir(dest) = 0 /\ IsScalar(src) /\ IsScalar(dest)
     \/ Indir(src) = Indir(dest) /\ src.spec = dest.spec
     \/ Indir(src) > 0 /\ IsVoidPtr(dest)
     \/ IsNullptr(src) /\ Indir(dest) > 0
     \/ IsValidArrayToPtr(src, dest)

\* midsema_conversion_rank: exact match, promotion, conversion.
ConversionRank(src, dest) ==
  CASE Indir(src) = Indir(dest) /\ src.spec = dest.spec -> 1
    [] /\ ~(Indir(src) = Indir(dest) /\ src.spec = dest.spec)
       /\ Indir(src) = 0 /\ Indir(dest) = 0
       /\ \/ src.spec \in Integral /\ dest.spec \in Integral
          \/ src.spec \in Floating /\ dest.spec \in Floating -> 2
    [] OTHER -> 3
=============================================================================
