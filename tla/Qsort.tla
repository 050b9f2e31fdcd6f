--------------------------------- MODULE Qsort ---------------------------------
(***************************************************************************)
(* mid_qsort of src/sort.c: a quicksort whose pivot is the middle element. *)
(* The recursion is a stack of the ranges that are still to be sorted.     *)
(* Indices are one more than those of C.                                   *)
(***************************************************************************)
EXTENDS Integers, Sequences

CONSTANTS
  Elems,           \* what arrays hold
  Infos,           \* what info may be
  Comp(_, _, _)    \* comp(a, b, info)

VARIABLES
  v,       \* the array
  info,    \* what comp is given beside two elements
  ranges,  \* the calls of mid_qsort_impl to come: left and right, last first
  part     \* the one that is running, or Idle

vars == <<v, info, ranges, part>>

-----------------------------------------------------------------------------
Segment == [left : Nat, right : Nat]

Part == [left : Nat, right : Nat, i : Nat, last : Nat]

Idle == [left |-> 0, right |-> 0, i |-> 0, last |-> 0]

Running == part # Idle

Top == ranges[Len(ranges)]

Popped == SubSeq(ranges, 1, Len(ranges) - 1)

\* Mutant: one of the two elements is lost.
SwapLosing(i, j) == [v EXCEPT ![i] = v[j]]

Swap(i, j) == [v EXCEPT ![i] = v[j], ![j] = v[i]]

\* Mutant: the number of elements is taken for the last index.
WholeTooLong(array) == <<[left |-> 1, right |-> Len(array) + 1]>>

\* mid_qsort: the call for the whole array.
Whole(array) == <<[left |-> 1, right |-> Len(array)]>>

Init ==
  /\ v \in Seq(Elems)
  /\ info \in Infos
  /\ ranges = Whole(v)
  /\ part = Idle

\* A call with a range of at most one element.
Return ==
  /\ ~Running /\ ranges # <<>>
  /\ Top.left >= Top.right
  /\ ranges' = Popped
  /\ UNCHANGED <<v, info, part>>

\* The middle element becomes the pivot, at the left.
Enter ==
  /\ ~Running /\ ranges # <<>>
  /\ Top.left < Top.right
  /\ v' = Swap(Top.left, (Top.left + Top.right) \div 2)
  /\ part' = [left |-> Top.left, right |-> Top.right, i |-> Top.left + 1, last |-> Top.left]
  /\ ranges' = Popped
  /\ UNCHANGED info

\* One turn of the loop: an element that comes before the pivot is added to
\* those at the left.
Partition ==
  /\ Running /\ part.i <= part.right
  /\ IF Comp(v[part.left], v[part.i], info) > 0
     THEN /\ v' = Swap(part.i, part.last + 1)
          /\ part' = [part EXCEPT !.i = @ + 1, !.last = @ + 1]
     ELSE /\ part' = [part EXCEPT !.i = @ + 1]
          /\ UNCHANGED v
  /\ UNCHANGED <<info, ranges>>

\* Mutant: the pivot is sorted again with the elements at its right.
RecurseOnPivot ==
  /\ Running /\ part.i > part.right
  /\ v' = Swap(part.left, part.last)
  /\ ranges' = ranges \o <<[left |-> part.last, right |-> part.right],
                           [left |-> part.left, right |-> part.last - 1]>>
  /\ part' = Idle
  /\ UNCHANGED info

\* The pivot goes between the two parts, which are then sorted, left first.
Recurse ==
  /\ Running /\ part.i > part.right
  /\ v' = Swap(part.left, part.last)
  /\ ranges' = ranges \o <<[left |-> part.last + 1, right |-> part.right],
                           [left |-> part.left, right |-> part.last - 1]>>
  /\ part' = Idle
  /\ UNCHANGED info

Sorted == ~Running /\ ranges = <<>>

Next == Return \/ Enter \/ Partition \/ Recurse

Spec == Init /\ [][Next]_vars
-----------------------------------------------------------------------------
\* Types of the state; every range lies in the array.
TypeOK ==
  /\ v \in Seq(Elems)
  /\ info \in Infos
  /\ ranges \in Seq(Segment)
  /\ \A r \in 1..Len(ranges) : ranges[r].left >= 1 /\ ranges[r].right <= Len(v)
  /\ part \in Part
  /\ Running => /\ 1 <= part.left /\ part.left <= part.last
                /\ part.last < part.i /\ part.i <= part.right + 1
                /\ part.right <= Len(v)
=============================================================================
