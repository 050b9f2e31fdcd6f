------------------------------ MODULE Qsort_proofs ------------------------------
(***************************************************************************)
(* mid_qsort with a comparison that is only a strict partial order, as     *)
(* that of overload resolution is: it does not sort, but no element comes  *)
(* before the first one.  The comparisons that tell are those of the calls *)
(* for the leftmost range.                                                 *)
(***************************************************************************)
EXTENDS Qsort, SequenceTheorems, TLAPS

\* x is to come before y.
Before(x, y) == Comp(y, x, info) > 0

StrictOn(S, c) ==
  \A x, y, z \in S :
    /\ ~(Comp(x, x, c) > 0)
    /\ Comp(y, x, c) > 0 /\ Comp(z, y, c) > 0 => Comp(z, x, c) > 0

Ordered == \E S : v \in Seq(S) /\ StrictOn(S, info)

RangesOK ==
  /\ ranges \in Seq(Segment)
  /\ \A r \in 1..Len(ranges) : ranges[r].left >= 1 /\ ranges[r].right <= Len(v)

PartOK ==
  /\ part \in Part
  /\ Running => /\ 1 <= part.left /\ part.left <= part.last
                /\ part.last < part.i /\ part.i <= part.right + 1
                /\ part.right <= Len(v)

\* Only the call that comes next may be for a range that starts the array.
OneHead ==
  \A r \in 1..Len(ranges) : r < Len(ranges) \/ Running => ranges[r].left >= 2

\* What is at the left of the turn of the loop, and of the turns to come.
Parted ==
  Running =>
    /\ \A k \in part.left+1..part.last : Before(v[k], v[part.left])
    /\ \A k \in part.last+1..part.i-1 : ~Before(v[k], v[part.left])

\* The end of the range that starts the array, or 1 when it is done.
HeadEnd ==
  IF Running THEN IF part.left = 1 THEN part.right ELSE 1
  ELSE IF ranges # <<>> /\ Top.left = 1 /\ Top.right >= 1 THEN Top.right ELSE 1

\* Nothing outside of that range comes before anything in it.
HeadFirst ==
  \A i \in 1..HeadEnd, j \in 1..Len(v) : j > HeadEnd => ~Before(v[j], v[i])

Inv == Ordered /\ RangesOK /\ PartOK /\ OneHead /\ Parted /\ HeadFirst

NoneBefore == Sorted => \A j \in 1..Len(v) : ~Before(v[j], v[1])
-----------------------------------------------------------------------------
\* swap keeps the array an array of the same length and of the same elements.
LEMMA SwapType ==
  ASSUME NEW S, v \in Seq(S), NEW i \in 1..Len(v), NEW j \in 1..Len(v)
  PROVE  /\ Swap(i, j) \in Seq(S)
         /\ Len(Swap(i, j)) = Len(v)
         /\ \A k \in 1..Len(v) :
              Swap(i, j)[k] = IF k = j THEN v[i] ELSE IF k = i THEN v[j] ELSE v[k]
BY DEF Swap

\* After the last comparison and when no range is left, nothing comes before
\* the first element.
LEMMA InvImpliesNoneBefore == Inv => NoneBefore
<1> SUFFICES ASSUME Inv, Sorted, NEW j \in 1..Len(v)
             PROVE  ~Before(v[j], v[1])
  BY DEF NoneBefore
<1>1. HeadEnd = 1
  BY DEF Sorted, HeadEnd
<1>2. CASE j = 1
  <2>1. PICK S : v \in Seq(S) /\ StrictOn(S, info)
    BY DEF Inv, Ordered
  <2>2. v[1] \in S
    BY <1>2, <2>1
  <2> QED
    BY <1>2, <2>1, <2>2 DEF StrictOn, Before
<1>3. CASE j # 1
  BY <1>1, <1>3 DEF Inv, HeadFirst
<1> QED
  BY <1>2, <1>3

\* The call for the whole array.
Fresh == Ordered /\ ranges = Whole(v) /\ part = Idle

LEMMA FreshInv == Fresh => Inv
<1> SUFFICES ASSUME Fresh PROVE Inv
  OBVIOUS
<1>1. Len(v) \in Nat
  BY DEF Fresh, Ordered
<1>2. RangesOK /\ OneHead
  BY <1>1 DEF Fresh, Whole, RangesOK, OneHead, Segment, Running
<1>3. ~Running /\ PartOK /\ Parted
  BY DEF Fresh, Running, PartOK, Parted, Part, Idle
<1>4. ranges # <<>> /\ Top.left = 1 /\ Top.right = Len(v)
  BY <1>1 DEF Fresh, Whole, Top
<1>5. HeadFirst
  BY <1>1, <1>3, <1>4 DEF HeadFirst, HeadEnd
<1> QED
  BY <1>2, <1>3, <1>5 DEF Inv, Fresh
-----------------------------------------------------------------------------
\* The stack without its top.
LEMMA PoppedType ==
  ASSUME ranges \in Seq(Segment), ranges # <<>>
  PROVE  /\ Popped \in Seq(Segment) /\ Len(Popped) = Len(ranges) - 1
         /\ \A r \in 1..Len(ranges)-1 : Popped[r] = ranges[r]
         /\ Len(ranges) \in Nat \ {0} /\ Top \in Segment
<1> DEFINE n == Len(ranges)
<1>1. n \in Nat \ {0} /\ \A r \in 1..n : ranges[r] \in Segment
  OBVIOUS
<1>2. /\ SubSeq(ranges, 1, n - 1) \in Seq(Segment)
      /\ Len(SubSeq(ranges, 1, n - 1)) = IF 1 <= n - 1 THEN (n - 1) - 1 + 1 ELSE 0
      /\ \A r \in 1..(n-1)-1+1 : SubSeq(ranges, 1, n - 1)[r] = ranges[1 + r - 1]
  <2>1. \A r \in 1..n-1 : ranges[r] \in Segment
    BY <1>1
  <2> HIDE DEF n
  <2> QED
    BY <1>1, <2>1, SubSeqProperties
<1>3. Len(SubSeq(ranges, 1, n - 1)) = n - 1
      /\ \A r \in 1..n-1 : SubSeq(ranges, 1, n - 1)[r] = ranges[r]
  <2> HIDE DEF n
  <2> QED
    BY <1>1, <1>2
<1>4. Top \in Segment
  BY <1>1 DEF Top
<1> QED
  BY <1>1, <1>2, <1>3, <1>4 DEF Popped

LEMMA ReturnInv == Inv /\ Return => Inv'
<1> SUFFICES ASSUME Inv, Return PROVE Inv'
  OBVIOUS
<1> DEFINE n == Len(ranges)
<1>1. ranges \in Seq(Segment) /\ ranges # <<>> /\ n \in Nat \ {0} /\ Top \in Segment
  BY PoppedType DEF Inv, RangesOK, Return
<1>2. ranges' \in Seq(Segment) /\ Len(ranges') = n - 1
      /\ \A r \in 1..n-1 : ranges'[r] = ranges[r]
  BY <1>1, PoppedType DEF Return
<1>3. v' = v /\ info' = info /\ part' = part /\ ~Running /\ ~Running'
  BY DEF Return, Running, Idle
<1>4. RangesOK'
  BY <1>1, <1>2, <1>3 DEF Inv, RangesOK
<1>5. OneHead'
  BY <1>1, <1>2, <1>3 DEF Inv, OneHead
<1>6. HeadEnd = 1
  BY <1>1, <1>3 DEF HeadEnd, Return, Segment
<1>7. ranges' # <<>> => Top'.left >= 2 /\ Top'.left \in Nat
  <2>1. ASSUME ranges' # <<>> PROVE Top' = ranges[n-1] /\ n-1 \in 1..n-1
    BY <1>1, <1>2, <2>1 DEF Top
  <2>2. \A r \in 1..n-1 : ranges[r].left >= 2
    BY <1>1 DEF Inv, OneHead
  <2>3. \A r \in 1..n-1 : ranges[r].left \in Nat
    <3>1. \A r \in 1..n-1 : ranges[r] \in Segment
      BY <1>1
    <3> QED
      BY <3>1 DEF Segment
  <2> QED
    BY <2>1, <2>2, <2>3
<1>8. HeadEnd' = 1
  BY <1>3, <1>7 DEF HeadEnd
<1>9. HeadFirst'
  BY <1>3, <1>6, <1>8 DEF Inv, HeadFirst, Before
<1>10. Ordered' /\ PartOK' /\ Parted'
  BY <1>3 DEF Inv, Ordered, PartOK, Parted, Before, Running, Idle, Part, StrictOn
<1> QED
  BY <1>4, <1>5, <1>9, <1>10 DEF Inv
-----------------------------------------------------------------------------
\* A swap inside the leftmost range, or outside of it, keeps what is in it.
LEMMA SwapWithin ==
  ASSUME Ordered, HeadFirst, NEW i \in 1..Len(v), NEW j \in 1..Len(v),
         v' = Swap(i, j), info' = info, HeadEnd \in Nat, HeadEnd' = HeadEnd,
         i <= HeadEnd <=> j <= HeadEnd
  PROVE  HeadFirst' /\ Ordered' /\ Len(v') = Len(v)
<1>1. PICK S : v \in Seq(S) /\ StrictOn(S, info)
  BY DEF Ordered
<1>2. /\ v' \in Seq(S) /\ Len(v') = Len(v)
      /\ \A k \in 1..Len(v) :
           v'[k] = IF k = j THEN v[i] ELSE IF k = i THEN v[j] ELSE v[k]
  BY <1>1, SwapType
<1>3. Ordered'
  BY <1>1, <1>2 DEF Ordered, StrictOn
<1>4. SUFFICES ASSUME NEW x \in 1..HeadEnd, NEW y \in 1..Len(v), y > HeadEnd, x <= Len(v)
               PROVE  ~(Comp(v'[x], v'[y], info) > 0)
  <2>1. \A x \in 1..HeadEnd, y \in 1..Len(v) : y > HeadEnd => x <= Len(v)
    BY <1>1
  <2> QED
    BY <1>2, <1>3, <2>1 DEF HeadFirst, Before
<1> DEFINE x0 == IF x = j THEN i ELSE IF x = i THEN j ELSE x
           y0 == IF y = j THEN i ELSE IF y = i THEN j ELSE y
<1>5. x0 \in 1..HeadEnd /\ y0 \in 1..Len(v) /\ y0 > HeadEnd
  BY <1>1, <1>4
<1>6. v'[x] = v[x0] /\ v'[y] = v[y0]
  BY <1>1, <1>2, <1>4
<1> HIDE DEF x0, y0
<1> QED
  BY <1>5, <1>6 DEF HeadFirst, Before

LEMMA EnterInv == Inv /\ Enter => Inv'
<1> SUFFICES ASSUME Inv, Enter PROVE Inv'
  OBVIOUS
<1> DEFINE n == Len(ranges)
           l == Top.left
           r == Top.right
           m == (l + r) \div 2
<1>1. /\ ranges # <<>> /\ n \in Nat \ {0} /\ Top \in Segment
      /\ Popped \in Seq(Segment) /\ Len(Popped) = n - 1
      /\ \A k \in 1..n-1 : Popped[k] = ranges[k]
  BY PoppedType DEF Inv, RangesOK, Enter
<1>2. l \in Nat /\ r \in Nat /\ l < r
  BY <1>1 DEF Enter, Segment
<1>3. l >= 1 /\ r <= Len(v)
  BY <1>1 DEF Inv, RangesOK, Top
<1>4. Len(v) \in Nat
  BY DEF Inv, Ordered
<1>5. m \in l..r
  BY <1>2
<1>6. /\ v' = Swap(l, m) /\ info' = info /\ ranges' = Popped /\ ~Running
      /\ part' = [left |-> l, right |-> r, i |-> l + 1, last |-> l]
  BY DEF Enter
<1>7. part'.left = l /\ part'.right = r /\ part'.i = l + 1 /\ part'.last = l
  BY <1>6
<1>8. Running'
  BY <1>3, <1>6, <1>7 DEF Running, Idle
<1>9. HeadEnd = (IF l = 1 THEN r ELSE 1) /\ HeadEnd' = HeadEnd
  <2> HIDE DEF l, r, m
  <2>1. HeadEnd = IF l = 1 THEN r ELSE 1
    BY <1>1, <1>2, <1>6 DEF HeadEnd, l, r
  <2>2. HeadEnd' = IF l = 1 THEN r ELSE 1
    BY <1>7, <1>8 DEF HeadEnd
  <2> QED
    BY <2>1, <2>2
<1> HIDE DEF l, r, m
<1>10. HeadFirst' /\ Ordered' /\ Len(v') = Len(v)
  <2>1. l \in 1..Len(v) /\ m \in 1..Len(v)
    BY <1>2, <1>3, <1>4, <1>5
  <2>2. HeadEnd \in Nat /\ (l <= HeadEnd <=> m <= HeadEnd)
    BY <1>2, <1>3, <1>5, <1>9
  <2> QED
    BY <1>6, <1>9, <2>1, <2>2, SwapWithin DEF Inv
<1>11. PartOK'
  BY <1>2, <1>3, <1>4, <1>6, <1>7, <1>10 DEF PartOK, Part
<1>12. RangesOK'
  BY <1>1, <1>6, <1>10 DEF Inv, RangesOK
<1>13. OneHead'
  <2>1. \A k \in 1..n-1 : ranges[k].left >= 2
    BY <1>1 DEF Inv, OneHead
  <2> QED
    BY <1>1, <1>6, <2>1 DEF OneHead
<1>14. Parted'
  BY <1>2, <1>7 DEF Parted
<1> QED
  BY <1>10, <1>11, <1>12, <1>13, <1>14 DEF Inv
-----------------------------------------------------------------------------
\* What the running call says of its own fields.
LEMMA PartFields ==
  ASSUME Inv, Running
  PROVE  /\ part.left \in Nat /\ part.right \in Nat /\ part.i \in Nat /\ part.last \in Nat
         /\ 1 <= part.left /\ part.left <= part.last /\ part.last < part.i
         /\ part.i <= part.right + 1 /\ part.right <= Len(v) /\ Len(v) \in Nat
         /\ HeadEnd = IF part.left = 1 THEN part.right ELSE 1
BY DEF Inv, Ordered, PartOK, Part, HeadEnd

LEMMA PartitionInv == Inv /\ Partition => Inv'
<1> SUFFICES ASSUME Inv, Partition PROVE Inv'
  OBVIOUS
<1> DEFINE l == part.left
           r == part.right
           k == part.i
           q == part.last
<1>1. /\ l \in Nat /\ r \in Nat /\ k \in Nat /\ q \in Nat /\ Len(v) \in Nat
      /\ 1 <= l /\ l <= q /\ q < k /\ k <= r /\ r <= Len(v)
      /\ HeadEnd = IF l = 1 THEN r ELSE 1
  BY PartFields DEF Partition
<1>2. Running /\ ranges' = ranges /\ info' = info /\ part \in Part
  BY DEF Partition, Inv, PartOK
<1>3. PICK S : v \in Seq(S) /\ StrictOn(S, info)
  BY DEF Inv, Ordered
<1>4. CASE Before(v[k], v[l])
  <2>1. v' = Swap(k, q + 1) /\ part' = [part EXCEPT !.i = k + 1, !.last = q + 1]
    BY <1>4 DEF Partition, Before
  <2>2. /\ part' \in Part /\ part'.left = l /\ part'.right = r
        /\ part'.i = k + 1 /\ part'.last = q + 1
    <3>1. k + 1 \in Nat /\ q + 1 \in Nat
      BY <1>1
    <3> HIDE DEF l, r, k, q
    <3>2. \A x, y \in Nat :
            /\ [part EXCEPT !.i = x, !.last = y] \in Part
            /\ [part EXCEPT !.i = x, !.last = y].left = part.left
            /\ [part EXCEPT !.i = x, !.last = y].right = part.right
            /\ [part EXCEPT !.i = x, !.last = y].i = x
            /\ [part EXCEPT !.i = x, !.last = y].last = y
      BY <1>2 DEF Part
    <3> QED
      BY <2>1, <3>1, <3>2 DEF l, r
  <2>3. Running'
    BY <1>1, <2>2 DEF Running, Idle
  <2> HIDE DEF l, r, k, q
  <2>4. HeadEnd' = HeadEnd
    BY <1>1, <2>2, <2>3 DEF HeadEnd
  <2>5. k \in 1..Len(v) /\ q + 1 \in 1..Len(v)
    BY <1>1
  <2>6. HeadEnd \in Nat /\ (k <= HeadEnd <=> q + 1 <= HeadEnd)
    BY <1>1
  <2>7. HeadFirst' /\ Ordered' /\ Len(v') = Len(v)
    BY <1>2, <2>1, <2>4, <2>5, <2>6, SwapWithin DEF Inv
  <2>8. RangesOK' /\ OneHead'
    BY <1>2, <2>3, <2>7 DEF Inv, RangesOK, OneHead
  <2>9. PartOK'
    BY <1>1, <2>2, <2>7 DEF PartOK
  <2>10. \A x \in 1..Len(v) :
           v'[x] = IF x = q + 1 THEN v[k] ELSE IF x = k THEN v[q + 1] ELSE v[x]
    BY <1>3, <2>1, <2>5, SwapType
  <2>11. v'[l] = v[l]
    BY <1>1, <2>10
  <2>12. /\ \A x \in l+1..q : Before(v[x], v[l])
         /\ \A x \in q+1..k-1 : ~Before(v[x], v[l])
    BY <1>2 DEF Inv, Parted, l, q, k
  <2>13. ASSUME NEW x \in l+1..q+1
         PROVE  Comp(v'[l], v'[x], info) > 0
    <3>1. CASE x = q + 1
      BY <1>1, <1>4, <2>10, <2>11, <3>1 DEF Before
    <3>2. CASE x # q + 1
      <4>1. x \in l+1..q /\ x \in 1..Len(v) /\ x # k
        BY <1>1, <3>2
      <4>2. v'[x] = v[x]
        BY <2>10, <3>2, <4>1
      <4> QED
        BY <2>11, <2>12, <4>1, <4>2 DEF Before
    <3> QED
      BY <3>1, <3>2
  <2>14. ASSUME NEW x \in q+2..k
         PROVE  ~(Comp(v'[l], v'[x], info) > 0)
    <3>1. x \in 1..Len(v) /\ x # q + 1
      BY <1>1
    <3>2. CASE x = k
      <4>1. v'[x] = v[q + 1] /\ q + 1 \in q+1..k-1
        BY <1>1, <2>10, <3>1, <3>2
      <4> QED
        BY <2>11, <2>12, <4>1 DEF Before
    <3>3. CASE x # k
      <4>1. v'[x] = v[x] /\ x \in q+1..k-1
        BY <1>1, <2>10, <3>1, <3>3
      <4> QED
        BY <2>11, <2>12, <4>1 DEF Before
    <3> QED
      BY <3>2, <3>3
  <2>15. Parted'
    <3>1. \A x \in l+1..q+1 : Comp(v'[l], v'[x], info') > 0
      BY <1>2, <2>13
    <3>2. \A x \in (q+1)+1..(k+1)-1 : ~(Comp(v'[l], v'[x], info') > 0)
      BY <1>1, <1>2, <2>14
    <3> QED
      BY <2>2, <3>1, <3>2 DEF Parted, Before
  <2> QED
    BY <2>7, <2>8, <2>9, <2>15 DEF Inv
<1>5. CASE ~Before(v[k], v[l])
  <2>1. v' = v /\ part' = [part EXCEPT !.i = k + 1]
    BY <1>5 DEF Partition, Before
  <2>2. /\ part' \in Part /\ part'.left = l /\ part'.right = r
        /\ part'.i = k + 1 /\ part'.last = q
    BY <1>1, <1>2, <2>1 DEF Part
  <2>3. Running'
    BY <1>1, <2>2 DEF Running, Idle
  <2> HIDE DEF l, r, k, q
  <2>4. HeadEnd' = HeadEnd
    BY <1>1, <2>2, <2>3 DEF HeadEnd
  <2>5. HeadFirst'
    BY <1>2, <2>1, <2>4 DEF Inv, HeadFirst, Before
  <2>6. Ordered' /\ RangesOK' /\ OneHead'
    BY <1>2, <2>1, <2>3 DEF Inv, Ordered, StrictOn, RangesOK, OneHead
  <2>7. PartOK'
    BY <1>1, <2>1, <2>2 DEF PartOK
  <2>8. /\ \A x \in l+1..q : Before(v[x], v[l])
        /\ \A x \in q+1..k-1 : ~Before(v[x], v[l])
    BY <1>2 DEF Inv, Parted, l, q, k
  <2>9. \A x \in q+1..(k+1)-1 : ~Before(v[x], v[l])
    BY <1>1, <1>5, <2>8
  <2>10. Parted'
    BY <1>2, <2>1, <2>2, <2>8, <2>9 DEF Parted, Before
  <2> QED
    BY <2>5, <2>6, <2>7, <2>10 DEF Inv
<1> QED
  BY <1>4, <1>5
-----------------------------------------------------------------------------
\* The two parts go on the stack.
LEMMA PushedType ==
  ASSUME ranges \in Seq(Segment), NEW a \in Segment, NEW b \in Segment
  PROVE  /\ ranges \o <<a, b>> \in Seq(Segment)
         /\ Len(ranges) \in Nat /\ Len(ranges \o <<a, b>>) = Len(ranges) + 2
         /\ \A x \in 1..Len(ranges) : (ranges \o <<a, b>>)[x] = ranges[x]
         /\ (ranges \o <<a, b>>)[Len(ranges) + 1] = a
         /\ (ranges \o <<a, b>>)[Len(ranges) + 2] = b
OBVIOUS

(***************************************************************************)
(* The last turn is over and the pivot goes to q.  What is left of q comes *)
(* before the pivot, and so nothing that does not come before the pivot    *)
(* may come before it: here the comparison has to be transitive.           *)
(***************************************************************************)
LEMMA PivotSplits ==
  ASSUME Inv, Recurse, part.left = 1, HeadEnd' = IF part.last > 1 THEN part.last - 1 ELSE 1
  PROVE  HeadFirst'
<1> DEFINE r == part.right
           q == part.last
<1>1. /\ r \in Nat /\ q \in Nat /\ Len(v) \in Nat /\ 1 <= q /\ q <= r /\ r <= Len(v)
      /\ part.i = r + 1 /\ HeadEnd = r
  BY PartFields DEF Recurse
<1>2. PICK S : v \in Seq(S) /\ StrictOn(S, info)
  BY DEF Inv, Ordered
<1>3. info' = info /\ v' = Swap(1, q) /\ Running
  BY DEF Recurse
<1>4. /\ \A x \in 2..q : Before(v[x], v[1])
      /\ \A x \in q+1..r : ~Before(v[x], v[1])
  BY <1>1, <1>3 DEF Inv, Parted
<1>5. \A x \in 1..r, y \in 1..Len(v) : y > r => ~Before(v[y], v[x])
  BY <1>1 DEF Inv, HeadFirst
<1> HIDE DEF r, q
<1>6. /\ Len(v') = Len(v)
      /\ \A x \in 1..Len(v) : v'[x] = IF x = q THEN v[1] ELSE IF x = 1 THEN v[q] ELSE v[x]
  BY <1>1, <1>2, <1>3, SwapType
<1>7. \A x, y \in 1..Len(v) : Before(v[x], v[1]) /\ Before(v[y], v[x]) => Before(v[y], v[1])
  <2>1. \A x \in 1..Len(v) : v[x] \in S
    BY <1>2
  <2>2. 1 \in 1..Len(v)
    BY <1>1
  <2> QED
    BY <1>2, <2>1, <2>2 DEF StrictOn, Before
<1>8. ~Before(v[1], v[1])
  <2>1. v[1] \in S
    BY <1>1, <1>2
  <2> QED
    BY <1>2, <2>1 DEF StrictOn, Before
<1>9. \A y \in 1..Len(v) : y > q => ~Before(v[y], v[1])
  BY <1>1, <1>4, <1>5
<1>10. CASE q = 1
  <2>1. HeadEnd' = 1 /\ v'[1] = v[1] /\ \A y \in 2..Len(v) : v'[y] = v[y]
    BY <1>1, <1>6, <1>10 DEF q
  <2>2. \A y \in 2..Len(v) : ~Before(v'[y], v'[1])
    BY <1>1, <1>9, <1>10, <2>1 DEF Before
  <2> QED
    BY <1>1, <1>3, <1>6, <2>1, <2>2 DEF HeadFirst, Before
<1>11. CASE q > 1
  <2>1. HeadEnd' = q - 1
    BY <1>11 DEF q
  <2>2. ASSUME NEW x \in 1..q-1, NEW y \in 1..Len(v), y > q - 1
        PROVE  ~(Comp(v'[x], v'[y], info) > 0)
    <3>1. PICK x0 \in 2..q : v'[x] = v[x0]
      <4>1. CASE x = 1
        BY <1>1, <1>6, <1>11, <4>1
      <4>2. CASE x # 1
        <5>1. x \in 2..q /\ v'[x] = v[x]
          BY <1>1, <1>6, <4>2
        <5> QED
          BY <5>1
      <4> QED
        BY <4>1, <4>2
    <3>2. Before(v[x0], v[1]) /\ x0 \in 1..Len(v)
      BY <1>1, <1>4
    <3>3. CASE y = q
      <4>1. v'[y] = v[1]
        BY <1>6, <3>3
      <4>2. 1 \in 1..Len(v)
        BY <1>1
      <4> QED
        BY <1>7, <1>8, <3>1, <3>2, <4>1, <4>2 DEF Before
    <3>4. CASE y # q
      <4>1. y > q /\ v'[y] = v[y]
        BY <1>1, <1>6, <2>2, <3>4
      <4> QED
        BY <1>7, <1>9, <3>1, <3>2, <4>1 DEF Before
    <3> QED
      BY <3>3, <3>4
  <2> QED
    BY <1>3, <1>6, <2>1, <2>2 DEF HeadFirst, Before
<1> QED
  BY <1>1, <1>10, <1>11

LEMMA RecurseInv == Inv /\ Recurse => Inv'
<1> SUFFICES ASSUME Inv, Recurse PROVE Inv'
  OBVIOUS
<1> DEFINE l == part.left
           r == part.right
           q == part.last
           n == Len(ranges)
           a == [left |-> q + 1, right |-> r]
           b == [left |-> l, right |-> q - 1]
<1>1. /\ l \in Nat /\ r \in Nat /\ q \in Nat /\ Len(v) \in Nat
      /\ 1 <= l /\ l <= q /\ q <= r /\ r <= Len(v)
      /\ HeadEnd = IF l = 1 THEN r ELSE 1
  BY PartFields DEF Recurse
<1>2. /\ Running /\ v' = Swap(l, q) /\ info' = info
      /\ ranges' = ranges \o <<a, b>> /\ part' = Idle /\ ~Running'
  BY DEF Recurse, Running
<1>3. a \in Segment /\ b \in Segment
  <2>1. q + 1 \in Nat /\ q - 1 \in Nat /\ l \in Nat /\ r \in Nat
    BY <1>1
  <2> HIDE DEF l, r, q
  <2> QED
    BY <2>1 DEF Segment
<1>4. /\ ranges' \in Seq(Segment) /\ n \in Nat /\ Len(ranges') = n + 2
      /\ \A x \in 1..n : ranges'[x] = ranges[x]
      /\ ranges'[n + 1] = a /\ ranges'[n + 2] = b
  <2> HIDE DEF a, b
  <2> QED
    BY <1>2, <1>3, PushedType DEF Inv, RangesOK
<1>5. a.left = q + 1 /\ a.right = r /\ b.left = l /\ b.right = q - 1
  OBVIOUS
<1> HIDE DEF l, r, q, n, a, b
<1>6. PICK S : v \in Seq(S) /\ StrictOn(S, info)
  BY DEF Inv, Ordered
<1>7. v' \in Seq(S) /\ Len(v') = Len(v)
  BY <1>1, <1>2, <1>6, SwapType
<1>8. Ordered'
  BY <1>2, <1>6, <1>7 DEF Ordered, StrictOn
<1>9. \A x \in 1..n : ranges[x].left >= 1 /\ ranges[x].right <= Len(v) /\ ranges[x].left >= 2
  BY <1>2 DEF Inv, RangesOK, OneHead, n
<1>10. RangesOK'
  <2>1. ASSUME NEW x \in 1..n+2
        PROVE  ranges'[x].left >= 1 /\ ranges'[x].right <= Len(v)
    <3>1. CASE x \in 1..n
      BY <1>4, <1>9, <3>1
    <3>2. CASE x = n + 1
      BY <1>1, <1>4, <1>5, <3>2
    <3>3. CASE x = n + 2
      BY <1>1, <1>4, <1>5, <3>3
    <3> QED
      BY <1>4, <3>1, <3>2, <3>3
  <2> QED
    BY <1>4, <1>7, <2>1 DEF RangesOK
<1>11. OneHead'
  <2>1. ASSUME NEW x \in 1..n+2, x < n + 2
        PROVE  ranges'[x].left >= 2
    <3>1. CASE x \in 1..n
      BY <1>4, <1>9, <3>1
    <3>2. CASE x = n + 1
      BY <1>1, <1>4, <1>5, <3>2
    <3> QED
      BY <1>4, <2>1, <3>1, <3>2
  <2> QED
    BY <1>2, <1>4, <2>1 DEF OneHead
<1>12. PartOK' /\ Parted'
  BY <1>2 DEF PartOK, Parted, Part, Idle
<1>13. HeadEnd' = IF l = 1 /\ q > 1 THEN q - 1 ELSE 1
  <2>1. ranges' # <<>> /\ Top' = b
    BY <1>4 DEF Top
  <2> QED
    BY <1>1, <1>2, <1>5, <2>1 DEF HeadEnd
<1>14. HeadFirst'
  <2>1. CASE l = 1
    <3>1. HeadEnd' = IF part.last > 1 THEN part.last - 1 ELSE 1
      BY <1>13, <2>1 DEF q
    <3> QED
      BY <2>1, <3>1, PivotSplits DEF l
  <2>2. CASE l # 1
    <3>1. HeadEnd = 1 /\ HeadEnd' = HeadEnd /\ HeadEnd \in Nat
      BY <1>1, <1>13, <2>2
    <3>2. /\ l \in 1..Len(v) /\ q \in 1..Len(v)
          /\ (l <= HeadEnd <=> q <= HeadEnd)
      BY <1>1, <2>2, <3>1
    <3> QED
      BY <1>2, <3>1, <3>2, SwapWithin DEF Inv
  <2> QED
    BY <2>1, <2>2
<1> QED
  BY <1>8, <1>10, <1>11, <1>12, <1>14 DEF Inv
-----------------------------------------------------------------------------
\* Every turn of mid_qsort_impl, and every return from it, keeps the invariant.
LEMMA NextInv == Inv /\ [Next]_vars => Inv'
<1> SUFFICES ASSUME Inv, [Next]_vars PROVE Inv'
  OBVIOUS
<1>1. CASE Return
  BY <1>1, ReturnInv
<1>2. CASE Enter
  BY <1>2, EnterInv
<1>3. CASE Partition
  BY <1>3, PartitionInv
<1>4. CASE Recurse
  BY <1>4, RecurseInv
<1>5. CASE UNCHANGED vars
  BY <1>5 DEF vars, Inv, Ordered, StrictOn, RangesOK, PartOK, OneHead, Parted,
              HeadFirst, HeadEnd, Before, Running, Idle, Top, Part
<1> QED
  BY <1>1, <1>2, <1>3, <1>4, <1>5 DEF Next

(***************************************************************************)
(* If comp tells of no element that it comes before itself, and of no two  *)
(* steps before that they do not add up, then mid_qsort ends with a first  *)
(* element that no element comes before, whatever comp leaves undecided.   *)
(***************************************************************************)
THEOREM FirstUnbeaten ==
  ASSUME \A c \in Infos : StrictOn(Elems, c)
  PROVE  Spec => []NoneBefore
<1>1. Init => Inv
  <2> SUFFICES ASSUME Init PROVE Inv
    OBVIOUS
  <2>1. Fresh
    BY DEF Init, Fresh, Ordered
  <2> QED
    BY <2>1, FreshInv
<1>2. Inv /\ [Next]_vars => Inv'
  BY NextInv
<1>3. Inv => NoneBefore
  BY InvImpliesNoneBefore
<1> QED
  BY <1>1, <1>2, <1>3, PTL DEF Spec
=============================================================================
