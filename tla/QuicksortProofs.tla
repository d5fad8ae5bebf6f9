--------------------------- MODULE QuicksortProofs ---------------------------
(***************************************************************************)
(* qsort.c sorts every array: the bounds and the splits its steps keep,    *)
(* for every size of the array, and the order they lead to.                *)
(***************************************************************************)
EXTENDS Quicksort, FiniteSetTheorems, WellFoundedInduction,
        TLAPS

Activation == [at : {"enter", "loop", "left", "right"},
               l : Int, r : Int, k : Int]
Calling(f) == f.at \in {"left", "right"}

TypeOK ==
  /\ size \in -1 .. MAX /\ A \in [Index -> Value]
  /\ stack \in Seq(Activation)
  /\ pivot \in Int /\ i \in Int /\ j \in Int
  /\ out \in Seq(Value)

(* Every activation but the running one waits in a call, and all those     *)
(* above it stay in the half the call was given, not only the next one.    *)
Within(outer, inner) ==
  IF outer.at = "left" THEN outer.l <= inner.l /\ inner.r <= outer.k - 1
  ELSE outer.k + 1 <= inner.l /\ inner.r <= outer.r
Waiting ==
  \A m, n \in 1 .. Len(stack) : m < n =>
    Calling(stack[m]) /\ Within(stack[m], stack[n])

(* What an activation has not sorted, nor given to a call that runs: two   *)
(* elements that no activation has still to sort are in order.             *)
Pending(f) == IF f.at = "left" THEN f.k + 1 .. f.r
              ELSE IF f.at = "right" THEN {} ELSE f.l .. f.r
Unsorted(x, y) ==
  \E n \in 1 .. Len(stack) : x \in Pending(stack[n]) /\ y \in Pending(stack[n])
Ordered ==
  \A x, y \in 0 .. size - 1 : x < y => Unsorted(x, y) \/ A[x] <= A[y]

(* Nothing is written before the last activation returned. *)
WrittenLast == /\ stack # << >> => out = << >>
               /\ Len(out) <= IF size < 0 THEN 0 ELSE size

QsortInv == TypeOK /\ InBounds /\ Waiting /\ SplitsStand /\ Ordered
              /\ WrittenLast

----------------------------------------------------------------------------
(* The three things a step does to the stack. *)
LEMMA Tops ==
  ASSUME NEW s \in Seq(Activation), s # << >>
  PROVE  /\ Len(s) \in Nat \ {0} /\ DOMAIN s = 1 .. Len(s)
         /\ Last(s) = s[Len(s)] /\ Last(s) \in Activation
         /\ Front(s) \in Seq(Activation) /\ Len(Front(s)) = Len(s) - 1
         /\ \A m \in 1 .. Len(s) - 1 : Front(s)[m] = s[m]
<1>1. Len(s) \in Nat \ {0} /\ DOMAIN s = 1 .. Len(s) /\ s[Len(s)] \in Activation
  OBVIOUS
<1>2. /\ SubSeq(s, 1, Len(s) - 1) \in Seq(Activation)
      /\ Len(SubSeq(s, 1, Len(s) - 1)) = Len(s) - 1
      /\ \A m \in 1 .. Len(s) - 1 : SubSeq(s, 1, Len(s) - 1)[m] = s[m]
  BY <1>1
<1>3. QED
  BY <1>1, <1>2 DEF Last, Front

LEMMA Replaced ==
  ASSUME NEW t \in Seq(Activation), NEW f \in Activation
  PROVE  /\ Append(t, f) \in Seq(Activation)
         /\ Len(Append(t, f)) = Len(t) + 1 /\ Append(t, f) # << >>
         /\ \A m \in 1 .. Len(t) : Append(t, f)[m] = t[m]
         /\ Append(t, f)[Len(t) + 1] = f
  OBVIOUS

LEMMA Called ==
  ASSUME NEW t \in Seq(Activation), NEW f \in Activation, NEW g \in Activation
  PROVE  LET u == t \o <<f, g>> IN
         /\ u \in Seq(Activation) /\ Len(u) = Len(t) + 2 /\ u # << >>
         /\ \A m \in 1 .. Len(t) : u[m] = t[m]
         /\ u[Len(t) + 1] = f /\ u[Len(t) + 2] = g
  OBVIOUS

(* What the invariant says of the running activation and of those below. *)
LEMMA TopIs ==
  ASSUME QsortInv, stack # << >>
  PROVE  /\ Len(stack) \in Nat \ {0} /\ Top = stack[Len(stack)]
         /\ Top \in Activation /\ Top.l >= 0 /\ Top.r <= size - 1
         /\ Top.at # "enter" => Top.l < Top.r
         /\ Calling(Top) => Top.k \in Top.l .. Top.r
         /\ \A n \in 1 .. Len(stack) - 1 :
              /\ stack[n] \in Activation /\ Calling(stack[n])
              /\ stack[n].l >= 0 /\ stack[n].r <= size - 1
              /\ stack[n].k \in stack[n].l .. stack[n].r
              /\ Within(stack[n], Top)
<1>1. /\ Len(stack) \in Nat \ {0} /\ DOMAIN stack = 1 .. Len(stack)
      /\ Top = stack[Len(stack)] /\ Top \in Activation
  BY Tops DEF QsortInv, TypeOK, Top
<1>2. \A n \in 1 .. Len(stack) :
        /\ stack[n] \in Activation
        /\ stack[n].l >= 0 /\ stack[n].r <= size - 1
        /\ stack[n].at # "enter" => stack[n].l < stack[n].r
        /\ Calling(stack[n]) => stack[n].k \in stack[n].l .. stack[n].r
  BY <1>1 DEF QsortInv, TypeOK, InBounds, Calling
<1>3. \A n \in 1 .. Len(stack) - 1 :
        Calling(stack[n]) /\ Within(stack[n], Top)
  BY <1>1 DEF QsortInv, Waiting
<1>4. QED
  BY <1>1, <1>2, <1>3

(* An activation returns that left at most one element to sort. *)
LEMMA Popped ==
  ASSUME QsortInv, stack # << >>, stack' = Below,
         UNCHANGED <<A, size, pivot, i, j, out>>,
         \A x, y \in Pending(Top) : x = y
  PROVE  QsortInv'
<1> DEFINE N == Len(stack)
<1>1. /\ N \in Nat \ {0} /\ Len(stack') = N - 1
      /\ DOMAIN stack = 1 .. N /\ DOMAIN stack' = 1 .. N - 1
      /\ \A m \in 1 .. N - 1 : stack'[m] = stack[m]
      /\ Top = stack[N] /\ stack' \in Seq(Activation)
  BY Tops DEF QsortInv, TypeOK, Top, Below
<1>2. TypeOK'
  BY <1>1 DEF QsortInv, TypeOK, Index
<1>3. ~ Running("loop")'
  <2>1. stack' # << >> => N - 1 \in 1 .. N - 1 /\ Top' = stack[N - 1]
    BY <1>1, Tops, <1>2 DEF Top, TypeOK
  <2>2. stack' # << >> => Calling(Top')
    BY <2>1, TopIs
  <2>3. QED
    BY <2>2 DEF Running, Calling
<1>4. InBounds'
  <2>1. ASSUME NEW n \in 1 .. N - 1
        PROVE  /\ stack'[n].l >= 0 /\ stack'[n].r <= size' - 1
               /\ stack'[n].at # "enter" => stack'[n].l < stack'[n].r
               /\ stack'[n].at \in {"left", "right"} =>
                    stack'[n].k \in stack'[n].l .. stack'[n].r
               /\ n < N - 1 => Nested(stack'[n], stack'[n + 1])
    <3>1. n \in DOMAIN stack /\ stack'[n] = stack[n]
          /\ (n < N - 1 => n < N /\ stack'[n + 1] = stack[n + 1])
      BY <1>1
    <3>2. QED
      BY <3>1 DEF QsortInv, InBounds
  <2>2. QED
    BY <2>1, <1>1, <1>3 DEF InBounds
<1>5. Waiting'
  BY <1>1 DEF QsortInv, Waiting
<1>6. SplitsStand'
  <2>1. Range(stack') \subseteq Range(stack)
    BY <1>1 DEF Range
  <2>2. QED
    BY <2>1, <1>3 DEF QsortInv, SplitsStand, Less, NotLess
<1>7. Ordered'
  <2> SUFFICES ASSUME NEW x \in 0 .. size - 1, NEW y \in 0 .. size - 1, x < y,
                      ~ Unsorted(x, y)'
               PROVE  A[x] <= A[y]
    BY DEF Ordered
  <2>1. ~ Unsorted(x, y)
    BY <1>1, x < y DEF Unsorted, Pending
  <2>2. QED
    BY <2>1 DEF QsortInv, Ordered
<1>8. WrittenLast'
  BY <1>1 DEF QsortInv, WrittenLast
<1>9. QED
  BY <1>2, <1>4, <1>5, <1>6, <1>7, <1>8 DEF QsortInv

LEMMA ReturnKeeps == QsortInv /\ Return => QsortInv'
  BY Popped DEF Return, Running, Pending

(* partition starts: the activation's interval is to be split *)
LEMMA EnterKeeps == QsortInv /\ Enter => QsortInv'
<1> SUFFICES ASSUME QsortInv, Enter PROVE QsortInv'
  OBVIOUS
<1>1. stack # << >> /\ Top.at = "enter" /\ A' = A /\ size' = size /\ out' = out
  BY DEF Enter, Running
<1>2. CASE ~ (Top.l < Top.r)
  <2>1. \A x, y \in Pending(Top) : x = y
    BY <1>1, <1>2, TopIs DEF Pending, Activation
  <2>2. QED
    BY <1>1, <1>2, <2>1, Popped DEF Enter
<1>3. CASE Top.l < Top.r
  <2>1. /\ stack' = Append(Below, At(Top, "loop"))
        /\ pivot' = A[Top.r] /\ i' = Top.l - 1 /\ j' = Top.l
    BY <1>3 DEF Enter
  <2>2. PICK N \in Nat \ {0} :
          N = Len(stack) /\ DOMAIN stack = 1 .. N /\ stack[N] = Top
    BY <1>1, TopIs, Tops DEF QsortInv, TypeOK
  <2>13. /\ Top \in Activation /\ Top.l \in Int /\ Top.r \in Int
         /\ Top.l >= 0 /\ Top.r <= size - 1 /\ size \in Int /\ size <= MAX
    BY <1>1, TopIs, QuicksortAssumption DEF QsortInv, TypeOK, Activation
  <2>14. /\ At(Top, "loop") \in Activation /\ At(Top, "loop").at = "loop"
         /\ At(Top, "loop").l = Top.l /\ At(Top, "loop").r = Top.r
    BY <2>13 DEF At, Activation
  <2>3. PICK f \in Activation :
          f = At(Top, "loop") /\ f.at = "loop" /\ f.l = Top.l /\ f.r = Top.r
    BY <2>14
  <2>4. /\ stack' \in Seq(Activation) /\ Len(stack') = N /\ stack' # << >>
        /\ \A m \in 1 .. N - 1 : stack'[m] = stack[m]
        /\ stack'[N] = f /\ DOMAIN stack' = 1 .. N
    <3>1. /\ Below \in Seq(Activation) /\ Len(Below) = N - 1
          /\ \A m \in 1 .. N - 1 : Below[m] = stack[m]
      BY <1>1, <2>2, Tops DEF QsortInv, TypeOK, Below
    <3>2. stack' = Append(Below, f)
      BY <2>1, <2>3
    <3>3. QED
      BY <2>2, <2>3, <3>1, <3>2, Replaced
  <2>5. Top' = f
    BY <2>4, Tops DEF Top
  <2>6. TypeOK'
    <3>1. A[Top.r] \in Int
      <4>1. Top.r \in 0 .. MAX - 1
        BY <2>13, <1>3, QuicksortAssumption
      <4>2. QED
        BY <4>1, QuicksortAssumption DEF QsortInv, TypeOK, Index
    <3>2. QED
      BY <1>1, <2>1, <2>13, <2>4, <3>1 DEF QsortInv, TypeOK, Index
  <2>7. InBounds'
    <3>1. ASSUME NEW n \in 1 .. N
          PROVE  /\ stack'[n].l >= 0 /\ stack'[n].r <= size' - 1
                 /\ stack'[n].at # "enter" => stack'[n].l < stack'[n].r
                 /\ stack'[n].at \in {"left", "right"} =>
                      stack'[n].k \in stack'[n].l .. stack'[n].r
                 /\ n < N => Nested(stack'[n], stack'[n + 1])
      <4>1. CASE n = N
        BY <4>1, <2>2, <2>13, <2>3, <2>4, <1>1, <1>3
      <4>2. CASE n # N
        <5>1. n \in DOMAIN stack /\ stack'[n] = stack[n] /\ n < N
          BY <4>2, <2>2, <2>4
        <5>2. stack'[n + 1].l = stack[n + 1].l /\ stack'[n + 1].r = stack[n + 1].r
          BY <4>2, <2>2, <2>3, <2>4
        <5>3. /\ stack[n].l >= 0 /\ stack[n].r <= size - 1
              /\ stack[n].at # "enter" => stack[n].l < stack[n].r
              /\ stack[n].at \in {"left", "right"} =>
                   stack[n].k \in stack[n].l .. stack[n].r
              /\ Nested(stack[n], stack[n + 1])
          BY <5>1, <2>2 DEF QsortInv, InBounds
        <5>4. Nested(stack'[n], stack'[n + 1])
          BY <5>1, <5>2, <5>3 DEF Nested
        <5>5. QED
          BY <5>1, <5>3, <5>4, <1>1
      <4>3. QED
        BY <4>1, <4>2
    <3>2. /\ Top'.l - 1 <= i' /\ i' < j' /\ j' <= Top'.r
          /\ A'[Top'.r] = pivot'
      BY <2>1, <2>13, <2>3, <2>5, <1>1, <1>3
    <3>3. QED
      BY <3>1, <3>2, <2>4 DEF InBounds
  <2>8. Waiting'
    <3> SUFFICES ASSUME NEW m \in 1 .. N, NEW n \in 1 .. N, m < n
                 PROVE  Calling(stack'[m]) /\ Within(stack'[m], stack'[n])
      BY <2>4 DEF Waiting
    <3>1. Calling(stack[m]) /\ Within(stack[m], stack[n])
      BY <2>2 DEF QsortInv, Waiting
    <3>2. /\ stack'[m] = stack[m]
          /\ stack'[n].l = stack[n].l /\ stack'[n].r = stack[n].r
      BY <2>2, <2>3, <2>4
    <3>3. QED
      BY <3>1, <3>2 DEF Within
  <2>9. SplitsStand'
    <3>1. ASSUME NEW g \in Range(stack'), g.at \in {"left", "right"}
          PROVE  g \in Range(stack)
      BY <3>1, <2>2, <2>3, <2>4 DEF Range
    <3>2. Less(Top.l, i, pivot)' /\ NotLess(i + 1, j - 1, pivot)'
      BY <2>1, <2>13, <2>3, <2>5 DEF Less, NotLess
    <3>3. QED
      BY <3>1, <3>2, <1>1 DEF QsortInv, SplitsStand, Less, NotLess
  <2>10. Ordered'
    <3>1. \A x, y : Unsorted(x, y) => Unsorted(x, y)'
      BY <1>1, <2>2, <2>3, <2>4 DEF Unsorted, Pending
    <3>2. QED
      BY <3>1, <1>1 DEF QsortInv, Ordered
  <2>11. WrittenLast'
    BY <1>1, <2>4 DEF QsortInv, WrittenLast
  <2>12. QED
    BY <2>6, <2>7, <2>8, <2>9, <2>10, <2>11 DEF QsortInv
<1>4. QED
  BY <1>2, <1>3

----------------------------------------------------------------------------
(* Swapping two elements of the running activation's interval. *)
Other(p, q, x) == IF x = p THEN q ELSE IF x = q THEN p ELSE x

LEMMA SwapIs ==
  ASSUME TypeOK, NEW p \in Index, NEW q \in Index, A' = Swapped(p, q)
  PROVE  /\ A' \in [Index -> Value]
         /\ \A x \in Index : Other(p, q, x) \in Index /\ A'[x] = A[Other(p, q, x)]
  BY DEF TypeOK, Swapped, Other

LEMMA OtherIn ==
  ASSUME NEW a \in Int, NEW b \in Int, NEW p \in a .. b, NEW q \in a .. b,
         NEW x \in Int
  PROVE  /\ Other(p, q, x) \in Int
         /\ x \in a .. b => Other(p, q, x) \in a .. b
         /\ x \notin a .. b => Other(p, q, x) = x
  BY DEF Other

(* The interval and its numbers, where an activation runs. *)
LEMMA Interval ==
  ASSUME QsortInv, stack # << >>
  PROVE  /\ Top.l \in Int /\ Top.r \in Int /\ size \in Int /\ MAX \in Int
         /\ 0 <= Top.l /\ Top.r <= size - 1 /\ size <= MAX
         /\ Top.l .. Top.r \subseteq Index
  BY TopIs, QuicksortAssumption DEF QsortInv, TypeOK, Activation, Index

(* SplitsStand, by position on the stack. *)
Split(a, f) == /\ \A x \in f.l .. f.k - 1 : a[x] < a[f.k]
               /\ \A x \in f.k + 1 .. f.r : a[x] >= a[f.k]
LEMMA SplitsAre ==
  ASSUME QsortInv, NEW n \in 1 .. Len(stack), Calling(stack[n])
  PROVE  Split(A, stack[n])
<1>1. stack[n] \in Range(stack)
  BY DEF QsortInv, TypeOK, Range
<1>2. QED
  BY <1>1 DEF QsortInv, SplitsStand, Calling, Split, Less, NotLess

LEMMA SplitsFrom ==
  ASSUME TypeOK', \A n \in 1 .. Len(stack') :
                    Calling(stack'[n]) => Split(A', stack'[n]),
         Running("loop")' =>
           Less(Top.l, i, pivot)' /\ NotLess(i + 1, j - 1, pivot)'
  PROVE  SplitsStand'
<1>1. DOMAIN stack' = 1 .. Len(stack')
  BY DEF TypeOK
<1>2. \A f \in Range(stack') : \E n \in 1 .. Len(stack') : f = stack'[n]
  BY <1>1 DEF Range
<1>3. QED
  BY <1>2 DEF SplitsStand, Calling, Split, Less, NotLess

(* It leaves the splits of those that wait as they are ... *)
LEMMA SwapSplits ==
  ASSUME QsortInv, stack # << >>,
         NEW p \in Top.l .. Top.r, NEW q \in Top.l .. Top.r, A' = Swapped(p, q),
         NEW n \in 1 .. Len(stack) - 1
  PROVE  Split(A', stack[n])
<1> DEFINE f == stack[n]
<1>1. /\ f \in Activation /\ Calling(f) /\ f.l \in Int /\ f.r \in Int /\ f.k \in Int
      /\ 0 <= f.l /\ f.l <= f.k /\ f.k <= f.r /\ f.r <= size - 1 /\ Within(f, Top)
  BY TopIs DEF Activation
<1>2. Split(A, f)
  BY <1>1, SplitsAre, TopIs
<1> HIDE DEF f
<1>3. \A x \in f.l .. f.r : x \in Index
  BY <1>1, Interval DEF Index
<1>4. \A x \in f.l .. f.r : A'[x] = A[Other(p, q, x)]
  BY <1>3, SwapIs, Interval DEF QsortInv
<1>5. /\ \A x \in f.l .. f.k - 1 : Other(p, q, x) \in f.l .. f.k - 1
      /\ \A x \in f.k + 1 .. f.r : Other(p, q, x) \in f.k + 1 .. f.r
      /\ Other(p, q, f.k) = f.k
  <2>1. /\ Top.l \in Int /\ Top.r \in Int
        /\ p \in Int /\ Top.l <= p /\ p <= Top.r
        /\ q \in Int /\ Top.l <= q /\ q <= Top.r
    BY Interval
  <2>2. CASE f.at = "left"
    <3>1. f.l <= p /\ p <= f.k - 1 /\ f.l <= q /\ q <= f.k - 1
      BY <1>1, <2>1, <2>2 DEF Within
    <3>2. QED
      BY <1>1, <2>1, <3>1 DEF Other
  <2>3. CASE f.at # "left"
    <3>1. f.k + 1 <= p /\ p <= f.r /\ f.k + 1 <= q /\ q <= f.r
      BY <1>1, <2>1, <2>3 DEF Within
    <3>2. QED
      BY <1>1, <2>1, <3>1 DEF Other
  <2>4. QED
    BY <2>2, <2>3
<1>6. A'[f.k] = A[f.k]
  BY <1>1, <1>4, <1>5
<1>7. \A x \in f.l .. f.k - 1 : A'[x] < A'[f.k]
  <2> SUFFICES ASSUME NEW x \in f.l .. f.k - 1 PROVE A'[x] < A'[f.k]
    OBVIOUS
  <2>1. A'[x] = A[Other(p, q, x)]
    BY <1>1, <1>4
  <2>2. QED
    BY <2>1, <1>2, <1>5, <1>6 DEF Split
<1>8. \A x \in f.k + 1 .. f.r : A'[x] >= A'[f.k]
  <2> SUFFICES ASSUME NEW x \in f.k + 1 .. f.r PROVE A'[x] >= A'[f.k]
    OBVIOUS
  <2>1. A'[x] = A[Other(p, q, x)]
    BY <1>1, <1>4
  <2>2. QED
    BY <2>1, <1>2, <1>5, <1>6 DEF Split
<1>9. Split(A', f)
  BY <1>7, <1>8 DEF Split
<1>10. QED
  BY <1>9 DEF f

(* ... and the order of whatever is not in the interval with it. *)
LEMMA SwapOrder ==
  ASSUME QsortInv, stack # << >>, ~ Calling(Top),
         NEW p \in Top.l .. Top.r, NEW q \in Top.l .. Top.r, A' = Swapped(p, q),
         NEW x \in 0 .. size - 1, NEW y \in 0 .. size - 1, x < y,
         ~ (x \in Top.l .. Top.r /\ y \in Top.l .. Top.r),
         \A n \in 1 .. Len(stack) - 1 :
           ~ (x \in Pending(stack[n]) /\ y \in Pending(stack[n]))
  PROVE  A'[x] <= A'[y]
<1>1. x \in Index /\ y \in Index
  BY Interval DEF Index
<1>2. A'[x] = A[Other(p, q, x)] /\ A'[y] = A[Other(p, q, y)]
  BY <1>1, SwapIs, Interval DEF QsortInv
<1>3. PICK u \in 0 .. size - 1, v \in 0 .. size - 1 :
        /\ u = Other(p, q, x) /\ v = Other(p, q, y) /\ u < v
        /\ x \in Top.l .. Top.r <=> u \in Top.l .. Top.r
        /\ y \in Top.l .. Top.r <=> v \in Top.l .. Top.r
        /\ x \notin Top.l .. Top.r => u = x
        /\ y \notin Top.l .. Top.r => v = y
  BY Interval DEF Other
<1>4. \A n \in 1 .. Len(stack) - 1 :
        \A z \in Top.l .. Top.r : z \notin Pending(stack[n])
  <2> SUFFICES ASSUME NEW n \in 1 .. Len(stack) - 1, NEW z \in Top.l .. Top.r
               PROVE  z \notin Pending(stack[n])
    OBVIOUS
  <2>1. /\ Calling(stack[n]) /\ Within(stack[n], Top)
        /\ stack[n].k \in Int /\ stack[n].l \in Int /\ stack[n].r \in Int
    BY TopIs DEF Activation
  <2>2. z \in Int /\ Top.l <= z /\ z <= Top.r /\ Top.l \in Int /\ Top.r \in Int
    BY Interval
  <2>3. QED
    BY <2>1, <2>2 DEF Pending, Within, Calling
<1>5. ASSUME NEW n \in 1 .. Len(stack)
      PROVE  ~ (u \in Pending(stack[n]) /\ v \in Pending(stack[n]))
  <2>1. CASE n = Len(stack)
    BY <2>1, <1>3, TopIs DEF Pending, Calling
  <2>2. CASE n # Len(stack)
    <3>1. n \in 1 .. Len(stack) - 1
      BY <2>2, TopIs
    <3>2. QED
      BY <3>1, <1>3, <1>4
  <2>3. QED
    BY <2>1, <2>2
<1>6. A[u] <= A[v]
  BY <1>3, <1>5 DEF QsortInv, Ordered, Unsorted
<1>7. QED
  BY <1>2, <1>3, <1>6

----------------------------------------------------------------------------
(* The partition loop. *)
LEMMA ScanKeeps == QsortInv /\ Scan => QsortInv'
<1> SUFFICES ASSUME QsortInv, Scan PROVE QsortInv'
  OBVIOUS
<1>1. /\ stack # << >> /\ Running("loop") /\ Top.at = "loop" /\ j < Top.r
      /\ stack' = stack /\ size' = size /\ pivot' = pivot /\ out' = out
      /\ Top' = Top /\ Running("loop")'
  BY DEF Scan, Running, Top
<1>2. /\ i \in Int /\ j \in Int /\ pivot \in Int /\ Top.l \in Int /\ Top.r \in Int
      /\ Top.l - 1 <= i /\ i < j /\ j < Top.r /\ A[Top.r] = pivot
      /\ Less(Top.l, i, pivot) /\ NotLess(i + 1, j - 1, pivot)
  BY <1>1, Interval DEF QsortInv, TypeOK, InBounds, SplitsStand
<1>3. j \in Index /\ i + 1 \in Index /\ Top.r \in Index
  BY <1>1, <1>2, Interval DEF Index
<1>4. A[j] \in Int
  BY <1>3, QuicksortAssumption DEF QsortInv, TypeOK
<1>5. PICK p \in Top.l .. Top.r, q \in Top.l .. Top.r :
        A' = Swapped(p, q)
        /\ (IF A[j] < pivot THEN p = i + 1 /\ q = j /\ i' = i + 1
            ELSE p = j /\ q = j /\ i' = i)
  <2>1. A = Swapped(j, j)
    BY <1>3 DEF Swapped, QsortInv, TypeOK
  <2>2. j \in Top.l .. Top.r /\ i + 1 \in Top.l .. Top.r
    BY <1>2
  <2>3. QED
    BY <2>1, <2>2 DEF Scan
<1>6. /\ j' = j + 1 /\ j' \in Int /\ i' \in Int /\ Top.l - 1 <= i' /\ i' < j' /\ j' <= Top.r
  BY <1>2, <1>5 DEF Scan
<1>7. /\ A' \in [Index -> Value]
      /\ \A x \in Index : A'[x] = A[Other(p, q, x)]
  BY <1>1, <1>5, SwapIs, Interval DEF QsortInv
<1>8. A'[Top.r] = pivot
  BY <1>2, <1>3, <1>5, <1>7 DEF Other
<1>9. TypeOK'
  BY <1>1, <1>2, <1>6, <1>7 DEF QsortInv, TypeOK, Index
<1>10. InBounds'
  BY <1>1, <1>6, <1>8 DEF QsortInv, InBounds
<1>11. Waiting'
  BY <1>1 DEF QsortInv, Waiting
<1>12. SplitsStand'
  <2>1. \A n \in 1 .. Len(stack) : Calling(stack[n]) => Split(A', stack[n])
    <3>1. ~ Calling(stack[Len(stack)])
      BY <1>1, TopIs DEF Calling
    <3>2. \A n \in 1 .. Len(stack) - 1 : Split(A', stack[n])
      BY <1>1, <1>5, SwapSplits
    <3>3. QED
      BY <3>1, <3>2, <1>1, TopIs
  <2>2. \A x \in Top.l .. i' : A'[x] < pivot
    <3> SUFFICES ASSUME NEW x \in Top.l .. i' PROVE A'[x] < pivot
      OBVIOUS
    <3>5. x \in Top.l .. Top.r
      BY <1>2, <1>6
    <3>1. x \in Index /\ A'[x] = A[Other(p, q, x)]
      BY <3>5, <1>7, Interval, <1>1
    <3>2. CASE A[j] < pivot
      BY <3>1, <3>2, <1>2, <1>5 DEF Other, Less
    <3>3. CASE ~ (A[j] < pivot)
      BY <3>1, <3>3, <1>2, <1>5 DEF Other, Less
    <3>4. QED
      BY <3>2, <3>3
  <2>6. PICK h \in Int : h = i'
    BY <1>6
  <2>3. \A x \in h + 1 .. j : A'[x] >= pivot
    <3> SUFFICES ASSUME NEW x \in h + 1 .. j PROVE A'[x] >= pivot
      OBVIOUS
    <3>5. x \in Top.l .. Top.r
      <4>1. /\ Top.l \in Int /\ Top.r \in Int /\ j \in Int
            /\ Top.l <= h + 1 /\ j < Top.r
        BY <1>2, <1>6, <2>6
      <4>2. QED
        BY <4>1
    <3>1. x \in Index /\ A'[x] = A[Other(p, q, x)]
      BY <3>5, <1>7, Interval, <1>1
    <3>2. CASE A[j] < pivot
      <4>1. x \in i + 2 .. j /\ p = i + 1 /\ q = j
        BY <3>2, <1>2, <1>5, <1>6, <2>6
      <4>2. Other(p, q, x) \in i + 1 .. j - 1
        BY <4>1, <1>2 DEF Other
      <4>3. QED
        BY <4>2, <3>1, <1>2 DEF NotLess
    <3>3. CASE ~ (A[j] < pivot)
      <4>1. x \in i + 1 .. j /\ p = j /\ q = j
        BY <3>3, <1>2, <1>5, <1>6, <2>6
      <4>2. Other(p, q, x) = x
        BY <4>1 DEF Other
      <4>3. CASE x = j
        BY <4>2, <4>3, <3>1, <3>3, <1>2, <1>4
      <4>4. CASE x # j
        BY <4>1, <4>2, <4>4, <3>1, <1>2 DEF NotLess
      <4>5. QED
        BY <4>3, <4>4
    <3>4. QED
      BY <3>2, <3>3
  <2>4. Less(Top.l, i, pivot)' /\ NotLess(i + 1, j - 1, pivot)'
    <3>1. j' - 1 = j
      BY <1>2, <1>6
    <3>2. QED
      BY <1>1, <2>2, <2>3, <2>6, <3>1 DEF Less, NotLess
  <2>5. QED
    BY <1>1, <1>9, <2>1, <2>4, SplitsFrom
<1>13. Ordered'
  <2> SUFFICES ASSUME NEW x \in 0 .. size - 1, NEW y \in 0 .. size - 1, x < y,
                      ~ Unsorted(x, y)'
               PROVE  A'[x] <= A'[y]
    BY <1>1 DEF Ordered
  <2>1. \A n \in 1 .. Len(stack) :
          ~ (x \in Pending(stack[n]) /\ y \in Pending(stack[n]))
    BY <1>1 DEF Unsorted
  <2>2. ~ Calling(Top) /\ Pending(Top) = Top.l .. Top.r
    BY <1>1 DEF Pending, Calling
  <2>3. ~ (x \in Top.l .. Top.r /\ y \in Top.l .. Top.r)
    <3>1. Len(stack) \in 1 .. Len(stack) /\ stack[Len(stack)] = Top
      BY <1>1, TopIs
    <3>2. QED
      BY <2>1, <2>2, <3>1
  <2>4. \A n \in 1 .. Len(stack) - 1 : n \in 1 .. Len(stack)
    BY <1>1, TopIs
  <2>5. QED
    BY <1>1, <1>5, <2>1, <2>2, <2>3, <2>4, SwapOrder
<1>14. WrittenLast'
  BY <1>1 DEF QsortInv, WrittenLast
<1>15. QED
  BY <1>9, <1>10, <1>11, <1>12, <1>13, <1>14 DEF QsortInv

----------------------------------------------------------------------------
(* An activation gives one half to a call: a step that leaves below what   *)
(* lay below, and on top the activation and the call.                      *)
LEMMA CallKeeps ==
  ASSUME QsortInv, stack # << >>, Top.at # "enter",
         NEW f \in Activation, NEW g \in Activation, g.at = "enter", Calling(f),
         stack' = Below \o <<f, g>>, TypeOK',
         f.l = Top.l, f.r = Top.r, f.k \in f.l .. f.r, Nested(f, g), size' = size
  PROVE  InBounds' /\ Waiting' /\ ~ Running("loop")' /\ Top' = g
         /\ Len(stack') = Len(stack) + 1 /\ stack' # << >>
         /\ stack'[Len(stack)] = f /\ stack'[Len(stack) + 1] = g
         /\ \A m \in 1 .. Len(stack) - 1 : stack'[m] = stack[m]
<1>1. PICK N \in Nat \ {0} :
        N = Len(stack) /\ DOMAIN stack = 1 .. N /\ stack[N] = Top
  BY TopIs, Tops DEF QsortInv, TypeOK
<1>2. /\ Below \in Seq(Activation) /\ Len(Below) = N - 1
      /\ \A m \in 1 .. N - 1 : Below[m] = stack[m]
  BY <1>1, Tops DEF QsortInv, TypeOK, Below
<1>3. /\ stack' \in Seq(Activation) /\ Len(stack') = N + 1 /\ stack' # << >>
      /\ \A m \in 1 .. N - 1 : stack'[m] = stack[m]
      /\ stack'[N] = f /\ stack'[N + 1] = g /\ DOMAIN stack' = 1 .. N + 1
  BY <1>1, <1>2, Called
<1>4. Top' = g
  BY <1>3, Tops DEF Top
<1>5. ~ Running("loop")'
  BY <1>4 DEF Running
<1>6. /\ f.l \in Int /\ f.r \in Int /\ f.k \in Int /\ g.l \in Int /\ g.r \in Int
      /\ size \in Int /\ 0 <= f.l /\ f.l <= f.k /\ f.k <= f.r /\ f.r <= size - 1
      /\ f.l < f.r
      /\ IF f.at = "left" THEN g.l = f.l /\ g.r = f.k - 1
         ELSE g.l = f.k + 1 /\ g.r = f.r
  BY TopIs, Interval DEF Activation, Nested
<1>7. InBounds'
  <2>1. ASSUME NEW n \in 1 .. N + 1
        PROVE  /\ stack'[n].l >= 0 /\ stack'[n].r <= size' - 1
               /\ stack'[n].at # "enter" => stack'[n].l < stack'[n].r
               /\ stack'[n].at \in {"left", "right"} =>
                    stack'[n].k \in stack'[n].l .. stack'[n].r
               /\ n < N + 1 => Nested(stack'[n], stack'[n + 1])
    <3>1. CASE n = N + 1
      <4>1. g.l >= 0 /\ g.r <= size - 1
        BY <1>6
      <4>2. stack'[n] = g /\ ~ (n < N + 1)
        BY <3>1, <1>3
      <4>3. QED
        BY <4>1, <4>2
    <3>2. CASE n = N
      BY <3>2, <1>3, <1>6
    <3>3. CASE n # N + 1 /\ n # N
      <4>1. n \in 1 .. N - 1 /\ n \in DOMAIN stack /\ n < Len(stack)
        BY <3>3, <1>1
      <4>2. stack'[n] = stack[n]
        BY <4>1, <1>3
      <4>3. stack'[n + 1].l = stack[n + 1].l /\ stack'[n + 1].r = stack[n + 1].r
        <5>1. CASE n + 1 = N
          BY <5>1, <1>1, <1>3
        <5>2. CASE n + 1 # N
          BY <5>2, <4>1, <1>3
        <5>3. QED
          BY <5>1, <5>2
      <4>4. /\ stack[n].l >= 0 /\ stack[n].r <= size - 1
            /\ stack[n].at # "enter" => stack[n].l < stack[n].r
            /\ stack[n].at \in {"left", "right"} =>
                 stack[n].k \in stack[n].l .. stack[n].r
            /\ Nested(stack[n], stack[n + 1])
        BY <4>1 DEF QsortInv, InBounds
      <4>5. Nested(stack'[n], stack'[n + 1])
        BY <4>2, <4>3, <4>4 DEF Nested
      <4>6. QED
        BY <4>2, <4>4, <4>5
    <3>4. QED
      BY <3>1, <3>2, <3>3
  <2>2. QED
    BY <2>1, <1>3, <1>5 DEF InBounds
<1>8. Waiting'
  <2> SUFFICES ASSUME NEW m \in 1 .. N + 1, NEW n \in 1 .. N + 1, m < n
               PROVE  Calling(stack'[m]) /\ Within(stack'[m], stack'[n])
    BY <1>3 DEF Waiting
  <2>1. CASE m = N
    <3>1. n = N + 1
      BY <2>1
    <3>2. Within(f, g)
      BY <1>6 DEF Within
    <3>3. QED
      BY <2>1, <3>1, <3>2, <1>3
  <2>2. CASE m # N
    <3>1. m \in 1 .. N - 1 /\ stack'[m] = stack[m]
      BY <2>2, <1>3
    <3>2. /\ Calling(stack[m]) /\ Within(stack[m], Top)
          /\ stack[m].l \in Int /\ stack[m].k \in Int /\ stack[m].r \in Int
      BY <3>1, <1>1, TopIs DEF Activation
    <3>3. CASE n = N + 1
      <4>3. g.l \in Int /\ g.r \in Int /\ Top.l <= g.l /\ g.r <= Top.r
            /\ Top.l \in Int /\ Top.r \in Int
        BY <1>6
      <4>1. Within(stack[m], g)
        <5>1. CASE stack[m].at = "left"
          BY <3>2, <4>3, <5>1 DEF Within
        <5>2. CASE stack[m].at # "left"
          BY <3>2, <4>3, <5>2 DEF Within
        <5>3. QED
          BY <5>1, <5>2
      <4>2. QED
        BY <3>1, <3>2, <3>3, <4>1, <1>3
    <3>4. CASE n = N
      <4>1. Within(stack[m], f)
        BY <3>2 DEF Within
      <4>2. QED
        BY <3>1, <3>2, <3>4, <4>1, <1>3
    <3>5. CASE n # N + 1 /\ n # N
      <4>1. n \in 1 .. N - 1 /\ stack'[n] = stack[n]
        BY <3>5, <1>3
      <4>2. Calling(stack[m]) /\ Within(stack[m], stack[n])
        BY <3>1, <4>1, <1>1 DEF QsortInv, Waiting
      <4>3. QED
        BY <3>1, <4>1, <4>2
    <3>6. QED
      BY <3>3, <3>4, <3>5
  <2>3. QED
    BY <2>1, <2>2
<1>9. QED
  BY <1>1, <1>3, <1>4, <1>5, <1>7, <1>8

LEMMA PlacePivotKeeps == QsortInv /\ PlacePivot => QsortInv'
<1> SUFFICES ASSUME QsortInv, PlacePivot PROVE QsortInv'
  OBVIOUS
<1>1. /\ stack # << >> /\ Running("loop") /\ Top.at = "loop" /\ j >= Top.r
      /\ size' = size /\ pivot' = pivot /\ j' = j /\ out' = out
      /\ i' = i + 1 /\ A' = Swapped(i + 1, Top.r)
      /\ stack' = Below \o <<[At(Top, "left") EXCEPT !.k = i + 1], Call(Top.l, i)>>
  BY DEF PlacePivot, Running
<1>2. /\ i \in Int /\ j \in Int /\ pivot \in Int /\ Top.l \in Int /\ Top.r \in Int
      /\ Top.l - 1 <= i /\ i < j /\ j = Top.r /\ A[Top.r] = pivot
      /\ Less(Top.l, i, pivot) /\ NotLess(i + 1, j - 1, pivot)
      /\ Top \in Activation
  BY <1>1, Interval, TopIs DEF QsortInv, TypeOK, InBounds, SplitsStand
<1>3. PICK p \in Top.l .. Top.r, q \in Top.l .. Top.r :
        p = i + 1 /\ q = Top.r /\ A' = Swapped(p, q)
  <2>1. i + 1 \in Top.l .. Top.r /\ Top.r \in Top.l .. Top.r
    BY <1>2
  <2>2. QED
    BY <2>1, <1>1
<1>4. PICK f \in Activation :
        /\ f = [At(Top, "left") EXCEPT !.k = i + 1]
        /\ f.at = "left" /\ f.l = Top.l /\ f.r = Top.r /\ f.k = p
  <2> DEFINE h == [At(Top, "left") EXCEPT !.k = i + 1]
  <2>1. /\ h \in Activation /\ h.at = "left" /\ h.l = Top.l /\ h.r = Top.r
        /\ h.k = i + 1
    <3>1. At(Top, "left") \in Activation /\ At(Top, "left").at = "left"
          /\ At(Top, "left").l = Top.l /\ At(Top, "left").r = Top.r
      BY <1>2 DEF At, Activation
    <3>2. i + 1 \in Int
      BY <1>2
    <3>3. QED
      BY <3>1, <3>2 DEF Activation
  <2> HIDE DEF h
  <2>2. QED
    BY <2>1, <1>3 DEF h
<1>5. PICK g \in Activation :
        g = Call(Top.l, i) /\ g.at = "enter" /\ g.l = Top.l /\ g.r = p - 1
  <2>1. /\ Call(Top.l, i) \in Activation /\ Call(Top.l, i).at = "enter"
        /\ Call(Top.l, i).l = Top.l /\ Call(Top.l, i).r = i
    BY <1>2 DEF Call, Activation
  <2>2. i = p - 1
    BY <1>2, <1>3
  <2>3. QED
    BY <2>1, <2>2
<1>6. /\ A' \in [Index -> Value]
      /\ \A x \in Index : A'[x] = A[Other(p, q, x)]
  BY <1>1, <1>3, SwapIs, Interval DEF QsortInv
<1>7. stack' = Below \o <<f, g>>
  BY <1>1, <1>4, <1>5
<1>8. TypeOK'
  <2>1. Below \in Seq(Activation)
    BY <1>1, Tops DEF QsortInv, TypeOK, Below
  <2>2. stack' \in Seq(Activation)
    BY <1>7, <2>1, Called
  <2>3. QED
    BY <1>1, <1>2, <1>6, <2>2 DEF QsortInv, TypeOK, Index
<1>9. /\ InBounds' /\ Waiting' /\ ~ Running("loop")' /\ Top' = g
      /\ Len(stack') = Len(stack) + 1 /\ stack' # << >>
      /\ stack'[Len(stack)] = f /\ stack'[Len(stack) + 1] = g
      /\ \A m \in 1 .. Len(stack) - 1 : stack'[m] = stack[m]
  <2>1. Calling(f) /\ f.k \in f.l .. f.r /\ Nested(f, g)
    BY <1>4, <1>5 DEF Calling, Nested
  <2>2. QED
    BY <1>1, <1>4, <1>5, <1>7, <1>8, <2>1, CallKeeps
<1>10. PICK N \in Nat \ {0} : N = Len(stack) /\ stack[N] = Top
  BY <1>1, TopIs
<1>11. Split(A', f)
  <2>1. \A x \in Top.l .. Top.r : x \in Index /\ A'[x] = A[Other(p, q, x)]
    BY <1>1, <1>6, Interval
  <2>2. A'[p] = pivot
    BY <2>1, <1>2, <1>3 DEF Other
  <2>3. \A x \in Top.l .. p - 1 : A'[x] < A'[p]
    <3> SUFFICES ASSUME NEW x \in Top.l .. p - 1 PROVE A'[x] < pivot
      BY <2>2
    <3>1. x \in Top.l .. i /\ x \in Top.l .. Top.r /\ Other(p, q, x) = x
      BY <1>2, <1>3 DEF Other
    <3>2. QED
      BY <3>1, <2>1, <1>2 DEF Less
  <2>4. \A x \in p + 1 .. Top.r : A'[x] >= A'[p]
    <3> SUFFICES ASSUME NEW x \in p + 1 .. Top.r PROVE A'[x] >= pivot
      BY <2>2
    <3>1. x \in Top.l .. Top.r /\ Other(p, q, x) \in i + 1 .. j - 1
      BY <1>2, <1>3 DEF Other
    <3>2. QED
      BY <3>1, <2>1, <1>2 DEF NotLess
  <2>5. QED
    BY <1>4, <2>3, <2>4 DEF Split
<1>12. SplitsStand'
  <2>1. ASSUME NEW n \in 1 .. N + 1, Calling(stack'[n])
        PROVE  Split(A', stack'[n])
    <3>1. CASE n = N + 1
      BY <3>1, <2>1, <1>5, <1>9, <1>10 DEF Calling
    <3>2. CASE n = N
      BY <3>2, <1>9, <1>10, <1>11
    <3>3. CASE n # N + 1 /\ n # N
      <4>1. n \in 1 .. Len(stack) - 1 /\ stack'[n] = stack[n]
        BY <3>3, <1>9, <1>10
      <4>2. QED
        BY <4>1, <1>1, <1>3, SwapSplits
    <3>4. QED
      BY <3>1, <3>2, <3>3
  <2>2. QED
    BY <1>8, <1>9, <1>10, <2>1, SplitsFrom
<1>13. Ordered'
  <2> SUFFICES ASSUME NEW x \in 0 .. size - 1, NEW y \in 0 .. size - 1, x < y,
                      ~ Unsorted(x, y)'
               PROVE  A'[x] <= A'[y]
    BY <1>1 DEF Ordered
  <2>1. \A n \in 1 .. N + 1 :
          ~ (x \in Pending(stack'[n]) /\ y \in Pending(stack'[n]))
    BY <1>9, <1>10 DEF Unsorted, Pending
  <2>2. CASE x \in Top.l .. Top.r /\ y \in Top.l .. Top.r
    <3>1. ~ (x \in p + 1 .. Top.r /\ y \in p + 1 .. Top.r)
      <4>1. Pending(f) = p + 1 .. Top.r /\ N \in 1 .. N + 1
        BY <1>4 DEF Pending
      <4>2. QED
        BY <4>1, <2>1, <1>9, <1>10
    <3>2. ~ (x \in Top.l .. p - 1 /\ y \in Top.l .. p - 1)
      BY <2>1, <1>5, <1>9, <1>10 DEF Pending
    <3>3. /\ x \in Top.l .. p - 1 \/ x = p
          /\ y \in p + 1 .. Top.r \/ y = p
      BY <2>2, <3>1, <3>2, <1>2, <1>3
    <3>4. /\ \A z \in Top.l .. p - 1 : A'[z] < A'[p]
          /\ \A z \in p + 1 .. Top.r : A'[z] >= A'[p]
      BY <1>4, <1>11 DEF Split
    <3>5. \A z \in Top.l .. Top.r : A'[z] \in Int
      BY <1>1, <1>6, Interval, QuicksortAssumption
    <3>6. QED
      BY <2>2, <3>3, <3>4, <3>5, <1>3
  <2>3. CASE ~ (x \in Top.l .. Top.r /\ y \in Top.l .. Top.r)
    <3>1. ~ Calling(Top)
      BY <1>1 DEF Calling
    <3>2. \A n \in 1 .. Len(stack) - 1 :
            ~ (x \in Pending(stack[n]) /\ y \in Pending(stack[n]))
      BY <2>1, <1>9, <1>10
    <3>3. QED
      BY <2>3, <3>1, <3>2, <1>1, <1>3, SwapOrder
  <2>4. QED
    BY <2>2, <2>3
<1>14. WrittenLast'
  BY <1>1, <1>9 DEF QsortInv, WrittenLast
<1>15. QED
  BY <1>8, <1>9, <1>12, <1>13, <1>14 DEF QsortInv

LEMMA SortRightKeeps == QsortInv /\ SortRight => QsortInv'
<1> SUFFICES ASSUME QsortInv, SortRight PROVE QsortInv'
  OBVIOUS
<1>1. /\ stack # << >> /\ Top.at = "left"
      /\ A' = A /\ size' = size /\ pivot' = pivot /\ i' = i /\ j' = j /\ out' = out
      /\ stack' = Below \o <<At(Top, "right"), Call(Top.k + 1, Top.r)>>
  BY DEF SortRight, Running
<1>2. /\ Top \in Activation /\ Top.l \in Int /\ Top.r \in Int /\ Top.k \in Int
      /\ Top.k \in Top.l .. Top.r
  BY <1>1, TopIs DEF Activation, Calling
<1>3. PICK f \in Activation :
        /\ f = At(Top, "right")
        /\ f.at = "right" /\ f.l = Top.l /\ f.r = Top.r /\ f.k = Top.k
  <2>1. /\ At(Top, "right") \in Activation /\ At(Top, "right").at = "right"
        /\ At(Top, "right").l = Top.l /\ At(Top, "right").r = Top.r
        /\ At(Top, "right").k = Top.k
    BY <1>2 DEF At, Activation
  <2>2. QED
    BY <2>1
<1>4. PICK g \in Activation :
        /\ g = Call(Top.k + 1, Top.r)
        /\ g.at = "enter" /\ g.l = Top.k + 1 /\ g.r = Top.r
  <2>1. /\ Call(Top.k + 1, Top.r) \in Activation
        /\ Call(Top.k + 1, Top.r).at = "enter"
        /\ Call(Top.k + 1, Top.r).l = Top.k + 1 /\ Call(Top.k + 1, Top.r).r = Top.r
    BY <1>2 DEF Call, Activation
  <2>2. QED
    BY <2>1
<1>5. stack' = Below \o <<f, g>>
  BY <1>1, <1>3, <1>4
<1>6. TypeOK'
  <2>1. Below \in Seq(Activation)
    BY <1>1, Tops DEF QsortInv, TypeOK, Below
  <2>2. stack' \in Seq(Activation)
    BY <1>5, <2>1, Called
  <2>3. QED
    BY <1>1, <2>2 DEF QsortInv, TypeOK, Index
<1>7. /\ InBounds' /\ Waiting' /\ ~ Running("loop")' /\ Top' = g
      /\ Len(stack') = Len(stack) + 1 /\ stack' # << >>
      /\ stack'[Len(stack)] = f /\ stack'[Len(stack) + 1] = g
      /\ \A m \in 1 .. Len(stack) - 1 : stack'[m] = stack[m]
  <2>1. Calling(f) /\ f.k \in f.l .. f.r /\ Nested(f, g)
    BY <1>2, <1>3, <1>4 DEF Calling, Nested
  <2>2. QED
    BY <1>1, <1>3, <1>4, <1>5, <1>6, <2>1, CallKeeps
<1>8. PICK N \in Nat \ {0} : N = Len(stack) /\ stack[N] = Top
  BY <1>1, TopIs
<1>9. SplitsStand'
  <2>1. ASSUME NEW n \in 1 .. N + 1, Calling(stack'[n])
        PROVE  Split(A', stack'[n])
    <3>1. CASE n = N + 1
      BY <3>1, <2>1, <1>4, <1>7, <1>8 DEF Calling
    <3>2. CASE n = N
      <4>1. Split(A, Top)
        BY <1>1, <1>8, SplitsAre DEF Calling
      <4>2. QED
        BY <3>2, <4>1, <1>1, <1>3, <1>7, <1>8 DEF Split
    <3>3. CASE n # N + 1 /\ n # N
      <4>1. n \in 1 .. N - 1 /\ n \in 1 .. N /\ stack'[n] = stack[n]
        BY <3>3, <1>7, <1>8
      <4>2. Split(A, stack[n])
        BY <4>1, <1>1, <1>8, <2>1, SplitsAre
      <4>3. QED
        BY <4>1, <4>2, <1>1
    <3>4. QED
      BY <3>1, <3>2, <3>3
  <2>2. QED
    BY <1>6, <1>7, <1>8, <2>1, SplitsFrom
<1>10. Ordered'
  <2> SUFFICES ASSUME NEW x \in 0 .. size - 1, NEW y \in 0 .. size - 1, x < y,
                      ~ Unsorted(x, y)'
               PROVE  A[x] <= A[y]
    BY <1>1 DEF Ordered
  <2>1. \A n \in 1 .. N + 1 :
          ~ (x \in Pending(stack'[n]) /\ y \in Pending(stack'[n]))
    BY <1>7, <1>8 DEF Unsorted, Pending
  <2>2. Pending(g) = Pending(Top)
    BY <1>1, <1>4 DEF Pending
  <2>3. \A n \in 1 .. N :
          ~ (x \in Pending(stack[n]) /\ y \in Pending(stack[n]))
    <3> SUFFICES ASSUME NEW n \in 1 .. N,
                        x \in Pending(stack[n]), y \in Pending(stack[n])
                 PROVE  FALSE
      OBVIOUS
    <3>1. CASE n = N
      BY <3>1, <2>1, <2>2, <1>7, <1>8
    <3>2. CASE n # N
      <4>1. n \in 1 .. N - 1 /\ n \in 1 .. N + 1
        BY <3>2
      <4>2. QED
        BY <4>1, <2>1, <1>7, <1>8
    <3>3. QED
      BY <3>1, <3>2
  <2>4. QED
    BY <2>3, <1>8 DEF QsortInv, Ordered, Unsorted
<1>11. WrittenLast'
  BY <1>1, <1>7 DEF QsortInv, WrittenLast
<1>12. QED
  BY <1>6, <1>7, <1>9, <1>10, <1>11 DEF QsortInv

(* Writing out what is sorted. *)
LEMMA OutputKeeps == QsortInv /\ Output => QsortInv'
<1> SUFFICES ASSUME QsortInv, Output PROVE QsortInv'
  OBVIOUS
<1>1. /\ stack = << >> /\ Len(out) < size /\ out' = Append(out, A[Len(out)])
      /\ A' = A /\ size' = size /\ stack' = stack
      /\ pivot' = pivot /\ i' = i /\ j' = j
  BY DEF Output
<1>2. Len(out) \in Index /\ A[Len(out)] \in Value
  BY <1>1, QuicksortAssumption DEF QsortInv, TypeOK, Index
<1>3. TypeOK'
  BY <1>1, <1>2 DEF QsortInv, TypeOK, Index
<1>4. WrittenLast'
  BY <1>1, <1>2 DEF QsortInv, TypeOK, WrittenLast
<1>5. InBounds' /\ Waiting' /\ SplitsStand' /\ Ordered'
  BY <1>1 DEF QsortInv, InBounds, Waiting, SplitsStand, Ordered, Running, Top,
     Less, NotLess, Unsorted
<1>6. QED
  BY <1>3, <1>4, <1>5 DEF QsortInv

----------------------------------------------------------------------------
LEMMA InitHolds == Init => QsortInv
<1> SUFFICES ASSUME Init PROVE QsortInv
  OBVIOUS
<1>1. /\ size \in -1 .. MAX /\ size \in Int /\ A \in [Index -> Value]
      /\ stack = <<Call(0, size - 1)>>
      /\ pivot = 0 /\ i = 0 /\ j = 0 /\ out = << >>
  BY QuicksortAssumption DEF Init
<1>2. PICK g \in Activation :
        g = Call(0, size - 1) /\ g.at = "enter" /\ g.l = 0 /\ g.r = size - 1
  <2>1. /\ Call(0, size - 1) \in Activation /\ Call(0, size - 1).at = "enter"
        /\ Call(0, size - 1).l = 0 /\ Call(0, size - 1).r = size - 1
    BY <1>1 DEF Call, Activation
  <2>2. QED
    BY <2>1
<1>3. /\ stack \in Seq(Activation) /\ Len(stack) = 1 /\ stack # << >>
      /\ DOMAIN stack = 1 .. 1 /\ stack[1] = g
  BY <1>1, <1>2
<1>4. TypeOK
  BY <1>1, <1>3 DEF TypeOK
<1>5. Top = g /\ ~ Running("loop")
  BY <1>2, <1>3 DEF Top, Last, Running
<1>6. InBounds
  BY <1>1, <1>2, <1>3, <1>5 DEF InBounds
<1>7. Waiting
  BY <1>3 DEF Waiting
<1>8. SplitsStand
  BY <1>2, <1>3, <1>5 DEF SplitsStand, Range
<1>9. Ordered
  <2> SUFFICES ASSUME NEW x \in 0 .. size - 1, NEW y \in 0 .. size - 1
               PROVE  Unsorted(x, y)
    BY DEF Ordered
  <2>1. 1 \in 1 .. Len(stack) /\ x \in Pending(stack[1]) /\ y \in Pending(stack[1])
    BY <1>2, <1>3 DEF Pending
  <2>2. QED
    BY <2>1 DEF Unsorted
<1>10. WrittenLast
  BY <1>1 DEF WrittenLast
<1>11. QED
  BY <1>4, <1>6, <1>7, <1>8, <1>9, <1>10 DEF QsortInv

LEMMA StepKeeps == QsortInv /\ [Next]_vars => QsortInv'
<1> SUFFICES ASSUME QsortInv, [Next]_vars PROVE QsortInv'
  OBVIOUS
<1>1. CASE UNCHANGED vars
  BY <1>1 DEF vars, QsortInv, TypeOK, InBounds, Waiting, SplitsStand, Ordered,
     WrittenLast, Running, Top, Less, NotLess, Unsorted, Index
<1>2. CASE Next
  BY <1>2, EnterKeeps, ScanKeeps, PlacePivotKeeps, SortRightKeeps, ReturnKeeps,
     OutputKeeps DEF Next
<1>3. QED
  BY <1>1, <1>2

(* Every state of every run of qsort.c is typed, stays in its bounds, keeps *)
(* its splits and leaves in order what no activation has still to sort.     *)
THEOREM QsortInvariant == Spec => []QsortInv
<1>1. QED
  BY InitHolds, StepKeeps, PTL DEF Spec

(* qsort and partition reach no element outside what was read, whatever    *)
(* the size of the array, and each call stays in its half (qsort.c).       *)
THEOREM StaysInBounds == Spec => []InBounds
<1>1. QsortInv => InBounds
  BY DEF QsortInv
<1>2. QED
  BY <1>1, QsortInvariant, PTL

(* A split partition made still stands when the calls on its halves ran.   *)
THEOREM SplitsHold == Spec => []SplitsStand
<1>1. QsortInv => SplitsStand
  BY DEF QsortInv
<1>2. QED
  BY <1>1, QsortInvariant, PTL

Sorted == \A x, y \in 0 .. size - 1 : x < y => A[x] <= A[y]
(* When the outermost call returned, main prints a sorted array. *)
THEOREM SortsEveryArray == Spec => [](stack = << >> => Sorted)
<1>1. QsortInv => (stack = << >> => Sorted)
  BY DEF QsortInv, Ordered, Unsorted, Sorted
<1>2. QED
  BY <1>1, QsortInvariant, PTL

----------------------------------------------------------------------------
(* How deep the recursion goes.  A call is given fewer elements than its   *)
(* caller has, so there are never more activations than elements.          *)
DepthBounded == Len(stack) <= 1 \/ Len(stack) <= size

LEMMA LeastOf ==
  ASSUME NEW T \in SUBSET Nat, T # {}
  PROVE  \E m \in T : \A n \in T : m <= n
<1> DEFINE R == OpToRel(<, Nat)
<1>1. IsWellFoundedOn(R, Nat)
  BY NatLessThanWellFounded
<1>2. \A m, n \in Nat : m < n => <<m, n>> \in R
  BY DEF OpToRel
<1> HIDE DEF R
<1>3. PICK m \in T : \A n \in T : ~(<<n, m>> \in R)
  BY <1>1, WFMin
<1>4. ASSUME NEW n \in T PROVE m <= n
  <2>1. m \in Nat /\ n \in Nat /\ ~(n < m)
    BY <1>2, <1>3
  <2>2. QED
    BY <2>1
<1>5. QED
  BY <1>4

LEMMA NestedShrinks ==
  ASSUME TypeOK, InBounds, Waiting,
         NEW n \in Nat, n \in 1 .. Len(stack) - 1
  PROVE  stack[n + 1].r - stack[n + 1].l < stack[n].r - stack[n].l
<1>1. /\ n \in 1 .. Len(stack) /\ n + 1 \in 1 .. Len(stack)
      /\ DOMAIN stack = 1 .. Len(stack)
  BY DEF TypeOK
<1>2. PICK f \in Activation, g \in Activation :
        f = stack[n] /\ g = stack[n + 1]
  BY <1>1 DEF TypeOK
<1>3. Calling(f)
  BY <1>1, <1>2 DEF Waiting
<1>4. f.k \in f.l .. f.r /\ Nested(f, g)
  BY <1>1, <1>2, <1>3 DEF InBounds, Calling
<1>5. g.r - g.l < f.r - f.l
  BY <1>4 DEF Nested, Activation
<1>6. QED
  BY <1>2, <1>5

LEMMA DepthIs == QsortInv => DepthBounded
<1> SUFFICES ASSUME QsortInv PROVE DepthBounded
  OBVIOUS
<1>1. TypeOK /\ InBounds /\ Waiting /\ size \in Int /\ Len(stack) \in Nat
  BY DEF QsortInv, TypeOK
<1> DEFINE W(n) == stack[n].r - stack[n].l
           Wide == {n \in 1 .. Len(stack) : ~(W(n) <= size - n)}
<1>2. \A n \in 1 .. Len(stack) :
        /\ stack[n].l \in Int /\ stack[n].r \in Int
        /\ stack[n].l >= 0 /\ stack[n].r <= size - 1
  <2> TAKE n \in 1 .. Len(stack)
  <2>1. stack[n] \in Activation /\ n \in DOMAIN stack
    BY DEF QsortInv, TypeOK
  <2>2. QED
    BY <1>1, <2>1 DEF Activation, InBounds
<1>3. \A n \in 1 .. Len(stack) : W(n) \in Int
  BY <1>2
<1>4. ASSUME NEW n \in Nat, n \in 1 .. Len(stack) - 1 PROVE W(n + 1) < W(n)
  BY <1>1, <1>4, NestedShrinks
<1>5. 1 \in 1 .. Len(stack) => W(1) <= size - 1
  BY <1>1, <1>2
<1> HIDE DEF W
<1>6. Wide = {}
  <2> SUFFICES ASSUME Wide # {} PROVE FALSE
    OBVIOUS
  <2>1. PICK n \in Wide : \A m \in Wide : n <= m
    <3>1. Wide \in SUBSET Nat
      OBVIOUS
    <3> HIDE DEF Wide
    <3>2. QED
      BY <3>1, LeastOf
  <2>2. n \in 1 .. Len(stack) /\ ~(W(n) <= size - n)
    OBVIOUS
  <2>3. n # 1
    BY <1>5, <2>2
  <2>4. PICK m \in Nat : m = n - 1 /\ m \in 1 .. Len(stack) - 1 /\ n = m + 1
    BY <1>1, <2>2, <2>3
  <2>5. m \in 1 .. Len(stack) /\ m \notin Wide
    BY <1>1, <2>1, <2>4
  <2>6. W(m) <= size - m
    BY <2>5
  <2>7. W(n) < W(m)
    BY <1>4, <2>4
  <2>8. QED
    BY <1>1, <1>3, <2>2, <2>4, <2>5, <2>6, <2>7
<1>7. ASSUME Len(stack) > 1 PROVE Len(stack) <= size
  <2>1. PICK m \in Nat : m = Len(stack) - 1 /\ m \in 1 .. Len(stack)
    BY <1>1, <1>7
  <2>2. W(m) <= size - m
    BY <1>6, <2>1
  <2>3. Calling(stack[m])
    BY <1>1, <1>7, <2>1 DEF Waiting
  <2>4. stack[m].l < stack[m].r
    <3>1. m \in DOMAIN stack
      BY <2>1 DEF QsortInv, TypeOK
    <3>2. QED
      BY <1>1, <2>3, <3>1 DEF InBounds, Calling
  <2>5. W(m) >= 1
    BY <1>2, <2>1, <2>4 DEF W
  <2>6. QED
    BY <1>1, <1>3, <2>1, <2>2, <2>5
<1>8. QED
  BY <1>1, <1>7 DEF DepthBounded

(* qsort never nests deeper than there are elements in the array: as many  *)
(* levels as an array in order needs, whose pivot is always its last.      *)
THEOREM DepthIsBounded == Spec => []DepthBounded
BY DepthIs, QsortInvariant, PTL

----------------------------------------------------------------------------
(* The numbers not yet written, counted. *)
Holding(a, S, v) == {n \in S : a[n] = v}

LEMMA RestIs ==
  ASSUME TypeOK
  PROVE  /\ IsFiniteSet(Rest) /\ Rest \subseteq Index
         /\ DOMAIN rest = {A[n] : n \in Rest} /\ DOMAIN rest \subseteq Value
         /\ \A v : /\ IsFiniteSet(Holding(A, Rest, v))
                   /\ Cardinality(Holding(A, Rest, v)) \in Nat
         /\ \A v \in DOMAIN rest :
              rest[v] = Cardinality(Holding(A, Rest, v)) /\ rest[v] > 0
<1>1. size \in Int /\ size <= MAX /\ Len(out) \in Nat /\ MAX \in Int
  BY QuicksortAssumption DEF TypeOK
<1>2. IsFiniteSet(Rest) /\ Rest \subseteq Index
  <2>1. IsFiniteSet(Len(out) .. size - 1)
    BY <1>1, FS_Interval
  <2>2. Len(out) .. size - 1 \subseteq 0 .. MAX - 1
    BY <1>1
  <2>3. QED
    BY <2>1, <2>2 DEF Rest, Index
<1>3. /\ DOMAIN rest = {A[n] : n \in Rest}
      /\ \A v \in DOMAIN rest : rest[v] = Cardinality(Holding(A, Rest, v))
  BY DEF rest, Holding
<1>4. DOMAIN rest \subseteq Value
  BY <1>2, <1>3 DEF TypeOK
<1>5. ASSUME NEW v
      PROVE  /\ IsFiniteSet(Holding(A, Rest, v))
             /\ Cardinality(Holding(A, Rest, v)) \in Nat
  <2>1. Holding(A, Rest, v) \subseteq Rest
    BY DEF Holding
  <2>2. IsFiniteSet(Holding(A, Rest, v))
    BY <1>2, <2>1, FS_Subset
  <2>3. QED
    BY <2>2, FS_CardinalityType
<1>6. ASSUME NEW v \in DOMAIN rest PROVE Cardinality(Holding(A, Rest, v)) > 0
  <2>1. Holding(A, Rest, v) # {}
    BY <1>3 DEF Holding
  <2>2. QED
    BY <1>5, <2>1, FS_EmptySet
<1>7. QED
  BY <1>2, <1>3, <1>4, <1>5, <1>6

LEMMA InitImplements == Init => Sort!Init
<1> SUFFICES ASSUME Init PROVE Sort!Init
  OBVIOUS
<1>1. TypeOK /\ out = << >>
  BY InitHolds DEF QsortInv, Init
<1>2. rest \in [DOMAIN rest -> {n \in Nat : n > 0}]
  <2>1. \A v \in DOMAIN rest : rest[v] \in {n \in Nat : n > 0}
    BY <1>1, RestIs
  <2>2. rest = [v \in DOMAIN rest |-> rest[v]]
    BY DEF rest
  <2>3. QED
    BY <2>1, <2>2
<1>3. IsABag(rest)
  BY <1>2 DEF IsABag
<1>4. QED
  BY <1>1, <1>3, RestIs DEF Sort!Init, Sort!IsABag, IsABag

(* A swap among what is not written loses and invents no number. *)
LEMMA SwapKeepsRest ==
  ASSUME TypeOK, NEW p \in Rest, NEW q \in Rest, A' = Swapped(p, q),
         size' = size, out' = out
  PROVE  rest' = rest
<1>1. /\ p \in Index /\ q \in Index /\ Rest \subseteq Index /\ Rest' = Rest
  BY RestIs DEF Rest
<1>2. \A x \in Rest : /\ Other(p, q, x) \in Rest /\ A'[x] = A[Other(p, q, x)]
                      /\ Other(p, q, Other(p, q, x)) = x
  <2>1. \A x \in Rest : A'[x] = A[Other(p, q, x)]
    BY <1>1, SwapIs
  <2>2. QED
    BY <2>1 DEF Other
<1>3. {A'[n] : n \in Rest} = {A[n] : n \in Rest}
  BY <1>2
<1>4. ASSUME NEW v
      PROVE  Cardinality(Holding(A', Rest, v)) = Cardinality(Holding(A, Rest, v))
  <2> DEFINE H == Holding(A, Rest, v)
             G == Holding(A', Rest, v)
             f == [x \in H |-> Other(p, q, x)]
  <2>1. f \in [H -> G]
    BY <1>2 DEF Holding
  <2>2. \A x, y \in H : f[x] = f[y] => x = y
    BY <1>2 DEF Holding
  <2>3. \A y \in G : \E x \in H : f[x] = y
    <3> SUFFICES ASSUME NEW y \in G PROVE \E x \in H : f[x] = y
      OBVIOUS
    <3>1. Other(p, q, y) \in H /\ f[Other(p, q, y)] = y
      BY <1>2 DEF Holding
    <3>2. QED
      BY <3>1
  <2>4. f \in Bijection(H, G)
    BY <2>1, <2>2, <2>3 DEF Bijection, Injection, Surjection, IsInjective
  <2>5. IsFiniteSet(H)
    BY RestIs
  <2>6. ExistsBijection(H, G)
    BY <2>4 DEF ExistsBijection
  <2>7. QED
    BY <2>5, <2>6, FS_Bijection
<1>5. QED
  BY <1>1, <1>3, <1>4 DEF rest, Holding

LEMMA SortingStutters ==
  ASSUME QsortInv, Scan \/ PlacePivot
  PROVE  rest' = rest /\ out' = out
<1>1. /\ stack # << >> /\ Top.at = "loop" /\ Running("loop")
      /\ size' = size /\ out' = out /\ Len(out) = 0
  BY DEF Scan, PlacePivot, Running, QsortInv, WrittenLast
<1>2. /\ i \in Int /\ j \in Int /\ Top.l \in Int /\ Top.r \in Int /\ size \in Int
      /\ 0 <= Top.l /\ Top.r <= size - 1
      /\ Top.l - 1 <= i /\ i < j /\ j <= Top.r
  BY <1>1, Interval DEF QsortInv, TypeOK, InBounds
<1>3. Rest = 0 .. size - 1
  BY <1>1 DEF Rest
<1>4. i + 1 \in Rest /\ j \in Rest /\ Top.r \in Rest
  BY <1>2, <1>3
<1>5. CASE A' = A
  BY <1>1, <1>5 DEF rest, Rest
<1>6. CASE A' = Swapped(i + 1, j)
  BY <1>1, <1>4, <1>6, SwapKeepsRest DEF QsortInv
<1>7. CASE A' = Swapped(i + 1, Top.r)
  BY <1>1, <1>4, <1>7, SwapKeepsRest DEF QsortInv
<1>8. QED
  BY <1>5, <1>6, <1>7 DEF Scan, PlacePivot

(* Each line written is a least number of those left. *)
LEMMA OutputWrites == QsortInv /\ Output => Sort!Write
<1> SUFFICES ASSUME QsortInv, Output PROVE Sort!Write
  OBVIOUS
<1> DEFINE m == Len(out)
           v == A[m]
<1>1. /\ stack = << >> /\ m < size /\ out' = Append(out, v)
      /\ A' = A /\ size' = size
  BY DEF Output
<1>2. m \in Nat /\ size \in Int /\ Len(out') = m + 1 /\ TypeOK'
  BY <1>1, OutputKeeps DEF QsortInv, TypeOK
<1>3. m \in Rest /\ Rest' = Rest \ {m}
  BY <1>1, <1>2 DEF Rest
<1>4. v \in DOMAIN rest
  BY <1>3, RestIs DEF QsortInv
<1>5. \A w \in DOMAIN rest : v <= w
  <2> SUFFICES ASSUME NEW n \in Rest PROVE v <= A[n]
    BY RestIs DEF QsortInv
  <2>1. n \in 0 .. size - 1 /\ m \in 0 .. size - 1 /\ (n = m \/ m < n)
    BY <1>1, <1>2 DEF Rest
  <2>2. ~ Unsorted(m, n)
    BY <1>1 DEF Unsorted
  <2>3. v \in Int
    BY <1>3, RestIs, QuicksortAssumption DEF QsortInv, TypeOK
  <2>4. QED
    BY <2>1, <2>2, <2>3 DEF QsortInv, Ordered
<1>6. \A w : /\ w # v => Holding(A, Rest', w) = Holding(A, Rest, w)
             /\ Holding(A, Rest', v) = Holding(A, Rest, v) \ {m}
             /\ m \in Holding(A, Rest, v)
  BY <1>3 DEF Holding
<1>7. Cardinality(Holding(A, Rest', v)) = Cardinality(Holding(A, Rest, v)) - 1
  <2>1. IsFiniteSet(Holding(A, Rest, v)) /\ m \in Holding(A, Rest, v)
    BY <1>6, RestIs DEF QsortInv
  <2>2. Cardinality(Holding(A, Rest, v) \ {m})
          = Cardinality(Holding(A, Rest, v)) - 1
    BY <2>1, FS_RemoveElement
  <2>3. QED
    BY <2>2, <1>6
<1>8. \A w \in DOMAIN rest' : rest'[w] = Cardinality(Holding(A, Rest', w))
  BY <1>1 DEF rest, Holding
<1>9. DOMAIN rest' = {A[n] : n \in Rest'}
  BY <1>1 DEF rest
<1>10. \A w \in DOMAIN rest : (w \in DOMAIN rest') <=> (w = v => rest[w] > 1)
  <2> SUFFICES ASSUME NEW w \in DOMAIN rest
               PROVE  (w \in DOMAIN rest') <=> (w = v => rest[w] > 1)
    OBVIOUS
  <2>1. w \in DOMAIN rest' <=> Holding(A, Rest', w) # {}
    BY <1>9 DEF Holding
  <2>2. rest[w] = Cardinality(Holding(A, Rest, w)) /\ rest[w] > 0 /\ rest[w] \in Nat
    BY RestIs DEF QsortInv
  <2>3. IsFiniteSet(Holding(A, Rest', w)) /\ Cardinality(Holding(A, Rest', w)) \in Nat
    BY <1>3, <1>6, RestIs, FS_Subset, FS_CardinalityType, OutputKeeps,
       IsFiniteSet(Holding(A, Rest, w)), Holding(A, Rest', w) \subseteq Holding(A, Rest, w)
       DEF QsortInv
  <2>4. Holding(A, Rest', w) # {} <=> Cardinality(Holding(A, Rest', w)) > 0
    BY <2>3, FS_EmptySet
  <2>5. QED
    BY <2>1, <2>2, <2>3, <2>4, <1>6, <1>7
<1>11. rest' = Sort!(-)(rest, Sort!SetToBag({v}))
  <2> DEFINE left == [w \in DOMAIN rest |-> IF w = v THEN rest[w] - 1 ELSE rest[w]]
             D == {d \in DOMAIN rest : left[d] > 0}
  <2>1. Sort!(-)(rest, Sort!SetToBag({v})) = [w \in D |-> left[w]]
    <3>1. DOMAIN Sort!SetToBag({v}) = {v} /\ Sort!SetToBag({v})[v] = 1
      BY DEF Sort!SetToBag
    <3>2. [w \in DOMAIN rest |->
             IF w \in DOMAIN Sort!SetToBag({v}) THEN rest[w] - Sort!SetToBag({v})[w]
             ELSE rest[w]] = left
      BY <3>1
    <3>3. QED
      BY <3>2 DEF Sort!(-)
  <2>2. \A w \in DOMAIN rest : rest[w] \in Nat /\ rest[w] > 0
    BY RestIs DEF QsortInv
  <2>3. DOMAIN rest' \subseteq DOMAIN rest
    BY <1>3, <1>9, RestIs DEF QsortInv
  <2>4. DOMAIN rest' = D
    <3>1. \A w \in DOMAIN rest : w \in D <=> (w = v => rest[w] > 1)
      BY <2>2
    <3>2. \A w \in DOMAIN rest : w \in DOMAIN rest' <=> w \in D
      BY <1>10, <3>1
    <3>3. QED
      BY <2>3, <3>2
  <2>5. ASSUME NEW w \in D PROVE rest'[w] = left[w]
    <3>1. rest'[w] = Cardinality(Holding(A, Rest', w))
      BY <1>8, <2>4
    <3>2. rest[w] = Cardinality(Holding(A, Rest, w))
      BY RestIs DEF QsortInv
    <3>3. QED
      BY <3>1, <3>2, <1>6, <1>7
  <2>6. rest' = [w \in DOMAIN rest' |-> rest'[w]]
    BY DEF rest
  <2>7. QED
    BY <2>1, <2>4, <2>5, <2>6
<1>12. QED
  BY <1>1, <1>4, <1>5, <1>11 DEF Sort!Write

(* What the program promises of each of its steps. *)
SortSafety == Sort!Init /\ [][Sort!Write]_<<rest, out>>

LEMMA StepImplements ==
  QsortInv /\ [Next]_vars => [Sort!Write]_<<rest, out>>
<1> SUFFICES ASSUME QsortInv, [Next]_vars
             PROVE  Sort!Write \/ (rest' = rest /\ out' = out)
  OBVIOUS
<1>1. CASE A' = A /\ size' = size /\ out' = out
  BY <1>1 DEF rest, Rest
<1>2. CASE Scan \/ PlacePivot
  BY <1>2, SortingStutters
<1>3. CASE Output
  BY <1>3, OutputWrites
<1>4. QED
  BY <1>1, <1>2, <1>3 DEF Next, vars, Enter, SortRight, Return

(* The safety of ImplementsSort: for every array and every size, the lines *)
(* main writes are the numbers it read, each as often as it was read, and  *)
(* each no greater than those still to come (qsort.c).                     *)
THEOREM QsortImplementsSort == Spec => SortSafety
<1>1. QED
  BY InitImplements, QsortInvariant, StepImplements, PTL DEF Spec, SortSafety
=============================================================================
