--------------------------- MODULE ExtractionProofs ---------------------------
(***************************************************************************)
(* Proofs about a run of process_invoice up to its last model call: the    *)
(* threshold that binarizes a page, for any number of grey levels and any  *)
(* histogram; what of a document is read, for any number of pages; the     *)
(* attempts of the model calls, for any maximum.                           *)
(***************************************************************************)
EXTENDS Extraction, SumTheorems

-----------------------------------------------------------------------------
(***************************************************************************)
(* Fractions with positive denominators.                                   *)
(***************************************************************************)
LEMMA Cancel ==
  ASSUME NEW a \in Int, NEW b \in Int, NEW c \in Int, c > 0
  PROVE  a > b <=> a * c > b * c
  OBVIOUS

Fraction == [num : Int, den : Nat \ {0}]

\* What is greater than an upper bound is greater than the bounded.
LEMMA GreaterThanBound ==
  ASSUME NEW a \in Fraction, NEW b \in Fraction, NEW c \in Fraction,
         Otsu!Greater(a, b), ~Otsu!Greater(c, b)
  PROVE  Otsu!Greater(a, c)
<1> DEFINE p == a.den  q == b.den  r == c.den
<1>1. /\ a.num \in Int /\ b.num \in Int /\ c.num \in Int
      /\ p \in Int /\ q \in Int /\ r \in Int /\ p > 0 /\ q > 0 /\ r > 0
      /\ a.num * q > b.num * p /\ ~(c.num * q > b.num * r)
  BY DEF Fraction, Otsu!Greater
<1> HIDE DEF p, q, r
<1>2. (a.num * q) * r > (b.num * p) * r
  BY <1>1, Cancel
<1>3. (c.num * q) * p <= (b.num * r) * p
  BY <1>1, Cancel
<1>4. (a.num * r) * q > (c.num * p) * q
  BY <1>1, <1>2, <1>3
<1>5. a.num * r > c.num * p
  BY <1>1, <1>4, Cancel
<1>6. QED
  BY <1>5 DEF Otsu!Greater, p, r

\* One of two fractions at most is the greater one.
LEMMA GreaterIsAsymmetric ==
  ASSUME NEW a \in Fraction, NEW b \in Fraction, Otsu!Greater(a, b)
  PROVE  ~Otsu!Greater(b, a)
  BY DEF Fraction, Otsu!Greater

\* Two splits of the same pixels compare by what they explain of the scatter
\* as they compare by the variance between their classes: with W pixels of sum
\* P in all, e/d and f/c are what is explained, v/d and w/c the variances.
LEMMA Comparable ==
  ASSUME NEW W \in Int, W > 0, NEW P \in Int,
         NEW e \in Int, NEW v \in Int, NEW d \in Int, e * W = P * d + v,
         NEW f \in Int, NEW w \in Int, NEW c \in Int, f * W = P * c + w
  PROVE  e * c > f * d <=> v * c > w * d
<1>1. (e * c) * W = P * d * c + v * c
  <2>1. (e * c) * W = (e * W) * c
    OBVIOUS
  <2>2. QED
    BY <2>1
<1>2. (f * d) * W = P * d * c + w * d
  <2>1. (f * d) * W = (f * W) * d
    OBVIOUS
  <2>2. QED
    BY <2>1
<1>3. /\ e * c \in Int /\ f * d \in Int /\ v * c \in Int /\ w * d \in Int
      /\ P * d * c \in Int
  OBVIOUS
<1>4. e * c > f * d <=> (e * c) * W > (f * d) * W
  BY <1>3, Cancel
<1>5. QED
  BY <1>1, <1>2, <1>3, <1>4

\* Koenig's theorem, with integers: a and b pixels of sums x and y.
LEMMA ScatterSplits ==
  ASSUME NEW a \in Int, NEW b \in Int, NEW x \in Int, NEW y \in Int
  PROVE  (x * x * b + y * y * a) * (a + b)
            = (x + y) * (x + y) * (a * b) + (x * b - y * a) * (x * b - y * a)
  OBVIOUS

-----------------------------------------------------------------------------
(***************************************************************************)
(* Histograms.                                                             *)
(***************************************************************************)
Histogram == [Otsu!Grey -> Nat]

Below(k) == {x \in Otsu!Grey : x < k}
Weight(h, S) == SumFunctionOnSet(h, S)
Moment(h, S) == SumFunctionOnSet([x \in Otsu!Grey |-> x * h[x]], S)

\* OtsuThreshold and this module take their sums from the same library.
LEMMA SameSum == \A f, S : Otsu!SumFunctionOnSet(f, S) = SumFunctionOnSet(f, S)
  BY DEF Otsu!SumFunctionOnSet, Otsu!FoldFunctionOnSet, Otsu!MapThenFoldSet,
         SumFunctionOnSet, FoldFunctionOnSet, MapThenFoldSet

\* Every set of grey levels is finite, and has natural sums.
LEMMA SumsAreNatural ==
  ASSUME NEW h \in Histogram, NEW S \in SUBSET Otsu!Grey
  PROVE  IsFiniteSet(S) /\ Weight(h, S) \in Nat /\ Moment(h, S) \in Nat
<1>1. IsFiniteSet(S)
  <2>1. Levels - 1 \in Int /\ IsFiniteSet(0 .. Levels - 1)
    BY ExtractionAssumption, FS_Interval
  <2>2. QED
    BY <2>1, FS_Subset DEF Otsu!Grey
<1>2. \A x \in S : h[x] \in Nat /\ x * h[x] \in Nat
  BY DEF Histogram, Otsu!Grey
<1>3. QED
  BY <1>1, <1>2, SumNatural DEF Weight, Moment

\* Each level adds its pixels.
LEMMA NextLevel ==
  ASSUME NEW h \in Histogram, NEW k \in Otsu!Grey
  PROVE  /\ Weight(h, Below(k + 1)) = Weight(h, Below(k)) + h[k]
         /\ Moment(h, Below(k + 1)) = Moment(h, Below(k)) + k * h[k]
<1> DEFINE S == Below(k + 1)
           m == [x \in Otsu!Grey |-> x * h[x]]
<1>1. k \in S /\ S \ {k} = Below(k) /\ S \in SUBSET Otsu!Grey
  BY DEF Below, Otsu!Grey
<1>2. IsFiniteSet(S) /\ Weight(h, Below(k)) \in Nat /\ Moment(h, Below(k)) \in Nat
  BY <1>1, SumsAreNatural
<1>3. \A x \in S : h[x] \in Int /\ m[x] \in Int
  BY <1>1 DEF Histogram, Otsu!Grey
<1>4. m[k] = k * h[k] /\ h[k] \in Nat /\ k * h[k] \in Int
  BY DEF Histogram, Otsu!Grey
<1> HIDE DEF S, m
<1>5. SumFunctionOnSet(h, S) = h[k] + SumFunctionOnSet(h, S \ {k})
  BY <1>1, <1>2, <1>3, SumRemove
<1>6. SumFunctionOnSet(m, S) = m[k] + SumFunctionOnSet(m, S \ {k})
  BY <1>1, <1>2, <1>3, SumRemove
<1>7. Weight(h, S) = h[k] + Weight(h, Below(k))
  BY <1>1, <1>5 DEF Weight
<1>8. Moment(h, S) = m[k] + Moment(h, Below(k))
  BY <1>1, <1>6 DEF Moment, m
<1>9. QED
  BY <1>2, <1>4, <1>7, <1>8 DEF S

\* A split divides the pixels and the sum of their levels.
LEMMA SplitDivides ==
  ASSUME NEW h \in Histogram, NEW k \in Otsu!Grey
  PROVE  /\ Weight(h, Otsu!Grey)
               = Weight(h, Otsu!Dark(k)) + Weight(h, Otsu!Light(k))
         /\ Moment(h, Otsu!Grey)
               = Moment(h, Otsu!Dark(k)) + Moment(h, Otsu!Light(k))
         /\ Otsu!Dark(k) = Below(k + 1)
<1> DEFINE m == [x \in Otsu!Grey |-> x * h[x]]
<1>1. /\ Otsu!Dark(k) \in SUBSET Otsu!Grey /\ Otsu!Light(k) \in SUBSET Otsu!Grey
      /\ Otsu!Dark(k) \cup Otsu!Light(k) = Otsu!Grey
      /\ Otsu!Dark(k) \cap Otsu!Light(k) = {}
      /\ Otsu!Dark(k) = Below(k + 1)
  BY DEF Otsu!Dark, Otsu!Light, Otsu!Grey, Below
<1>2. IsFiniteSet(Otsu!Dark(k)) /\ IsFiniteSet(Otsu!Light(k))
  BY <1>1, SumsAreNatural
<1>3. \A x \in Otsu!Grey : h[x] \in Int /\ m[x] \in Int
  BY DEF Histogram, Otsu!Grey
<1> HIDE DEF m
<1>4. Weight(h, Otsu!Grey) = Weight(h, Otsu!Dark(k)) + Weight(h, Otsu!Light(k))
  BY <1>1, <1>2, <1>3, SumUnion DEF Weight
<1>5. SumFunctionOnSet(m, Otsu!Grey)
        = SumFunctionOnSet(m, Otsu!Dark(k)) + SumFunctionOnSet(m, Otsu!Light(k))
  BY <1>1, <1>2, <1>3, SumUnion
<1>6. QED
  BY <1>1, <1>4, <1>5 DEF Moment, m

\* No pixels have no levels to sum up.
LEMMA NoWeightNoMoment ==
  ASSUME NEW h \in Histogram, NEW S \in SUBSET Otsu!Grey, Weight(h, S) = 0
  PROVE  Moment(h, S) = 0
<1> DEFINE m == [x \in Otsu!Grey |-> x * h[x]]
<1>1. IsFiniteSet(S) /\ \A x \in S : h[x] \in Nat
  BY SumsAreNatural DEF Histogram
<1>2. \A x \in S : ~(h[x] > 0)
  BY <1>1, SumPositive DEF Weight
<1>3. \A x \in S : m[x] \in Nat /\ ~(m[x] > 0)
  BY <1>1, <1>2 DEF Otsu!Grey
<1> HIDE DEF m
<1>4. ~(SumFunctionOnSet(m, S) > 0) /\ SumFunctionOnSet(m, S) \in Nat
  BY <1>1, <1>3, SumPositive, SumNatural
<1>5. QED
  BY <1>4 DEF Moment, m

\* The sum of levels lies between multiples of their bounds.
LEMMA MomentBounds ==
  ASSUME NEW h \in Histogram, NEW S \in SUBSET Otsu!Grey, NEW k \in Int
  PROVE  /\ (\A x \in S : x <= k) => Moment(h, S) <= k * Weight(h, S)
         /\ (\A x \in S : x >= k) => k * Weight(h, S) <= Moment(h, S)
<1> DEFINE m == [x \in Otsu!Grey |-> x * h[x]]
           n == [x \in S |-> k * h[x]]
<1>1. IsFiniteSet(S)
  BY SumsAreNatural
<1>2. \A x \in S : /\ x \in Int /\ h[x] \in Nat /\ m[x] \in Int /\ n[x] \in Int
                   /\ m[x] = x * h[x] /\ n[x] = k * h[x]
  BY DEF Histogram, Otsu!Grey
<1>3. Moment(h, S) = SumFunctionOnSet(m, S)
  BY DEF Moment
<1> HIDE DEF m, n
<1>4. SumFunctionOnSet(n, S) = k * Weight(h, S)
  BY <1>1, <1>2, SumMultiple DEF Weight
<1>5. ASSUME \A x \in S : x <= k PROVE Moment(h, S) <= k * Weight(h, S)
  <2>1. \A x \in S : m[x] <= n[x]
    BY <1>2, <1>5
  <2>2. QED
    BY <1>1, <1>2, <1>3, <1>4, <2>1, SumMonotonic
<1>6. ASSUME \A x \in S : x >= k PROVE k * Weight(h, S) <= Moment(h, S)
  <2>1. \A x \in S : n[x] <= m[x]
    BY <1>2, <1>6
  <2>2. QED
    BY <1>1, <1>2, <1>3, <1>4, <2>1, SumMonotonic
<1>7. QED
  BY <1>5, <1>6

Split(h, k) == Weight(h, Otsu!Dark(k)) > 0 /\ Weight(h, Otsu!Light(k)) > 0

Var(h, k) == Otsu!Variance(Weight(h, Otsu!Dark(k)), Weight(h, Otsu!Light(k)),
                           Moment(h, Otsu!Dark(k)), Moment(h, Otsu!Light(k)))

\* The means of the two classes differ, so that the variance is positive.
LEMMA VarianceIsPositive ==
  ASSUME NEW h \in Histogram, NEW k \in Otsu!Grey, Split(h, k)
  PROVE  Var(h, k) \in Fraction /\ Var(h, k).num > 0
<1> DEFINE a == Weight(h, Otsu!Dark(k))   x == Moment(h, Otsu!Dark(k))
           b == Weight(h, Otsu!Light(k))  y == Moment(h, Otsu!Light(k))
<1>1. Otsu!Dark(k) \in SUBSET Otsu!Grey /\ Otsu!Light(k) \in SUBSET Otsu!Grey
  BY DEF Otsu!Dark, Otsu!Light
<1>2. a \in Nat /\ b \in Nat /\ x \in Nat /\ y \in Nat /\ a > 0 /\ b > 0 /\ k \in Nat
  BY <1>1, SumsAreNatural DEF Split, Otsu!Grey
<1>3. x <= k * a
  BY <1>1, <1>2, MomentBounds DEF Otsu!Dark
<1>4. (k + 1) * b <= y
  <2>1. \A z \in Otsu!Light(k) : z >= k + 1
    BY <1>2 DEF Otsu!Light, Otsu!Grey
  <2>2. QED
    BY <1>1, <1>2, <2>1, MomentBounds
<1>5. Var(h, k) = [num |-> (x * b - y * a) * (x * b - y * a), den |-> a * b]
  BY DEF Var, Otsu!Variance, Otsu!Square
<1> HIDE DEF a, b, x, y
<1>6. x * b < y * a
  <2>1. x * b <= (k * a) * b
    BY <1>2, <1>3
  <2>2. ((k + 1) * b) * a <= y * a
    BY <1>2, <1>4
  <2>3. (k * a) * b < ((k + 1) * b) * a
    <3>1. ((k + 1) * b) * a = (k * a) * b + a * b /\ a * b > 0
      BY <1>2
    <3>2. QED
      BY <1>2, <3>1
  <2>4. QED
    BY <1>2, <2>1, <2>2, <2>3
<1>7. /\ (x * b - y * a) * (x * b - y * a) \in Int
      /\ (x * b - y * a) * (x * b - y * a) > 0
      /\ a * b \in Nat \ {0}
  BY <1>2, <1>6
<1>8. QED
  BY <1>5, <1>7 DEF Fraction

-----------------------------------------------------------------------------
(***************************************************************************)
(* The loop.                                                               *)
(***************************************************************************)

\* Of the levels below n that split the pixels, l is the lowest of those whose
\* variance, b, is the greatest; if there are none, nothing has been found.
Found(h, n, b, l) ==
    IF \E k \in Below(n) : Split(h, k)
    THEN /\ l \in Below(n) /\ Split(h, l) /\ b = Var(h, l)
         /\ \A k \in Below(n) : Split(h, k) =>
               /\ ~Otsu!Greater(Var(h, k), b)
               /\ k < l => Otsu!Greater(b, Var(h, k))
    ELSE b = [num |-> 0, den |-> 1] /\ l = Default

\* A level that does not split them changes nothing.
LEMMA NoSplitHere ==
  ASSUME NEW h \in Histogram, NEW n \in Otsu!Grey, ~Split(h, n),
         NEW b, NEW l, Found(h, n, b, l)
  PROVE  Found(h, n + 1, b, l)
<1>1. \A k \in Below(n + 1) : k \in Below(n) \/ k = n
  BY DEF Below, Otsu!Grey
<1>2. \A k \in Below(n) : k \in Below(n + 1)
  BY DEF Below, Otsu!Grey
<1>3. QED
  BY <1>1, <1>2 DEF Found

\* One that does is compared with the best so far.
LEMMA SplitHere ==
  ASSUME NEW h \in Histogram, NEW n \in Otsu!Grey, Split(h, n),
         NEW b, NEW l, Found(h, n, b, l)
  PROVE  IF Otsu!Greater(Var(h, n), b) THEN Found(h, n + 1, Var(h, n), n)
                                       ELSE Found(h, n + 1, b, l)
<1>1. \A k \in Below(n + 1) : k \in Below(n) \/ k = n
  BY DEF Below, Otsu!Grey
<1>2. \A k \in Below(n) : k \in Below(n + 1) /\ k < n
  BY DEF Below, Otsu!Grey
<1>3. n \in Below(n + 1) /\ ~(n < n)
  BY DEF Below, Otsu!Grey
<1>4. \A k \in Below(n + 1) :
         Split(h, k) => Var(h, k) \in Fraction /\ Var(h, k).num > 0
  BY VarianceIsPositive DEF Below
<1>5. CASE \E k \in Below(n) : Split(h, k)
  <2>1. /\ l \in Below(n) /\ Split(h, l) /\ b = Var(h, l)
        /\ \A k \in Below(n) : Split(h, k) =>
              /\ ~Otsu!Greater(Var(h, k), b)
              /\ k < l => Otsu!Greater(b, Var(h, k))
    BY <1>5 DEF Found
  <2>2. CASE Otsu!Greater(Var(h, n), b)
    <3>1. \A k \in Below(n) : Split(h, k) => Otsu!Greater(Var(h, n), Var(h, k))
      BY <1>2, <1>3, <1>4, <2>1, <2>2, GreaterThanBound
    <3>2. \A k \in Below(n + 1) : Split(h, k) => ~Otsu!Greater(Var(h, k), Var(h, n))
      BY <1>1, <1>2, <1>3, <1>4, <3>1, GreaterIsAsymmetric
    <3>3. \A k \in Below(n + 1) :
             Split(h, k) /\ k < n => Otsu!Greater(Var(h, n), Var(h, k))
      BY <1>1, <1>3, <3>1
    <3>4. QED
      BY <1>3, <2>2, <3>2, <3>3 DEF Found
  <2>3. CASE ~Otsu!Greater(Var(h, n), b)
    <3>1. l < n /\ ~(n < l)
      BY <2>1 DEF Below, Otsu!Grey
    <3>2. QED
      BY <1>1, <1>2, <2>1, <2>3, <3>1 DEF Found
  <2>4. QED
    BY <2>2, <2>3
<1>6. CASE ~ \E k \in Below(n) : Split(h, k)
  <2>1. b = [num |-> 0, den |-> 1] /\ b \in Fraction
    BY <1>6 DEF Found, Fraction
  <2>2. Var(h, n) \in Fraction /\ Otsu!Greater(Var(h, n), b)
    BY <1>3, <1>4, <2>1 DEF Otsu!Greater, Fraction
  <2>3. ~Otsu!Greater(Var(h, n), Var(h, n))
    BY <2>2, GreaterIsAsymmetric
  <2>4. QED
    BY <1>1, <1>3, <1>6, <2>2, <2>3 DEF Found
<1>7. QED
  BY <1>5, <1>6

OtsuInv ==
    /\ hist \in Histogram
    /\ t \in 0 .. Levels
    /\ Found(hist, t, best, threshold)
    /\ done => \A k \in Otsu!Grey : Split(hist, k) => k < t
    /\ ~done => /\ t < Levels
                /\ weightBg = Weight(hist, Below(t))
                /\ sumBg = Moment(hist, Below(t))

\* Nothing has been summed up when the loop begins.
LEMMA OtsuBegins ==
  ASSUME NEW h \in Histogram, Otsu!Call(h)
  PROVE  OtsuInv'
<1>1. Below(0) = {}
  BY DEF Below, Otsu!Grey
<1>2. Weight(h, Below(0)) = 0 /\ Moment(h, Below(0)) = 0
  BY <1>1, SumEmpty DEF Weight, Moment
<1>3. Found(h, 0, [num |-> 0, den |-> 1], Default)
  BY <1>1 DEF Found
<1>4. QED
  BY <1>2, <1>3, ExtractionAssumption DEF OtsuInv, Otsu!Call

\* If a split has nothing light, no higher one has.
LEMMA NothingLight ==
  ASSUME NEW h \in Histogram, NEW n \in Otsu!Grey, Weight(h, Otsu!Light(n)) = 0,
         NEW k \in Otsu!Grey, n <= k
  PROVE  ~Split(h, k)
<1>1. /\ Otsu!Light(n) \in SUBSET Otsu!Grey /\ Otsu!Light(k) \in SUBSET Otsu!Grey
      /\ Otsu!Light(k) \subseteq Otsu!Light(n)
  BY DEF Otsu!Light, Otsu!Grey
<1>2. \A x \in Otsu!Grey : h[x] \in Nat
  BY DEF Histogram
<1>3. IsFiniteSet(Otsu!Light(n)) /\ IsFiniteSet(Otsu!Light(k))
  BY <1>1, SumsAreNatural
<1>4. \A x \in Otsu!Light(n) : ~(h[x] > 0)
  BY <1>1, <1>2, <1>3, SumPositive DEF Weight
<1>5. QED
  BY <1>1, <1>2, <1>3, <1>4, SumPositive DEF Weight, Split

\* One iteration.
LEMMA OtsuIterates ==
  ASSUME OtsuInv, Otsu!Iterate
  PROVE  OtsuInv'
<1> DEFINE wb == weightBg + hist[t]
           wf == Otsu!Pixels(Otsu!Grey) - wb
           sb == sumBg + t * hist[t]
           var == Otsu!Variance(wb, wf, sb, Otsu!Sum(Otsu!Grey) - sb)
<1>1. hist \in Histogram /\ t \in Otsu!Grey /\ ~done /\ hist' = hist /\ t' = t + 1
  BY ExtractionAssumption DEF OtsuInv, Otsu!Iterate, Otsu!Grey
<1>2. t + 1 \in 0 .. Levels /\ (t + 1 # Levels => t + 1 < Levels)
  BY <1>1, ExtractionAssumption DEF Otsu!Grey
<1>3. /\ wb = Weight(hist, Otsu!Dark(t)) /\ sb = Moment(hist, Otsu!Dark(t))
      /\ Otsu!Dark(t) = Below(t + 1)
  BY <1>1, NextLevel, SplitDivides DEF OtsuInv
<1>4. wf = Weight(hist, Otsu!Light(t))
      /\ Otsu!Sum(Otsu!Grey) - sb = Moment(hist, Otsu!Light(t))
  <2>1. /\ Otsu!Pixels(Otsu!Grey) = Weight(hist, Otsu!Grey)
        /\ Otsu!Sum(Otsu!Grey) = Moment(hist, Otsu!Grey)
    BY SameSum DEF Otsu!Pixels, Otsu!Sum, Weight, Moment
  <2>2. /\ Otsu!Dark(t) \in SUBSET Otsu!Grey /\ Otsu!Light(t) \in SUBSET Otsu!Grey
    BY DEF Otsu!Dark, Otsu!Light
  <2>3. /\ Weight(hist, Otsu!Dark(t)) \in Nat /\ Moment(hist, Otsu!Dark(t)) \in Nat
        /\ Weight(hist, Otsu!Light(t)) \in Nat /\ Moment(hist, Otsu!Light(t)) \in Nat
    BY <1>1, <2>2, SumsAreNatural
  <2> HIDE DEF wb, sb
  <2>4. QED
    BY <1>1, <1>3, <2>1, <2>3, SplitDivides
<1>5. /\ weightBg' = wb
      /\ IF wb = 0
         THEN done' = (t + 1 = Levels) /\ UNCHANGED <<sumBg, best, threshold>>
         ELSE IF wf = 0
         THEN done' = TRUE /\ UNCHANGED <<sumBg, best, threshold>>
         ELSE /\ done' = (t + 1 = Levels)
              /\ sumBg' = sb
              /\ IF Otsu!Greater(var, best)
                 THEN best' = var /\ threshold' = t
                 ELSE UNCHANGED <<best, threshold>>
  BY DEF Otsu!Iterate
<1>6. wb \in Nat /\ wf \in Nat /\ var = Var(hist, t)
  <2>1. var = Var(hist, t)
    BY <1>3, <1>4 DEF Var
  <2>2. Otsu!Light(t) \in SUBSET Otsu!Grey /\ Otsu!Dark(t) \in SUBSET Otsu!Grey
    BY DEF Otsu!Light, Otsu!Dark
  <2> HIDE DEF wb, wf, var
  <2>3. QED
    BY <1>1, <1>3, <1>4, <2>1, <2>2, SumsAreNatural
<1>7. wb = 0 => sb = 0 /\ sumBg = 0
  <2>1. CASE wb = 0
    <3>1. Below(t) \in SUBSET Otsu!Grey /\ Otsu!Dark(t) \in SUBSET Otsu!Grey
      BY DEF Below, Otsu!Dark
    <3>2. Weight(hist, Below(t)) \in Nat /\ hist[t] \in Nat
      BY <1>1, <3>1, SumsAreNatural DEF Histogram
    <3>3. Weight(hist, Below(t)) = 0
      BY <1>1, <2>1, <3>2 DEF OtsuInv
    <3> HIDE DEF wb, sb
    <3>4. QED
      BY <1>1, <1>3, <2>1, <3>1, <3>3, NoWeightNoMoment DEF OtsuInv
  <2>2. QED
    BY <2>1
<1> HIDE DEF wb, wf, sb, var
<1>8. \A k \in Otsu!Grey : t + 1 = Levels => k < t + 1
  BY <1>1, ExtractionAssumption DEF Otsu!Grey
<1>9. Found(hist, t, best, threshold)
  BY DEF OtsuInv
<1>10. CASE wb = 0
  <2>1. ~Split(hist, t)
    BY <1>3, <1>10 DEF Split
  <2>2. Found(hist, t + 1, best, threshold)
    BY <1>1, <1>9, <2>1, NoSplitHere
  <2>3. sumBg = sb
    BY <1>7, <1>10
  <2>4. QED
    BY <1>1, <1>2, <1>3, <1>5, <1>8, <1>10, <2>2, <2>3 DEF OtsuInv
<1>11. CASE wb # 0 /\ wf = 0
  <2>1. ~Split(hist, t)
    BY <1>4, <1>11 DEF Split
  <2>2. Found(hist, t + 1, best, threshold)
    BY <1>1, <1>9, <2>1, NoSplitHere
  <2>3. ASSUME NEW k \in Otsu!Grey, Split(hist, k) PROVE k < t + 1
    <3>1. ~(t <= k)
      BY <1>1, <1>4, <1>11, <2>3, NothingLight
    <3>2. QED
      BY <1>1, <3>1, ExtractionAssumption DEF Otsu!Grey
  <2>4. QED
    BY <1>1, <1>2, <1>5, <1>11, <2>2, <2>3 DEF OtsuInv
<1>12. CASE wb # 0 /\ wf # 0
  <2>1. Split(hist, t)
    BY <1>3, <1>4, <1>6, <1>12 DEF Split
  <2>2. Found(hist, t + 1, best', threshold')
    <3>1. IF Otsu!Greater(Var(hist, t), best)
          THEN Found(hist, t + 1, Var(hist, t), t)
          ELSE Found(hist, t + 1, best, threshold)
      BY <1>1, <1>9, <2>1, SplitHere
    <3>2. QED
      BY <1>5, <1>6, <1>12, <3>1
  <2>3. QED
    BY <1>1, <1>2, <1>3, <1>5, <1>8, <1>12, <2>2 DEF OtsuInv
<1>13. QED
  BY <1>10, <1>11, <1>12

\* The loop runs in two steps of a run, and begins in two others.
LEMMA NextOtsuInv == OtsuInv /\ [Next]_vars => OtsuInv'
<1> SUFFICES ASSUME OtsuInv, [Next]_vars PROVE OtsuInv'
  OBVIOUS
<1>1. CASE OpenPage
  <2>1. PICK h \in Histograms(document.pages[page]) : Otsu!Call(h)
    BY <1>1 DEF OpenPage
  <2>2. h \in Histogram
    BY ExtractionAssumption DEF Histograms, Histogram
  <2>3. QED
    BY <2>1, <2>2, OtsuBegins
<1>2. CASE Binarize
  BY <1>2, OtsuIterates DEF Binarize
<1>3. CASE Recognize
  <2>1. NoPixels \in Histogram
    BY DEF NoPixels, Histogram
  <2>2. QED
    BY <1>3, <2>1, OtsuBegins DEF Recognize
<1>4. CASE UNCHANGED loop
  BY <1>4 DEF loop, OtsuInv
<1>5. QED
  BY <1>1, <1>2, <1>3, <1>4
  DEF Next, vars, Refuse, Identify, ReadNative, OpenFails, Extract, Categorize,
      SoftTimeLimit

\* So the loop has found the best split so far, on every page.
LEMMA OtsuInvHolds == Spec => []OtsuInv
<1>1. Init => OtsuInv
  <2> SUFFICES ASSUME Init PROVE OtsuInv
    OBVIOUS
  <2>1. Below(0) = {} /\ NoPixels \in Histogram
    BY DEF Below, Otsu!Grey, NoPixels, Histogram
  <2>2. Weight(hist, Below(0)) = 0 /\ Moment(hist, Below(0)) = 0
    BY <2>1, SumEmpty DEF Weight, Moment
  <2>3. Found(hist, 0, best, threshold)
    BY <2>1 DEF Found, Init
  <2>4. QED
    BY <2>1, <2>2, <2>3, ExtractionAssumption DEF Init, OtsuInv
<1>2. QED
  BY <1>1, NextOtsuInv, PTL DEF Spec

\* The code's sums are those of this module.
LEMMA SplitsAreSplits ==
  ASSUME NEW k
  PROVE  /\ Otsu!Splits(k) <=> Split(hist, k)
         /\ Otsu!Pixels(Otsu!Dark(k)) = Weight(hist, Otsu!Dark(k))
         /\ Otsu!Pixels(Otsu!Light(k)) = Weight(hist, Otsu!Light(k))
         /\ Otsu!Sum(Otsu!Dark(k)) = Moment(hist, Otsu!Dark(k))
         /\ Otsu!Sum(Otsu!Light(k)) = Moment(hist, Otsu!Light(k))
  BY SameSum DEF Otsu!Splits, Otsu!Pixels, Otsu!Sum, Weight, Moment, Split

\* A page whose pixels have two levels never turns all black or all white.
LEMMA InkIsKept == OtsuInv => InkSurvives
<1> SUFFICES ASSUME OtsuInv, done
             PROVE  IF \E k \in Otsu!Grey : Otsu!Splits(k)
                    THEN Otsu!Splits(threshold) ELSE threshold = Default
  BY DEF InkSurvives, Otsu!InkSurvives
<1>1. \A k \in Otsu!Grey : Split(hist, k) => k \in Below(t)
  BY DEF OtsuInv, Below
<1>2. \A k \in Below(t) : k \in Otsu!Grey
  BY DEF Below
<1>3. QED
  BY <1>1, <1>2, SplitsAreSplits DEF OtsuInv, Found

\* No page that has two grey levels is binarized to one colour, whatever its
\* histogram and the state the previous page left.
THEOREM InkIsNeverLost == Spec => []InkSurvives
  BY OtsuInvHolds, InkIsKept, PTL

\* Of two splits, the one with the greater variance between its classes is the
\* one with less scatter within them.
LEMMA ScatterIsVariance ==
  ASSUME OtsuInv, NEW j \in Otsu!Grey, Split(hist, j),
                  NEW k \in Otsu!Grey, Split(hist, k)
  PROVE  Otsu!Greater(Otsu!Explained(j), Otsu!Explained(k))
            <=> Otsu!Greater(Var(hist, j), Var(hist, k))
<1> DEFINE W == Weight(hist, Otsu!Grey)
           S == Moment(hist, Otsu!Grey)
           e(i) == Otsu!Explained(i)
           v(i) == Var(hist, i)
<1>1. ASSUME NEW i \in Otsu!Grey, Split(hist, i)
      PROVE  /\ e(i).num \in Int /\ v(i).num \in Int /\ e(i).den \in Int
             /\ v(i).den = e(i).den /\ W > 0 /\ W \in Int /\ S * S \in Int
             /\ e(i).num * W = (S * S) * e(i).den + v(i).num
  <2> DEFINE a == Weight(hist, Otsu!Dark(i))   x == Moment(hist, Otsu!Dark(i))
             b == Weight(hist, Otsu!Light(i))  y == Moment(hist, Otsu!Light(i))
  <2>1. hist \in Histogram
    BY DEF OtsuInv
  <2>2. Otsu!Dark(i) \in SUBSET Otsu!Grey /\ Otsu!Light(i) \in SUBSET Otsu!Grey
    BY DEF Otsu!Dark, Otsu!Light
  <2>3. a \in Nat /\ b \in Nat /\ x \in Nat /\ y \in Nat /\ a > 0 /\ b > 0
    BY <1>1, <2>1, <2>2, SumsAreNatural DEF Split
  <2>4. W = a + b /\ S = x + y
    BY <2>1, SplitDivides
  <2>5. e(i) = [num |-> x * x * b + y * y * a, den |-> a * b]
    BY SplitsAreSplits DEF Otsu!Explained, Otsu!Square
  <2>6. v(i) = [num |-> (x * b - y * a) * (x * b - y * a), den |-> a * b]
    BY DEF Var, Otsu!Variance, Otsu!Square
  <2> HIDE DEF a, b, x, y, W, S, e, v
  <2>7. (x * x * b + y * y * a) * W
           = (S * S) * (a * b) + (x * b - y * a) * (x * b - y * a)
    BY <2>3, <2>4, ScatterSplits
  <2>8. QED
    BY <2>3, <2>4, <2>5, <2>6, <2>7
<1> HIDE DEF W, S, e, v
<1>2. e(j).num * e(k).den > e(k).num * e(j).den
         <=> v(j).num * e(k).den > v(k).num * e(j).den
  <2> DEFINE P == S * S
             ej == e(j).num  ek == e(k).num  dj == e(j).den  dk == e(k).den
             vj == v(j).num  vk == v(k).num
  <2>1. /\ W \in Int /\ W > 0 /\ P \in Int
        /\ ej \in Int /\ vj \in Int /\ dj \in Int /\ ej * W = P * dj + vj
        /\ ek \in Int /\ vk \in Int /\ dk \in Int /\ ek * W = P * dk + vk
    BY <1>1
  <2> HIDE DEF P, ej, ek, dj, dk, vj, vk
  <2>2. ej * dk > ek * dj <=> vj * dk > vk * dj
    BY <2>1, Comparable
  <2>3. QED
    BY <2>2 DEF ej, ek, dj, dk, vj, vk
<1>3. QED
  BY <1>1, <1>2 DEF Otsu!Greater, e, v

\* The one pass over the histogram finds Otsu's threshold, the lowest if there
\* are several, for any number of grey levels and any page.
LEMMA ThresholdIsBest == OtsuInv => ThresholdIsOtsu
<1> SUFFICES ASSUME OtsuInv, done, NEW k \in Otsu!Grey, Otsu!Splits(k)
             PROVE  /\ ~Otsu!Greater(Otsu!Explained(k), Otsu!Explained(threshold))
                    /\ k < threshold =>
                          Otsu!Greater(Otsu!Explained(threshold), Otsu!Explained(k))
  BY DEF ThresholdIsOtsu, Otsu!ThresholdIsOtsu
<1>1. Split(hist, k) /\ k \in Below(t)
  BY SplitsAreSplits DEF OtsuInv, Below
<1>2. /\ threshold \in Otsu!Grey /\ Split(hist, threshold)
      /\ ~Otsu!Greater(Var(hist, k), Var(hist, threshold))
      /\ k < threshold => Otsu!Greater(Var(hist, threshold), Var(hist, k))
  BY <1>1 DEF OtsuInv, Found, Below
<1>3. QED
  BY <1>1, <1>2, ScatterIsVariance

\* The one pass over the grey levels finds the least threshold with the
\* greatest variance between its classes, for every histogram.
THEOREM ThresholdsAreOtsu == Spec => []ThresholdIsOtsu
  BY OtsuInvHolds, ThresholdIsBest, PTL

-----------------------------------------------------------------------------
(***************************************************************************)
(* The attempts of the model calls.                                        *)
(***************************************************************************)
Calls == {"extract", "categorize"}

\* The last n requests are attempts of one call that its rate limit refused.
Refused(made, n, call) ==
    \A k \in (Len(made) - n + 1) .. Len(made) : made[k] = <<call, "rate_limit">>

(***************************************************************************)
(* EachCallHasItsAttempts speaks of runs that have ended.  While one goes  *)
(* on, the requests made so far must account for the attempts counted, and *)
(* a call must begin with none.                                            *)
(***************************************************************************)
AttemptInv ==
    /\ requests \in Seq(Calls \X Answers)
    /\ tries \in 0 .. MaxAttempts - 1
    /\ step \notin Calls \cup {"end"} => tries = 0
    /\ step \in Calls => tries <= Len(requests) /\ Refused(requests, tries, step)
    /\ step # "end" => outcome = "none"
    /\ EachCallHasItsAttempts

\* There are no requests yet.
LEMMA InitAttemptInv == Init => AttemptInv
  BY ExtractionAssumption
     DEF Init, AttemptInv, Calls, EachCallHasItsAttempts

\* One attempt more, of the call that is being made.
LEMMA OneAttempt ==
  ASSUME AttemptInv, NEW call \in Calls, NEW answer \in Answers,
         Attempt(call, answer)
  PROVE  AttemptInv'
<1> USE ExtractionAssumption DEF AttemptInv, Calls, Attempt, Answered
<1> DEFINE n == Len(requests)
<1>1. /\ requests' \in Seq(Calls \X Answers)
      /\ n \in Nat /\ Len(requests') = n + 1
      /\ requests'[n + 1] = <<call, answer>>
      /\ \A k \in 1 .. n : requests'[k] = requests[k]
  OBVIOUS
<1>2. step = call /\ tries <= n /\ Refused(requests, tries, call) /\ outcome = "none"
  OBVIOUS
<1>3. answer = "rate_limit" => Refused(requests', tries + 1, call)
  BY <1>1, <1>2 DEF Refused
<1>4. CASE answer = "rate_limit" /\ tries + 1 < MaxAttempts
  <2>1. tries' = tries + 1 /\ step' = step /\ outcome' = outcome
    BY <1>4
  <2>2. Refused(requests', tries', step')
    BY <1>1, <1>2, <1>3, <1>4, <2>1 DEF Refused
  <2>3. EachCallHasItsAttempts'
    BY <1>2, <2>1 DEF EachCallHasItsAttempts
  <2>4. QED
    BY <1>1, <1>2, <1>4, <2>1, <2>2, <2>3
<1>5. CASE answer = "rate_limit" /\ ~(tries + 1 < MaxAttempts)
  <2>1. tries' = 0 /\ step' = "end" /\ outcome' = "RateLimitError"
    <3>1. tries' = 0 /\ End("RateLimitError")
      BY <1>5
    <3>2. QED
      BY <3>1 DEF End
  <2>2. tries + 1 = MaxAttempts
    BY <1>5
  <2>3. Last(requests') = <<call, answer>>
    BY <1>1 DEF Last
  <2>4. EachCallHasItsAttempts'
    <3>1. Last(requests')[1] = call
      BY <2>3
    <3>2. Refused(requests', MaxAttempts, call) /\ Len(requests') >= MaxAttempts
      BY <1>1, <1>2, <1>3, <1>5, <2>2
    <3>3. QED
      BY <3>1, <3>2 DEF EachCallHasItsAttempts, Refused
  <2>5. QED
    BY <1>1, <2>1, <2>4
<1>6. CASE answer # "rate_limit"
  <2>1. tries' = 0 /\ step' \in {"end", "categorize"}
    BY <1>6 DEF End, Answers
  <2>2. outcome' # "RateLimitError" /\ (step' # "end" => outcome' = "none")
    BY <1>2, <1>6 DEF End, Answers
  <2>3. Refused(requests', tries', step')
    BY <1>1, <2>1 DEF Refused
  <2>4. QED
    BY <1>1, <2>1, <2>2, <2>3 DEF EachCallHasItsAttempts
<1>7. QED
  BY <1>4, <1>5, <1>6

\* The other steps make no request, and lead to a call with no attempts.
LEMMA NextAttemptInv == AttemptInv /\ [Next]_vars => AttemptInv'
<1> SUFFICES ASSUME AttemptInv, [Next]_vars PROVE AttemptInv'
  OBVIOUS
<1>1. CASE UNCHANGED vars
  BY <1>1 DEF vars, model, AttemptInv, Refused, EachCallHasItsAttempts
<1>2. CASE Extract
  BY <1>2, OneAttempt DEF Extract, Calls
<1>3. CASE Categorize
  BY <1>3, OneAttempt DEF Categorize, Calls
<1>4. CASE Refuse \/ Identify \/ ReadNative \/ OpenFails \/ OpenPage
             \/ Binarize \/ Recognize \/ SoftTimeLimit
  <2>1. requests' = requests /\ tries' = tries
    BY <1>4 DEF Refuse, Identify, ReadNative, OpenFails, OpenPage, Binarize,
                Recognize, SoftTimeLimit, model
  <2>2. step \in Calls => step' = "end"
    BY <1>4 DEF Refuse, Identify, ReadNative, OpenFails, OpenPage, Binarize,
                Recognize, SoftTimeLimit, End, Calls
  <2>3. /\ step # "end"
        /\ step' # "end" => outcome' = outcome
        /\ step' = "end" => outcome' # "RateLimitError"
    BY <1>4 DEF Refuse, Identify, ReadNative, OpenFails, OpenPage, Binarize,
                Recognize, SoftTimeLimit, End
  <2>4. QED
    BY <2>1, <2>2, <2>3 DEF AttemptInv, Refused, EachCallHasItsAttempts, Calls
<1>5. QED
  BY <1>1, <1>2, <1>3, <1>4 DEF Next

\* A model call that fails for its rate limit has been tried MaxAttempts
\* times in a row, whatever the maximum is and whatever the other call used.
THEOREM CallsHaveTheirAttempts == Spec => []EachCallHasItsAttempts
<1>1. AttemptInv => EachCallHasItsAttempts
  BY DEF AttemptInv
<1>2. QED
  BY <1>1, InitAttemptInv, NextAttemptInv, PTL DEF Spec

-----------------------------------------------------------------------------
(***************************************************************************)
(* What is read.                                                           *)
(***************************************************************************)

\* Some level splits the pixels of a page that has words.
LEMMA WordsHaveInk ==
  ASSUME NEW kind \in PageKind \ {"blank"}, NEW h \in Histograms(kind)
  PROVE  \E k \in Otsu!Grey : Split(h, k)
<1> DEFINE used == {x \in Otsu!Grey : h[x] > 0}
<1>1. h \in Histogram /\ Cardinality(used) > 1
  BY ExtractionAssumption DEF Histograms, Histogram
<1>2. used \in SUBSET Otsu!Grey /\ IsFiniteSet(used)
  BY <1>1, SumsAreNatural
<1>3. PICK x \in used : TRUE
  BY <1>1, <1>2, FS_EmptySet
<1>4. PICK y \in used : y # x
  BY <1>1, <1>2, <1>3, FS_Singleton
<1>5. ASSUME NEW k \in used, NEW l \in used, k < l PROVE Split(h, k)
  <2>1. /\ Otsu!Dark(k) \in SUBSET Otsu!Grey /\ Otsu!Light(k) \in SUBSET Otsu!Grey
        /\ k \in Otsu!Dark(k) /\ l \in Otsu!Light(k)
    BY <1>5 DEF Otsu!Dark, Otsu!Light, Otsu!Grey
  <2>2. IsFiniteSet(Otsu!Dark(k)) /\ IsFiniteSet(Otsu!Light(k))
    BY <1>1, <2>1, SumsAreNatural
  <2>3. /\ \A z \in Otsu!Dark(k) : h[z] \in Nat
        /\ \A z \in Otsu!Light(k) : h[z] \in Nat
    BY <1>1, <2>1 DEF Histogram
  <2>4. QED
    BY <2>1, <2>2, <2>3, SumPositive DEF Weight, Split
<1>6. x < y \/ y < x
  BY <1>2, <1>4 DEF Otsu!Grey
<1>7. QED
  BY <1>3, <1>4, <1>5, <1>6

Wanted == Pieces({"native", "scanned"})

(***************************************************************************)
(* Why page p may be missing from the text, as far as the reading of the   *)
(* document is concerned.                                                  *)
(***************************************************************************)
Lost(p) ==
    \/ document.content = "image" /\ p # 1
    \/ document.pages[p] = "scanned" /\ Pieces({"native", "foreign"}) # {}
    \/ ~tesseract /\ text = {}
    \/ struck = p

(***************************************************************************)
(* What NothingElseUnread says of the end of a run needs, at every step,   *)
(* that the pages recognized so far are in the text or lost.               *)
(***************************************************************************)
ReadInv ==
    /\ document \in Documents /\ page \in Pages /\ text \subseteq Pages
    /\ limited \/ struck = 0
    /\ step \in {"identify", "native", "open", "binarize", "extract",
                 "categorize", "end"}
    /\ step # "end" => outcome = "none"
    /\ step \in {"identify", "native"} => text = {} /\ page = 1
    /\ step \in {"open", "binarize"} => (tesseract \/ text = {})
    /\ step \in {"open", "binarize"} /\ document.suffix = "image" => page = 1
    /\ step = "binarize" => /\ document.content = document.suffix
                            /\ hist \in Histograms(document.pages[page])
    /\ step \in {"open", "binarize"} =>
          \A p \in Wanted : p < page /\ p \notin text => Lost(p)
    /\ step = "extract" => \A p \in Wanted : p \notin text => Lost(p)
    /\ step = "categorize" \/ outcome = "processed" =>
          \A p \in Words \ shown : Reason(p)

\* Nothing has been read yet.
LEMMA InitReadInv == Init => ReadInv
  BY ExtractionAssumption DEF Init, ReadInv, Pages

\* A page with words splits at Otsu's threshold.
LEMMA WordsAreLegible ==
  ASSUME ReadInv, OtsuInv, step = "binarize", done, page \in Wanted
  PROVE  Legible
<1>1. document.pages[page] \in PageKind \ {"blank"}
  BY DEF Wanted, Pieces, PageKind
<1>2. hist \in Histograms(document.pages[page])
  BY DEF ReadInv
<1>3. \E k \in Otsu!Grey : Otsu!Splits(k)
  BY <1>1, <1>2, WordsHaveInk, SplitsAreSplits
<1>4. QED
  BY <1>3, InkIsKept DEF InkSurvives, Otsu!InkSurvives, Legible, Wanted, Pieces

\* A page that has been recognized is in the text, or lost.
LEMMA PageRead ==
  ASSUME ReadInv, OtsuInv, Recognize
  PROVE  /\ \A p \in Wanted : p <= page /\ p \notin text' => Lost(p)'
         /\ tesseract \/ text' = {}
         /\ text' \subseteq Pages
<1>1. /\ document' = document /\ tesseract' = tesseract /\ struck' = struck
      /\ step = "binarize" /\ done
      /\ \/ tesseract /\ Legible /\ text' = text \cup {page}
         \/ (tesseract /\ Legible => struck = page) /\ text' = text
  BY DEF Recognize, input, limit
<1>2. (tesseract \/ text' = {}) /\ text' \subseteq Pages
  BY <1>1 DEF ReadInv
<1>3. ASSUME NEW p \in Wanted, p <= page, p \notin text'
      PROVE  Lost(p)'
  <2>1. CASE p < page
    <3>1. p \notin text /\ Lost(p)
      BY <1>1, <1>3, <2>1 DEF ReadInv
    <3>2. QED
      BY <1>1, <1>2, <3>1 DEF Lost, Pieces
  <2>2. CASE p = page
    <3>1. Legible
      BY <1>1, <1>3, <2>2, WordsAreLegible
    <3>2. (~tesseract /\ text' = {}) \/ struck = p
      BY <1>1, <1>2, <1>3, <2>2, <3>1
    <3>3. QED
      BY <1>1, <3>2 DEF Lost
  <2>3. QED
    BY <1>3, <2>1, <2>2 DEF ReadInv, Wanted, Pieces, Pages
<1>4. QED
  BY <1>2, <1>3

\* The steps before the first model call.
LEMMA ReadSteps ==
  ASSUME ReadInv, OtsuInv,
         Refuse \/ Identify \/ ReadNative \/ OpenFails \/ OpenPage \/ Binarize
            \/ Recognize \/ SoftTimeLimit
  PROVE  ReadInv'
<1>1. /\ document' = document /\ tesseract' = tesseract /\ shown' = shown
      /\ limited' \/ struck' = 0
  BY DEF ReadInv, Refuse, Identify, ReadNative, OpenFails, OpenPage, Binarize,
         Recognize, SoftTimeLimit, input, limit
<1>2. Wanted' = Wanted /\ Words' = Words /\ UseVision' = UseVision
      /\ Pieces({"native", "foreign"})' = Pieces({"native", "foreign"})
  BY <1>1 DEF Wanted, Words, Pieces, UseVision
<1>3. document \in Documents /\ {p \in Wanted : p < 1} = {}
  BY DEF ReadInv, Wanted, Pieces, Pages
<1>4. CASE Refuse \/ OpenFails
  BY <1>1, <1>2, <1>4 DEF ReadInv, Refuse, OpenFails, End
<1>5. CASE Identify
  BY <1>1, <1>2, <1>3, <1>5 DEF ReadInv, Identify
<1>6. CASE ReadNative
  <2>1. step = "native" /\ outcome' = outcome /\ page' = page
    BY <1>6 DEF ReadNative
  <2>2. CASE step' = "open" /\ text' = text
    BY <1>1, <1>2, <1>3, <2>1, <2>2 DEF ReadInv
  <2>3. CASE /\ Pieces({"native", "foreign"}) # {} /\ step' = "extract"
             /\ text' = Normalized(Pieces({"native", "foreign"}))
    <3>1. ASSUME NEW p \in Wanted, p \notin text' PROVE Lost(p)'
      <4>1. document.pages[p] = "scanned"
        BY <2>3, <3>1 DEF Wanted, Normalized, Pieces
      <4>2. QED
        BY <1>1, <1>2, <2>3, <4>1 DEF Lost
    <3>2. text' \subseteq Pages
      BY <2>3 DEF Normalized, Pieces
    <3>3. QED
      BY <1>1, <1>2, <2>1, <2>3, <3>1, <3>2 DEF ReadInv
  <2>4. QED
    BY <1>6, <2>2, <2>3 DEF ReadNative
<1>7. CASE OpenPage
  <2>1. hist' \in Histograms(document.pages[page])
    BY <1>7 DEF OpenPage, Otsu!Call
  <2>2. Histograms(document.pages[page])' = Histograms(document.pages[page])
    BY <1>1, <1>7 DEF OpenPage, Histograms
  <2>3. \A p : Lost(p)' <=> Lost(p)
    BY <1>1, <1>2, <1>7 DEF OpenPage, limit, Lost
  <2>4. QED
    BY <1>1, <1>2, <1>7, <2>1, <2>2, <2>3 DEF ReadInv, OpenPage
<1>8. CASE Binarize
  <2>1. \A p : Lost(p)' <=> Lost(p)
    BY <1>1, <1>2, <1>8 DEF Binarize, limit, Lost
  <2>2. QED
    BY <1>1, <1>2, <1>8, <2>1 DEF ReadInv, Binarize, Otsu!Iterate, Histograms
<1>9. CASE Recognize
  <2>1. /\ step = "binarize" /\ outcome' = outcome
        /\ \/ /\ document.suffix = "pdf" /\ page < NumPages
              /\ step' = "open" /\ page' = page + 1
           \/ /\ ~(document.suffix = "pdf" /\ page < NumPages)
              /\ step' = "extract" /\ page' = page
    BY <1>9 DEF Recognize
  <2>2. /\ \A p \in Wanted : p <= page /\ p \notin text' => Lost(p)'
        /\ tesseract \/ text' = {}
        /\ text' \subseteq Pages
    BY <1>9, PageRead
  <2>3. CASE step' = "open"
    <3>1. /\ page' \in Pages /\ document'.suffix = "pdf"
          /\ \A p \in Wanted : p < page' <=> p <= page
      BY <1>1, <2>1, <2>3, ExtractionAssumption
         DEF ReadInv, Pages, Wanted, Pieces
    <3>2. QED
      BY <1>1, <1>2, <2>1, <2>2, <2>3, <3>1 DEF ReadInv
  <2>4. CASE step' = "extract"
    <3>1. ASSUME NEW p \in Wanted, p \notin text' PROVE Lost(p)'
      <4>1. CASE document.content = "image" /\ p # 1
        BY <1>1, <4>1 DEF Lost
      <4>2. CASE document.content = "image" /\ p = 1
        <5>1. p <= page
          BY <4>2 DEF ReadInv, Pages
        <5>2. QED
          BY <2>2, <3>1, <5>1
      <4>3. CASE document.content = "pdf"
        <5>1. page >= NumPages
          BY <2>1, <2>4, <4>3, ExtractionAssumption DEF ReadInv, Pages
        <5>2. p <= page
          BY <5>1, ExtractionAssumption DEF ReadInv, Wanted, Pieces, Pages
        <5>3. QED
          BY <2>2, <3>1, <5>2
      <4>4. QED
        BY <1>3, <4>1, <4>2, <4>3 DEF Documents, Format
    <3>2. QED
      BY <1>1, <1>2, <2>1, <2>2, <2>4, <3>1 DEF ReadInv
  <2>5. QED
    BY <2>1, <2>3, <2>4
<1>10. CASE SoftTimeLimit
  <2>1. /\ page' = page /\ text' = text /\ hist' = hist /\ struck = 0
        /\ step \notin {"identify", "end"}
        /\ \/ step = "native" /\ step' = "open" /\ outcome' = outcome
           \/ /\ step = "binarize" /\ struck' = page
              /\ step' = step /\ outcome' = outcome
           \/ step' = "end" /\ outcome' \in {"OCRError", "SoftTimeLimitExceeded"}
    BY <1>10 DEF SoftTimeLimit, loop, End, ReadInv
  <2>2. Histograms(document.pages[page])' = Histograms(document.pages[page])
    BY <1>1, <2>1 DEF Histograms
  <2>3. CASE step' = "end"
    BY <1>1, <1>2, <2>1, <2>3 DEF ReadInv
  <2>4. CASE step = "native" /\ step' = "open"
    BY <1>1, <1>2, <1>3, <2>1, <2>4 DEF ReadInv
  <2>5. CASE step = "binarize" /\ struck' = page /\ step' = step
             /\ outcome' = outcome
    <3>1. ASSUME NEW p \in Wanted, p < page, p \notin text PROVE Lost(p)'
      <4>1. Lost(p) /\ p # struck
        BY <2>1, <2>5, <3>1 DEF ReadInv, Wanted, Pieces, Pages
      <4>2. QED
        BY <1>1, <1>2, <2>1, <4>1 DEF Lost
    <3>2. QED
      BY <1>1, <1>2, <2>1, <2>2, <2>5, <3>1 DEF ReadInv
  <2>6. QED
    BY <2>1, <2>3, <2>4, <2>5
<1>11. QED
  BY <1>4, <1>5, <1>6, <1>7, <1>8, <1>9, <1>10

\* What the model is shown of what has been read: all of it, but for its end.
LEMMA ShownHasReasons ==
  ASSUME ReadInv, step = "extract", UseVision => document.content = "image",
         shown' = Shown, document' = document, tesseract' = tesseract,
         struck' = struck,
         NEW p \in Words \ shown'
  PROVE  Reason(p)'
<1>1. p \in Pages /\ document.pages[p] \in {"native", "foreign", "scanned"}
  BY DEF Words, Pieces
<1>2. CASE UseVision
  <2>1. document \in Documents /\ document.content = "image"
    BY <1>2 DEF ReadInv
  <2>2. document.pages[p] = "scanned"
    BY <1>1, <2>1 DEF Documents
  <2>3. p \in Shown
    BY <1>1, <1>2, <2>2 DEF Shown, Pieces
  <2>4. QED
    BY <2>3
<1>3. CASE ~UseVision /\ p \in text
  <2>1. document.long /\ shown' = {q \in text : \E r \in text : q < r}
    BY <1>3 DEF Shown, Truncated
  <2>2. \A q \in shown' : q < p
    BY <1>1, <1>3, <2>1 DEF ReadInv, Pages
  <2>3. QED
    BY <1>3, <2>1, <2>2 DEF Reason, UseVision
<1>4. CASE ~UseVision /\ p \notin text /\ document.pages[p] # "foreign"
  <2>1. Lost(p)
    BY <1>1, <1>4 DEF ReadInv, Wanted, Pieces
  <2>2. text = {} => shown' = {}
    BY <1>4 DEF Shown, Truncated
  <2>3. QED
    BY <1>4, <2>1, <2>2 DEF Lost, Reason, UseVision, Pieces
<1>5. CASE document.pages[p] = "foreign"
  BY <1>5 DEF Reason
<1>6. QED
  BY <1>2, <1>3, <1>4, <1>5

\* The model is asked once everything has been read, and answers about what it
\* has been shown.
LEMMA NextReadInv == ReadInv /\ OtsuInv /\ [Next]_vars => ReadInv'
<1> SUFFICES ASSUME ReadInv, OtsuInv, [Next]_vars PROVE ReadInv'
  OBVIOUS
<1>1. CASE Extract \/ Categorize \/ UNCHANGED vars
  <2>1. document' = document /\ tesseract' = tesseract /\ page' = page
        /\ text' = text /\ hist' = hist
        /\ limited' = limited /\ struck' = struck
    BY <1>1 DEF Extract, Categorize, vars, input, loop, limit
  <2>2. Wanted' = Wanted /\ Words' = Words
        /\ Histograms(document.pages[page])' = Histograms(document.pages[page])
        /\ \A p : Lost(p)' <=> Lost(p)
    BY <2>1 DEF Wanted, Words, Pieces, Histograms, Lost
  <2>3. CASE Extract
    <3>1. PICK answer \in Answers :
            /\ UseVision /\ document.content = "pdf" =>
                  answer \in {"api_error", "rate_limit"}
            /\ Attempt("extract", answer)
      BY <2>3 DEF Extract
    <3>2. /\ step = "extract" /\ step' \in {"extract", "categorize", "end"}
          /\ step' = "categorize" => answer = "ok"
          /\ outcome' # "processed"
          /\ step' # "end" => outcome' = outcome
      BY <3>1 DEF Attempt, Answered, End, Answers, ReadInv
    <3>3. ASSUME answer = "ok", NEW p \in Words \ shown'
          PROVE  Reason(p)'
      <4>1. shown' = Shown
        BY <2>3 DEF Extract
      <4>2. UseVision => document.content = "image"
        BY <3>1, <3>3 DEF ReadInv, Documents, Format
      <4>3. QED
        BY <2>1, <3>2, <3>3, <4>1, <4>2, ShownHasReasons
    <3>4. QED
      BY <2>1, <2>2, <3>2, <3>3 DEF ReadInv
  <2>4. CASE Categorize \/ UNCHANGED vars
    <3>1. /\ shown' = shown
          /\ \/ step' = step /\ outcome' = outcome
             \/ /\ step = "categorize" /\ step' = "end"
      BY <2>4 DEF Categorize, Attempt, Answered, End, vars
    <3>2. \A p : Reason(p)' <=> Reason(p)
      BY <2>1, <3>1 DEF Reason, UseVision, Pieces
    <3>3. QED
      BY <2>1, <2>2, <3>1, <3>2 DEF ReadInv
  <2>5. QED
    BY <1>1, <2>3, <2>4
<1>2. QED
  BY <1>1, ReadSteps DEF Next

\* Every page whose words the model was not shown was lost for its own reason,
\* for any number of pages, any grey levels and any moment of the time limit.
THEOREM EverythingElseIsRead == Spec => []NothingElseUnread
<1>1. ReadInv => NothingElseUnread
  BY DEF ReadInv, NothingElseUnread
<1>2. QED
  BY <1>1, InitReadInv, NextReadInv, OtsuInvHolds, PTL DEF Spec
=============================================================================
