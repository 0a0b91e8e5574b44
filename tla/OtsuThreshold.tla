---------------------------- MODULE OtsuThreshold ----------------------------
(***************************************************************************)
(* TesseractOCRProvider._otsu_threshold: the grey level that splits a page *)
(* into ink and paper, found in one pass over the histogram.               *)
(*                                                                         *)
(* The variances are compared as fractions; the code's floats round the    *)
(* two quotients, which can only exchange levels that are as good as each  *)
(* other.                                                                  *)
(***************************************************************************)
EXTENDS Integers, FiniteSetsExt

CONSTANTS
    Levels,     \* 256 in the code: grey levels are 0 .. Levels - 1
    Default     \* threshold of an image with a single level

Grey == 0 .. Levels - 1

VARIABLES
    hist,        \* number of pixels of each level
    t,           \* the level the loop looks at
    weightBg,    \* pixels up to the previous level, and the sum of their levels
    sumBg,
    best,        \* max_var, as a fraction [num, den]
    threshold,
    done

Pixels(levels) == SumFunctionOnSet(hist, levels)
Sum(levels) == SumFunctionOnSet([x \in Grey |-> x * hist[x]], levels)

Square(x) == x * x
Greater(a, b) == a.num * b.den > b.num * a.den

\* weight_bg * weight_fg * (mean_bg - mean_fg) ** 2
Variance(wb, wf, sb, sf) ==
    [num |-> Square(sb * wf - sf * wb), den |-> wb * wf]

-----------------------------------------------------------------------------
\* One iteration; the sum is updated before the weight is tested.
BadIterate ==
    /\ ~done /\ t < Levels
    /\ LET wb == weightBg + hist[t]
           wf == Pixels(Grey) - wb
           var == Variance(weightBg, wf, sumBg, Sum(Grey) - sumBg)
       IN  /\ weightBg' = wb
           /\ sumBg' = sumBg + t * hist[t]
           /\ IF wb > 0 /\ weightBg > 0 /\ wf > 0 /\ Greater(var, best)
              THEN best' = var /\ threshold' = t
              ELSE UNCHANGED <<best, threshold>>
    /\ t' = t + 1 /\ done' = (t + 1 = Levels)
    /\ UNCHANGED hist

\* One iteration: continue while there is no background, break when there is
\* no foreground left.
Iterate ==
    /\ ~done /\ t < Levels
    /\ LET wb == weightBg + hist[t]
           wf == Pixels(Grey) - wb
           sb == sumBg + t * hist[t]
           var == Variance(wb, wf, sb, Sum(Grey) - sb)
       IN  /\ weightBg' = wb
           /\ IF wb = 0
              THEN done' = (t + 1 = Levels) /\ UNCHANGED <<sumBg, best, threshold>>
              ELSE IF wf = 0
              THEN done' = TRUE /\ UNCHANGED <<sumBg, best, threshold>>
              ELSE /\ done' = (t + 1 = Levels)
                   /\ sumBg' = sb
                   /\ IF Greater(var, best)
                      THEN best' = var /\ threshold' = t
                      ELSE UNCHANGED <<best, threshold>>
    /\ t' = t + 1
    /\ UNCHANGED hist

\* The loop begins, or begins again on the histogram of another page.
Call(pixels) ==
    /\ hist' = pixels
    /\ t' = 0 /\ weightBg' = 0 /\ sumBg' = 0
    /\ best' = [num |-> 0, den |-> 1]
    /\ threshold' = Default
    /\ done' = FALSE
-----------------------------------------------------------------------------
Dark(k) == {x \in Grey : x <= k}
Light(k) == {x \in Grey : x > k}
Splits(k) == Pixels(Dark(k)) > 0 /\ Pixels(Light(k)) > 0

\* What the scatter within the two classes of a split leaves of the sum of
\* squares: the smaller the scatter, the larger this fraction.
Explained(k) ==
    LET wb == Pixels(Dark(k))
        wf == Pixels(Light(k))
    IN  [ num |-> Square(Sum(Dark(k))) * wf + Square(Sum(Light(k))) * wb,
          den |-> wb * wf ]

\* Otsu's definition: no split has less scatter within its classes than the
\* one the loop returns, which is the lowest of its kind.
ThresholdIsOtsu ==
    done => \A k \in Grey : Splits(k) =>
        /\ ~Greater(Explained(k), Explained(threshold))
        /\ k < threshold => Greater(Explained(threshold), Explained(k))

\* An image with two levels is never turned all black or all white, and one
\* with a single level gets the default.
InkSurvives ==
    done => IF \E k \in Grey : Splits(k) THEN Splits(threshold)
                                         ELSE threshold = Default
=============================================================================
