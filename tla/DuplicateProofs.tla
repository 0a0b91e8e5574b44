--------------------------- MODULE DuplicateProofs ---------------------------
(***************************************************************************)
(* What the screen and the score guarantee for every set of names and      *)
(* amounts, and for which thresholds.                                      *)
(***************************************************************************)
EXTENDS DuplicateReport, TLAPS

\* The amounts two invoices are compared by are numbers.
LEMMA AmountsAreNumbers ==
  ASSUME NEW x \in Fields
  PROVE  x.amount # None => x.amount \in Int
  BY ScoringAssumption DEF Fields

\* The score is the sum of the weights of the signals that hold.
LEMMA ScoreOfSignals ==
  ASSUME NEW x, NEW c
  PROVE  /\ IsDuplicate(x, c) =>
              \/ Threshold <= 50
              \/ NumberMatch(x, c) /\ VendorMatch(x, c)
              \/ NumberMatch(x, c) /\ AmountMatch(x, c) /\ Threshold <= 70
         /\ IsDuplicate(x, c) /\ Threshold > 80 =>
              NumberMatch(x, c) /\ VendorMatch(x, c) /\ AmountMatch(x, c)
         /\ NumberMatch(x, c) /\ VendorMatch(x, c) /\ AmountMatch(x, c) =>
              IsDuplicate(x, c)
<1> DEFINE n == NumberMatch(x, c)
           v == VendorMatch(x, c)
           a == AmountMatch(x, c)
<1>1. Threshold \in 0 .. 100
  BY ScoringAssumption
<1>2. Score(x, c) = (IF n THEN 50 ELSE 0) + (IF v THEN 30 ELSE 0)
                  + (IF a THEN 20 ELSE 0)
  BY DEF Score, Weight
<1> HIDE DEF n, v, a
<1>3. /\ Score(x, c) >= Threshold =>
            Threshold <= 50 \/ (n /\ v) \/ (n /\ a /\ Threshold <= 70)
      /\ Score(x, c) >= Threshold /\ Threshold > 80 => n /\ v /\ a
      /\ n /\ v /\ a => Score(x, c) >= Threshold
  BY <1>1, <1>2
<1>4. QED
  BY <1>3 DEF IsDuplicate, n, v, a

\* Each signal has its condition in the query, except for a vendor's name with
\* a backslash and the amount of a credit note.
LEMMA SignalsArePotential ==
  ASSUME NEW x \in Fields, NEW c \in Fields,
         \/ NumberMatch(x, c)
         \/ VendorMatch(x, c) /\ Findable(x.vendor)
         \/ AmountMatch(x, c) /\ x.amount >= 0
  PROVE  Potential(x, c)
<1>1. CASE NumberMatch(x, c)
  BY <1>1 DEF NumberMatch, Potential, SameNumber
<1>2. CASE VendorMatch(x, c) /\ Findable(x.vendor)
  <2>1. c.vendor \in Vendors
    BY <1>2 DEF VendorMatch, Fields
  <2>2. <<x.vendor, c.vendor>> \in Within
    BY <1>2, <2>1 DEF VendorMatch, Findable
  <2>3. QED
    BY <1>2, <2>2 DEF VendorMatch, VendorContains, Potential
<1>3. CASE AmountMatch(x, c) /\ x.amount >= 0
  <2>1. x.amount \in Int /\ c.amount \in Int
    BY <1>3, AmountsAreNumbers DEF AmountMatch
  <2>2. 100 * Distance(x.amount, c.amount) < AtLeastOneCent(x.amount)
    BY <1>3 DEF AmountMatch
  <2>3. /\ 99 * x.amount <= 100 * c.amount
        /\ 100 * c.amount <= 101 * x.amount
    <3>1. CASE x.amount < 100
      <4>1. Distance(x.amount, c.amount) < 1
        BY <2>1, <2>2, <3>1 DEF Distance, AtLeastOneCent
      <4>2. c.amount = x.amount
        BY <2>1, <4>1 DEF Distance
      <4>3. QED
        BY <1>3, <2>1, <4>2
    <3>2. CASE x.amount >= 100
      BY <2>1, <2>2, <3>2 DEF Distance, AtLeastOneCent
    <3>3. QED
      BY <2>1, <3>1, <3>2
  <2>4. QED
    BY <1>3, <2>3 DEF AmountMatch, AmountInRange, Potential
<1>4. QED
  BY <1>1, <1>2, <1>3

\* Two copies agree in all three signals, whatever the sign of their amount.
LEMMA CopiesMatch ==
  ASSUME NEW x \in Fields, NEW c \in Fields, Copy(x, c)
  PROVE  IsDuplicate(x, c) /\ Potential(x, c)
<1>1. NumberMatch(x, c) /\ VendorMatch(x, c)
  BY DEF Copy, NumberMatch, VendorMatch
<1>2. x.amount \in Int /\ c.amount = x.amount
  BY AmountsAreNumbers DEF Copy
<1>3. AmountMatch(x, c)
  <2>1. Distance(x.amount, c.amount) = 0 /\ AtLeastOneCent(x.amount) >= 100
    BY <1>2 DEF Distance, AtLeastOneCent
  <2>2. AtLeastOneCent(x.amount) \in Int
    BY <1>2 DEF AtLeastOneCent
  <2>3. 100 * Distance(x.amount, c.amount) = 0
    BY <2>1
  <2>4. 100 * Distance(x.amount, c.amount) < AtLeastOneCent(x.amount)
    BY <2>1, <2>2, <2>3
  <2>5. x.amount # None /\ c.amount # None
    BY DEF Copy
  <2>6. QED
    BY <2>4, <2>5 DEF AmountMatch
<1>4. SameNumber(x, c)
  BY DEF Copy, SameNumber
<1>5. QED
  BY <1>1, <1>3, <1>4, ScoreOfSignals DEF Potential

-----------------------------------------------------------------------------
(***************************************************************************)
(* The report is what the endpoint computes from the rows it has read.     *)
(***************************************************************************)
ReportInv ==
    /\ invoice \in Fields
    /\ stored \in [Rows -> Fields]
    /\ Answered => \E selected \in Selections(Screened) :
          /\ report.matches = [r \in selected |-> Signals(invoice, stored[r])]
          /\ report.has_duplicates =
                (\E r \in selected : IsDuplicate(invoice, stored[r]))

\* ReportInv is an invariant.
LEMMA ReportInvHolds == Spec => []ReportInv
<1>1. Init => ReportInv
  BY DEF Init, ReportInv, Answered
<1>2. ReportInv /\ [Next]_vars => ReportInv'
  <2> SUFFICES ASSUME ReportInv, [Next]_vars PROVE ReportInv'
    OBVIOUS
  <2>1. CASE UNCHANGED vars
    BY <2>1 DEF vars, ReportInv, Answered, Screened
  <2>2. CASE DetectDuplicates
    <3>1. PICK selected \in Selections(Screened) :
            LET matches == [r \in selected |-> Signals(invoice, stored[r])]
            IN  report' = [ matches |-> matches,
                            has_duplicates |->
                              \E r \in selected : matches[r].is_duplicate ]
      BY <2>2 DEF DetectDuplicates
    <3> DEFINE matches == [r \in selected |-> Signals(invoice, stored[r])]
    <3>2. \A r \in selected :
             matches[r].is_duplicate = IsDuplicate(invoice, stored[r])
      BY DEF Signals
    <3>3. report'.matches = matches
          /\ report'.has_duplicates
               = (\E r \in selected : IsDuplicate(invoice, stored[r]))
      BY <3>1, <3>2
    <3>4. UNCHANGED <<invoice, stored>> /\ Screened' = Screened
      BY <2>2 DEF DetectDuplicates, Screened
    <3>5. QED
      BY <3>3, <3>4 DEF ReportInv
  <2>3. QED
    BY <2>1, <2>2 DEF Next
<1>3. QED
  BY <1>1, <1>2, PTL DEF Spec

\* If LIMIT cuts nothing off, the rows the report is about are the screened
\* ones.
LEMMA NothingCutOff ==
  ASSUME ReportInv, Answered, Cardinality(Screened) <= Limit
  PROVE  /\ report.matches = [r \in Screened |-> Signals(invoice, stored[r])]
         /\ \A r \in Screened :
               report.matches[r].is_duplicate = IsDuplicate(invoice, stored[r])
         /\ report.has_duplicates =
               (\E r \in Screened : IsDuplicate(invoice, stored[r]))
<1>1. Selections(Screened) = {Screened}
  BY DEF Selections
<1>2. /\ report.matches = [r \in Screened |-> Signals(invoice, stored[r])]
      /\ report.has_duplicates =
            (\E r \in Screened : IsDuplicate(invoice, stored[r]))
  BY <1>1 DEF ReportInv
<1>3. QED
  BY <1>2 DEF Signals

\* The SQL screen is never the narrower test: whatever the threshold, every
\* row with one of the score's signals is in the report, the vendor's name with
\* a backslash and the credit note's amount apart.
THEOREM ScreenIsComplete == Spec => []ScreenCoversSignals
<1>1. ReportInv => ScreenCoversSignals
  <2> SUFFICES ASSUME ReportInv, Answered, Cardinality(Screened) <= Limit,
                      NEW r \in Rows,
                      \/ NumberMatch(invoice, stored[r])
                      \/ /\ VendorMatch(invoice, stored[r])
                         /\ Findable(invoice.vendor)
                      \/ AmountMatch(invoice, stored[r]) /\ invoice.amount >= 0
               PROVE  r \in DOMAIN report.matches
    BY DEF ScreenCoversSignals
  <2>1. invoice \in Fields /\ stored[r] \in Fields
    BY DEF ReportInv
  <2>2. Potential(invoice, stored[r])
    BY <2>1, SignalsArePotential
  <2>3. r \in Screened
    BY <2>2 DEF Screened
  <2>4. QED
    BY <2>3, NothingCutOff
<1>2. QED
  BY <1>1, ReportInvHolds, PTL

\* A copy is reported for every threshold the setting allows.
THEOREM CopiesAreReported == Spec => []CopyIsFound
<1>1. ReportInv => CopyIsFound
  <2> SUFFICES ASSUME ReportInv, Answered, Cardinality(Screened) <= Limit,
                      NEW r \in Rows, Copy(invoice, stored[r])
               PROVE  Flagged(r) /\ report.has_duplicates
    BY DEF CopyIsFound
  <2>1. IsDuplicate(invoice, stored[r]) /\ r \in Screened
    BY CopiesMatch DEF ReportInv, Screened
  <2>2. QED
    BY <2>1, NothingCutOff DEF Flagged
<1>2. QED
  BY <1>1, ReportInvHolds, PTL

\* With a threshold above 80 nothing is reported on two signals alone.
THEOREM EverySignalIsNeeded ==
  ASSUME Threshold > 80
  PROVE  Spec => []NeedsEverySignal
<1>1. ReportInv => NeedsEverySignal
  <2> SUFFICES ASSUME ReportInv, Answered, NEW r \in DOMAIN report.matches,
                      report.matches[r].is_duplicate
               PROVE  /\ report.matches[r].number_match
                      /\ report.matches[r].vendor_match
                      /\ report.matches[r].amount_match
    BY DEF NeedsEverySignal
  <2>1. report.matches[r] = Signals(invoice, stored[r])
    BY DEF ReportInv
  <2>2. IsDuplicate(invoice, stored[r])
    BY <2>1 DEF Signals
  <2>3. QED
    BY <2>1, <2>2, ScoreOfSignals DEF Signals
<1>2. QED
  BY <1>1, ReportInvHolds, PTL
=============================================================================
