-------------------------- MODULE DuplicateScoring --------------------------
(***************************************************************************)
(* The two tests that decide whether one invoice is a duplicate of         *)
(* another: the SQL screen that selects candidates                         *)
(* (SQLInvoiceRepository.find_potential_duplicates) and the weighted score *)
(* the service gives each candidate (InvoiceService._score_duplicate).     *)
(*                                                                         *)
(* Amounts are integers in the unit of the column's last decimal,          *)
(* Numeric(18, 4): 10000 is one currency unit and 100 is the code's        *)
(* Decimal("0.01").  Scores are percentages: 0.5 is 50.                    *)
(*                                                                         *)
(* None stands for a field the extraction did not find.  The empty string  *)
(* is represented by None too: every test below treats the two alike       *)
(* (Python's bool("") is False, and '' satisfies no comparison with a      *)
(* name that is not empty).                                                *)
(***************************************************************************)
EXTENDS Integers

CONSTANTS
    Numbers,     \* invoice numbers
    Vendors,     \* vendor names
    Amounts,     \* total amounts, integers
    None,        \* an absent field
    Lower,       \* Lower[v] is v.lower()
    Within,      \* <<a, b>> \in Within iff b ILIKE '%a%'
    Threshold    \* duplicate_similarity_threshold, in percent

ASSUME ScoringAssumption ==
    /\ Amounts \subseteq Int
    /\ None \notin Numbers /\ None \notin Vendors /\ None \notin Amounts
    /\ Threshold \in 0 .. 100

(***************************************************************************)
(* What the extraction leaves in a row, reduced to the three key fields.   *)
(***************************************************************************)
Fields == [ number : Numbers \cup {None},
            vendor : Vendors \cup {None},
            amount : Amounts \cup {None} ]

NoFields == [number |-> None, vendor |-> None, amount |-> None]

\* Faulty variants of a definition stand before it, named Bad...: here the
\* divisor is not kept positive.
BadAtLeastOneCent(a) == a

Distance(a, b) == IF a < b THEN b - a ELSE a - b
AtLeastOneCent(a) == IF a < 100 THEN 100 ELSE a

-----------------------------------------------------------------------------
(***************************************************************************)
(* _score_duplicate: three signals and their weights.                      *)
(***************************************************************************)
NumberMatch(x, c) == x.number # None /\ x.number = c.number

VendorMatch(x, c) ==
    /\ x.vendor # None
    /\ c.vendor # None
    /\ Lower[x.vendor] = Lower[c.vendor]

\* |a - c| / max(a, 0.01) < 0.01.  The divisor is the invoice's amount, so
\* the test is not symmetric, and it is an equality for a credit note.
AmountMatch(x, c) ==
    /\ x.amount # None
    /\ c.amount # None
    /\ 100 * Distance(x.amount, c.amount) < AtLeastOneCent(x.amount)

Weight(signal, points) == IF signal THEN points ELSE 0

\* The number alone weighs as much as the other two and half as much again.
BadScore(x, c) == Weight(NumberMatch(x, c), 60)
                + Weight(VendorMatch(x, c), 30)
                + Weight(AmountMatch(x, c), 20)

Score(x, c) == Weight(NumberMatch(x, c), 50)
             + Weight(VendorMatch(x, c), 30)
             + Weight(AmountMatch(x, c), 20)

IsDuplicate(x, c) == Score(x, c) >= Threshold

-----------------------------------------------------------------------------
(***************************************************************************)
(* find_potential_duplicates: the OR of the conditions for the fields the  *)
(* invoice has.  A NULL column satisfies no condition, and an invoice with *)
(* no field at all has no candidate.                                       *)
(***************************************************************************)
SameNumber(x, c) == x.number # None /\ c.number = x.number

VendorContains(x, c) ==
    /\ x.vendor # None
    /\ c.vendor # None
    /\ <<x.vendor, c.vendor>> \in Within

\* The tolerance is subtracted only.
BadAmountInRange(x, c) ==
    /\ x.amount # None
    /\ c.amount # None
    /\ 99 * x.amount <= 100 * c.amount
    /\ c.amount <= x.amount

\* total - tolerance <= c <= total + tolerance with tolerance = total / 100;
\* for a negative total the bounds are the wrong way round and nothing fits.
AmountInRange(x, c) ==
    /\ x.amount # None
    /\ c.amount # None
    /\ 99 * x.amount <= 100 * c.amount
    /\ 100 * c.amount <= 101 * x.amount

Potential(x, c) ==
    SameNumber(x, c) \/ VendorContains(x, c) \/ AmountInRange(x, c)
=============================================================================
