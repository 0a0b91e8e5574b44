--------------------------- MODULE DuplicateReport ---------------------------
(***************************************************************************)
(* GET /invoices/{id}/duplicates: the endpoint reads the invoice, screens  *)
(* the user's other rows and scores each candidate.  Nothing is written.   *)
(***************************************************************************)
EXTENDS DuplicateScoring, FiniteSetsExt

CONSTANTS
    Rows,    \* the user's other invoices
    Limit    \* .limit(20) of the screening query

ASSUME ReportAssumption == IsFiniteSet(Rows) /\ Limit \in Nat \ {0}

VARIABLES
    invoice,   \* key fields of the invoice asked about
    stored,    \* key fields of each other row
    report     \* None, or the response

vars == <<invoice, stored, report>>

Signals(x, c) == [ number_match |-> NumberMatch(x, c),
                   vendor_match |-> VendorMatch(x, c),
                   amount_match |-> AmountMatch(x, c),
                   is_duplicate |-> IsDuplicate(x, c) ]

\* The rows LIMIT lets through: the query has no ORDER BY, so any of them.
Selections(candidates) ==
    IF Cardinality(candidates) <= Limit THEN {candidates}
                                        ELSE kSubset(Limit, candidates)

Screened == {r \in Rows : Potential(invoice, stored[r])}

-----------------------------------------------------------------------------
Init ==
    /\ invoice \in Fields
    /\ stored \in [Rows -> Fields]
    /\ report = None

DetectDuplicates ==
    /\ report = None
    /\ \E selected \in Selections(Screened) :
          LET matches == [r \in selected |-> Signals(invoice, stored[r])]
          IN  report' = [ matches |-> matches,
                          has_duplicates |->
                              \E r \in selected : matches[r].is_duplicate ]
    /\ UNCHANGED <<invoice, stored>>

Next == DetectDuplicates

Spec == Init /\ [][Next]_vars
-----------------------------------------------------------------------------
Answered == report # None

\* c is the same document as x: number and amount agree, and the vendor is
\* spelled the same up to case.
Copy(x, c) ==
    /\ x.number # None /\ x.vendor # None /\ x.amount # None
    /\ c.vendor # None
    /\ c.number = x.number
    /\ c.amount = x.amount
    /\ Lower[c.vendor] = Lower[x.vendor]

Flagged(r) == r \in DOMAIN report.matches /\ report.matches[r].is_duplicate

\* ILIKE finds the name's spellings: there is no backslash in it.
Findable(vendor) ==
    \A other \in Vendors :
        Lower[other] = Lower[vendor] => <<vendor, other>> \in Within

(***************************************************************************)
(* The broad net: as long as LIMIT cuts nothing off, a row with any of the *)
(* three signals is in the report, whatever the threshold.  The SQL        *)
(* conditions and the Python ones are written separately, and the first    *)
(* must not be the narrower ones: not at the 1% edge on either side, not   *)
(* where the divisor is raised to a cent.  Two signals alone do not        *)
(* suffice: the amount of a credit note, and a vendor with a backslash.    *)
(***************************************************************************)
ScreenCoversSignals ==
    (Answered /\ Cardinality(Screened) <= Limit) =>
        \A r \in Rows :
            \/ NumberMatch(invoice, stored[r])
            \/ VendorMatch(invoice, stored[r]) /\ Findable(invoice.vendor)
            \/ AmountMatch(invoice, stored[r]) /\ invoice.amount >= 0
            => r \in DOMAIN report.matches

(***************************************************************************)
(* A copy of an invoice with all three fields is reported, whatever the    *)
(* sign and size of its amount, as long as LIMIT cuts nothing off.         *)
(***************************************************************************)
CopyIsFound ==
    (Answered /\ Cardinality(Screened) <= Limit)
        => \A r \in Rows :
              Copy(invoice, stored[r]) => Flagged(r) /\ report.has_duplicates

(***************************************************************************)
(* With the default threshold no two signals are enough: a bill of the     *)
(* same vendor with a reused number, or the same amount every month, is    *)
(* not reported as a duplicate.                                            *)
(***************************************************************************)
NeedsEverySignal ==
    Answered => \A r \in DOMAIN report.matches :
        report.matches[r].is_duplicate =>
            /\ report.matches[r].number_match
            /\ report.matches[r].vendor_match
            /\ report.matches[r].amount_match

(***************************************************************************)
(* find_potential_duplicates: "return candidates that share any of the     *)
(* three key fields".                                                      *)
(***************************************************************************)
SharedFieldIsCandidate ==
    (Answered /\ Cardinality(Screened) <= Limit) =>
        \A r \in Rows : \A field \in {"number", "vendor", "amount"} :
            stored[r][field] # None /\ stored[r][field] = invoice[field]
                => r \in DOMAIN report.matches

(***************************************************************************)
(* What the README's section on duplicate detection promises: upload the   *)
(* same file twice and the report says has_duplicates.  The query returns  *)
(* at most Limit rows in no particular order, so a copy can be cut off by  *)
(* rows that share only the vendor.                                        *)
(***************************************************************************)
CopyIsReported ==
    Answered => ((\E r \in Rows : Copy(invoice, stored[r]))
                     => report.has_duplicates)
=============================================================================
