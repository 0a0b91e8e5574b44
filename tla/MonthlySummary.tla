--------------------------- MODULE MonthlySummary ---------------------------
(***************************************************************************)
(* GET /invoices/summary/monthly: the grouped query, the loop that builds  *)
(* the statistics from its rows, the selection of the top vendors, the     *)
(* narrative and the response.  The query has no ORDER BY: its rows come   *)
(* in any order.                                                           *)
(***************************************************************************)
EXTENDS Integers, FiniteSetsExt

CONSTANTS
    Invoices,     \* the user's invoices
    Categories,
    Vendors,
    Amounts,
    None,         \* a NULL date, vendor or amount
    TopLimit      \* [:5]

\* None is a value of its own: no amount and no vendor, and neither a group of
\* rows nor a set of vendors.
ASSUME SummaryAssumption ==
    /\ IsFiniteSet(Invoices)
    /\ Amounts \subseteq Int
    /\ None \notin Amounts /\ None \notin Vendors
    /\ None \notin Categories \X (Vendors \cup {None})
    /\ \A chosen \in SUBSET Vendors : chosen # None
    /\ TopLimit \in Nat

\* A row that has been processed has a category.  "month" is the month asked
\* for.
Row == [ status : {"processed", "duplicate"},
         date : {"month", None},
         category : Categories,
         vendor : Vendors \cup {None},
         amount : Amounts \cup {None} ]

Groups == Categories \X (Vendors \cup {None})

VARIABLES
    table,      \* the user's rows
    pending,    \* groups of the query the loop has not seen, or None
    stats,      \* what the loop has summed up
    top,        \* None, or the vendors of top_vendors
    response    \* the answer to the client

vars == <<table, pending, stats, top, response>>

NoResponse == [status |-> "none"]

Counted == {i \in Invoices : table[i].status = "processed"
                             /\ table[i].date = "month"}

Group(i) == <<table[i].category, table[i].vendor>>

InGroup(g) == {i \in Counted : Group(i) = g}

\* SUM skips NULLs, and the sum of nothing but NULLs is read as 0.
Amount(i) == IF table[i].amount = None THEN 0 ELSE table[i].amount
Total(invoices) == SumFunctionOnSet([i \in Invoices |-> Amount(i)], invoices)

Nothing == [ total |-> 0, count |-> 0,
             category |-> [c \in {} |-> 0], categoryCount |-> [c \in {} |-> 0],
             vendor |-> [v \in {} |-> 0], vendorCount |-> [v \in {} |-> 0] ]

\* d[key] = d.get(key, 0) + value
BadPlus(d, key, value) ==
    [k \in DOMAIN d \cup {key} |-> IF k = key THEN value ELSE d[k]]

Plus(d, key, value) ==
    [k \in DOMAIN d \cup {key} |->
        (IF k \in DOMAIN d THEN d[k] ELSE 0) + (IF k = key THEN value ELSE 0)]

-----------------------------------------------------------------------------
Init ==
    /\ table \in [Invoices -> Row]
    /\ pending = {None}
    /\ stats = Nothing
    /\ top = None
    /\ response = NoResponse

\* get_monthly_aggregates
Query ==
    /\ pending = {None}
    /\ pending' = {Group(i) : i \in Counted}
    /\ UNCHANGED <<table, stats, top, response>>

\* The loop of _build_summary_stats: one row.
Add(g) ==
    /\ pending # {None} /\ g \in pending
    /\ pending' = pending \ {g}
    /\ LET amount == Total(InGroup(g))
           count == Cardinality(InGroup(g))
       IN  stats' = [ total |-> stats.total + amount,
                      count |-> stats.count + count,
                      category |-> Plus(stats.category, g[1], amount),
                      categoryCount |-> Plus(stats.categoryCount, g[1], count),
                      vendor |-> IF g[2] = None THEN stats.vendor
                                 ELSE Plus(stats.vendor, g[2], amount),
                      vendorCount |-> IF g[2] = None THEN stats.vendorCount
                                      ELSE Plus(stats.vendorCount, g[2], count) ]
    /\ UNCHANGED <<table, top, response>>

\* sorted(...) without reverse=True.
BadTop(totals, chosen) ==
    \A v \in chosen, w \in DOMAIN totals \ chosen : totals[v] <= totals[w]

\* sorted(..., reverse=True)[:5], ties in the order of the rows.
Top(totals, chosen) ==
    \A v \in chosen, w \in DOMAIN totals \ chosen : totals[v] >= totals[w]

Rank ==
    /\ pending = {} /\ top = None
    /\ LET totals == stats.vendor
           size == Cardinality(DOMAIN totals)
       IN  \E chosen \in kSubset(IF size < TopLimit THEN size ELSE TopLimit,
                                 DOMAIN totals) :
              Top(totals, chosen) /\ top' = chosen
    /\ UNCHANGED <<table, pending, stats, response>>

\* A negative total has no shares.
BadShare(amount) ==
    IF stats.total > 0 THEN [of |-> stats.total, is |-> amount] ELSE [of |-> 1, is |-> 0]

\* percentage, as a fraction; if the total is zero, so is every share.
Share(amount) ==
    IF stats.total # 0 THEN [of |-> stats.total, is |-> amount] ELSE [of |-> 1, is |-> 0]

\* generate_monthly_narrative: without a narrative there is no summary.
NarrativeFails ==
    /\ top # None /\ response = NoResponse
    /\ response' = [status |-> "error"]
    /\ UNCHANGED <<table, pending, stats, top>>

\* The entity get_monthly_summary returns, with the shares of the endpoint.
Summary ==
    [ status    |-> "ok",
      total     |-> stats.total,
      count     |-> stats.count,
      breakdown |-> [c \in DOMAIN stats.category |->
                       [ amount |-> stats.category[c],
                         share  |-> Share(stats.category[c]),
                         count  |-> stats.categoryCount[c] ]],
      vendors   |-> [v \in top |-> [ total |-> stats.vendor[v],
                                     count |-> stats.vendorCount[v] ]] ]

Respond ==
    /\ top # None /\ response = NoResponse
    /\ response' = Summary
    /\ UNCHANGED <<table, pending, stats, top>>

Next == Query \/ (\E g \in Groups : Add(g)) \/ Rank \/ NarrativeFails \/ Respond

Spec == Init /\ [][Next]_vars
-----------------------------------------------------------------------------
Ok == response.status = "ok"

\* Whatever the order of the rows, the response says of the month and of each
\* category what a sum over the processed invoices says.
SummaryIsExact ==
    Ok =>
        /\ response.total = Total(Counted)
        /\ response.count = Cardinality(Counted)
        /\ \A c \in Categories :
              LET mine == {i \in Counted : table[i].category = c}
              IN  IF mine = {} THEN c \notin DOMAIN response.breakdown
                  ELSE /\ response.breakdown[c].amount = Total(mine)
                       /\ response.breakdown[c].count = Cardinality(mine)

\* The shares of the categories make up the whole, also if credit notes
\* outweigh the bills, unless these cancel each other exactly.
SharesMakeWhole ==
    Ok /\ Total(Counted) # 0 =>
        LET shares == response.breakdown
        IN  /\ \A c \in DOMAIN shares : shares[c].share.of = Total(Counted)
            /\ SumFunctionOnSet([c \in DOMAIN shares |-> shares[c].share.is],
                                DOMAIN shares) = Total(Counted)

\* No vendor is left out in favour of one with a smaller total, credit notes
\* included, and those listed have the totals and counts of their invoices.
TopVendorsAreTop ==
    Ok =>
        LET of(v) == {i \in Counted : table[i].vendor = v}
            listed == response.vendors
        IN  /\ \A v \in DOMAIN listed :
                  listed[v] = [total |-> Total(of(v)), count |-> Cardinality(of(v))]
            /\ \A v \in Vendors \ DOMAIN listed : of(v) # {} =>
                  /\ Cardinality(DOMAIN listed) = TopLimit
                  /\ \A w \in DOMAIN listed : Total(of(w)) >= Total(of(v))
=============================================================================
