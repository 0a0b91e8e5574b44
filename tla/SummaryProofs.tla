---------------------------- MODULE SummaryProofs ----------------------------
(***************************************************************************)
(* The monthly summary is exact, for any number of invoices, categories    *)
(* and vendors, any amounts, and any order of the query's rows.            *)
(***************************************************************************)
EXTENDS MonthlySummary, SumTheorems

-----------------------------------------------------------------------------
(***************************************************************************)
(* d.get(key, 0) + value.                                                  *)
(***************************************************************************)

\* It adds the value to the sum of the dictionary.
LEMMA PlusAdds ==
  ASSUME NEW D, IsFiniteSet(D), NEW d, DOMAIN d = D, \A x \in D : d[x] \in Int,
         NEW key, NEW value \in Int, NEW e, e = Plus(d, key, value)
  PROVE  SumFunctionOnSet(e, D \cup {key}) = SumFunctionOnSet(d, D) + value
<1> DEFINE rest == D \ {key}
<1>1. /\ DOMAIN e = D \cup {key}
      /\ e[key] = IF key \in D THEN d[key] + value ELSE value
      /\ \A x \in rest : d[x] = e[x]
      /\ \A x \in D \cup {key} : e[x] \in Int
  BY DEF Plus
<1>2. IsFiniteSet(rest) /\ IsFiniteSet(D \cup {key})
  BY FS_Subset, FS_AddElement
<1>3. SumFunctionOnSet(d, rest) = SumFunctionOnSet(e, rest)
  BY <1>1, <1>2, SumEqual
<1>4. SumFunctionOnSet(e, D \cup {key}) = e[key] + SumFunctionOnSet(e, rest)
  <2>1. (D \cup {key}) \ {key} = rest
    OBVIOUS
  <2>2. SumFunctionOnSet(e, D \cup {key})
           = e[key] + SumFunctionOnSet(e, (D \cup {key}) \ {key})
    BY <1>1, <1>2, SumRemove
  <2>3. QED
    BY <2>1, <2>2
<1>5. SumFunctionOnSet(d, rest) \in Int
  BY <1>2, SumType
<1>6. CASE key \in D
  <2>1. SumFunctionOnSet(d, D) = d[key] + SumFunctionOnSet(d, rest)
    BY <1>6, SumRemove
  <2>2. QED
    BY <1>1, <1>3, <1>4, <1>5, <1>6, <2>1
<1>7. CASE key \notin D
  <2>1. rest = D /\ e[key] = value
    BY <1>1, <1>7
  <2> HIDE DEF rest
  <2>2. QED
    BY <1>3, <1>4, <1>5, <2>1
<1>8. QED
  BY <1>6, <1>7

-----------------------------------------------------------------------------
(***************************************************************************)
(* Totals.                                                                 *)
(***************************************************************************)

\* NULL counts as zero.
LEMMA AmountType ==
  ASSUME table \in [Invoices -> Row], NEW i \in Invoices
  PROVE  Amount(i) \in Int
<1>1. table[i] \in Row
  OBVIOUS
<1>2. table[i].amount \in Amounts \cup {None}
  BY <1>1 DEF Row
<1>3. Amounts \subseteq Int
  BY SummaryAssumption
<1>4. table[i].amount # None => table[i].amount \in Int
  BY <1>2, <1>3
<1>5. QED
  BY <1>4 DEF Amount

\* The total of any of the user's invoices is a number.
LEMMA TotalType ==
  ASSUME table \in [Invoices -> Row], NEW S \in SUBSET Invoices
  PROVE  IsFiniteSet(S) /\ Total(S) \in Int /\ Cardinality(S) \in Nat
<1> DEFINE f == [i \in Invoices |-> Amount(i)]
<1>1. \A i \in S : f[i] \in Int
  BY AmountType
<1>2. IsFiniteSet(S)
  BY SummaryAssumption, FS_Subset
<1> HIDE DEF f
<1>3. SumFunctionOnSet(f, S) \in Int
  BY <1>1, <1>2, SumType
<1>4. QED
  BY <1>2, <1>3, FS_CardinalityType DEF Total, f

\* Totals and counts of separate sets add up.
LEMMA TotalUnion ==
  ASSUME table \in [Invoices -> Row], NEW S \in SUBSET Invoices,
         NEW T \in SUBSET Invoices, S \cap T = {}
  PROVE  /\ Total(S \cup T) = Total(S) + Total(T)
         /\ Cardinality(S \cup T) = Cardinality(S) + Cardinality(T)
<1> DEFINE f == [i \in Invoices |-> Amount(i)]
<1>1. \A i \in S \cup T : f[i] \in Int
  BY AmountType
<1>2. IsFiniteSet(S) /\ IsFiniteSet(T)
  BY SummaryAssumption, FS_Subset
<1> HIDE DEF f
<1>3. SumFunctionOnSet(f, S \cup T) = SumFunctionOnSet(f, S) + SumFunctionOnSet(f, T)
  BY <1>1, <1>2, SumUnion
<1>4. Cardinality(S \cup T) = Cardinality(S) + Cardinality(T) - 0
  BY <1>2, FS_Union, FS_EmptySet
<1>5. QED
  BY <1>2, <1>3, <1>4, FS_CardinalityType DEF Total, f

\* The rows of S whose key is k, and two dictionaries with the totals and the
\* counts of the rows of S by their keys.
Of(S, key, k) == {i \in S : key[i] = k}

Keys(S, key) == {key[i] : i \in S}

Tallied(totals, counts, S, key) ==
    /\ DOMAIN totals = Keys(S, key) /\ DOMAIN counts = Keys(S, key)
    /\ \A k \in Keys(S, key) : /\ totals[k] = Total(Of(S, key, k))
                               /\ counts[k] = Cardinality(Of(S, key, k))

\* One more group of rows with a common key.
LEMMA TallyGroup ==
  ASSUME table \in [Invoices -> Row], NEW S \in SUBSET Invoices,
         NEW T \in SUBSET Invoices, S \cap T = {}, T # {},
         NEW key, NEW k, \A i \in T : key[i] = k,
         NEW totals, NEW counts, Tallied(totals, counts, S, key)
  PROVE  Tallied(Plus(totals, k, Total(T)), Plus(counts, k, Cardinality(T)),
                 S \cup T, key)
<1> DEFINE tt == Plus(totals, k, Total(T))
           cc == Plus(counts, k, Cardinality(T))
<1>1. Keys(S \cup T, key) = Keys(S, key) \cup {k}
  BY DEF Keys
<1>2. DOMAIN tt = Keys(S \cup T, key) /\ DOMAIN cc = Keys(S \cup T, key)
  BY <1>1 DEF Plus, Tallied
<1>3. Total(T) \in Int /\ Cardinality(T) \in Nat
  BY TotalType
<1>4. ASSUME NEW l \in Keys(S \cup T, key), l # k
      PROVE  /\ tt[l] = Total(Of(S \cup T, key, l))
             /\ cc[l] = Cardinality(Of(S \cup T, key, l))
  <2>1. Of(S \cup T, key, l) = Of(S, key, l) /\ l \in Keys(S, key)
    BY <1>1, <1>4 DEF Of
  <2>2. Total(Of(S, key, l)) \in Int /\ Cardinality(Of(S, key, l)) \in Nat
    <3>1. Of(S, key, l) \in SUBSET Invoices
      BY DEF Of
    <3>2. QED
      BY <3>1, TotalType
  <2>3. tt[l] = totals[l] + 0 /\ cc[l] = counts[l] + 0
    BY <1>4, <2>1 DEF Plus, Tallied
  <2>4. QED
    BY <2>1, <2>2, <2>3 DEF Tallied
<1>5. tt[k] = Total(Of(S \cup T, key, k)) /\ cc[k] = Cardinality(Of(S \cup T, key, k))
  <2>1. Of(S \cup T, key, k) = Of(S, key, k) \cup T
        /\ Of(S, key, k) \cap T = {} /\ Of(S, key, k) \in SUBSET Invoices
    BY DEF Of
  <2>2. /\ Total(Of(S \cup T, key, k)) = Total(Of(S, key, k)) + Total(T)
        /\ Cardinality(Of(S \cup T, key, k)) = Cardinality(Of(S, key, k)) + Cardinality(T)
    BY <2>1, TotalUnion
  <2>3. CASE k \in Keys(S, key)
    <3>1. tt[k] = totals[k] + Total(T) /\ cc[k] = counts[k] + Cardinality(T)
      BY <1>1, <2>3 DEF Plus, Tallied
    <3>2. QED
      BY <2>2, <2>3, <3>1 DEF Tallied
  <2>4. CASE k \notin Keys(S, key)
    <3>1. Of(S, key, k) = {} /\ Of(S \cup T, key, k) = T
      BY <2>1, <2>4 DEF Of, Keys
    <3>2. tt[k] = 0 + Total(T) /\ cc[k] = 0 + Cardinality(T)
      BY <1>1, <2>4 DEF Plus, Tallied
    <3>3. QED
      BY <1>3, <3>1, <3>2
  <2>5. QED
    BY <2>3, <2>4
<1> HIDE DEF tt, cc
<1>6. Tallied(tt, cc, S \cup T, key)
  BY <1>2, <1>4, <1>5 DEF Tallied
<1>7. QED
  BY <1>6 DEF tt, cc

-----------------------------------------------------------------------------
(***************************************************************************)
(* The invariant: the statistics are those of the rows whose group the     *)
(* loop has seen.                                                          *)
(***************************************************************************)
CategoryOf == [i \in Invoices |-> table[i].category]
VendorOf == [i \in Invoices |-> table[i].vendor]

Named(S) == {i \in S : table[i].vendor # None}

Seen == {i \in Counted : Group(i) \notin pending}

StatsOf(S) ==
    /\ stats.total = Total(S) /\ stats.count = Cardinality(S)
    /\ Tallied(stats.category, stats.categoryCount, S, CategoryOf)
    /\ Tallied(stats.vendor, stats.vendorCount, Named(S), VendorOf)
    /\ SumFunctionOnSet(stats.category, Keys(S, CategoryOf)) = stats.total

SummaryInv ==
    /\ table \in [Invoices -> Row]
    /\ pending = {None} => stats = Nothing /\ top = None /\ response = NoResponse
    /\ pending # {None} => /\ pending \subseteq {Group(i) : i \in Counted}
                           /\ StatsOf(Seen)
    /\ top # None =>
          /\ pending = {}
          /\ top \in SUBSET DOMAIN stats.vendor
          /\ Cardinality(top) = IF Cardinality(DOMAIN stats.vendor) < TopLimit
                                THEN Cardinality(DOMAIN stats.vendor) ELSE TopLimit
          /\ Top(stats.vendor, top)
    /\ Ok => top # None /\ response = Summary

\* Rows are grouped by category and vendor.
LEMMA GroupTypes ==
  ASSUME table \in [Invoices -> Row]
  PROVE  /\ Counted \subseteq Invoices
         /\ \A i \in Invoices : Group(i) \in Groups /\ Group(i) # None
<1>1. \A i \in Invoices : /\ table[i].category \in Categories
                          /\ table[i].vendor \in Vendors \cup {None}
  BY DEF Row
<1>2. \A i \in Invoices : Group(i) \in Groups
  BY <1>1 DEF Group, Groups
<1>3. None \notin Groups
  BY SummaryAssumption DEF Groups
<1>4. QED
  BY <1>2, <1>3 DEF Counted

\* Nothing has been seen.
LEMMA StatsOfNothing ==
  ASSUME stats = Nothing
  PROVE  StatsOf({})
<1>1. Total({}) = 0
  BY SumEmpty DEF Total
<1>2. /\ stats.total = 0 /\ stats.count = 0
      /\ DOMAIN stats.category = {} /\ DOMAIN stats.categoryCount = {}
      /\ DOMAIN stats.vendor = {} /\ DOMAIN stats.vendorCount = {}
  BY DEF Nothing
<1>3. SumFunctionOnSet(stats.category, {}) = 0
  BY SumEmpty
<1>4. QED
  BY <1>1, <1>2, <1>3, FS_EmptySet DEF StatsOf, Tallied, Keys, Named

\* One more group.
LEMMA StatsOfGroup ==
  ASSUME SummaryInv, NEW g \in Groups, Add(g)
  PROVE  /\ Seen' = Seen \cup InGroup(g)
         /\ stats'.total = Total(Seen \cup InGroup(g))
         /\ stats'.count = Cardinality(Seen \cup InGroup(g))
         /\ Tallied(stats'.category, stats'.categoryCount, Seen \cup InGroup(g),
                    CategoryOf)
         /\ Tallied(stats'.vendor, stats'.vendorCount, Named(Seen \cup InGroup(g)),
                    VendorOf)
         /\ SumFunctionOnSet(stats'.category, Keys(Seen \cup InGroup(g), CategoryOf))
               = stats'.total
<1> DEFINE T == InGroup(g)
           c == g[1]
           v == g[2]
<1>1. /\ table \in [Invoices -> Row] /\ table' = table
      /\ pending' = pending \ {g} /\ g \in pending
      /\ \E i \in Counted : Group(i) = g
      /\ StatsOf(Seen)
  BY DEF SummaryInv, Add
<1>2. /\ stats'.total = stats.total + Total(T)
      /\ stats'.count = stats.count + Cardinality(T)
      /\ stats'.category = Plus(stats.category, c, Total(T))
      /\ stats'.categoryCount = Plus(stats.categoryCount, c, Cardinality(T))
      /\ stats'.vendor = IF v = None THEN stats.vendor
                         ELSE Plus(stats.vendor, v, Total(T))
      /\ stats'.vendorCount = IF v = None THEN stats.vendorCount
                              ELSE Plus(stats.vendorCount, v, Cardinality(T))
  BY DEF Add
<1>3. /\ Seen \in SUBSET Invoices /\ T \in SUBSET Invoices /\ T # {}
      /\ Seen \cap T = {}
      /\ \A i \in T : table[i].category = c /\ table[i].vendor = v
  BY <1>1, GroupTypes DEF Seen, InGroup, Group
<1>4. Seen' = Seen \cup T
  BY <1>1 DEF Seen, Counted, InGroup, Group
<1> HIDE DEF T, c, v
<1>5. Total(T) \in Int /\ Cardinality(T) \in Nat
  BY <1>1, <1>3, TotalType
<1>6. stats'.total = Total(Seen \cup T) /\ stats'.count = Cardinality(Seen \cup T)
  BY <1>1, <1>2, <1>3, TotalUnion DEF StatsOf
<1>7. Tallied(stats'.category, stats'.categoryCount, Seen \cup T, CategoryOf)
  <2>1. \A i \in T : CategoryOf[i] = c
    BY <1>3 DEF CategoryOf
  <2>2. Tallied(stats.category, stats.categoryCount, Seen, CategoryOf)
    BY <1>1 DEF StatsOf
  <2>3. QED
    BY <1>1, <1>2, <1>3, <2>1, <2>2, TallyGroup
<1>8. Tallied(stats'.vendor, stats'.vendorCount, Named(Seen \cup T), VendorOf)
  <2>1. \A i \in T : VendorOf[i] = v
    BY <1>3 DEF VendorOf
  <2>2. Tallied(stats.vendor, stats.vendorCount, Named(Seen), VendorOf)
    BY <1>1 DEF StatsOf
  <2>3. CASE v = None
    <3>1. Named(Seen \cup T) = Named(Seen)
      BY <1>3, <2>3 DEF Named
    <3>2. QED
      BY <1>2, <2>2, <2>3, <3>1
  <2>4. CASE v # None
    <3>1. Named(Seen \cup T) = Named(Seen) \cup T
      BY <1>3, <2>4 DEF Named
    <3>2. Named(Seen) \in SUBSET Invoices /\ Named(Seen) \cap T = {}
      BY <1>3 DEF Named
    <3>3. Tallied(Plus(stats.vendor, v, Total(T)),
                  Plus(stats.vendorCount, v, Cardinality(T)),
                  Named(Seen) \cup T, VendorOf)
      BY <1>1, <1>3, <2>1, <2>2, <3>2, TallyGroup
    <3>4. QED
      BY <1>2, <2>4, <3>1, <3>3
  <2>5. QED
    BY <2>3, <2>4
<1>9. SumFunctionOnSet(stats'.category, Keys(Seen \cup T, CategoryOf)) = stats'.total
  <2> DEFINE D == Keys(Seen, CategoryOf)
             d == stats.category
  <2>1. IsFiniteSet(D)
    <3>1. IsFiniteSet(Seen)
      BY <1>1, <1>3, TotalType
    <3> DEFINE f == [i \in Seen |-> CategoryOf[i]]
    <3>2. f \in Surjection(Seen, D)
      BY DEF Surjection, Keys
    <3> HIDE DEF f, D
    <3>3. QED
      BY <3>1, <3>2, FS_Surjection
  <2>2. DOMAIN d = D /\ \A k \in D : d[k] \in Int
    <3>1. \A k \in D : Of(Seen, CategoryOf, k) \in SUBSET Invoices
      BY <1>3 DEF Of
    <3>2. QED
      BY <1>1, <3>1, TotalType DEF StatsOf, Tallied
  <2>3. Keys(Seen \cup T, CategoryOf) = D \cup {c}
    BY <1>3 DEF Keys, CategoryOf
  <2>4. SumFunctionOnSet(d, D) = stats.total
    BY <1>1 DEF StatsOf
  <2>5. stats'.category = Plus(d, c, Total(T))
    BY <1>2
  <2> DEFINE e == stats'.category
  <2> HIDE DEF D, d, e
  <2>6. SumFunctionOnSet(e, D \cup {c}) = SumFunctionOnSet(d, D) + Total(T)
    BY <1>5, <2>1, <2>2, <2>5, PlusAdds DEF e
  <2>7. QED
    BY <1>2, <2>3, <2>4, <2>6 DEF e
<1>10. QED
  BY <1>4, <1>6, <1>7, <1>8, <1>9 DEF T

\* No request has been answered yet.
LEMMA InitSummaryInv == Init => SummaryInv
  BY DEF Init, SummaryInv, NoResponse, Ok

\* Each group adds its invoices to what the dictionaries hold.
LEMMA NextSummaryInv == SummaryInv /\ [Next]_vars => SummaryInv'
<1> SUFFICES ASSUME SummaryInv, [Next]_vars PROVE SummaryInv'
  OBVIOUS
<1>1. table' = table /\ table \in [Invoices -> Row]
  BY DEF SummaryInv, Next, Query, Add, Rank, NarrativeFails, Respond, vars
<1>2. Counted' = Counted /\ \A i \in Invoices : Group(i)' = Group(i)
  BY <1>1 DEF Counted, Group
<1>3. {Group(i) : i \in Counted}' = {Group(i) : i \in Counted}
  BY <1>1, <1>2, GroupTypes
<1>4. /\ CategoryOf' = CategoryOf /\ VendorOf' = VendorOf
      /\ \A S : Total(S)' = Total(S)
      /\ \A S : Named(S)' = Named(S)
  BY <1>1 DEF CategoryOf, VendorOf, Named, Total, Amount
<1>5. ASSUME UNCHANGED <<pending, stats>>
      PROVE  pending' # {None} => /\ pending' \subseteq {Group(i) : i \in Counted}'
                                  /\ StatsOf(Seen)'
  <2>1. Seen' = Seen
    BY <1>1, <1>5 DEF Seen, Counted, Group
  <2>2. StatsOf(Seen) => StatsOf(Seen)'
    BY <1>5, <1>4, <2>1 DEF StatsOf, Tallied
  <2>3. QED
    BY <1>3, <1>5, <2>2 DEF SummaryInv
<1>6. CASE Query
  <2>1. /\ pending = {None} /\ pending' = {Group(i) : i \in Counted}
        /\ stats' = stats /\ top' = None /\ response' = NoResponse
        /\ stats = Nothing
    BY <1>6 DEF Query, SummaryInv
  <2>2. pending' # {None}
    BY <1>1, <2>1, GroupTypes
  <2>3. Seen' = {}
    BY <1>2, <2>1 DEF Seen, Counted, Group
  <2>4. StatsOf(Seen)'
    <3>1. StatsOf({})'
      <4>1. StatsOf({})
        BY <2>1, StatsOfNothing
      <4>2. QED
        BY <1>1, <2>1, <4>1
           DEF StatsOf, Tallied, Keys, Of, Named, CategoryOf, VendorOf, Total, Amount
    <3>2. QED
      BY <2>3, <3>1
  <2>5. QED
    BY <1>1, <1>3, <2>1, <2>2, <2>4 DEF SummaryInv, NoResponse, Ok
<1>7. ASSUME NEW g \in Groups, Add(g) PROVE SummaryInv'
  <2>1. /\ pending # {None} /\ g \in pending /\ pending' = pending \ {g}
        /\ top' = top /\ response' = response
        /\ pending \subseteq {Group(i) : i \in Counted}
    BY <1>7 DEF Add, SummaryInv
  <2>2. pending' # {None} /\ top = None /\ ~Ok
    BY <1>1, <2>1, GroupTypes DEF SummaryInv
  <2>3. StatsOf(Seen)'
    <3> DEFINE S == Seen \cup InGroup(g)
    <3>1. /\ Seen' = S
          /\ stats'.total = Total(S) /\ stats'.count = Cardinality(S)
          /\ Tallied(stats'.category, stats'.categoryCount, S, CategoryOf)
          /\ Tallied(stats'.vendor, stats'.vendorCount, Named(S), VendorOf)
          /\ SumFunctionOnSet(stats'.category, Keys(S, CategoryOf)) = stats'.total
      BY <1>7, StatsOfGroup
    <3> HIDE DEF S
    <3>2. QED
      BY <1>4, <3>1 DEF StatsOf, Tallied
  <2>4. QED
    BY <1>1, <1>3, <2>1, <2>2, <2>3 DEF SummaryInv, Ok
<1>8. CASE Rank
  <2>1. /\ pending = {} /\ top = None /\ UNCHANGED <<pending, stats, response>>
        /\ top' \in SUBSET DOMAIN stats.vendor
        /\ Cardinality(top') = IF Cardinality(DOMAIN stats.vendor) < TopLimit
                               THEN Cardinality(DOMAIN stats.vendor) ELSE TopLimit
        /\ Top(stats.vendor, top')
    BY <1>8 DEF Rank, kSubset
  <2>2. pending # {None} /\ ~Ok
    BY <2>1 DEF SummaryInv
  <2>3. QED
    BY <1>1, <1>5, <2>1, <2>2 DEF SummaryInv, Ok, Top
<1>9. CASE NarrativeFails \/ Respond
  <2>1. /\ UNCHANGED <<pending, stats, top>> /\ top # None
        /\ Ok' => response' = Summary
    BY <1>9 DEF NarrativeFails, Respond, Ok
  <2>2. Summary' = Summary
    BY <2>1 DEF Summary, Share
  <2>3. pending # {None}
    BY <2>1 DEF SummaryInv
  <2>4. QED
    BY <1>1, <1>5, <2>1, <2>2, <2>3 DEF SummaryInv, Top
<1>10. CASE UNCHANGED vars
  <2>1. UNCHANGED <<pending, stats, top, response>>
    BY <1>10 DEF vars
  <2>2. Summary' = Summary
    BY <2>1 DEF Summary, Share
  <2>3. QED
    BY <1>1, <1>5, <2>1, <2>2 DEF SummaryInv, Top, Ok
<1>11. QED
  BY <1>6, <1>7, <1>8, <1>9, <1>10 DEF Next

\* So the dictionaries hold what has been seen, in every reachable state.
LEMMA SummaryInvHolds == Spec => []SummaryInv
  BY InitSummaryInv, NextSummaryInv, PTL DEF Spec

\* When the client is answered, all rows have been seen.
LEMMA AllSeen ==
  ASSUME SummaryInv, Ok
  PROVE  /\ table \in [Invoices -> Row] /\ top # None /\ response = Summary
         /\ Counted \in SUBSET Invoices /\ StatsOf(Counted)
<1>1. pending = {} /\ pending # {None} /\ top # None /\ response = Summary
  BY DEF SummaryInv
<1>2. Seen = Counted
  BY <1>1 DEF Seen
<1>3. QED
  BY <1>1, <1>2 DEF SummaryInv, Counted

-----------------------------------------------------------------------------
(***************************************************************************)
(* What the client is told.                                                *)
(***************************************************************************)

\* Total and count, and those of each category, are sums over the invoices
\* that have been processed.
THEOREM SummariesAreExact == Spec => []SummaryIsExact
<1>1. ASSUME SummaryInv, Ok
      PROVE  /\ response.total = Total(Counted)
             /\ response.count = Cardinality(Counted)
             /\ \A c \in Categories :
                   LET mine == {i \in Counted : table[i].category = c}
                   IN  IF mine = {} THEN c \notin DOMAIN response.breakdown
                       ELSE /\ response.breakdown[c].amount = Total(mine)
                            /\ response.breakdown[c].count = Cardinality(mine)
  <2>1. /\ response.total = stats.total /\ response.count = stats.count
        /\ response.breakdown = [c \in DOMAIN stats.category |->
                                   [ amount |-> stats.category[c],
                                     share  |-> Share(stats.category[c]),
                                     count  |-> stats.categoryCount[c] ]]
    BY <1>1, AllSeen DEF Summary
  <2>2. /\ Counted \in SUBSET Invoices
        /\ stats.total = Total(Counted) /\ stats.count = Cardinality(Counted)
        /\ Tallied(stats.category, stats.categoryCount, Counted, CategoryOf)
    BY <1>1, AllSeen DEF StatsOf
  <2>3. ASSUME NEW c \in Categories
        PROVE  LET mine == {i \in Counted : table[i].category = c}
               IN  IF mine = {} THEN c \notin DOMAIN response.breakdown
                   ELSE /\ response.breakdown[c].amount = Total(mine)
                        /\ response.breakdown[c].count = Cardinality(mine)
    <3> DEFINE mine == {i \in Counted : table[i].category = c}
    <3>1. mine = Of(Counted, CategoryOf, c)
          /\ (c \in Keys(Counted, CategoryOf) <=> mine # {})
      BY <2>2 DEF Of, Keys, CategoryOf
    <3> HIDE DEF mine
    <3>2. mine = {} => c \notin DOMAIN response.breakdown
      BY <2>1, <2>2, <3>1 DEF Tallied
    <3>3. mine # {} => /\ response.breakdown[c].amount = Total(mine)
                       /\ response.breakdown[c].count = Cardinality(mine)
      BY <2>1, <2>2, <3>1 DEF Tallied
    <3>4. QED
      BY <3>2, <3>3 DEF mine
  <2>4. QED
    BY <2>1, <2>2, <2>3
<1>2. SummaryInv => SummaryIsExact
  BY <1>1 DEF SummaryIsExact
<1>3. QED
  BY <1>2, SummaryInvHolds, PTL

\* The shares add up to the whole, whatever the signs of the amounts.
THEOREM SharesAddUp == Spec => []SharesMakeWhole
<1>1. ASSUME SummaryInv, Ok, Total(Counted) # 0
      PROVE  LET shares == response.breakdown
             IN  /\ \A c \in DOMAIN shares : shares[c].share.of = Total(Counted)
                 /\ SumFunctionOnSet([c \in DOMAIN shares |-> shares[c].share.is],
                                     DOMAIN shares) = Total(Counted)
  <2> DEFINE D == DOMAIN stats.category
             shares == response.breakdown
             parts == [c \in DOMAIN shares |-> shares[c].share.is]
  <2>1. stats.total = Total(Counted) /\ stats.total # 0
        /\ D = Keys(Counted, CategoryOf)
        /\ SumFunctionOnSet(stats.category, D) = stats.total
    BY <1>1, AllSeen DEF StatsOf, Tallied
  <2>2. shares = [c \in D |-> [ amount |-> stats.category[c],
                                share  |-> Share(stats.category[c]),
                                count  |-> stats.categoryCount[c] ]]
    BY <1>1, AllSeen DEF Summary
  <2>3. DOMAIN shares = D
        /\ \A c \in D : /\ shares[c].share.of = stats.total
                        /\ parts[c] = stats.category[c]
    BY <2>1, <2>2 DEF Share
  <2>4. IsFiniteSet(D) /\ \A c \in D : stats.category[c] \in Int
    <3>1. Counted \in SUBSET Invoices /\ table \in [Invoices -> Row]
          /\ Tallied(stats.category, stats.categoryCount, Counted, CategoryOf)
      BY <1>1, AllSeen DEF StatsOf
    <3>2. IsFiniteSet(Counted)
      BY <3>1, TotalType
    <3> DEFINE f == [i \in Counted |-> CategoryOf[i]]
    <3>3. f \in Surjection(Counted, Keys(Counted, CategoryOf))
      BY DEF Surjection, Keys
    <3>4. \A c \in Keys(Counted, CategoryOf) : Of(Counted, CategoryOf, c) \in SUBSET Invoices
      BY <3>1 DEF Of
    <3> HIDE DEF f
    <3>5. IsFiniteSet(Keys(Counted, CategoryOf))
      BY <3>2, <3>3, FS_Surjection
    <3>6. QED
      BY <2>1, <3>1, <3>4, <3>5, TotalType DEF Tallied
  <2> HIDE DEF D, parts
  <2>5. SumFunctionOnSet(stats.category, D) = SumFunctionOnSet(parts, D)
    BY <2>3, <2>4, SumEqual
  <2>6. QED
    BY <2>1, <2>3, <2>5 DEF parts
<1>2. SummaryInv => SharesMakeWhole
  BY <1>1 DEF SharesMakeWhole
<1>3. QED
  BY <1>2, SummaryInvHolds, PTL

\* The vendors listed are those with the largest totals.
THEOREM TopVendorsAreLargest == Spec => []TopVendorsAreTop
<1> DEFINE of(v) == {i \in Counted : table[i].vendor = v}
<1>1. ASSUME SummaryInv, Ok
      PROVE  /\ \A v \in DOMAIN response.vendors :
                   response.vendors[v] = [ total |-> Total(of(v)),
                                           count |-> Cardinality(of(v)) ]
             /\ \A v \in Vendors \ DOMAIN response.vendors : of(v) # {} =>
                   /\ Cardinality(DOMAIN response.vendors) = TopLimit
                   /\ \A w \in DOMAIN response.vendors : Total(of(w)) >= Total(of(v))
  <2> DEFINE D == DOMAIN stats.vendor
  <2>1. /\ Counted \in SUBSET Invoices /\ table \in [Invoices -> Row]
        /\ Tallied(stats.vendor, stats.vendorCount, Named(Counted), VendorOf)
    BY <1>1, AllSeen DEF StatsOf
  <2>2. /\ response.vendors = [v \in top |-> [ total |-> stats.vendor[v],
                                               count |-> stats.vendorCount[v] ]]
        /\ top \in SUBSET D
        /\ Cardinality(top) = IF Cardinality(D) < TopLimit
                              THEN Cardinality(D) ELSE TopLimit
        /\ \A v \in top, w \in D \ top : stats.vendor[v] >= stats.vendor[w]
    BY <1>1, AllSeen DEF Summary, SummaryInv, Top
  <2>3. D = Keys(Named(Counted), VendorOf)
    BY <2>1 DEF Tallied
  <2>4. ASSUME NEW v, v # None
        PROVE  /\ Of(Named(Counted), VendorOf, v) = of(v)
               /\ v \in D <=> of(v) # {}
    BY <2>1, <2>3, <2>4 DEF Of, Keys, Named, VendorOf
  <2>5. None \notin D
    BY <2>1, <2>3 DEF Keys, Named, VendorOf
  <2>6. \A v \in D : /\ stats.vendor[v] = Total(of(v))
                     /\ stats.vendorCount[v] = Cardinality(of(v))
    BY <2>1, <2>3, <2>4, <2>5 DEF Tallied
  <2>7. IsFiniteSet(D)
    <3>1. Named(Counted) \in SUBSET Invoices
      BY <2>1 DEF Named
    <3>2. IsFiniteSet(Named(Counted))
      BY <2>1, <3>1, TotalType
    <3> DEFINE f == [i \in Named(Counted) |-> VendorOf[i]]
    <3>3. f \in Surjection(Named(Counted), Keys(Named(Counted), VendorOf))
      BY DEF Surjection, Keys
    <3> HIDE DEF f
    <3>4. QED
      BY <2>3, <3>2, <3>3, FS_Surjection
  <2> HIDE DEF D, of
  <2>8. ASSUME NEW v \in Vendors \ top, of(v) # {}
        PROVE  /\ Cardinality(top) = TopLimit
               /\ \A w \in top : Total(of(w)) >= Total(of(v))
    <3>1. v \in D \ top
      BY <2>4, <2>8, SummaryAssumption
    <3>2. Cardinality(top) # Cardinality(D)
      BY <2>2, <2>7, <3>1, FS_Subset
    <3>3. QED
      BY <2>2, <2>6, <3>1, <3>2
  <2>9. DOMAIN response.vendors = top
    BY <2>2
  <2>10. \A v \in top : response.vendors[v] = [ total |-> Total(of(v)),
                                                count |-> Cardinality(of(v)) ]
    BY <2>2, <2>6
  <2>11. QED
    BY <2>8, <2>9, <2>10
<1>2. SummaryInv => TopVendorsAreTop
  BY <1>1 DEF TopVendorsAreTop
<1>3. QED
  BY <1>2, SummaryInvHolds, PTL
=============================================================================
