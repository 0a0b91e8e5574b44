---------------------------- MODULE ListingProofs ----------------------------
(***************************************************************************)
(* Following has_more, for any table, page size and order of the commits.  *)
(*                                                                         *)
(* As long as no invoice leaves the filter, the result of the query only   *)
(* grows, and a row only moves down in it.  So what the client has not got *)
(* yet is at its next offset or below; and a page is never longer than     *)
(* Limit, so that has_more is true as long as something lies below it.     *)
(***************************************************************************)
EXTENDS InvoiceListing, FiniteSetTheorems, TLAPS

Above(i) == {j \in Matching : Before(j, i)}

Missing == steady \ received

ListingTypeOK ==
    /\ status \in [Invoices -> {"absent", "pending", "processed", "duplicate"}]
    /\ filter \in {"any", "pending", "processed"}
    /\ step \in {"list", "count", "done"}
    /\ offset \in Nat /\ listed \in Nat
    /\ departed \in BOOLEAN

ListingInv ==
    /\ ListingTypeOK
    /\ steady \subseteq Matching
    /\ step = "count" => listed <= Limit
    /\ ~departed =>
          /\ step = "list" => \A i \in Missing : Position(i) >= offset
          /\ step = "count" => \A i \in Missing : Position(i) >= offset + Limit
          /\ step = "done" => Missing = {}

-----------------------------------------------------------------------------
\* A position is a number, and smaller than the total.
LEMMA PositionBound ==
    ASSUME NEW i \in Matching
    PROVE  /\ Position(i) \in Nat
           /\ Cardinality(Matching) \in Nat
           /\ Position(i) < Cardinality(Matching)
<1>1. IsFiniteSet(Matching)
  BY ListingAssumption, FS_Subset DEF Matching
<1>2. Above(i) \in SUBSET Matching /\ i \notin Above(i)
  BY ListingAssumption DEF Above, Before, Matching
<1>3. /\ IsFiniteSet(Above(i)) /\ Cardinality(Above(i)) <= Cardinality(Matching)
      /\ Cardinality(Above(i)) = Cardinality(Matching) => Above(i) = Matching
  BY <1>1, <1>2, FS_Subset
<1>4. Cardinality(Above(i)) \in Nat /\ Cardinality(Matching) \in Nat
  BY <1>1, <1>3, FS_CardinalityType
<1>5. QED
  BY <1>2, <1>3, <1>4 DEF Position, Above

\* No two rows share a position, because no two were created at once.
LEMMA PositionsDiffer ==
    ASSUME NEW i \in Matching, NEW j \in Matching, Position(i) = Position(j)
    PROVE  i = j
<1>1. ASSUME NEW a \in Matching, NEW b \in Matching, Before(a, b)
      PROVE  Position(a) < Position(b)
  <2>1. /\ Above(a) \in SUBSET Above(b) /\ a \in Above(b) /\ a \notin Above(a)
    BY <1>1, ListingAssumption DEF Above, Before, Matching
  <2>2. IsFiniteSet(Above(b))
    BY ListingAssumption, FS_Subset DEF Above, Matching
  <2>3. /\ IsFiniteSet(Above(a)) /\ Cardinality(Above(a)) <= Cardinality(Above(b))
        /\ Cardinality(Above(a)) # Cardinality(Above(b))
    BY <2>1, <2>2, FS_Subset
  <2>4. Cardinality(Above(a)) \in Nat /\ Cardinality(Above(b)) \in Nat
    BY <2>2, <2>3, FS_CardinalityType
  <2>5. QED
    BY <2>3, <2>4 DEF Position, Above
<1>2. i = j \/ Before(i, j) \/ Before(j, i)
  BY ListingAssumption DEF Before, Matching
<1>3. Position(i) \in Nat /\ Position(j) \in Nat
  BY PositionBound
<1>4. QED
  BY <1>1, <1>2, <1>3

\* LIMIT holds: a page has at most that many rows.
LEMMA PageBound ==
    ASSUME offset \in Nat
    PROVE  Cardinality(Page) \in Nat /\ Cardinality(Page) <= Limit
<1> DEFINE places == offset .. offset + Limit - 1
           at == [i \in Page |-> Position(i)]
<1>1. IsFiniteSet(Page)
  BY ListingAssumption, FS_Subset DEF Page, Matching
<1>2. offset \in Int /\ offset + Limit - 1 \in Int /\ Limit \in Nat \ {0}
  BY ListingAssumption
<1>3. IsFiniteSet(places) /\ Cardinality(places) = Limit
  BY <1>2, FS_Interval
<1>4. at \in Injection(Page, places)
  <2>1. at \in [Page -> places]
    BY DEF Page
  <2>2. ASSUME NEW a \in Page, NEW b \in Page, at[a] = at[b] PROVE a = b
    BY <2>2, PositionsDiffer DEF Page
  <2>3. QED
    BY <2>1, <2>2 DEF Injection, IsInjective
<1>5. Cardinality(Page) <= Cardinality(places)
  BY <1>3, <1>4, FS_Injection
<1>6. QED
  BY <1>1, <1>3, <1>5, FS_CardinalityType

\* What is added to the result moves rows down, if at all.
LEMMA PositionsGrow ==
    ASSUME Matching \subseteq Matching', NEW i \in Matching
    PROVE  Position(i) <= Position(i)'
<1>1. Above(i) \in SUBSET Above(i)'
  BY DEF Above, Before
<1>2. IsFiniteSet(Above(i)')
  BY ListingAssumption, FS_Subset DEF Above, Matching
<1>3. Cardinality(Above(i)) <= Cardinality(Above(i)')
  BY <1>1, <1>2, FS_Subset
<1>4. QED
  BY <1>3 DEF Position, Above

-----------------------------------------------------------------------------
\* Everything is still missing, and nothing lies above the first page.
LEMMA InitListingInv == Init => ListingInv
<1> SUFFICES ASSUME Init PROVE ListingInv
  OBVIOUS
<1>1. ListingTypeOK /\ steady = Matching /\ step = "list" /\ offset = 0
  BY DEF Init, ListingTypeOK
<1>2. \A i \in Missing : Position(i) >= offset
  BY <1>1, PositionBound DEF Missing
<1>3. QED
  BY <1>1, <1>2 DEF ListingInv

\* A commit of another session moves what is missing down at most.
LEMMA ChangeKeepsListingInv ==
    ASSUME ListingInv, NEW i \in Invoices, Accept(i) \/ Settle(i)
    PROVE  ListingInv'
<1>1. PICK from, to \in {"absent", "pending", "processed", "duplicate"} :
          Change(i, from, to)
  BY DEF Accept, Settle
<1>2. /\ UNCHANGED <<filter, step, offset, listed, received>>
      /\ status' = [status EXCEPT ![i] = to]
      /\ steady' = steady \cap Matching'
      /\ departed' = (departed \/ ~(Matching \subseteq Matching'))
  BY <1>1 DEF Change
<1>3. ListingTypeOK' /\ steady' \subseteq Matching'
  BY <1>2 DEF ListingInv, ListingTypeOK
<1>4. ASSUME ~departed'
      PROVE  /\ ~departed /\ Missing' = Missing
             /\ \A m \in Missing : /\ Position(m) \in Nat /\ Position(m)' \in Nat
                                   /\ Position(m) <= Position(m)'
  <2>1. ~departed /\ Matching \subseteq Matching' /\ steady \subseteq Matching
    BY <1>2, <1>4 DEF ListingInv, ListingTypeOK
  <2>2. Missing' = Missing
    BY <1>2, <2>1 DEF Missing
  <2>3. ASSUME NEW m \in Missing
        PROVE  /\ Position(m) \in Nat /\ Position(m)' \in Nat
               /\ Position(m) <= Position(m)'
    <3>1. m \in Matching /\ m \in Matching'
      BY <2>1 DEF Missing
    <3>2. Position(m) \in Nat /\ Position(m) <= Position(m)'
      BY <2>1, <3>1, PositionBound, PositionsGrow
    <3>3. IsFiniteSet(Above(m)')
      BY ListingAssumption, FS_Subset DEF Above, Matching
    <3>4. Position(m)' \in Nat
      BY <3>3, FS_CardinalityType DEF Position, Above
    <3>5. QED
      BY <3>2, <3>4
  <2>4. QED
    BY <2>1, <2>2, <2>3
<1>5. offset \in Nat /\ Limit \in Nat
  BY ListingAssumption DEF ListingInv, ListingTypeOK
<1>6. ASSUME ~departed', step' = "list", NEW m \in Missing'
      PROVE  Position(m)' >= offset'
  BY <1>2, <1>4, <1>5, <1>6 DEF ListingInv
<1>7. ASSUME ~departed', step' = "count", NEW m \in Missing'
      PROVE  Position(m)' >= offset' + Limit
  BY <1>2, <1>4, <1>5, <1>7 DEF ListingInv
<1>8. ASSUME ~departed', step' = "done" PROVE Missing' = {}
  BY <1>2, <1>4, <1>8 DEF ListingInv
<1>9. step' = "count" => listed' <= Limit
  BY <1>2 DEF ListingInv
<1>10. QED
  BY <1>3, <1>6, <1>7, <1>8, <1>9 DEF ListingInv

\* The page takes exactly what is missing up to its end.
LEMMA ListKeepsListingInv ==
    ASSUME ListingInv, List
    PROVE  ListingInv'
<1>1. /\ step = "list" /\ step' = "count" /\ offset \in Nat /\ Limit \in Nat
      /\ listed' = Cardinality(Page) /\ received' = received \cup Page
      /\ UNCHANGED <<status, filter, offset, steady, departed>>
  BY ListingAssumption DEF List, ListingInv, ListingTypeOK
<1>2. listed' \in Nat /\ listed' <= Limit
  BY <1>1, PageBound
<1>3. /\ Matching' = Matching
      /\ \A m : Position(m)' = Position(m)
  BY <1>1 DEF Matching, Position, Before
<1>4. ASSUME ~departed', NEW m \in Missing'
      PROVE  Position(m)' >= offset' + Limit
  <2>1. m \in Missing /\ m \notin Page /\ m \in Matching
    BY <1>1, <1>4 DEF Missing, ListingInv
  <2>2. Position(m) \in Nat /\ Position(m) >= offset
    BY <1>1, <1>4, <2>1, PositionBound DEF ListingInv
  <2>3. Position(m) \notin offset .. offset + Limit - 1
    BY <2>1 DEF Page
  <2>4. QED
    BY <1>1, <1>3, <2>2, <2>3
<1>5. QED
  BY <1>1, <1>2, <1>3, <1>4 DEF ListingInv, ListingTypeOK

\* Something below the page makes the total exceed what has been listed.
LEMMA CountKeepsListingInv ==
    ASSUME ListingInv, Count
    PROVE  ListingInv'
<1>1. /\ step = "count" /\ offset \in Nat /\ Limit \in Nat
      /\ listed \in Nat /\ listed <= Limit
      /\ UNCHANGED <<status, filter, listed, received, steady, departed>>
      /\ IF offset + listed < CountByUser
         THEN step' = "list" /\ offset' = offset + Limit
         ELSE step' = "done" /\ offset' = offset
  BY ListingAssumption DEF Count, ListingInv, ListingTypeOK
<1>2. /\ Matching' = Matching /\ Missing' = Missing
      /\ \A m : Position(m)' = Position(m)
  BY <1>1 DEF Matching, Missing, Position, Before
<1>3. ASSUME ~departed, NEW m \in Missing
      PROVE  /\ Position(m) >= offset + Limit
             /\ offset + listed < CountByUser
  <2>1. m \in Matching /\ Position(m) >= offset + Limit
    BY <1>1, <1>3 DEF ListingInv, Missing
  <2>2. /\ Position(m) \in Nat /\ CountByUser \in Nat
        /\ Position(m) < CountByUser
    BY <2>1, PositionBound DEF CountByUser
  <2>3. QED
    BY <1>1, <2>1, <2>2
<1>4. CASE offset + listed < CountByUser
  BY <1>1, <1>2, <1>3, <1>4 DEF ListingInv, ListingTypeOK
<1>5. CASE ~(offset + listed < CountByUser)
  BY <1>1, <1>2, <1>3, <1>5 DEF ListingInv, ListingTypeOK
<1>6. QED
  BY <1>4, <1>5

\* Neither the client nor the table loses what is still to come.
LEMMA NextListingInv == ListingInv /\ [Next]_vars => ListingInv'
<1> SUFFICES ASSUME ListingInv, [Next]_vars PROVE ListingInv'
  OBVIOUS
<1>1. CASE UNCHANGED vars
  BY <1>1 DEF vars, ListingInv, ListingTypeOK, Matching, Missing, Position, Before
<1>2. CASE List
  BY <1>2, ListKeepsListingInv
<1>3. CASE Count
  BY <1>3, CountKeepsListingInv
<1>4. ASSUME NEW i \in Invoices, Accept(i) \/ Settle(i) PROVE ListingInv'
  BY <1>4, ChangeKeepsListingInv
<1>5. QED
  BY <1>1, <1>2, <1>3, <1>4 DEF Next

\* For every table, every page size and every order in which uploads and
\* results are committed, a client that follows has_more to its end has got
\* each invoice that matched from the beginning, unless one left the filter.
THEOREM FollowingHasMoreSuffices == Spec => []NothingSkipped
<1>1. ListingInv => NothingSkipped
  BY DEF ListingInv, NothingSkipped, Missing
<1>2. QED
  BY <1>1, InitListingInv, NextListingInv, PTL DEF Spec
=============================================================================
