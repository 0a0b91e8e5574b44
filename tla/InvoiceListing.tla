--------------------------- MODULE InvoiceListing ---------------------------
(***************************************************************************)
(* GET /invoices, page after page, while invoices are uploaded and         *)
(* processed.  Each request reads its page and the total with two          *)
(* statements of one READ COMMITTED transaction, so that the table can     *)
(* change between the two and between two pages.                           *)
(*                                                                         *)
(* The client is external: it asks for the next offset while has_more.     *)
(***************************************************************************)
EXTENDS Integers, FiniteSets

CONSTANTS
    Invoices,    \* the invoices of one user
    CreatedAt,   \* created_at: the start of the uploading transaction
    Limit        \* page size

\* Transactions of one user start at different microseconds; an invoice can
\* be committed before one that was created earlier.
ASSUME ListingAssumption ==
    /\ IsFiniteSet(Invoices)
    /\ CreatedAt \in [Invoices -> Int]
    /\ \A i, j \in Invoices : CreatedAt[i] = CreatedAt[j] => i = j
    /\ Limit \in Nat \ {0}

VARIABLES
    status,     \* committed status of each invoice, "absent" before
    filter,     \* the client's status filter, or "any"
    step,       \* the request's next statement, or "done"
    offset,
    listed,     \* number of rows on the current page
    received,   \* invoices the client has got
    steady,     \* invoices that have matched since the first request
    departed    \* whether any invoice has ceased to match since then

vars == <<status, filter, step, offset, listed, received, steady, departed>>

Matching == {i \in Invoices :
                IF filter = "any" THEN status[i] # "absent"
                                  ELSE status[i] = filter}

\* What is processed comes first.
BadBefore(a, b) ==
    \/ status[a] = "processed" /\ status[b] # "processed"
    \/ /\ status[a] = "processed" <=> status[b] = "processed"
       /\ CreatedAt[a] > CreatedAt[b]

\* order_by(created_at.desc())
Before(a, b) == CreatedAt[a] > CreatedAt[b]

\* How many rows of the ordered result come before this one.
Position(i) == Cardinality({j \in Matching : Before(j, i)})

\* list_by_user: limit(limit).offset(offset).  The response's order is left
\* out: no property is about it.
Page == {i \in Matching : Position(i) \in offset .. offset + Limit - 1}

-----------------------------------------------------------------------------
Init ==
    /\ status \in [Invoices -> {"absent", "pending", "processed", "duplicate"}]
    /\ filter \in {"any", "pending", "processed"}
    /\ step = "list" /\ offset = 0 /\ listed = 0
    /\ received = {}
    /\ steady = Matching
    /\ departed = FALSE

\* Other requests and the workers change the table.
Change(i, from, to) ==
    /\ status[i] = from
    /\ UNCHANGED <<filter, step, offset, listed, received>>
    /\ status' = [status EXCEPT ![i] = to]
    /\ steady' = steady \cap Matching'
    /\ departed' = (departed \/ ~(Matching \subseteq Matching'))

\* CommitUpload and Commit of InvoicePipeline.
Accept(i) == Change(i, "absent", "pending")

Settle(i) == \E from \in {"pending", "processed", "duplicate"},
                to \in {"processed", "duplicate"} : Change(i, from, to)

List ==
    /\ step = "list"
    /\ listed' = Cardinality(Page)
    /\ received' = received \cup Page
    /\ step' = "count"
    /\ UNCHANGED <<status, filter, offset, steady, departed>>

CountByUser == Cardinality(Matching)

\* has_more = offset + len(invoices) < total
Count ==
    /\ step = "count"
    /\ IF offset + listed < CountByUser
       THEN step' = "list" /\ offset' = offset + Limit
       ELSE step' = "done" /\ UNCHANGED offset
    /\ UNCHANGED <<status, filter, listed, received, steady, departed>>

Next == List \/ Count \/ \E i \in Invoices : Accept(i) \/ Settle(i)

Spec == Init /\ [][Next]_vars
-----------------------------------------------------------------------------
\* A client that follows has_more gets every invoice that was there when it
\* began, whatever is uploaded meanwhile and however the commits are ordered.
\* Only an invoice that leaves the filter can make it miss another one.
NothingSkipped == step = "done" /\ ~departed => steady \subseteq received
=============================================================================
