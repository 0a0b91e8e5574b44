------------------------- MODULE PipelineProperties -------------------------
(***************************************************************************)
(* What the invoice pipeline must never do, what it must eventually do,    *)
(* and what its documentation says it does.                                *)
(***************************************************************************)
EXTENDS InvoicePipeline

Settled(i) == rows[i].status \in {"processed", "duplicate"}

-----------------------------------------------------------------------------
(***************************************************************************)
(* Transactions.                                                           *)
(***************************************************************************)

\* What a run finds reaches the table at once (one commit at
\* celery_tasks.py:87), whatever statuses are shown before: fields change
\* together with a status that announces them, duplicate_of together with the
\* status duplicate, and an invoice becomes settled together with its fields.
ExtractionIsAtomic ==
    [][\A i \in Invoices :
          /\ rows'[i].fields # rows[i].fields => Settled(i)'
          /\ rows'[i].original # rows[i].original =>
                rows'[i].status = "duplicate"
          /\ ~Settled(i) /\ Settled(i)' => rows'[i].fields \in Reads[i]]_vars

\* An invoice that has been extracted stays so, whatever later attempts on it
\* do: a redelivered or repeated run that fails writes FAILED over the
\* status, and its rollback must bring the old row back.
SettledForever == [][\A i \in Invoices : Settled(i) => Settled(i)']_vars

\* A task acknowledged as successful has left its invoice extracted.
SuccessIsVisible ==
    \A p \in Processes : pc[p] = "done" => Settled(job[p].invoice)

-----------------------------------------------------------------------------
(***************************************************************************)
(* At-least-once processing.                                               *)
(***************************************************************************)
Outstanding(i) ==
    \/ \E r \in Retries : queue[i][r] > 0
    \/ \E w \in Workers : pc[w] # "idle" /\ job[w].invoice = i

\* An uploaded invoice is never forgotten: while it is pending there is a
\* message or a worker for it, unless its last attempt has ended, by an error
\* or at the hard time limit.  Enqueue before
\* commit, late acknowledgement, retry before acknowledgement and
\* redelivery after a crash must fit together for that.
NoTaskLost ==
    \A i \in Invoices :
        rows[i].status = "pending" => Outstanding(i) \/ i \in gaveUp

-----------------------------------------------------------------------------
(***************************************************************************)
(* Duplicates.                                                             *)
(***************************************************************************)

\* An invoice marked as a duplicate points to another invoice of the same
\* user, and that invoice has been extracted.
OriginalIsSettled ==
    \A i \in Invoices :
        /\ rows[i].status = "duplicate" => rows[i].original # None
        /\ rows[i].original # None =>
              /\ rows[i].original # i
              /\ Owner[rows[i].original] = Owner[i]
              /\ Settled(rows[i].original)

Duplicates == {i \in Invoices : rows[i].status = "duplicate"}

\* README.md: a duplicate is the duplicate of another invoice.  Following
\* duplicate_of from any duplicate ends at an invoice that is not one, so that
\* every group of copies keeps a member that the monthly summary counts (it
\* sums processed rows only).
OriginalSurvives ==
    \A group \in SUBSET Duplicates :
        group # {} => \E i \in group : rows[i].original \notin group

\* Two processed invoices of one user that match each other.
Twins(i, j) ==
    /\ i # j
    /\ Owner[i] = Owner[j]
    /\ rows[i].status = "processed" /\ rows[j].status = "processed"
    /\ IsDuplicate(rows[i].fields, rows[j].fields)
    /\ IsDuplicate(rows[j].fields, rows[i].fields)

\* README.md: the worker makes the duplicate check, and the second upload of a
\* document is a duplicate.  So of two matching invoices one is marked.
TwinIsMarked == \A i, j \in Invoices : ~Twins(i, j)

-----------------------------------------------------------------------------
(***************************************************************************)
(* Rows and callers.                                                       *)
(***************************************************************************)

\* The fields of a row are those of one reading of its file, never a mixture
\* of two readings by two runs.
RowIsOneReading ==
    \A i \in Invoices : Settled(i) => rows[i].fields \in Reads[i]

\* A row changes by its upload, or by a run on behalf of its owner.
OwnerWrites ==
    [][\A i \in Invoices :
          rows'[i] # rows[i] =>
              \/ upload[i] = "enqueued" /\ upload'[i] = "committed"
              \/ \E p \in Processes :
                    job[p].invoice = i /\ job[p].user = Owner[i]]_vars

\* The reply is built before the duplicate check and the commit; still, the
\* values it shows are those the commit publishes, and all it may miss is the
\* duplicate mark.
ReplyIsCommitted ==
    [][\A p \in Processes \ broken :
          pc[p] = "commit" /\ pc'[p] = "done" =>
              LET row == rows'[job[p].invoice]
              IN  /\ row.fields = reply[p].fields
                  /\ row.status \in {reply[p].status, "duplicate"}]_vars

\* The status a run returns to its caller is the status it has committed.
ReplyMatchesRow ==
    [][\A p \in Processes :
          pc[p] = "commit" /\ pc'[p] = "done" =>
              rows'[job[p].invoice].status = reply[p].status]_vars

\* README.md: pending means that no worker has started yet.
PendingIsNotStarted ==
    \A i \in Invoices :
        rows[i].status = "pending" => \A p \in Processes : ~Locks(p, i)

-----------------------------------------------------------------------------
(***************************************************************************)
(* The promise to clients.                                                 *)
(***************************************************************************)
Lifecycle == INSTANCE InvoiceLifecycle WITH
    Contents <- Fields,
    Blank <- NoFields,
    status <- [i \in Invoices |-> rows[i].status],
    content <- [i \in Invoices |-> rows[i].fields],
    original <- [i \in Invoices |-> rows[i].original]

\* The pipeline implements the abstract life cycle.
ImplementsLifecycle == Lifecycle!Spec

-----------------------------------------------------------------------------
(***************************************************************************)
(* Liveness.  An API handler and a worker keep running (weak fairness).  A *)
(* message in the broker reaches the head of the list and is consumed, and *)
(* PostgreSQL serves a lock queue in order, so both are granted to whoever *)
(* asks again and again (strong fairness).  Uploads need not begin,        *)
(* requests need not come, and no fault is ever owed.                      *)
(***************************************************************************)
Fairness ==
    /\ \A i \in Invoices : WF_vars(Enqueue(i) \/ CommitUpload(i))
    /\ \A i \in Invoices, r \in Retries :
          SF_vars(\E w \in Workers : Deliver(w, i, r))
    /\ \A p \in Processes : WF_vars(Process(p)) /\ SF_vars(Lock(p))
    /\ \A w \in Workers : WF_vars(Settle(w))
    /\ \A q \in Requests : WF_vars(Respond(q))

FairSpec == Spec /\ Fairness

\* Every task comes to an end: retries are bounded, and nobody waits for a
\* row lock for ever.
TasksDrain == \A i \in Invoices : Outstanding(i) ~> ~Outstanding(i)

\* If nothing but worker deaths goes wrong, a committed upload is extracted.
UploadSettles ==
    \A i \in Invoices : upload[i] = "committed" ~> Settled(i)

\* api/v1/endpoints/invoices.py: poll until the status is final.
PollingEnds ==
    \A i \in Invoices :
        rows[i].status = "pending" ~> rows[i].status \notin {"pending", "processing"}
=============================================================================
