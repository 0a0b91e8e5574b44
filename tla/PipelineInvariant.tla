-------------------------- MODULE PipelineInvariant --------------------------
(***************************************************************************)
(* The inductive invariant of the invoice pipeline: what must be true of   *)
(* the processes' drafts, of the uploads and of the messages for the       *)
(* safety properties to hold after every step.                             *)
(***************************************************************************)
EXTENDS PipelineProperties

Holding(p) == draft[p].status # "absent"

\* Where a process is determines what it may have written, and on whose
\* behalf.
ProgramInv ==
    \A p \in Processes :
        /\ pc[p] = "lock" => /\ rows[job[p].invoice].status # "absent"
                             /\ job[p].user = Owner[job[p].invoice]
        /\ pc[p] = "extract" => draft[p].status = "processing"
        /\ pc[p] = "check" => draft[p].status = "processed"
        /\ pc[p] = "commit" => draft[p].status \in {"processed", "duplicate"}
        /\ Holding(p) => pc[p] \in {"extract", "check", "commit", "undo"}

\* An uncommitted version is one of a committed row, by its owner, and it may
\* replace that row: it carries the row's duplicate_of or a better one.
PointsTo(i, o) ==
    o # None => o # i /\ Owner[o] = Owner[i] /\ Settled(o)

DraftInv ==
    \A p \in Processes : Holding(p) =>
        /\ rows[job[p].invoice].status # "absent"
        /\ job[p].user = Owner[job[p].invoice]
        /\ draft[p].status = "duplicate" => draft[p].original # None
        /\ draft[p].status # "duplicate" =>
              draft[p].original = rows[job[p].invoice].original
        /\ PointsTo(job[p].invoice, draft[p].original)

\* The row lock admits one uncommitted version of a row.
LockInv ==
    \A p, q \in Processes :
        (Holding(p) /\ Holding(q) /\ job[p].invoice = job[q].invoice) => p = q

\* A row exists exactly when its upload has committed.
UploadInv ==
    \A i \in Invoices : rows[i].status # "absent" <=> upload[i] = "committed"

\* A row shows nothing of an extraction before it is settled.
BlankInv ==
    \A i \in Invoices :
        ~Settled(i) => rows[i].fields = NoFields /\ rows[i].original = None

RowInv ==
    ProgramInv /\ DraftInv /\ LockInv /\ UploadInv
        /\ BlankInv /\ OriginalIsSettled

\* Without statement errors inside the duplicate check no transaction is
\* aborted behind the code's back, and success means what it says.
SuccessInv == "statement" \notin Faults => broken = {} /\ SuccessIsVisible

\* self.retry is reached with an attempt left.
RetryInv == \A w \in Workers : pc[w] = "retry" => job[w].tries < MaxRetries

\* Once its task is enqueued, an invoice that is not settled has a message, or
\* a worker that has neither finished nor handed over to the next attempt, or
\* its task ended for good.
Working(w, i) == pc[w] \notin {"idle", "done", "release"} /\ job[w].invoice = i

Carried(i) ==
    \/ Settled(i)
    \/ i \in gaveUp
    \/ \E r \in Retries : queue[i][r] > 0
    \/ \E w \in Workers : Working(w, i)

TaskInv ==
    Faults \cap {"statement", "republish", "evict"} = {} =>
        \A i \in Invoices :
            upload[i] \in {"enqueued", "committed"} => Carried(i)

\* What a run is about to commit is one reading of its file, and what it is
\* about to return.
ReadingInv ==
    /\ RowIsOneReading
    /\ \A p \in Processes : pc[p] \in {"check", "commit"} =>
          /\ draft[p].fields \in Reads[job[p].invoice]
          /\ reply[p].fields = draft[p].fields
          /\ reply[p].status = "processed"

PipelineInv == TypeOK /\ RowInv /\ SuccessInv /\ RetryInv /\ TaskInv
=============================================================================
