-------------------------- MODULE InvoicePipeline --------------------------
(***************************************************************************)
(* The life of an invoice from upload to its extracted row: the upload     *)
(* endpoint, the Celery task process_invoice, the synchronous endpoint     *)
(* POST /invoices/{id}/process, the broker between them and the rows of    *)
(* the invoices table.                                                     *)
(*                                                                         *)
(* A process is a worker slot or a request.  Each runs                     *)
(* InvoiceService.process_invoice inside ONE transaction that is committed *)
(* by the task (celery_tasks.py) or by get_db_session, so the row it       *)
(* writes is a private draft until Commit:                                 *)
(*                                                                         *)
(*    idle -> load -> lock -> extract -> check -> commit -> done -> idle   *)
(*                                                                         *)
(* and any exception leads to undo (the session closes without commit),    *)
(* where a worker goes on to retry and release its message.                *)
(***************************************************************************)
EXTENDS DuplicateScoring, FiniteSetsExt

CONSTANTS
    Invoices,        \* invoice ids
    Users,           \* user ids
    Owner,           \* Owner[i]: the user who uploads invoice i
    Reads,           \* Reads[i]: what OCR and LLM may return for i's file
    Workers,         \* execution slots of the Celery workers
    Requests,        \* slots for concurrent POST /invoices/{id}/process calls
    MaxRetries,      \* max_retries of the task
    CandidateLimit,  \* .limit(20) of find_potential_duplicates
    MaxCrashes,      \* bound on worker deaths
    Faults           \* the faults the environment may inject

KnownFaults == { "api",         \* the API process dies, or the broker or the
                                \* commit fails an upload
                 "slow_upload", \* an upload commits later than a retry delay
                 "extract",     \* OCR, an LLM call or its parsing raises
                 "check",       \* the duplicate check raises in Python
                 "statement",   \* ... and so does one of its SQL statements
                 "commit",      \* COMMIT fails
                 "commit_ack",  \* COMMIT succeeds and its answer is lost
                 "time_limit",  \* the task reaches its hard time limit
                 "republish",   \* the broker refuses the next attempt
                 "evict" }      \* Redis evicts the queue (allkeys-lru)

ASSUME PipelineAssumption ==
    /\ Owner \in [Invoices -> Users]
    /\ Reads \in [Invoices -> SUBSET Fields]
    /\ None \notin Invoices /\ None \notin Users
    /\ Workers \cap Requests = {}
    /\ MaxRetries \in Nat
    /\ CandidateLimit \in Nat \ {0}
    /\ MaxCrashes \in Nat
    /\ Faults \subseteq KnownFaults

VARIABLES
    upload,   \* progress of each upload request
    rows,     \* committed rows of the invoices table
    queue,    \* queue[i][r]: broker messages for invoice i on their r-th retry
    pc,       \* where each process is
    job,      \* the invoice, user and retry count a process works on
    draft,    \* the process's uncommitted version of the row
    broken,   \* processes whose transaction PostgreSQL has aborted
    reply,    \* the entity process_invoice returns
    gaveUp,   \* invoices of which the last attempt ended without a commit
    crashes   \* worker deaths so far

vars == <<upload, rows, queue, pc, job, draft, broken, reply, gaveUp, crashes>>

Processes == Workers \cup Requests
Retries == 0 .. MaxRetries

-----------------------------------------------------------------------------
(***************************************************************************)
(* Rows, and the repository's operations on them.  The three key fields    *)
(* stand for all the columns update_extracted_data writes.                 *)
(***************************************************************************)
InvoiceStatus == {"pending", "processing", "processed", "failed", "duplicate"}

Row == [ status : InvoiceStatus \cup {"absent"},
         fields : Fields,
         original : Invoices \cup {None} ]

NoRow == [status |-> "absent", fields |-> NoFields, original |-> None]
NewRow == [NoRow EXCEPT !.status = "pending"]

\* Faulty variants of a definition stand before it, named Bad...; no
\* specification uses them.  The one below forgets the owner's condition.
BadGetById(i, user) == rows[i]

\* get_by_id: NoRow stands for the NotFoundError.
GetById(i, user) == IF Owner[i] = user THEN rows[i] ELSE NoRow

UpdateStatus(row, status) == [row EXCEPT !.status = status]

\* A value that the new reading misses is kept.
BadUpdateExtractedData(row, data) ==
    [row EXCEPT
        !.status = "processed",
        !.fields = [f \in DOMAIN data |->
                       IF data[f] = None THEN row.fields[f] ELSE data[f]]]

\* The row is selected again under the row lock (the identity map is weak and
\* get_by_id's instance is gone), and every extracted column is assigned.
UpdateExtractedData(row, data) ==
    [row EXCEPT !.status = "processed", !.fields = data]

\* The status is forgotten.
BadMarkDuplicate(row, original) == [row EXCEPT !.original = original]

MarkDuplicate(row, original) ==
    [row EXCEPT !.status = "duplicate", !.original = original]

\* exclude_id is not passed; the user's condition is missing.
BadCandidatesSelf(i, user, fields) ==
    {c \in Invoices : /\ rows[c].status # "absent"
                      /\ Owner[c] = user
                      /\ Potential(fields, rows[c].fields)}

BadCandidatesOwner(i, user, fields) ==
    {c \in Invoices \ {i} : /\ rows[c].status # "absent"
                            /\ Potential(fields, rows[c].fields)}

\* Other sessions' drafts are invisible (READ COMMITTED), whatever their
\* status; LIMIT without ORDER BY may return any CandidateLimit of them.
Candidates(i, user, fields) ==
    {c \in Invoices \ {i} : /\ rows[c].status # "absent"
                            /\ Owner[c] = user
                            /\ Potential(fields, rows[c].fields)}

FindPotentialDuplicates(i, user, fields) ==
    LET all == Candidates(i, user, fields)
    IN  IF Cardinality(all) <= CandidateLimit
        THEN {all} ELSE kSubset(CandidateLimit, all)

Steps == {"idle", "load", "lock", "extract", "check", "commit", "done",
          "undo", "retry", "release"}

Job == [ invoice : Invoices \cup {None},
         user : Users \cup {None},
         tries : Retries ]

NoJob == [invoice |-> None, user |-> None, tries |-> 0]

\* No row lock.
BadLocks(p, i) == FALSE

\* update_status(PROCESSING) locks the row until the transaction ends.
Locks(p, i) == draft[p].status # "absent" /\ job[p].invoice = i

-----------------------------------------------------------------------------
TypeOK ==
    /\ upload \in [Invoices -> {"none", "flushed", "enqueued", "committed",
                                "aborted"}]
    /\ rows \in [Invoices -> Row]
    /\ queue \in [Invoices -> [Retries -> Nat]]
    /\ pc \in [Processes -> Steps]
    /\ job \in [Processes -> Job]
    /\ \A p \in Processes : pc[p] # "idle" => job[p].invoice \in Invoices
    /\ draft \in [Processes -> Row]
    /\ broken \subseteq Processes
    /\ reply \in [Processes -> Row]
    /\ gaveUp \subseteq Invoices
    /\ crashes \in 0 .. MaxCrashes

Init ==
    /\ upload = [i \in Invoices |-> "none"]
    /\ rows = [i \in Invoices |-> NoRow]
    /\ queue = [i \in Invoices |-> [r \in Retries |-> 0]]
    /\ pc = [p \in Processes |-> "idle"]
    /\ job = [p \in Processes |-> NoJob]
    /\ draft = [p \in Processes |-> NoRow]
    /\ broken = {}
    /\ reply = [p \in Processes |-> NoRow]
    /\ gaveUp = {}
    /\ crashes = 0

-----------------------------------------------------------------------------
(***************************************************************************)
(* POST /invoices/upload.  The row is flushed, then the task is enqueued,  *)
(* and get_db_session commits only after the endpoint has returned.        *)
(***************************************************************************)
session == <<pc, job, draft, broken, reply>>

BeginUpload(i) ==
    /\ upload[i] = "none"
    /\ upload' = [upload EXCEPT ![i] = "flushed"]
    /\ UNCHANGED <<rows, queue, session, gaveUp, crashes>>

Enqueue(i) ==
    /\ upload[i] = "flushed"
    /\ upload' = [upload EXCEPT ![i] = "enqueued"]
    /\ queue' = [queue EXCEPT ![i][0] = @ + 1]
    /\ UNCHANGED <<rows, session, gaveUp, crashes>>

CommitUpload(i) ==
    /\ upload[i] = "enqueued"
    /\ upload' = [upload EXCEPT ![i] = "committed"]
    /\ rows' = [rows EXCEPT ![i] = NewRow]
    /\ UNCHANGED <<queue, session, gaveUp, crashes>>

\* .delay() raises, the commit raises, or the API process dies: the INSERT is
\* rolled back, and a task already enqueued stays in the broker.
AbortUpload(i) ==
    /\ "api" \in Faults
    /\ upload[i] \in {"flushed", "enqueued"}
    /\ upload' = [upload EXCEPT ![i] = "aborted"]
    /\ UNCHANGED <<rows, queue, session, gaveUp, crashes>>

-----------------------------------------------------------------------------
(***************************************************************************)
(* process_invoice, from the message or the request to the commit.         *)
(***************************************************************************)

\* A message of a first attempt can arrive before the upload commits.  One of
\* a retry is at least default_retry_delay = 30 s old, by when the request has
\* ended, unless "slow_upload" lifts that assumption.
Deliver(w, i, r) ==
    /\ pc[w] = "idle"
    /\ queue[i][r] > 0
    /\ r > 0 /\ upload[i] = "enqueued" => "slow_upload" \in Faults
    /\ queue' = [queue EXCEPT ![i][r] = @ - 1]
    /\ pc' = [pc EXCEPT ![w] = "load"]
    /\ job' = [job EXCEPT ![w] =
                  [invoice |-> i, user |-> Owner[i], tries |-> r]]
    /\ UNCHANGED <<upload, rows, draft, broken, reply, gaveUp, crashes>>

\* POST /invoices/{id}/process, by any user for any invoice id.
Submit(q, i, user) ==
    /\ pc[q] = "idle"
    /\ pc' = [pc EXCEPT ![q] = "load"]
    /\ job' = [job EXCEPT ![q] = [invoice |-> i, user |-> user, tries |-> 0]]
    /\ UNCHANGED <<upload, rows, queue, draft, broken, reply, gaveUp, crashes>>

Load(p) ==
    /\ pc[p] = "load"
    /\ LET row == GetById(job[p].invoice, job[p].user)
       IN  pc' = [pc EXCEPT ![p] =
                     IF row.status = "absent" THEN "undo" ELSE "lock"]
    /\ UNCHANGED <<upload, rows, queue, job, draft, broken, reply, gaveUp,
                   crashes>>

Lock(p) ==
    /\ pc[p] = "lock"
    /\ \A other \in Processes \ {p} : ~Locks(other, job[p].invoice)
    /\ pc' = [pc EXCEPT ![p] = "extract"]
    /\ draft' = [draft EXCEPT ![p] =
                    UpdateStatus(rows[job[p].invoice], "processing")]
    /\ UNCHANGED <<upload, rows, queue, job, broken, reply, gaveUp, crashes>>

\* The entity that get_by_id has returned is returned.
BadExtract(p) ==
    /\ pc[p] = "extract"
    /\ \E data \in Reads[job[p].invoice] :
          draft' = [draft EXCEPT ![p] = UpdateExtractedData(draft[p], data)]
    /\ reply' = [reply EXCEPT ![p] = rows[job[p].invoice]]
    /\ pc' = [pc EXCEPT ![p] = "check"]
    /\ UNCHANGED <<upload, rows, queue, job, broken, gaveUp, crashes>>

\* The values are committed before the status.
BadExtractHalf(p) ==
    /\ pc[p] = "extract"
    /\ \E data \in Reads[job[p].invoice] :
          LET row == UpdateExtractedData(draft[p], data)
          IN  /\ draft' = [draft EXCEPT ![p] = row]
              /\ reply' = [reply EXCEPT ![p] = row]
              /\ rows' = [rows EXCEPT ![job[p].invoice].fields = data]
    /\ pc' = [pc EXCEPT ![p] = "check"]
    /\ UNCHANGED <<upload, queue, job, broken, gaveUp, crashes>>

\* The extraction is committed before the duplicate check.
BadExtractCommits(p) ==
    /\ pc[p] = "extract"
    /\ \E data \in Reads[job[p].invoice] :
          LET row == UpdateExtractedData(draft[p], data)
          IN  /\ draft' = [draft EXCEPT ![p] = row]
              /\ reply' = [reply EXCEPT ![p] = row]
              /\ rows' = [rows EXCEPT ![job[p].invoice] = row]
    /\ pc' = [pc EXCEPT ![p] = "check"]
    /\ UNCHANGED <<upload, queue, job, broken, gaveUp, crashes>>

\* OCR, extraction, categorisation and update_extracted_data; the entity that
\* is returned to the caller is built here.
Extract(p) ==
    /\ pc[p] = "extract"
    /\ \E data \in Reads[job[p].invoice] :
          LET row == UpdateExtractedData(draft[p], data)
          IN  /\ draft' = [draft EXCEPT ![p] = row]
              /\ reply' = [reply EXCEPT ![p] = row]
    /\ pc' = [pc EXCEPT ![p] = "check"]
    /\ UNCHANGED <<upload, rows, queue, job, broken, gaveUp, crashes>>

\* The except branch commits FAILED; it does not re-raise.
BadExtractFailsCommits(p) ==
    /\ "extract" \in Faults
    /\ pc[p] = "extract"
    /\ rows' = [rows EXCEPT ![job[p].invoice] =
                    UpdateStatus(draft[p], "failed")]
    /\ draft' = [draft EXCEPT ![p] = NoRow]
    /\ pc' = [pc EXCEPT ![p] = "undo"]
    /\ UNCHANGED <<upload, queue, job, broken, reply, gaveUp, crashes>>

BadExtractFailsReturns(p) ==
    /\ "extract" \in Faults
    /\ pc[p] = "extract"
    /\ draft' = [draft EXCEPT ![p] = UpdateStatus(draft[p], "failed")]
    /\ pc' = [pc EXCEPT ![p] = "commit"]
    /\ UNCHANGED <<upload, rows, queue, job, broken, reply, gaveUp, crashes>>

\* The except branch writes FAILED in the same transaction and re-raises.
ExtractFails(p) ==
    /\ "extract" \in Faults
    /\ pc[p] = "extract"
    /\ draft' = [draft EXCEPT ![p] = UpdateStatus(draft[p], "failed")]
    /\ pc' = [pc EXCEPT ![p] = "undo"]
    /\ UNCHANGED <<upload, rows, queue, job, broken, reply, gaveUp, crashes>>

\* The check is given the invoice read before the extraction.
BadCheckDuplicates(p) ==
    /\ pc[p] = "check"
    /\ LET stale == rows[job[p].invoice].fields
       IN  \E found \in FindPotentialDuplicates(job[p].invoice, job[p].user,
                                                stale) :
              LET exact == {c \in found : IsDuplicate(stale, rows[c].fields)}
              IN  \/ exact = {} /\ UNCHANGED draft
                  \/ \E original \in exact :
                        draft' = [draft EXCEPT ![p] =
                                     MarkDuplicate(draft[p], original)]
    /\ pc' = [pc EXCEPT ![p] = "commit"]
    /\ UNCHANGED <<upload, rows, queue, job, broken, reply, gaveUp, crashes>>

\* _run_duplicate_check.  (_run_anomaly_check follows and writes nothing:
\* _statistical_anomaly never reports an anomaly.)
CheckDuplicates(p) ==
    /\ pc[p] = "check"
    /\ \E found \in FindPotentialDuplicates(job[p].invoice, job[p].user,
                                            draft[p].fields) :
          LET exact == {c \in found :
                           IsDuplicate(draft[p].fields, rows[c].fields)}
          IN  \/ exact = {} /\ UNCHANGED draft
              \/ \E original \in exact :
                    draft' = [draft EXCEPT ![p] =
                                 MarkDuplicate(draft[p], original)]
    /\ pc' = [pc EXCEPT ![p] = "commit"]
    /\ UNCHANGED <<upload, rows, queue, job, broken, reply, gaveUp, crashes>>

\* Its exceptions are logged and dropped.  One raised by the database leaves
\* the surrounding transaction aborted: there is no savepoint.
CheckFails(p) ==
    /\ "check" \in Faults
    /\ pc[p] = "check"
    /\ \/ UNCHANGED broken
       \/ "statement" \in Faults /\ broken' = broken \cup {p}
    /\ pc' = [pc EXCEPT ![p] = "commit"]
    /\ UNCHANGED <<upload, rows, queue, job, draft, reply, gaveUp, crashes>>

\* COMMIT of an aborted transaction is a ROLLBACK that raises nothing.
Commit(p) ==
    /\ pc[p] = "commit"
    /\ rows' = IF p \in broken THEN rows
               ELSE [rows EXCEPT ![job[p].invoice] = draft[p]]
    /\ draft' = [draft EXCEPT ![p] = NoRow]
    /\ broken' = broken \ {p}
    /\ pc' = [pc EXCEPT ![p] = "done"]
    /\ UNCHANGED <<upload, queue, job, reply, gaveUp, crashes>>

\* session.commit() raises: the rows were not written, or they were and the
\* connection broke before the answer.
CommitFails(p) ==
    /\ pc[p] = "commit"
    /\ \/ "commit" \in Faults /\ UNCHANGED rows
       \/ /\ "commit_ack" \in Faults
          /\ rows' = IF p \in broken THEN rows
                     ELSE [rows EXCEPT ![job[p].invoice] = draft[p]]
    /\ draft' = [draft EXCEPT ![p] = NoRow]
    /\ broken' = broken \ {p}
    /\ pc' = [pc EXCEPT ![p] = "undo"]
    /\ UNCHANGED <<upload, queue, job, reply, gaveUp, crashes>>

-----------------------------------------------------------------------------
(***************************************************************************)
(* After the transaction: rollback, retry, acknowledgement and response.   *)
(***************************************************************************)
EndSession(p, where) ==
    /\ pc' = [pc EXCEPT ![p] = where]
    /\ draft' = [draft EXCEPT ![p] = NoRow]
    /\ broken' = broken \ {p}
    /\ reply' = [reply EXCEPT ![p] = NoRow]

Finish(p) ==
    /\ EndSession(p, "idle")
    /\ job' = [job EXCEPT ![p] = NoJob]

\* The session closes without commit, then self.retry decides.
RollbackAndRetry(w) ==
    /\ pc[w] = "undo"
    /\ job[w].tries < MaxRetries
    /\ EndSession(w, "retry")
    /\ UNCHANGED <<upload, rows, queue, job, gaveUp, crashes>>

\* An error is final on the first attempt.
BadRollbackAndGiveUp(w) ==
    /\ pc[w] = "undo"
    /\ EndSession(w, "release")
    /\ gaveUp' = gaveUp \cup {job[w].invoice}
    /\ UNCHANGED <<upload, rows, queue, job, crashes>>

RollbackAndGiveUp(w) ==
    /\ pc[w] = "undo"
    /\ job[w].tries = MaxRetries
    /\ EndSession(w, "release")
    /\ gaveUp' = gaveUp \cup {job[w].invoice}
    /\ UNCHANGED <<upload, rows, queue, job, crashes>>

\* The retry counter is not carried over.
BadRepublish(w) ==
    /\ pc[w] = "retry"
    /\ queue' = [queue EXCEPT ![job[w].invoice][job[w].tries] = @ + 1]
    /\ pc' = [pc EXCEPT ![w] = "release"]
    /\ UNCHANGED <<upload, rows, job, draft, broken, reply, gaveUp, crashes>>

\* self.retry publishes the next attempt before the message is acknowledged.
Republish(w) ==
    /\ pc[w] = "retry"
    /\ queue' = [queue EXCEPT ![job[w].invoice][job[w].tries + 1] = @ + 1]
    /\ pc' = [pc EXCEPT ![w] = "release"]
    /\ UNCHANGED <<upload, rows, job, draft, broken, reply, gaveUp, crashes>>

\* The publish itself raises: Celery rejects the message without requeueing it,
\* and nothing is left of the task.
RepublishFails(w) ==
    /\ "republish" \in Faults
    /\ pc[w] = "retry"
    /\ pc' = [pc EXCEPT ![w] = "release"]
    /\ UNCHANGED <<upload, rows, queue, job, draft, broken, reply, gaveUp,
                   crashes>>

\* task_acks_late, on success, on retry and on final failure.
Acknowledge(w) ==
    /\ pc[w] \in {"done", "release"}
    /\ Finish(w)
    /\ UNCHANGED <<upload, rows, queue, gaveUp, crashes>>

\* A request's answer: the entity on success, an error after a rollback.
Respond(q) ==
    /\ pc[q] \in {"done", "undo"}
    /\ Finish(q)
    /\ UNCHANGED <<upload, rows, queue, gaveUp, crashes>>

\* The API process dies while it serves a request.
Abandon(q) ==
    /\ "api" \in Faults
    /\ pc[q] # "idle"
    /\ Finish(q)
    /\ UNCHANGED <<upload, rows, queue, gaveUp, crashes>>

\* The message was acknowledged when it was delivered.
BadCrash(w) ==
    /\ pc[w] # "idle"
    /\ crashes < MaxCrashes
    /\ crashes' = crashes + 1
    /\ Finish(w)
    /\ UNCHANGED <<upload, rows, queue, gaveUp>>

\* The worker dies: task_reject_on_worker_lost or the broker's visibility
\* timeout returns the message as it was.
Crash(w) ==
    /\ pc[w] # "idle"
    /\ crashes < MaxCrashes
    /\ crashes' = crashes + 1
    /\ queue' = [queue EXCEPT ![job[w].invoice][job[w].tries] = @ + 1]
    /\ Finish(w)
    /\ UNCHANGED <<upload, rows, gaveUp>>

\* time_limit: Celery kills the prefork child and acknowledges the message
\* (acks_on_failure_or_timeout); nothing calls self.retry.
HardTimeLimit(w) ==
    /\ "time_limit" \in Faults
    /\ pc[w] \in {"load", "lock", "extract", "check", "commit", "undo"}
    /\ EndSession(w, "release")
    /\ gaveUp' = gaveUp \cup {job[w].invoice}
    /\ UNCHANGED <<upload, rows, queue, job, crashes>>

\* docker-compose runs Redis with allkeys-lru: the list that holds the queue
\* is a key like any other.
Evict ==
    /\ "evict" \in Faults
    /\ \E i \in Invoices, r \in Retries : queue[i][r] > 0
    /\ queue' = [i \in Invoices |-> [r \in Retries |-> 0]]
    /\ UNCHANGED <<upload, rows, session, gaveUp, crashes>>

-----------------------------------------------------------------------------
Upload(i) == BeginUpload(i) \/ Enqueue(i) \/ CommitUpload(i) \/ AbortUpload(i)

Process(p) ==
    \/ Load(p) \/ Lock(p) \/ Extract(p) \/ ExtractFails(p)
    \/ CheckDuplicates(p) \/ CheckFails(p) \/ Commit(p) \/ CommitFails(p)

Receive(w) == \E i \in Invoices, r \in Retries : Deliver(w, i, r)

Settle(w) ==
    \/ RollbackAndRetry(w) \/ RollbackAndGiveUp(w)
    \/ Republish(w) \/ RepublishFails(w) \/ Acknowledge(w)

Serve(q) ==
    \/ \E i \in Invoices, user \in Users : Submit(q, i, user)
    \/ Respond(q) \/ Abandon(q)

\* Whatever is not a step of a run within its transaction.
Outside ==
    \/ \E i \in Invoices : Upload(i)
    \/ \E w \in Workers :
          Receive(w) \/ Settle(w) \/ Crash(w) \/ HardTimeLimit(w)
    \/ \E q \in Requests : Serve(q)
    \/ Evict

Next == (\E p \in Processes : Process(p)) \/ Outside

Spec == Init /\ [][Next]_vars
=============================================================================
