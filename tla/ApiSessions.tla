----------------------------- MODULE ApiSessions -----------------------------
(***************************************************************************)
(* Uploads and runs of process_invoice side by side, and what they share:  *)
(* the connections of an API process, which a handler keeps from its first *)
(* statement to the end of its session, OCR and model calls included; the  *)
(* row lock of an invoice; and the stored file, which a run reads while an *)
(* upload of the same document may be writing it again.                    *)
(*                                                                         *)
(*   idle -> connect -> lock -> open -> read -> commit -> done | failed    *)
(*                                                                         *)
(* The uploads are those of InvoiceUpload.  A worker's run has an engine   *)
(* and a connection of its own; its retries are those of InvoicePipeline.  *)
(***************************************************************************)
EXTENDS InvoiceUpload, FiniteSets

CONSTANTS
    Requests,   \* calls of POST /invoices/{id}/process
    Slots,      \* runs of the task process_invoice
    Target,     \* Target[r]: the invoice a run works on
    Servers,    \* API processes
    Server,     \* Server[x]: the process that serves an upload or a request
    PoolSize    \* pool_size + max_overflow

Runs == Requests \cup Slots

ASSUME SessionsAssumption ==
    /\ Requests \cap Slots = {} /\ Runs \cap Uploads = {}
    /\ Target \in [Runs -> Uploads]
    /\ Server \in [Requests \cup Uploads -> Servers]
    /\ PoolSize \in Nat \ {0}

VARIABLES
    run,   \* where each run is
    saw    \* what it has read of its file: nothing, whole or torn

sessionVars == <<vars, run, saw>>

Steps == {"idle", "connect", "lock", "open", "read", "commit", "done", "failed"}

SessionsTypeOK ==
    /\ run \in [Runs -> Steps]
    /\ saw \in [Runs -> {"nothing", "whole", "torn"}]

SessionsInit ==
    /\ Init
    /\ run = [r \in Runs |-> "idle"]
    /\ saw = [r \in Runs |-> "nothing"]

-----------------------------------------------------------------------------
\* The connections that are checked out of a process's pool.
Using(s) ==
    {i \in Uploads : Server[i] = s /\ at[i] \in Working \ {"select"}}
        \cup {r \in Requests : /\ Server[r] = s
                               /\ run[r] \in {"lock", "open", "read", "commit"}}

Free(s) == Cardinality(Using(s)) < PoolSize

Locked(i) == \E r \in Runs : Target[r] = i /\ run[r] \in {"open", "read", "commit"}

\* What truncates a file tears every reading of it that is in progress.
Tear(i) ==
    saw' = [r \in Runs |->
               IF run[r] = "read" /\ Path[Target[r]] = Path[i] THEN "torn"
                                                               ELSE saw[r]]

\* A step of an upload; its first statement needs a connection.
Connects(i) == SelectUser(i) /\ Free(Server[i]) /\ UNCHANGED <<run, saw>>
Inserts(i) == InsertUser(i) /\ UNCHANGED <<run, saw>>
Truncates(i) == OpenFile(i) /\ Tear(i) /\ UNCHANGED run
Advances(i) ==
    /\ \/ WriteFile(i) \/ CreateInvoice(i) \/ Enqueue(i) \/ Commit(i)
    /\ UNCHANGED <<run, saw>>

UploadEvent(i) == (Receive(i) \/ Fail(i) \/ Die(i)) /\ UNCHANGED <<run, saw>>

-----------------------------------------------------------------------------
Move(r, from, to) == run[r] = from /\ run' = [run EXCEPT ![r] = to]

\* A request for an invoice may come at any time, also before its commit; a
\* task starts when its message is there.
Start(r) ==
    /\ r \in Slots => Target[r] \in tasks
    /\ Move(r, "idle", "connect")
    /\ UNCHANGED <<vars, saw>>

\* The row is not looked for.
BadLoad(r) ==
    /\ r \in Requests => Free(Server[r])
    /\ Move(r, "connect", "lock")
    /\ UNCHANGED <<vars, saw>>

\* get_by_id on a connection from the pool: NotFoundError until the upload
\* has committed.
Load(r) ==
    /\ r \in Requests => Free(Server[r])
    /\ Move(r, "connect", IF Target[r] \in invoices THEN "lock" ELSE "failed")
    /\ UNCHANGED <<vars, saw>>

\* update_status waits for the other transactions on the row.
Lock(r) ==
    /\ ~Locked(Target[r])
    /\ Move(r, "lock", "open")
    /\ UNCHANGED <<vars, saw>>

\* OCR, and the request with the image, open the file one after the other.
OpenToRead(r) ==
    /\ Move(r, "open", "read")
    /\ saw' = [saw EXCEPT ![r] =
                  IF content[Path[Target[r]]] = "whole" THEN "whole" ELSE "torn"]
    /\ UNCHANGED vars

\* The duplicate check has a session of its own.
BadExtracted(r) ==
    /\ r \in Requests => Free(Server[r])
    /\ Move(r, "read", "commit")
    /\ UNCHANGED <<vars, saw>>

\* The reading and the model calls end well; of a torn file something may
\* have been read.
Extracted(r) ==
    /\ Move(r, "read", "commit")
    /\ UNCHANGED <<vars, saw>>

\* A torn file raises OCRError, or the model refuses it; the FAILED mark is
\* written on the same connection and rolled back.
ExtractionFails(r) ==
    /\ saw[r] = "torn"
    /\ Move(r, "read", "failed")
    /\ UNCHANGED <<vars, saw>>

CommitRun(r) == Move(r, "commit", "done") /\ UNCHANGED <<vars, saw>>

\* The pool's TimeoutError, a commit that fails, or the death of the process.
RunBreaks(r) ==
    /\ \/ r \in Requests /\ "pool" \in Faults /\ run[r] = "connect"
       \/ "commit" \in Faults /\ run[r] = "commit"
       \/ "api" \in Faults /\ run[r] \notin {"idle", "done", "failed"}
    /\ run' = [run EXCEPT ![r] = "failed"]
    /\ UNCHANGED <<vars, saw>>

-----------------------------------------------------------------------------
Handle(i) == Connects(i) \/ Inserts(i) \/ Truncates(i) \/ Advances(i)

Process(r) ==
    \/ Load(r) \/ Lock(r) \/ OpenToRead(r)
    \/ Extracted(r) \/ ExtractionFails(r) \/ CommitRun(r)

SessionsNext ==
    \/ \E i \in Uploads : UploadEvent(i) \/ Handle(i)
    \/ \E r \in Runs : Start(r) \/ Process(r) \/ RunBreaks(r)

SessionsSpec == SessionsInit /\ [][SessionsNext]_sessionVars

\* Handlers go on, and the pool and PostgreSQL serve those who wait for a
\* connection, a row lock or another's insert in order: whoever can go on
\* again and again does.  Nothing has to time out, to fail or to arrive.
SessionsFairSpec ==
    /\ SessionsSpec
    /\ \A i \in Allowed : SF_sessionVars(Handle(i))
    /\ \A r \in Runs : SF_sessionVars(Process(r))

-----------------------------------------------------------------------------
\* A run reads a torn file only if another upload of the same document is
\* writing it again at that moment, or its process has died in doing so:
\* never because the run was faster than the upload it belongs to.
TornByAnother ==
    [][\A r \in Runs : saw[r] # "torn" /\ saw'[r] = "torn" =>
          \E j \in Uploads \ {Target[r]} :
             /\ Path[j] = Path[Target[r]]
             /\ \/ at'[j] = "write"
                \/ at'[j] = "lost" /\ content[Path[j]] = j]_sessionVars

\* Everyone who waits for a connection gets one, although those who have one
\* wait for row locks and for users rows of others: every run that starts
\* ends, and no timeout is needed for that.
RunsEnd ==
    \A r \in Runs : run[r] = "connect" ~> run[r] \in {"done", "failed"}
=============================================================================
