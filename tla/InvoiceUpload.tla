---------------------------- MODULE InvoiceUpload ----------------------------
(***************************************************************************)
(* POST /invoices/upload in detail: what several API processes do to the   *)
(* users and invoices tables, to the upload directory and to the broker    *)
(* while they serve uploads at the same time.  InvoicePipeline sees an     *)
(* upload as three steps; this module shows what they consist of, and      *)
(* implements it.                                                          *)
(*                                                                         *)
(*   select -> insert -> open -> write -> create -> enqueue -> commit      *)
(*         \________________/                                              *)
(*                                                                         *)
(* PostgreSQL and the file system are external: a unique index makes the   *)
(* second insert of a key wait for the first one's transaction, and        *)
(* opening a file for writing truncates it.                                *)
(***************************************************************************)
EXTENDS Integers

CONSTANTS
    Uploads,    \* upload requests; each creates one invoice, of the same name
    Users,      \* user ids
    Owner,      \* Owner[i]: the user who sends upload i
    Paths,      \* file names in the upload directory
    Path,       \* Path[i]: <user>/<hash of the content>_<filename>
    Allowed,    \* the uploads that pass _validate_upload
    None,
    Faults      \* a subset of KnownFaults

KnownFaults == {"pool",     \* no connection becomes free in time
                "broker",   \* .delay() raises
                "commit",   \* the session's commit raises
                "api"}      \* the API process dies

\* The directory is per user, and the name is derived from the content.
ASSUME UploadAssumption ==
    /\ Owner \in [Uploads -> Users]
    /\ Path \in [Uploads -> Paths]
    /\ \A i, j \in Uploads : Path[i] = Path[j] => Owner[i] = Owner[j]
    /\ Allowed \subseteq Uploads
    /\ None \notin Uploads /\ None \notin Users
    /\ {"missing", "whole"} \cap Uploads = {}
    /\ Faults \subseteq KnownFaults

VARIABLES
    at,        \* where each request is
    users,     \* committed rows of the users table
    inserting, \* inserting[u]: the request that holds an uncommitted row u
    content,   \* content[f]: missing, whole, or the last to truncate it
    invoices,  \* committed rows of the invoices table
    tasks      \* invoices whose task is in the broker

vars == <<at, users, inserting, content, invoices, tasks>>

Working == {"select", "insert", "open", "write", "create", "enqueue", "commit"}

\* An upload that has flushed its row ends in done or aborted, one that has
\* not in rejected (415, 413), refused (a TimeoutError of the pool), conflict
\* (an IntegrityError) or lost.
Ended == {"done", "aborted", "rejected", "refused", "conflict", "lost"}

TypeOK ==
    /\ at \in [Uploads -> {"none"} \cup Working \cup Ended]
    /\ users \subseteq Users
    /\ inserting \in [Users -> Uploads \cup {None}]
    /\ content \in [Paths -> {"missing", "whole"} \cup Uploads]
    /\ invoices \subseteq Uploads
    /\ tasks \subseteq Uploads

Init ==
    /\ at = [i \in Uploads |-> "none"]
    /\ users = {}
    /\ inserting = [u \in Users |-> None]
    /\ content = [f \in Paths |-> "missing"]
    /\ invoices = {}
    /\ tasks = {}

-----------------------------------------------------------------------------
Go(i, from, to) == at[i] = from /\ at' = [at EXCEPT ![i] = to]

\* The end of a transaction releases the rows it inserted.
BadRelease(i) == UNCHANGED inserting

Release(i) ==
    inserting' = [u \in Users |->
                     IF inserting[u] = i THEN None ELSE inserting[u]]

Receive(i) ==
    /\ Go(i, "none", IF i \in Allowed THEN "select" ELSE "rejected")
    /\ UNCHANGED <<users, inserting, content, invoices, tasks>>

\* get_or_create_user: the SELECT sees committed rows only.
SelectUser(i) ==
    /\ Go(i, "select", IF Owner[i] \in users THEN "open" ELSE "insert")
    /\ UNCHANGED <<users, inserting, content, invoices, tasks>>

\* Its INSERT waits for another uncommitted insert of the same user, and
\* raises an IntegrityError if the row has been committed since the SELECT.
InsertUser(i) ==
    /\ inserting[Owner[i]] = None
    /\ \/ /\ Owner[i] \notin users
          /\ Go(i, "insert", "open")
          /\ inserting' = [inserting EXCEPT ![Owner[i]] = i]
       \/ /\ Owner[i] \in users
          /\ Go(i, "insert", "conflict")
          /\ UNCHANGED inserting
    /\ UNCHANGED <<users, content, invoices, tasks>>

\* write_bytes truncates the file, then writes it.
OpenFile(i) ==
    /\ Go(i, "open", "write")
    /\ content' = [content EXCEPT ![Path[i]] = i]
    /\ UNCHANGED <<users, inserting, invoices, tasks>>

\* Nothing waits for the bytes to reach the file.
BadWriteFile(i) ==
    /\ Go(i, "write", "create")
    /\ UNCHANGED <<users, inserting, content, invoices, tasks>>

\* The bytes are whole when those of the last to truncate are written; a
\* write that began before that may complete the file or leave a hole.
WriteFile(i) ==
    /\ Go(i, "write", "create")
    /\ \/ content' = [content EXCEPT ![Path[i]] = "whole"]
       \/ content[Path[i]] # i /\ UNCHANGED content
    /\ UNCHANGED <<users, inserting, invoices, tasks>>

\* create: the row is flushed and refreshed.
CreateInvoice(i) ==
    /\ Go(i, "create", "enqueue")
    /\ UNCHANGED <<users, inserting, content, invoices, tasks>>

\* The task is enqueued after the commit.
BadEnqueue(i) ==
    /\ Go(i, "enqueue", "commit")
    /\ UNCHANGED <<users, inserting, content, invoices, tasks>>

\* .delay() in the endpoint precedes the commit of get_db_session.
Enqueue(i) ==
    /\ Go(i, "enqueue", "commit")
    /\ tasks' = tasks \cup {i}
    /\ UNCHANGED <<users, inserting, content, invoices>>

Commit(i) ==
    /\ Go(i, "commit", "done")
    /\ invoices' = invoices \cup {i}
    /\ users' = users \cup {u \in Users : inserting[u] = i}
    /\ Release(i)
    /\ UNCHANGED <<content, tasks>>

\* An exception of the pool, of .delay() or of the commit: get_db_session
\* rolls back.
Fail(i) ==
    /\ \/ "pool" \in Faults /\ Go(i, "select", "refused")
       \/ "broker" \in Faults /\ Go(i, "enqueue", "aborted")
       \/ "commit" \in Faults /\ Go(i, "commit", "aborted")
    /\ Release(i)
    /\ UNCHANGED <<users, content, invoices, tasks>>

\* The API process dies, and the database rolls back; the file stays as it is.
Die(i) ==
    /\ "api" \in Faults
    /\ at[i] \in Working
    /\ at' = [at EXCEPT ![i] =
                 IF @ \in {"enqueue", "commit"} THEN "aborted" ELSE "lost"]
    /\ Release(i)
    /\ UNCHANGED <<users, content, invoices, tasks>>

-----------------------------------------------------------------------------
Serve(i) ==
    \/ SelectUser(i) \/ InsertUser(i) \/ OpenFile(i) \/ WriteFile(i)
    \/ CreateInvoice(i) \/ Enqueue(i) \/ Commit(i) \/ Fail(i)

Next == \E i \in Uploads : Receive(i) \/ Serve(i) \/ Die(i)

Spec == Init /\ [][Next]_vars

-----------------------------------------------------------------------------
\* The file of every committed invoice is whole, except while another upload
\* of the same document by the same user is writing it again, or if that
\* upload's process has died in doing so.
FilesAreWhole ==
    \A i \in invoices :
        \/ content[Path[i]] = "whole"
        \/ \E j \in Uploads \ {i} :
              /\ Path[j] = Path[i]
              /\ at[j] = "write" \/ (at[j] = "lost" /\ content[Path[i]] = j)

\* An upload that was received comes to an end: whoever waits for another's
\* insert of the same user gets its turn.
UploadsEnd == \A i \in Uploads : at[i] \in Working ~> at[i] \in Ended

\* get_or_create_user "ensures a user row exists": no upload is refused
\* because of the users table.
UserIsEnsured == \A i \in Uploads : at[i] # "conflict"

-----------------------------------------------------------------------------
Progress(i) ==
    CASE at[i] = "enqueue" -> "flushed"
      [] at[i] = "commit" -> "enqueued"
      [] at[i] = "done" -> "committed"
      [] at[i] = "aborted" -> "aborted"
      [] OTHER -> "none"

InvoiceRow(i) ==
    [ status |-> IF i \in invoices THEN "pending" ELSE "absent",
      fields |-> [number |-> None, vendor |-> None, amount |-> None],
      original |-> None ]

NoProcess(value) == [p \in {} |-> value]

Pipeline == INSTANCE InvoicePipeline WITH
    Numbers <- {}, Vendors <- {}, Amounts <- {}, Lower <- NoProcess({}),
    Within <- {}, Threshold <- 85, Reads <- [i \in Uploads |-> {}],
    Workers <- {}, Requests <- {}, MaxRetries <- 0, CandidateLimit <- 1,
    MaxCrashes <- 0, Faults <- {"api"}, Invoices <- Uploads,
    upload <- [i \in Uploads |-> Progress(i)],
    rows <- [i \in Uploads |-> InvoiceRow(i)],
    queue <- [i \in Uploads |-> [r \in {0} |-> IF i \in tasks THEN 1 ELSE 0]],
    pc <- NoProcess("idle"), job <- NoProcess({}), draft <- NoProcess({}),
    broken <- {}, reply <- NoProcess({}), gaveUp <- {}, crashes <- 0

\* Uploads reach the pipeline as InvoicePipeline describes them: the row is
\* flushed, the task enqueued, the row committed, in this order, or not.
ImplementsUpload == Pipeline!Spec
=============================================================================
