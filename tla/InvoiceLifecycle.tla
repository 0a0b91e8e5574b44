-------------------------- MODULE InvoiceLifecycle --------------------------
(***************************************************************************)
(* What the service promises about an invoice, as a client that reads      *)
(* committed rows sees it: an invoice appears once, pending and blank; it  *)
(* may be reported as processing or failed; one step settles it, with its  *)
(* content, as processed or as a duplicate of an invoice of the same user  *)
(* that is settled already; it may be settled again, and it is never lost  *)
(* or un-settled.                                                          *)
(***************************************************************************)
CONSTANTS
    Invoices,
    Owner,       \* Owner[i]: the user invoice i belongs to
    Contents,    \* what an extraction may find
    Blank,       \* the content of an invoice before extraction
    None

VARIABLES
    status,      \* status[i]: the status a client reads
    content,     \* content[i]: the extracted fields
    original     \* original[i]: duplicate_of

vars == <<status, content, original>>

Settled(i) == status[i] \in {"processed", "duplicate"}

Init ==
    /\ status = [i \in Invoices |-> "absent"]
    /\ content = [i \in Invoices |-> Blank]
    /\ original = [i \in Invoices |-> None]

Accept(i) ==
    /\ status[i] = "absent"
    /\ status' = [status EXCEPT ![i] = "pending"]
    /\ UNCHANGED <<content, original>>

\* README.md: extraction is in progress, or has failed.  Such an invoice shows
\* nothing of an extraction.
Report(i, s) ==
    /\ status[i] \in {"pending", "processing", "failed"}
    /\ status' = [status EXCEPT ![i] = s]
    /\ UNCHANGED <<content, original>>

\* duplicate_of is never cleared: a processed invoice may still carry the
\* original an earlier run found for it.
Process(i, data) ==
    /\ status[i] # "absent"
    /\ status' = [status EXCEPT ![i] = "processed"]
    /\ content' = [content EXCEPT ![i] = data]
    /\ UNCHANGED original

MarkDuplicate(i, data, o) ==
    /\ status[i] # "absent"
    /\ o # i /\ Owner[o] = Owner[i] /\ Settled(o)
    /\ status' = [status EXCEPT ![i] = "duplicate"]
    /\ content' = [content EXCEPT ![i] = data]
    /\ original' = [original EXCEPT ![i] = o]

Next ==
    \E i \in Invoices :
        \/ Accept(i)
        \/ \E s \in {"processing", "failed"} : Report(i, s)
        \/ \E data \in Contents :
              \/ Process(i, data)
              \/ \E o \in Invoices : MarkDuplicate(i, data, o)

Spec == Init /\ [][Next]_vars
=============================================================================
