--------------------------- MODULE PipelineProofs ---------------------------
(***************************************************************************)
(* Proofs about the invoice pipeline, for every set of invoices, users,    *)
(* workers and requests, every bound and every set of faults, unless a     *)
(* theorem excludes a fault.                                               *)
(***************************************************************************)
EXTENDS PipelineHistory, TLAPS

-----------------------------------------------------------------------------
(***************************************************************************)
(* The repository's operations keep a row well formed.                     *)
(***************************************************************************)

\* Rows before an upload and right after it.
LEMMA NewRowTypes == NoRow \in Row /\ NewRow \in Row
  BY DEF NoRow, NewRow, NoFields, Row, Fields, InvoiceStatus

\* update_status keeps everything but the status.
LEMMA UpdateStatusType ==
  ASSUME NEW row \in Row, NEW s \in InvoiceStatus
  PROVE  /\ UpdateStatus(row, s) \in Row
         /\ UpdateStatus(row, s).status = s
         /\ UpdateStatus(row, s).original = row.original
  BY DEF UpdateStatus, Row

\* update_extracted_data marks the row processed and leaves duplicate_of alone.
LEMMA UpdateExtractedDataType ==
  ASSUME NEW row \in Row, NEW data \in Fields
  PROVE  /\ UpdateExtractedData(row, data) \in Row
         /\ UpdateExtractedData(row, data).status = "processed"
         /\ UpdateExtractedData(row, data).original = row.original
  BY DEF UpdateExtractedData, Row, InvoiceStatus

\* mark_duplicate writes the status and the original.
LEMMA MarkDuplicateType ==
  ASSUME NEW row \in Row, NEW o \in Invoices
  PROVE  /\ MarkDuplicate(row, o) \in Row
         /\ MarkDuplicate(row, o).status = "duplicate"
         /\ MarkDuplicate(row, o).original = o
  BY DEF MarkDuplicate, Row, InvoiceStatus

\* Whatever LIMIT selects, the screen returns candidates only.
LEMMA FoundAreCandidates ==
  ASSUME NEW i, NEW user, NEW fields,
         NEW found \in FindPotentialDuplicates(i, user, fields)
  PROVE  found \subseteq Candidates(i, user, fields)
  BY DEF FindPotentialDuplicates, kSubset

\* The job a message or a request gives a process.
LEMMA JobTypes ==
  /\ NoJob \in Job
  /\ \A i \in Invoices, user \in Users, r \in Retries :
        /\ [invoice |-> i, user |-> user, tries |-> r] \in Job
        /\ [invoice |-> i, user |-> user, tries |-> 0] \in Job
  BY PipelineAssumption DEF NoJob, Job, Retries

\* A process that is not idle has an invoice, and a retry count in range.
LEMMA JobFields ==
  ASSUME TypeOK, NEW p \in Processes
  PROVE  /\ job[p].invoice \in Invoices \cup {None}
         /\ pc[p] # "idle" => job[p].invoice \in Invoices
         /\ job[p].tries \in Retries
  BY DEF TypeOK, Job

-----------------------------------------------------------------------------
(***************************************************************************)
(* Type correctness.                                                       *)
(***************************************************************************)

\* Initially every variable has its type.
LEMMA InitTypeOK == Init => TypeOK
  BY PipelineAssumption, NewRowTypes, JobTypes
  DEF Init, TypeOK, Retries, Steps

\* Every action of every actor keeps the variables' types.
LEMMA NextTypeOK == TypeOK /\ [Next]_vars => TypeOK'
<1> SUFFICES ASSUME TypeOK, [Next]_vars PROVE TypeOK'
  OBVIOUS
<1> USE PipelineAssumption DEF Steps
<1>1. ASSUME NEW i \in Invoices, BeginUpload(i) PROVE TypeOK'
  BY <1>1 DEF TypeOK, BeginUpload, session
<1>2. ASSUME NEW i \in Invoices, Enqueue(i) PROVE TypeOK'
  BY <1>2 DEF TypeOK, Enqueue, session, Retries
<1>3. ASSUME NEW i \in Invoices, CommitUpload(i) PROVE TypeOK'
  BY <1>3, NewRowTypes DEF TypeOK, CommitUpload, session
<1>4. ASSUME NEW i \in Invoices, AbortUpload(i) PROVE TypeOK'
  BY <1>4 DEF TypeOK, AbortUpload, session
<1>5. ASSUME NEW w \in Workers, NEW i \in Invoices, NEW r \in Retries,
             Deliver(w, i, r)
      PROVE  TypeOK'
  <2>1. Owner[i] \in Users
    OBVIOUS
  <2>2. job' \in [Processes -> Job]
    BY <1>5, <2>1, JobTypes DEF TypeOK, Deliver, Processes
  <2>3. queue' \in [Invoices -> [Retries -> Nat]]
    BY <1>5 DEF TypeOK, Deliver, Retries
  <2>4. \A p \in Processes : pc'[p] # "idle" => job'[p].invoice \in Invoices
    BY <1>5 DEF TypeOK, Deliver, Processes
  <2>5. QED
    BY <1>5, <2>2, <2>3, <2>4 DEF TypeOK, Deliver
<1>6. ASSUME NEW q \in Requests, NEW i \in Invoices, NEW user \in Users,
             Submit(q, i, user)
      PROVE  TypeOK'
  <2>1. job' \in [Processes -> Job]
    <3>1. [invoice |-> i, user |-> user, tries |-> 0] \in Job
      BY JobTypes DEF Retries
    <3>2. QED
      BY <1>6, <3>1 DEF TypeOK, Submit, Processes
  <2>2. \A p \in Processes : pc'[p] # "idle" => job'[p].invoice \in Invoices
    BY <1>6 DEF TypeOK, Submit, Processes
  <2>3. QED
    BY <1>6, <2>1, <2>2 DEF TypeOK, Submit
<1>7. ASSUME NEW p \in Processes, Load(p) PROVE TypeOK'
  <2>1. GetById(job[p].invoice, job[p].user) \in Row
    BY <1>7, NewRowTypes, JobFields DEF TypeOK, Load, GetById
  <2>2. QED
    BY <1>7, <2>1 DEF TypeOK, Load
<1>8. ASSUME NEW p \in Processes, Lock(p) PROVE TypeOK'
  <2>1. rows[job[p].invoice] \in Row
    BY <1>8, JobFields DEF TypeOK, Lock
  <2>2. UpdateStatus(rows[job[p].invoice], "processing") \in Row
    BY <2>1, UpdateStatusType DEF InvoiceStatus
  <2>3. QED
    BY <1>8, <2>2 DEF TypeOK, Lock
<1>9. ASSUME NEW p \in Processes, Extract(p) PROVE TypeOK'
  <2>1. PICK data \in Reads[job[p].invoice] :
          LET row == UpdateExtractedData(draft[p], data)
          IN  /\ draft' = [draft EXCEPT ![p] = row]
              /\ reply' = [reply EXCEPT ![p] = row]
    BY <1>9 DEF Extract
  <2>2. data \in Fields
    BY <1>9, <2>1, JobFields DEF TypeOK, Extract
  <2>3. draft[p] \in Row
    BY DEF TypeOK
  <2>4. UpdateExtractedData(draft[p], data) \in Row
    BY <2>2, <2>3, UpdateExtractedDataType
  <2>5. QED
    BY <1>9, <2>1, <2>4, NewRowTypes DEF TypeOK, Extract
<1>10. ASSUME NEW p \in Processes, ExtractFails(p) PROVE TypeOK'
  <2>1. UpdateStatus(draft[p], "failed") \in Row
    BY UpdateStatusType DEF TypeOK, InvoiceStatus
  <2>2. QED
    BY <1>10, <2>1 DEF TypeOK, ExtractFails
<1>11. ASSUME NEW p \in Processes, CheckDuplicates(p) PROVE TypeOK'
  <2>1. draft' \in [Processes -> Row]
    <3>1. PICK found \in FindPotentialDuplicates(job[p].invoice, job[p].user,
                                                 draft[p].fields) :
            \/ UNCHANGED draft
            \/ \E o \in found :
                 draft' = [draft EXCEPT ![p] = MarkDuplicate(draft[p], o)]
      BY <1>11 DEF CheckDuplicates
    <3>2. found \subseteq Invoices
      BY FoundAreCandidates DEF Candidates
    <3>3. \A o \in found : MarkDuplicate(draft[p], o) \in Row
      BY <3>2, MarkDuplicateType DEF TypeOK
    <3>4. QED
      BY <3>1, <3>3 DEF TypeOK
  <2>2. QED
    BY <1>11, <2>1 DEF TypeOK, CheckDuplicates
<1>12. ASSUME NEW p \in Processes, CheckFails(p) PROVE TypeOK'
  BY <1>12 DEF TypeOK, CheckFails
<1>13. ASSUME NEW p \in Processes, Commit(p) PROVE TypeOK'
  BY <1>13, NewRowTypes, JobFields DEF TypeOK, Commit
<1>14. ASSUME NEW p \in Processes, CommitFails(p) PROVE TypeOK'
  BY <1>14, NewRowTypes, JobFields DEF TypeOK, CommitFails
<1>15. ASSUME NEW w \in Workers, RollbackAndRetry(w) PROVE TypeOK'
  BY <1>15, NewRowTypes DEF TypeOK, RollbackAndRetry, EndSession, Processes
<1>16. ASSUME NEW w \in Workers, RollbackAndGiveUp(w) PROVE TypeOK'
  BY <1>16, NewRowTypes, JobFields
  DEF TypeOK, RollbackAndGiveUp, EndSession, Processes
<1>17. ASSUME NEW w \in Workers, Republish(w) PROVE TypeOK'
  <2>1. queue' \in [Invoices -> [Retries -> Nat]]
    <3>1. job[w].invoice \in Invoices /\ job[w].tries \in Retries
      BY <1>17, JobFields DEF Republish, Processes
    <3>2. job[w].tries + 1 \in Int
      BY <3>1 DEF Retries
    <3>3. \A i \in Invoices, r \in Retries : queue[i][r] + 1 \in Nat
      BY DEF TypeOK
    <3>4. QED
      BY <1>17, <3>1, <3>2, <3>3 DEF TypeOK, Republish
  <2>2. QED
    BY <1>17, <2>1 DEF TypeOK, Republish, Processes
<1>18. ASSUME NEW p \in Processes, Finish(p),
              UNCHANGED <<upload, rows, gaveUp>>,
              queue' \in [Invoices -> [Retries -> Nat]],
              crashes' \in 0 .. MaxCrashes
       PROVE  TypeOK'
  BY <1>18, NewRowTypes, JobTypes DEF TypeOK, Finish, EndSession
<1>19. ASSUME NEW w \in Workers, Acknowledge(w) PROVE TypeOK'
  BY <1>18, <1>19 DEF TypeOK, Acknowledge, Processes
<1>20. ASSUME NEW q \in Requests, Respond(q) \/ Abandon(q) PROVE TypeOK'
  BY <1>18, <1>20 DEF TypeOK, Respond, Abandon, Processes
<1>21. ASSUME NEW w \in Workers, Crash(w) PROVE TypeOK'
  <2>1. queue' \in [Invoices -> [Retries -> Nat]]
    <3>1. job[w].invoice \in Invoices /\ job[w].tries \in Retries
      BY <1>21, JobFields DEF Crash, Processes
    <3>2. \A i \in Invoices, r \in Retries : queue[i][r] + 1 \in Nat
      BY DEF TypeOK
    <3>3. QED
      BY <1>21, <3>1, <3>2 DEF TypeOK, Crash
  <2>2. crashes' \in 0 .. MaxCrashes
    BY <1>21 DEF TypeOK, Crash
  <2>3. QED
    BY <1>18, <1>21, <2>1, <2>2 DEF Crash, Processes
<1>22. ASSUME NEW w \in Workers, HardTimeLimit(w) PROVE TypeOK'
  BY <1>22, NewRowTypes, JobFields
  DEF TypeOK, HardTimeLimit, EndSession, Processes
<1>23. ASSUME Evict PROVE TypeOK'
  BY <1>23 DEF TypeOK, Evict, session
<1>24. ASSUME NEW w \in Workers, RepublishFails(w) PROVE TypeOK'
  BY <1>24 DEF TypeOK, RepublishFails, Processes
<1>25. CASE UNCHANGED vars
  BY <1>25 DEF TypeOK, vars
<1>26. QED
  BY <1>1, <1>2, <1>3, <1>4, <1>5, <1>6, <1>7, <1>8, <1>9, <1>10, <1>11, <1>12,
     <1>13, <1>14, <1>15, <1>16, <1>17, <1>19, <1>20, <1>21, <1>22, <1>23, <1>24,
     <1>25
  DEF Next, Outside, Upload, Process, Receive, Settle, Serve

\* Every reachable state is well typed.
THEOREM TypeCorrect == Spec => []TypeOK
  BY InitTypeOK, NextTypeOK, PTL DEF Spec

-----------------------------------------------------------------------------
(***************************************************************************)
(* Rows and drafts.                                                        *)
(***************************************************************************)

\* Nothing is held, settled or marked in the initial state.
LEMMA InitRowInv == Init => RowInv
  BY DEF Init, RowInv, ProgramInv, DraftInv, LockInv, UploadInv, BlankInv,
         OriginalIsSettled, Holding, NoRow, NoFields

\* A step that writes no row and no upload, and leaves one process without a
\* draft outside the transaction, keeps the invariant: deliveries, rollbacks,
\* acknowledgements, answers and crashes are such steps.
LEMMA OutsideTransaction ==
  ASSUME TypeOK, RowInv, NEW p \in Processes,
         UNCHANGED <<upload, rows>>,
         pc'[p] \notin {"lock", "extract", "check", "commit"},
         draft'[p].status = "absent",
         \A q \in Processes \ {p} :
            pc'[q] = pc[q] /\ job'[q] = job[q] /\ draft'[q] = draft[q]
  PROVE  RowInv'
<1>1. ProgramInv'
  BY DEF RowInv, ProgramInv, Holding
<1>2. DraftInv'
  BY DEF RowInv, DraftInv, Holding, PointsTo, Settled
<1>3. LockInv'
  BY DEF RowInv, LockInv, Holding
<1>4. (UploadInv /\ BlankInv /\ OriginalIsSettled)'
  BY DEF RowInv, UploadInv, BlankInv, OriginalIsSettled, Settled
<1>5. QED
  BY <1>1, <1>2, <1>3, <1>4 DEF RowInv

\* A step inside a transaction that keeps the rows, and whose process keeps
\* holding a well-formed draft, keeps the invariant.
LEMMA InsideTransaction ==
  ASSUME TypeOK, RowInv, NEW p \in Processes, NEW row \in Row,
         Holding(p),
         UNCHANGED <<upload, rows, job>>,
         pc' = [pc EXCEPT ![p] = pc'[p]],
         draft' = [draft EXCEPT ![p] = row],
         \/ pc'[p] = "check" /\ row.status = "processed"
         \/ pc'[p] = "commit" /\ row.status \in {"processed", "duplicate"}
         \/ pc'[p] = "undo",
         row.status = "duplicate" => row.original # None,
         row.status # "duplicate" =>
            row.original = rows[job[p].invoice].original,
         PointsTo(job[p].invoice, row.original)
  PROVE  RowInv'
<1>1. /\ pc \in [Processes -> Steps]
      /\ draft \in [Processes -> Row]
  BY DEF TypeOK
<1>2. /\ draft'[p] = row
      /\ \A q \in Processes \ {p} : pc'[q] = pc[q] /\ draft'[q] = draft[q]
  BY <1>1
<1>3. ProgramInv'
  BY <1>2 DEF RowInv, ProgramInv, Holding
<1>4. DraftInv'
  BY <1>2 DEF RowInv, DraftInv, Holding, PointsTo, Settled
<1>5. LockInv'
  BY <1>2 DEF RowInv, LockInv, Holding
<1>6. (UploadInv /\ BlankInv /\ OriginalIsSettled)'
  BY DEF RowInv, UploadInv, BlankInv, OriginalIsSettled, Settled
<1>7. QED
  BY <1>3, <1>4, <1>5, <1>6 DEF RowInv

\* A draft in the table: the row is settled, points to a settled invoice, and
\* every other row and draft is as it was.
LEMMA Publication ==
  ASSUME TypeOK, RowInv, NEW p \in Processes,
         pc[p] = "commit",
         UNCHANGED <<upload, job>>,
         pc' = [pc EXCEPT ![p] = pc'[p]],
         pc'[p] \in {"done", "undo"},
         rows' = [rows EXCEPT ![job[p].invoice] = draft[p]],
         draft' = [draft EXCEPT ![p] = NoRow]
  PROVE  RowInv'
<1> DEFINE i == job[p].invoice
<1>1. /\ pc \in [Processes -> Steps]
      /\ draft \in [Processes -> Row]
      /\ rows \in [Invoices -> Row]
      /\ i \in Invoices
  BY JobFields DEF TypeOK
<1>2. /\ draft'[p].status = "absent"
      /\ \A q \in Processes \ {p} : pc'[q] = pc[q] /\ draft'[q] = draft[q]
  BY <1>1 DEF NoRow
<1>3. rows'[i] = draft[p] /\ \A j \in Invoices \ {i} : rows'[j] = rows[j]
  BY <1>1
<1>4. /\ Holding(p)
      /\ draft[p].status \in {"processed", "duplicate"}
      /\ rows[i].status # "absent"
      /\ draft[p].status = "duplicate" => draft[p].original # None
      /\ PointsTo(i, draft[p].original)
  BY DEF RowInv, ProgramInv, DraftInv, Holding
<1>5. \A j \in Invoices : Settled(j) => Settled(j)'
  BY <1>3, <1>4 DEF Settled
<1>6. \A q \in Processes \ {p} : Holding(q) => job[q].invoice # i
  BY <1>4 DEF RowInv, LockInv
<1>7. /\ \A k \in Invoices : rows[k].original \in Invoices \cup {None}
      /\ \A q \in Processes : draft[q].original \in Invoices \cup {None}
  BY <1>1 DEF Row
<1>8. ProgramInv'
  <2>1. \A q \in Processes : pc[q] # "idle" => job[q].invoice \in Invoices
    BY JobFields
  <2>2. \A j \in Invoices : rows[j].status # "absent" => rows'[j].status # "absent"
    BY <1>3, <1>4
  <2>3. QED
    BY <1>2, <2>1, <2>2 DEF RowInv, ProgramInv, Holding
<1>9. DraftInv'
  <2>1. ASSUME NEW q \in Processes, Holding(q)'
        PROVE  /\ q # p /\ Holding(q) /\ draft'[q] = draft[q]
               /\ job[q].invoice \in Invoices \ {i}
    <3>1. q # p /\ Holding(q) /\ draft'[q] = draft[q]
      BY <1>2, <2>1 DEF Holding
    <3>2. pc[q] # "idle"
      BY <3>1 DEF RowInv, ProgramInv
    <3>3. QED
      BY <3>1, <3>2, <1>6, JobFields
  <2>2. \A k \in Invoices, o \in Invoices \cup {None} :
            PointsTo(k, o) => PointsTo(k, o)'
    BY <1>5 DEF PointsTo
  <2>3. QED
    BY <2>1, <2>2, <1>3, <1>7 DEF RowInv, DraftInv
<1>10. LockInv'
  BY <1>2 DEF RowInv, LockInv, Holding
<1>11. UploadInv' /\ BlankInv'
  BY <1>3, <1>4 DEF RowInv, UploadInv, BlankInv, Settled
<1>12. OriginalIsSettled'
  <2>1. ASSUME NEW j \in Invoices \ {i}
        PROVE  /\ rows'[j].status = "duplicate" => rows'[j].original # None
               /\ PointsTo(j, rows[j].original)'
    <3>1. PointsTo(j, rows[j].original)
      BY DEF RowInv, OriginalIsSettled, PointsTo
    <3>2. QED
      BY <3>1, <1>3, <1>5, <1>7 DEF RowInv, OriginalIsSettled, PointsTo
  <2>2. PointsTo(i, rows[i].original)'
    BY <1>3, <1>4, <1>5, <1>7 DEF PointsTo
  <2>3. QED
    BY <2>1, <2>2, <1>3, <1>4 DEF OriginalIsSettled, PointsTo
<1>13. QED
  BY <1>8, <1>9, <1>10, <1>11, <1>12 DEF RowInv

\* Every action of every actor keeps rows and drafts well formed.
LEMMA NextRowInv == TypeOK /\ RowInv /\ [Next]_vars => RowInv'
<1> SUFFICES ASSUME TypeOK, RowInv, [Next]_vars PROVE RowInv'
  OBVIOUS
<1>1. ASSUME NEW i \in Invoices,
             UNCHANGED <<rows, pc, job, draft>>,
             \A j \in Invoices : upload[j] = "committed" <=> upload'[j] = "committed"
      PROVE  RowInv'
  BY <1>1 DEF RowInv, ProgramInv, DraftInv, LockInv, UploadInv, BlankInv,
              OriginalIsSettled, Holding, PointsTo, Settled
<1>2. ASSUME NEW i \in Invoices, BeginUpload(i) \/ Enqueue(i) \/ AbortUpload(i)
      PROVE  RowInv'
  <2>1. \A j \in Invoices : upload[j] = "committed" <=> upload'[j] = "committed"
    BY <1>2 DEF TypeOK, BeginUpload, Enqueue, AbortUpload
  <2>2. QED
    BY <1>1, <1>2, <2>1 DEF BeginUpload, Enqueue, AbortUpload, session
<1>3. ASSUME NEW i \in Invoices, CommitUpload(i) PROVE RowInv'
  <2>1. /\ upload'[i] = "committed"
        /\ rows'[i] = NewRow
        /\ \A j \in Invoices \ {i} : rows'[j] = rows[j] /\ upload'[j] = upload[j]
        /\ UNCHANGED <<pc, job, draft>>
    BY <1>3 DEF TypeOK, CommitUpload, session
  <2>2. rows[i].status = "absent"
    BY <1>3 DEF RowInv, UploadInv, CommitUpload
  <2>3. NewRow.status = "pending" /\ NewRow.fields = NoFields
           /\ NewRow.original = None
    BY DEF NewRow, NoRow
  <2>4. /\ \A j \in Invoices : rows[j].original \in Invoices \cup {None}
        /\ \A q \in Processes : draft[q].original \in Invoices \cup {None}
    BY DEF TypeOK, Row
  <2>5. \A k, o \in Invoices : Settled(o) => o # i /\ Settled(o)'
    BY <2>1, <2>2 DEF Settled
  <2>6. ProgramInv'
    <3>1. \A q \in Processes : pc[q] = "lock" => job[q].invoice \in Invoices
      BY JobFields
    <3>2. QED
      BY <2>1, <2>3, <3>1 DEF RowInv, ProgramInv, Holding
  <2>7. DraftInv'
    <3>1. \A q \in Processes :
              Holding(q) => job[q].invoice \in Invoices \ {i}
      BY <2>2, JobFields DEF RowInv, ProgramInv, DraftInv
    <3>2. \A q \in Processes :
              Holding(q) => PointsTo(job[q].invoice, draft[q].original)'
      BY <2>1, <2>4, <2>5 DEF RowInv, DraftInv, PointsTo
    <3>3. QED
      BY <2>1, <3>1, <3>2 DEF RowInv, DraftInv, Holding
  <2>8. LockInv'
    BY <2>1 DEF RowInv, LockInv, Holding
  <2>9. UploadInv' /\ BlankInv'
    BY <2>1, <2>3 DEF RowInv, UploadInv, BlankInv, Settled
  <2>10. OriginalIsSettled'
    BY <2>1, <2>3, <2>4, <2>5 DEF RowInv, OriginalIsSettled
  <2>11. QED
    BY <2>6, <2>7, <2>8, <2>9, <2>10 DEF RowInv
<1>4. ASSUME NEW w \in Workers, NEW i \in Invoices, NEW r \in Retries,
             Deliver(w, i, r)
      PROVE  RowInv'
  <2>1. w \in Processes /\ pc[w] = "idle" /\ ~Holding(w)
    BY <1>4 DEF Deliver, Processes, RowInv, ProgramInv
  <2>2. QED
    BY <1>4, <2>1, OutsideTransaction DEF Deliver, TypeOK, Holding
<1>5. ASSUME NEW q \in Requests, NEW i \in Invoices, NEW user \in Users,
             Submit(q, i, user)
      PROVE  RowInv'
  <2>1. q \in Processes /\ pc[q] = "idle" /\ ~Holding(q)
    BY <1>5 DEF Submit, Processes, RowInv, ProgramInv
  <2>2. QED
    BY <1>5, <2>1, OutsideTransaction DEF Submit, TypeOK, Holding
<1>6. ASSUME NEW p \in Processes, Load(p) PROVE RowInv'
  <2>1. ~Holding(p)
    BY <1>6 DEF Load, RowInv, ProgramInv
  <2>2. \A q \in Processes \ {p} : pc'[q] = pc[q]
    BY <1>6 DEF Load, TypeOK
  <2>3. CASE pc'[p] = "undo"
    BY <1>6, <2>1, <2>2, <2>3, OutsideTransaction DEF Load, Holding
  <2>4. CASE pc'[p] # "undo"
    <3>1. /\ pc'[p] = "lock"
          /\ rows[job[p].invoice].status # "absent"
          /\ job[p].user = Owner[job[p].invoice]
      BY <1>6, <2>4 DEF Load, TypeOK, GetById, NoRow
    <3>2. ProgramInv'
      BY <1>6, <2>1, <2>2, <3>1 DEF RowInv, ProgramInv, Load, Holding
    <3>3. QED
      BY <1>6, <3>2 DEF Load, RowInv, DraftInv, LockInv, UploadInv,
            BlankInv, OriginalIsSettled, Holding, PointsTo, Settled
  <2>5. QED
    BY <2>3, <2>4
<1>7. ASSUME NEW p \in Processes, Lock(p) PROVE RowInv'
  <2> DEFINE i == job[p].invoice
             row == UpdateStatus(rows[i], "processing")
  <2>1. i \in Invoices /\ rows[i] \in Row
    BY <1>7, JobFields DEF Lock, TypeOK
  <2>2. row.status = "processing" /\ row.original = rows[i].original
    BY <2>1, UpdateStatusType DEF InvoiceStatus
  <2>3. rows[i].status # "absent" /\ job[p].user = Owner[i]
    BY <1>7 DEF Lock, RowInv, ProgramInv
  <2>4. PointsTo(i, row.original)
    BY <2>1, <2>2 DEF RowInv, OriginalIsSettled, PointsTo
  <2>5. /\ pc'[p] = "extract" /\ draft'[p] = row
        /\ \A q \in Processes \ {p} : pc'[q] = pc[q] /\ draft'[q] = draft[q]
        /\ UNCHANGED <<upload, rows, job>>
    BY <1>7 DEF Lock, TypeOK
  <2>6. \A q \in Processes \ {p} : Holding(q) => job[q].invoice # i
    BY <1>7 DEF Lock, Locks, Holding
  <2> HIDE DEF row
  <2>7. ProgramInv'
    BY <2>2, <2>5 DEF RowInv, ProgramInv, Holding
  <2>8. DraftInv'
    BY <2>2, <2>3, <2>4, <2>5 DEF RowInv, DraftInv, Holding, PointsTo, Settled
  <2>9. LockInv'
    BY <2>5, <2>6 DEF RowInv, LockInv, Holding
  <2>10. QED
    BY <2>5, <2>7, <2>8, <2>9
    DEF RowInv, UploadInv, BlankInv, OriginalIsSettled, Settled
<1>8. ASSUME NEW p \in Processes, pc[p] \in {"extract", "check"}
      PROVE  /\ Holding(p)
             /\ draft[p] \in Row
             /\ draft[p].status \in {"processing", "processed"}
             /\ pc[p] = "check" => draft[p].status = "processed"
             /\ draft[p].original = rows[job[p].invoice].original
             /\ PointsTo(job[p].invoice, draft[p].original)
  BY <1>8 DEF RowInv, ProgramInv, DraftInv, Holding, TypeOK
<1>9. ASSUME NEW p \in Processes, Extract(p) PROVE RowInv'
  <2>1. PICK data \in Reads[job[p].invoice] :
          draft' = [draft EXCEPT ![p] =
                       UpdateExtractedData(draft[p], data)]
    BY <1>9 DEF Extract
  <2> DEFINE row == UpdateExtractedData(draft[p], data)
  <2>2. data \in Fields
    BY <1>9, PipelineAssumption, JobFields DEF Extract, TypeOK, Row
  <2>3. /\ row \in Row
        /\ row.status = "processed"
        /\ row.original = draft[p].original
    BY <1>8, <1>9, <2>2, UpdateExtractedDataType DEF Extract
  <2> HIDE DEF row
  <2>4. draft' = [draft EXCEPT ![p] = row]
    BY <2>1 DEF row
  <2>5. /\ pc' = [pc EXCEPT ![p] = pc'[p]] /\ pc'[p] = "check"
        /\ UNCHANGED <<upload, rows, job>>
    BY <1>9 DEF Extract, TypeOK
  <2>6. QED
    BY <1>8, <1>9, <2>3, <2>4, <2>5, InsideTransaction DEF Extract
<1>10. ASSUME NEW p \in Processes, ExtractFails(p) PROVE RowInv'
  <2> DEFINE row == UpdateStatus(draft[p], "failed")
  <2>1. /\ row \in Row
        /\ row.status = "failed"
        /\ row.original = draft[p].original
    BY <1>8, <1>10, UpdateStatusType DEF ExtractFails, InvoiceStatus
  <2>2. draft' = [draft EXCEPT ![p] = row]
    BY <1>10 DEF ExtractFails
  <2> HIDE DEF row
  <2>3. /\ pc' = [pc EXCEPT ![p] = pc'[p]] /\ pc'[p] = "undo"
        /\ UNCHANGED <<upload, rows, job>>
    BY <1>10 DEF ExtractFails, TypeOK
  <2>4. pc[p] = "extract"
    BY <1>10 DEF ExtractFails
  <2>5. /\ Holding(p)
        /\ draft[p].original = rows[job[p].invoice].original
        /\ PointsTo(job[p].invoice, draft[p].original)
    BY <1>8, <2>4
  <2>6. QED
    BY <2>1, <2>2, <2>3, <2>5, InsideTransaction
<1>11. ASSUME NEW p \in Processes, CheckDuplicates(p) PROVE RowInv'
  <2>1. PICK found \in FindPotentialDuplicates(job[p].invoice, job[p].user,
                                               draft[p].fields) :
          \/ UNCHANGED draft
          \/ \E o \in found :
               draft' = [draft EXCEPT ![p] = MarkDuplicate(draft[p], o)]
    BY <1>11 DEF CheckDuplicates
  <2>2. /\ pc' = [pc EXCEPT ![p] = pc'[p]] /\ pc'[p] = "commit"
        /\ UNCHANGED <<upload, rows, job>>
        /\ pc[p] = "check"
    BY <1>11 DEF CheckDuplicates, TypeOK
  <2>3. CASE UNCHANGED draft
    <3>1. draft' = [draft EXCEPT ![p] = draft[p]]
      BY <2>3 DEF TypeOK
    <3>2. QED
      BY <1>8, <2>2, <3>1, InsideTransaction
  <2>4. ASSUME NEW o \in found,
               draft' = [draft EXCEPT ![p] = MarkDuplicate(draft[p], o)]
        PROVE  RowInv'
    <3>1. /\ o \in Invoices \ {job[p].invoice}
          /\ rows[o].status # "absent"
          /\ Owner[o] = job[p].user
          /\ Potential(draft[p].fields, rows[o].fields)
      BY FoundAreCandidates DEF Candidates
    <3>2. rows[o].fields # NoFields
      BY <3>1 DEF Potential, SameNumber, VendorContains, AmountInRange, NoFields
    <3>3. Settled(o)
      BY <3>1, <3>2 DEF RowInv, BlankInv, Settled, TypeOK, Row, InvoiceStatus
    <3>4. job[p].user = Owner[job[p].invoice]
      BY <1>8, <2>2 DEF RowInv, DraftInv
    <3>5. PointsTo(job[p].invoice, o)
      BY <3>1, <3>3, <3>4 DEF PointsTo
    <3> DEFINE row == MarkDuplicate(draft[p], o)
    <3>6. row \in Row /\ row.status = "duplicate" /\ row.original = o
      BY <1>8, <2>2, <3>1, MarkDuplicateType
    <3>7. o # None
      BY <3>1, PipelineAssumption
    <3>8. draft' = [draft EXCEPT ![p] = row]
      BY <2>4
    <3> HIDE DEF row
    <3>9. QED
      BY <1>8, <2>2, <3>5, <3>6, <3>7, <3>8, InsideTransaction
  <2>5. QED
    BY <2>1, <2>3, <2>4
<1>12. ASSUME NEW p \in Processes, CheckFails(p) PROVE RowInv'
  <2>1. /\ pc' = [pc EXCEPT ![p] = pc'[p]] /\ pc'[p] = "commit"
        /\ UNCHANGED <<upload, rows, job>>
        /\ pc[p] = "check"
        /\ draft' = [draft EXCEPT ![p] = draft[p]]
    BY <1>12 DEF CheckFails, TypeOK
  <2>2. QED
    BY <1>8, <2>1, InsideTransaction
<1>13. ASSUME NEW p \in Processes, Commit(p) \/ CommitFails(p) PROVE RowInv'
  <2>1. /\ pc[p] = "commit"
        /\ pc' = [pc EXCEPT ![p] = pc'[p]]
        /\ pc'[p] \in {"done", "undo"}
        /\ draft' = [draft EXCEPT ![p] = NoRow]
        /\ UNCHANGED <<upload, job>>
        /\ \/ UNCHANGED rows
           \/ rows' = [rows EXCEPT ![job[p].invoice] = draft[p]]
    BY <1>13 DEF Commit, CommitFails, TypeOK
  <2>2. CASE UNCHANGED rows
    BY <2>1, <2>2, OutsideTransaction DEF TypeOK, NoRow
  <2>3. CASE rows' = [rows EXCEPT ![job[p].invoice] = draft[p]]
    BY <2>1, <2>3, Publication
  <2>4. QED
    BY <2>1, <2>2, <2>3
<1>14. ASSUME NEW p \in Processes, NEW where \in {"retry", "release", "idle"},
              EndSession(p, where), UNCHANGED <<upload, rows>>,
              \A q \in Processes \ {p} : job'[q] = job[q]
       PROVE  RowInv'
  BY <1>14, OutsideTransaction DEF EndSession, TypeOK, NoRow
<1>15. ASSUME NEW p \in Processes, Finish(p), UNCHANGED <<upload, rows>>
       PROVE  RowInv'
  BY <1>14, <1>15 DEF Finish, TypeOK
<1>16. ASSUME NEW w \in Workers,
              RollbackAndRetry(w) \/ RollbackAndGiveUp(w) \/ HardTimeLimit(w)
       PROVE  RowInv'
  BY <1>14, <1>16
  DEF RollbackAndRetry, RollbackAndGiveUp, HardTimeLimit, Processes
<1>17. ASSUME NEW w \in Workers, Republish(w) \/ RepublishFails(w) PROVE RowInv'
  <2>1. w \in Processes /\ ~Holding(w)
    BY <1>17 DEF Republish, RepublishFails, Processes, RowInv, ProgramInv
  <2>2. QED
    BY <1>17, <2>1, OutsideTransaction
    DEF Republish, RepublishFails, TypeOK, Holding
<1>18. ASSUME NEW w \in Workers, Acknowledge(w) \/ Crash(w) PROVE RowInv'
  BY <1>15, <1>18 DEF Acknowledge, Crash, Processes
<1>19. ASSUME NEW q \in Requests, Respond(q) \/ Abandon(q) PROVE RowInv'
  BY <1>15, <1>19 DEF Respond, Abandon, Processes
<1>20. ASSUME Evict \/ UNCHANGED vars PROVE RowInv'
  BY <1>20
  DEF Evict, vars, session, RowInv, ProgramInv, DraftInv, LockInv, UploadInv,
      BlankInv, OriginalIsSettled, Holding, PointsTo, Settled
<1>21. QED
  BY <1>2, <1>3, <1>4, <1>5, <1>6, <1>7, <1>9, <1>10, <1>11, <1>12, <1>13,
     <1>16, <1>17, <1>18, <1>19, <1>20
  DEF Next, Outside, Upload, Process, Receive, Settle, Serve

\* Drafts, rows and uploads are consistent in every reachable state.
THEOREM RowsCorrect == Spec => []RowInv
<1>1. Spec => [](TypeOK /\ RowInv)
  BY InitTypeOK, NextTypeOK, InitRowInv, NextRowInv, PTL DEF Spec
<1>2. QED
  BY <1>1, PTL

\* A duplicate always points to a settled invoice of the same user.
THEOREM OriginalsCorrect == Spec => []OriginalIsSettled
<1>1. RowInv => OriginalIsSettled
  BY DEF RowInv
<1>2. QED
  BY <1>1, RowsCorrect, PTL

-----------------------------------------------------------------------------
(***************************************************************************)
(* Settled invoices.                                                       *)
(***************************************************************************)

\* The only steps that write rows are the commit of an upload, on a row that
\* does not exist, and the commit of a run, with a settled draft.
LEMMA RowSteps ==
  ASSUME TypeOK, RowInv, [Next]_vars
  PROVE  \/ UNCHANGED rows
         \/ \E i \in Invoices : /\ rows[i] = NoRow
                               /\ rows' = [rows EXCEPT ![i] = NewRow]
         \/ \E p \in Processes :
               /\ pc[p] = "commit"
               /\ rows' = [rows EXCEPT ![job[p].invoice] = draft[p]]
<1>1. ASSUME NEW i \in Invoices, CommitUpload(i)
      PROVE  rows[i] = NoRow /\ rows' = [rows EXCEPT ![i] = NewRow]
  <2>1. rows[i].status = "absent"
    BY <1>1 DEF CommitUpload, RowInv, UploadInv
  <2>2. rows[i].fields = NoFields /\ rows[i].original = None
    BY <2>1 DEF RowInv, BlankInv, Settled
  <2>3. rows[i] \in Row
    BY DEF TypeOK
  <2>4. rows[i] = NoRow
    BY <2>1, <2>2, <2>3 DEF NoRow, Row
  <2>5. QED
    BY <1>1, <2>4 DEF CommitUpload
<1>2. QED
  BY <1>1
  DEF Next, Outside, vars, session, Upload, Process, Receive, Settle, Serve,
      BeginUpload,
      Enqueue, AbortUpload, Deliver, Submit, Load, Lock, Extract, ExtractFails,
      CheckDuplicates, CheckFails, Commit, CommitFails, RollbackAndRetry,
      RollbackAndGiveUp, Republish, RepublishFails, Acknowledge, Respond,
      Abandon, Crash,
      HardTimeLimit, Evict

\* A step never takes a settled invoice back.
LEMMA SettledStep ==
  ASSUME TypeOK, RowInv, [Next]_vars, NEW i \in Invoices, Settled(i)
  PROVE  Settled(i)'
<1>1. ASSUME NEW k \in Invoices, rows[k] = NoRow,
             rows' = [rows EXCEPT ![k] = NewRow]
      PROVE  Settled(i)'
  BY <1>1 DEF Settled, NoRow, TypeOK
<1>2. ASSUME NEW p \in Processes, pc[p] = "commit",
             rows' = [rows EXCEPT ![job[p].invoice] = draft[p]]
      PROVE  Settled(i)'
  <2>1. draft[p].status \in {"processed", "duplicate"}
    BY <1>2 DEF RowInv, ProgramInv
  <2>2. QED
    BY <1>2, <2>1 DEF Settled, TypeOK
<1>3. QED
  BY <1>1, <1>2, RowSteps DEF Settled

\* Once extracted, an invoice stays extracted, however later runs end.
THEOREM SettledStays == Spec => SettledForever
<1>1. TypeOK /\ RowInv /\ [Next]_vars
        => [\A i \in Invoices : Settled(i) => Settled(i)']_vars
  BY SettledStep
<1>2. QED
  BY <1>1, TypeCorrect, RowsCorrect, PTL DEF Spec, SettledForever

-----------------------------------------------------------------------------
(***************************************************************************)
(* The pipeline implements the life cycle clients are promised.            *)
(***************************************************************************)

\* Writing a row updates each of the client's three views of it.
LEMMA Views ==
  ASSUME TypeOK, NEW i \in Invoices, NEW row \in Row,
         rows' = [rows EXCEPT ![i] = row]
  PROVE  /\ [j \in Invoices |-> rows'[j].status]
              = [[j \in Invoices |-> rows[j].status] EXCEPT ![i] = row.status]
         /\ [j \in Invoices |-> rows'[j].fields]
              = [[j \in Invoices |-> rows[j].fields] EXCEPT ![i] = row.fields]
         /\ [j \in Invoices |-> rows'[j].original]
              = [[j \in Invoices |-> rows[j].original] EXCEPT ![i] = row.original]
  BY DEF TypeOK

\* A view whose value does not change is the same function.
LEMMA UnchangedViews ==
  ASSUME TypeOK, NEW i \in Invoices, NEW row \in Row,
         rows' = [rows EXCEPT ![i] = row]
  PROVE  /\ row.fields = rows[i].fields =>
              [j \in Invoices |-> rows'[j].fields]
                 = [j \in Invoices |-> rows[j].fields]
         /\ row.original = rows[i].original =>
              [j \in Invoices |-> rows'[j].original]
                 = [j \in Invoices |-> rows[j].original]
  BY DEF TypeOK

\* Before any upload the client sees nothing.
LEMMA InitImplements == Init => Lifecycle!Init
  BY DEF Init, Lifecycle!Init, NoRow

\* Committing an upload accepts an invoice, committing a run settles one, and
\* every other step is invisible.
LEMMA StepImplements ==
  ASSUME TypeOK, RowInv, [Next]_vars
  PROVE  [Lifecycle!Next]_(Lifecycle!vars)
<1>1. CASE UNCHANGED rows
  BY <1>1 DEF Lifecycle!vars
<1>2. ASSUME NEW i \in Invoices, rows[i] = NoRow,
             rows' = [rows EXCEPT ![i] = NewRow]
      PROVE  Lifecycle!Next
  <2>1. /\ rows[i].status = "absent" /\ NewRow.status = "pending"
        /\ NewRow.fields = rows[i].fields /\ NewRow.original = rows[i].original
    BY <1>2 DEF NewRow, NoRow
  <2>2. Lifecycle!Accept(i)
    BY <1>2, <2>1, Views, UnchangedViews, NewRowTypes DEF Lifecycle!Accept
  <2>3. QED
    BY <2>2 DEF Lifecycle!Next
<1>3. ASSUME NEW p \in Processes, pc[p] = "commit",
             rows' = [rows EXCEPT ![job[p].invoice] = draft[p]]
      PROVE  Lifecycle!Next
  <2>1. PICK i \in Invoices, row \in Row :
          i = job[p].invoice /\ row = draft[p]
    BY <1>3, JobFields DEF TypeOK
  <2>2. rows' = [rows EXCEPT ![i] = row]
    BY <1>3, <2>1
  <2>3. row.fields \in Fields /\ row.original \in Invoices \cup {None}
    BY DEF Row
  <2>4. /\ row.status \in {"processed", "duplicate"}
        /\ rows[i].status # "absent"
        /\ row.status = "duplicate" => row.original # None
        /\ row.status # "duplicate" => row.original = rows[i].original
        /\ PointsTo(i, row.original)
    BY <1>3, <2>1 DEF RowInv, ProgramInv, DraftInv, Holding
  <2>5. CASE row.status = "processed"
    <3>1. Lifecycle!Process(i, row.fields)
      BY <2>2, <2>4, <2>5, Views, UnchangedViews DEF Lifecycle!Process
    <3>2. QED
      BY <2>3, <3>1 DEF Lifecycle!Next
  <2>6. CASE row.status = "duplicate"
    <3>1. /\ row.original \in Invoices /\ row.original # i
          /\ Owner[row.original] = Owner[i]
          /\ Lifecycle!Settled(row.original)
      BY <2>3, <2>4, <2>6 DEF PointsTo, Settled, Lifecycle!Settled
    <3>2. /\ [j \in Invoices |-> rows'[j].status]
                = [[j \in Invoices |-> rows[j].status] EXCEPT ![i] = "duplicate"]
          /\ [j \in Invoices |-> rows'[j].fields]
                = [[j \in Invoices |-> rows[j].fields] EXCEPT ![i] = row.fields]
          /\ [j \in Invoices |-> rows'[j].original]
                = [[j \in Invoices |-> rows[j].original]
                     EXCEPT ![i] = row.original]
      BY <2>2, <2>6, Views
    <3>3. [j \in Invoices |-> rows[j].status][i] # "absent"
      BY <2>4
    <3>4. Lifecycle!MarkDuplicate(i, row.fields, row.original)
      BY <3>1, <3>2, <3>3 DEF Lifecycle!MarkDuplicate
    <3>5. QED
      BY <2>3, <3>1, <3>4 DEF Lifecycle!Next
  <2>7. QED
    BY <2>4, <2>5, <2>6
<1>4. QED
  BY <1>1, <1>2, <1>3, RowSteps

\* What clients read always follows the abstract life cycle.
THEOREM Implementation == Spec => ImplementsLifecycle
<1>1. TypeOK /\ RowInv /\ [Next]_vars => [Lifecycle!Next]_(Lifecycle!vars)
  BY StepImplements
<1>2. QED
  BY <1>1, InitImplements, TypeCorrect, RowsCorrect, PTL
  DEF Spec, ImplementsLifecycle, Lifecycle!Spec

-----------------------------------------------------------------------------
(***************************************************************************)
(* Acknowledged success, and tasks that are never lost.                    *)
(***************************************************************************)

\* No process is done, and no transaction aborted, at the start.
LEMMA InitSuccessInv == Init => SuccessInv
  BY DEF Init, SuccessInv, SuccessIsVisible

\* A process gets to "done" only by committing a settled draft.
LEMMA NextSuccessInv == TypeOK /\ RowInv /\ SuccessInv /\ [Next]_vars => SuccessInv'
<1> SUFFICES ASSUME TypeOK, RowInv, SuccessInv, [Next]_vars,
                    "statement" \notin Faults
             PROVE  broken' = {} /\ SuccessIsVisible'
  BY DEF SuccessInv
<1>1. broken = {} /\ SuccessIsVisible
  BY DEF SuccessInv
<1>2. broken' = {}
  BY <1>1
  DEF Next, Outside, vars, session, Upload, Process, Receive, Settle, Serve,
      BeginUpload,
      Enqueue, CommitUpload, AbortUpload, Deliver, Submit, Load, Lock, Extract,
      ExtractFails, CheckDuplicates, CheckFails, Commit, CommitFails,
      RollbackAndRetry, RollbackAndGiveUp, Republish, RepublishFails,
      Acknowledge, Respond,
      Abandon, Crash, HardTimeLimit, Evict, Finish, EndSession
<1>3. ASSUME NEW p \in Processes, pc'[p] = "done"
      PROVE  \/ pc[p] = "done" /\ job'[p] = job[p]
             \/ Commit(p)
  <2>1. CASE \E i \in Invoices : Upload(i)
    BY <1>3, <2>1
    DEF Upload, BeginUpload, Enqueue, CommitUpload, AbortUpload, session
  <2>2. ASSUME NEW q \in Processes, Process(q)
        PROVE  \/ pc[p] = "done" /\ job'[p] = job[p]
               \/ Commit(p)
    BY <1>3, <2>2
    DEF Process, Load, Lock, Extract, ExtractFails, CheckDuplicates, CheckFails,
        Commit, CommitFails, TypeOK
  <2>3. ASSUME NEW w \in Workers,
               Receive(w) \/ Settle(w) \/ Crash(w) \/ HardTimeLimit(w)
        PROVE  pc[p] = "done" /\ job'[p] = job[p]
    <3>1. CASE Receive(w)
      BY <1>3, <3>1 DEF Receive, Deliver, TypeOK
    <3>2. CASE Settle(w)
      BY <1>3, <3>2
      DEF Settle, RollbackAndRetry, RollbackAndGiveUp, Republish,
          RepublishFails, Acknowledge,
          Finish, EndSession, TypeOK
    <3>3. CASE Crash(w) \/ HardTimeLimit(w)
      BY <1>3, <3>3 DEF Crash, HardTimeLimit, Finish, EndSession, TypeOK
    <3>4. QED
      BY <2>3, <3>1, <3>2, <3>3
  <2>4. ASSUME NEW q \in Requests, Serve(q)
        PROVE  pc[p] = "done" /\ job'[p] = job[p]
    BY <1>3, <2>4
    DEF Serve, Submit, Respond, Abandon, Finish, EndSession, TypeOK
  <2>5. CASE Evict \/ UNCHANGED vars
    BY <1>3, <2>5 DEF Evict, session, vars
  <2>6. QED
    BY <2>1, <2>2, <2>3, <2>4, <2>5 DEF Next, Outside
<1>4. ASSUME NEW p \in Processes, pc'[p] = "done"
      PROVE  Settled(job[p].invoice)'
  <2>1. CASE pc[p] = "done" /\ job'[p] = job[p]
    BY <2>1, <1>1, SettledStep, JobFields DEF SuccessIsVisible, Settled
  <2>2. CASE Commit(p)
    <3>1. /\ rows' = [rows EXCEPT ![job[p].invoice] = draft[p]]
          /\ job' = job /\ pc[p] = "commit"
      BY <1>1, <2>2 DEF Commit
    <3>2. draft[p].status \in {"processed", "duplicate"}
      BY <3>1 DEF RowInv, ProgramInv
    <3>3. QED
      BY <3>1, <3>2, JobFields DEF TypeOK, Settled
  <2>3. QED
    BY <1>3, <1>4, <2>1, <2>2
<1>5. QED
  BY <1>2, <1>4 DEF SuccessIsVisible

\* Unless a statement fails inside the duplicate check, a task that was
\* acknowledged as a success has left its invoice extracted.
THEOREM SuccessMeansSettled ==
  ASSUME "statement" \notin Faults
  PROVE  Spec => []SuccessIsVisible
<1>1. Spec => [](TypeOK /\ RowInv /\ SuccessInv)
  BY InitTypeOK, NextTypeOK, InitRowInv, NextRowInv, InitSuccessInv,
     NextSuccessInv, PTL DEF Spec
<1>2. SuccessInv => SuccessIsVisible
  BY DEF SuccessInv
<1>3. QED
  BY <1>1, <1>2, PTL

\* Nobody retries at the start.
LEMMA InitRetryInv == Init => RetryInv
  BY DEF Init, RetryInv, Processes

\* Only RollbackAndRetry leads to a retry, and it leaves the count alone.
LEMMA NextRetryInv == TypeOK /\ RetryInv /\ [Next]_vars => RetryInv'
<1> SUFFICES ASSUME TypeOK, RetryInv, [Next]_vars,
                    NEW w \in Workers, pc'[w] = "retry"
             PROVE  job'[w].tries < MaxRetries
  BY DEF RetryInv
<1>1. w \in Processes
  BY DEF Processes
<1>2. pc[w] = "retry" => job[w].tries < MaxRetries
  BY DEF RetryInv
<1>3. CASE \E i \in Invoices : Upload(i)
  BY <1>2, <1>3
  DEF Upload, BeginUpload, Enqueue, CommitUpload, AbortUpload, session
<1>4. ASSUME NEW p \in Processes, Process(p) PROVE job'[w].tries < MaxRetries
  <2>1. UNCHANGED job
    BY <1>4 DEF Process, Load, Lock, Extract, ExtractFails, CheckDuplicates,
        CheckFails, Commit, CommitFails
  <2>2. PICK s \in Steps \ {"retry"} : pc' = [pc EXCEPT ![p] = s]
    BY <1>4 DEF Process, Load, Lock, Extract, ExtractFails, CheckDuplicates,
        CheckFails, Commit, CommitFails, Steps
  <2>3. pc[w] = "retry"
    BY <1>1, <2>2 DEF TypeOK
  <2>4. QED
    BY <1>2, <2>1, <2>3
<1>5. ASSUME NEW v \in Workers, Receive(v) PROVE job'[w].tries < MaxRetries
  BY <1>1, <1>2, <1>5 DEF Receive, Deliver, TypeOK
<1>6. ASSUME NEW v \in Workers, Settle(v) PROVE job'[w].tries < MaxRetries
  BY <1>1, <1>2, <1>6
  DEF Settle, RollbackAndRetry, RollbackAndGiveUp, Republish, RepublishFails,
      Acknowledge,
      Finish, EndSession, TypeOK
<1>7. ASSUME NEW v \in Workers, Crash(v) \/ HardTimeLimit(v)
      PROVE  job'[w].tries < MaxRetries
  BY <1>1, <1>2, <1>7 DEF Crash, HardTimeLimit, Finish, EndSession, TypeOK
<1>8. ASSUME NEW q \in Requests, Serve(q) PROVE job'[w].tries < MaxRetries
  BY <1>1, <1>2, <1>8
  DEF Serve, Submit, Respond, Abandon, Finish, EndSession, TypeOK
<1>9. CASE Evict \/ UNCHANGED vars
  BY <1>2, <1>9 DEF Evict, session, vars
<1>10. QED
  BY <1>3, <1>4, <1>5, <1>6, <1>7, <1>8, <1>9 DEF Next, Outside

\* Before its task is enqueued, nothing is promised.
LEMMA InitTaskInv == Init => TaskInv
  BY DEF Init, TaskInv

\* Every step hands an enqueued invoice on: from the upload to the broker, to
\* a worker, to the next attempt, and at last to a settled row or to gaveUp.
LEMMA NextTaskInv ==
  TypeOK /\ RowInv /\ SuccessInv /\ RetryInv /\ TaskInv /\ [Next]_vars
    => TaskInv'
<1> SUFFICES ASSUME TypeOK, RowInv, SuccessInv, RetryInv, TaskInv, [Next]_vars,
                    Faults \cap {"statement", "republish", "evict"} = {},
                    NEW i \in Invoices,
                    upload'[i] \in {"enqueued", "committed"}
             PROVE  Carried(i)'
  BY DEF TaskInv
<1>1. upload[i] \in {"enqueued", "committed"} => Carried(i)
  BY DEF TaskInv
<1>2. Settled(i) => Settled(i)'
  BY SettledStep
<1>3. ASSUME NEW j \in Invoices, Upload(j) PROVE Carried(i)'
  <2>1. CASE Enqueue(j) /\ j = i
    <3>1. queue'[i][0] = queue[i][0] + 1
      BY <2>1, PipelineAssumption DEF Enqueue, TypeOK, Retries
    <3>2. queue[i][0] \in Nat /\ 0 \in Retries
      BY PipelineAssumption DEF TypeOK, Retries
    <3>3. queue'[i][0] > 0
      BY <3>1, <3>2
    <3>4. QED
      BY <3>2, <3>3 DEF Carried
  <2>2. CASE ~(Enqueue(j) /\ j = i)
    <3>1. Carried(i)
      BY <1>1, <1>3, <2>2
      DEF Upload, BeginUpload, Enqueue, CommitUpload, AbortUpload, TypeOK
    <3>2. UNCHANGED <<pc, job, gaveUp>>
      BY <1>3
      DEF Upload, BeginUpload, Enqueue, CommitUpload, AbortUpload, session
    <3>3. queue'[i] = queue[i]
      BY <1>3, <2>2
      DEF Upload, BeginUpload, Enqueue, CommitUpload, AbortUpload, TypeOK
    <3>4. QED
      BY <1>2, <3>1, <3>2, <3>3 DEF Carried, Working
  <2>3. QED
    BY <2>1, <2>2
<1>4. CASE ~ \E j \in Invoices : Upload(j)
  <2>1. UNCHANGED upload
    BY <1>4
    DEF Next, Outside, vars, session, Process, Receive, Settle, Serve, Deliver,
        Submit,
        Load, Lock, Extract, ExtractFails, CheckDuplicates, CheckFails, Commit,
        CommitFails, RollbackAndRetry, RollbackAndGiveUp, Republish,
        RepublishFails,
        Acknowledge, Respond, Abandon, Crash, HardTimeLimit, Evict
  <2>2. Carried(i)
    BY <1>1, <2>1
  <2>3. ASSUME UNCHANGED <<queue, gaveUp>>,
               \A w \in Workers : Working(w, i) => Working(w, i)'
        PROVE  Carried(i)'
    BY <1>2, <2>2, <2>3 DEF Carried
  <2>4. ASSUME NEW p \in Processes, Process(p) PROVE Carried(i)'
    <3>1. UNCHANGED <<queue, gaveUp, job>>
      BY <2>4
      DEF Process, Load, Lock, Extract, ExtractFails, CheckDuplicates,
          CheckFails, Commit, CommitFails
    <3>2. CASE Commit(p) /\ job[p].invoice = i
      <4>1. /\ rows' = [rows EXCEPT ![i] = draft[p]]
            /\ pc[p] = "commit"
        BY <3>2 DEF Commit, SuccessInv
      <4>2. draft[p].status \in {"processed", "duplicate"}
        BY <4>1 DEF RowInv, ProgramInv
      <4>3. Settled(i)'
        BY <4>1, <4>2 DEF TypeOK, Settled
      <4>4. QED
        BY <4>3 DEF Carried
    <3>3. CASE ~(Commit(p) /\ job[p].invoice = i)
      <4>1. \A w \in Workers : Working(w, i) => Working(w, i)'
        BY <2>4, <3>1, <3>3
        DEF Process, Load, Lock, Extract, ExtractFails, CheckDuplicates,
            CheckFails, Commit, CommitFails, Working, TypeOK, Processes
      <4>2. QED
        BY <2>3, <3>1, <4>1
    <3>4. QED
      BY <3>2, <3>3
  <2>5. ASSUME NEW w \in Workers, NEW j \in Invoices, NEW r \in Retries,
               Deliver(w, j, r)
        PROVE  Carried(i)'
    <3>1. /\ w \in Processes /\ pc'[w] = "load" /\ job'[w].invoice = j
          /\ pc[w] = "idle"
          /\ UNCHANGED <<rows, gaveUp>>
      BY <2>5 DEF Deliver, TypeOK, Processes
    <3>2. CASE j = i
      BY <3>1, <3>2 DEF Carried, Working
    <3>3. CASE j # i
      <4>1. queue'[i] = queue[i]
        BY <2>5, <3>3 DEF Deliver, TypeOK
      <4>2. \A v \in Workers : Working(v, i) => Working(v, i)'
        BY <2>5, <3>1 DEF Deliver, TypeOK, Processes, Working
      <4>3. QED
        BY <1>2, <2>2, <3>1, <4>1, <4>2 DEF Carried
    <3>4. QED
      BY <3>2, <3>3
  <2>6. ASSUME NEW q \in Requests, Serve(q) PROVE Carried(i)'
    <3>1. \A w \in Workers : w # q /\ w \in Processes
      BY PipelineAssumption DEF Processes
    <3>2. \A w \in Workers : pc'[w] = pc[w] /\ job'[w] = job[w]
      BY <2>6, <3>1
      DEF Serve, Submit, Respond, Abandon, Finish, EndSession, TypeOK
    <3>3. UNCHANGED <<queue, gaveUp>>
      BY <2>6 DEF Serve, Submit, Respond, Abandon
    <3>4. QED
      BY <2>3, <3>2, <3>3 DEF Working
  <2>7. ASSUME NEW w \in Workers, RollbackAndRetry(w) PROVE Carried(i)'
    <3>1. \A v \in Workers : Working(v, i) => Working(v, i)'
      BY <2>7 DEF RollbackAndRetry, EndSession, Working, TypeOK, Processes
    <3>2. QED
      BY <2>3, <2>7, <3>1 DEF RollbackAndRetry
  <2>8. ASSUME NEW w \in Workers, RollbackAndGiveUp(w) \/ HardTimeLimit(w)
        PROVE  Carried(i)'
    <3>1. gaveUp' = gaveUp \cup {job[w].invoice} /\ UNCHANGED <<queue, job>>
      BY <2>8 DEF RollbackAndGiveUp, HardTimeLimit
    <3>2. \A v \in Workers : v # w /\ Working(v, i) => Working(v, i)'
      BY <2>8
      DEF RollbackAndGiveUp, HardTimeLimit, EndSession, Working, TypeOK,
          Processes
    <3>3. Working(w, i) => i \in gaveUp'
      BY <3>1 DEF Working
    <3>4. QED
      BY <1>2, <2>2, <3>1, <3>2, <3>3 DEF Carried
  <2>9. ASSUME NEW w \in Workers, Republish(w) \/ Crash(w) PROVE Carried(i)'
    <3>1. /\ w \in Processes /\ job[w].invoice \in Invoices
          /\ UNCHANGED gaveUp
      BY <2>9, JobFields DEF Republish, Crash, Processes
    <3>2. PICK r \in Retries :
            queue' = [queue EXCEPT ![job[w].invoice][r] = @ + 1]
      <4>1. job[w].tries \in Retries
        BY <3>1, JobFields
      <4>2. ASSUME Republish(w) PROVE job[w].tries + 1 \in Retries
        BY <4>1, <4>2, PipelineAssumption DEF Retries, Republish, RetryInv
      <4>3. QED
        BY <2>9, <4>1, <4>2 DEF Republish, Crash
    <3>3. \A s \in Retries : queue[i][s] \in Nat
      BY DEF TypeOK
    <3>4. CASE job[w].invoice = i
      <4>1. queue'[i][r] = queue[i][r] + 1
        BY <3>2, <3>4 DEF TypeOK
      <4>2. queue'[i][r] > 0
        BY <3>3, <4>1
      <4>3. QED
        BY <4>2 DEF Carried
    <3>5. CASE job[w].invoice # i
      <4>1. queue'[i] = queue[i]
        BY <3>1, <3>2, <3>5 DEF TypeOK
      <4>2. \A v \in Workers : Working(v, i) => Working(v, i)'
        BY <2>9, <3>5
        DEF Republish, Crash, Finish, EndSession, Working, TypeOK, Processes
      <4>3. QED
        BY <1>2, <2>2, <3>1, <4>1, <4>2 DEF Carried
    <3>6. QED
      BY <3>4, <3>5
  <2>10. ASSUME NEW w \in Workers, Acknowledge(w) \/ RepublishFails(w)
         PROVE  Carried(i)'
    <3>1. Acknowledge(w)
      BY <2>10 DEF RepublishFails
    <3>2. \A v \in Workers : Working(v, i) => Working(v, i)'
      BY <3>1 DEF Acknowledge, Finish, EndSession, Working, TypeOK, Processes
    <3>3. QED
      BY <2>3, <3>1, <3>2 DEF Acknowledge
  <2>11. CASE UNCHANGED vars
    BY <2>3, <2>11 DEF vars, Working
  <2>12. QED
    BY <1>4, <2>4, <2>5, <2>6, <2>7, <2>8, <2>9, <2>10, <2>11
    DEF Next, Outside, Receive, Settle, Evict
<1>5. QED
  BY <1>3, <1>4

\* The whole inductive invariant.
THEOREM InvariantHolds == Spec => []PipelineInv
  BY InitTypeOK, NextTypeOK, InitRowInv, NextRowInv, InitSuccessInv,
     NextSuccessInv, InitRetryInv, NextRetryInv, InitTaskInv, NextTaskInv, PTL
  DEF Spec, PipelineInv

\* Unless the broker loses the queue or refuses a retry, or a statement error is
\* swallowed, a pending invoice has a message or a worker until its last attempt.
THEOREM TasksAreKept ==
  ASSUME Faults \cap {"statement", "republish", "evict"} = {}
  PROVE  Spec => []NoTaskLost
<1>1. PipelineInv => NoTaskLost
  <2> SUFFICES ASSUME PipelineInv, NEW i \in Invoices, rows[i].status = "pending"
               PROVE  Outstanding(i) \/ i \in gaveUp
    BY DEF NoTaskLost
  <2>1. upload[i] = "committed"
    BY DEF PipelineInv, RowInv, UploadInv
  <2>2. Carried(i)
    BY <2>1 DEF PipelineInv, TaskInv
  <2>3. QED
    BY <2>2 DEF Carried, Working, Outstanding, Settled
<1>2. QED
  BY <1>1, InvariantHolds, PTL

-----------------------------------------------------------------------------
(***************************************************************************)
(* What a run reads, commits and returns, who may change a row, and what   *)
(* the marks of duplicates mean.                                           *)
(***************************************************************************)

\* Nothing has been read.
LEMMA InitReadingInv == Init => ReadingInv
  BY DEF Init, ReadingInv, RowIsOneReading, Settled, NoRow

\* A process that is at "check" or "commit" after a step has just extracted,
\* or was there before and has kept fields, reply and job.
LEMMA ReadingSteps ==
  ASSUME TypeOK, [Next]_vars, NEW p \in Processes, pc'[p] \in {"check", "commit"}
  PROVE  \/ Extract(p)
         \/ /\ pc[p] \in {"check", "commit"}
            /\ draft'[p].fields = draft[p].fields
            /\ reply'[p] = reply[p] /\ job'[p] = job[p]
<1> DEFINE Kept == /\ pc[p] \in {"check", "commit"}
                   /\ draft'[p].fields = draft[p].fields
                   /\ reply'[p] = reply[p] /\ job'[p] = job[p]
<1>1. CASE \E i \in Invoices : Upload(i)
  BY <1>1 DEF Upload, BeginUpload, Enqueue, CommitUpload, AbortUpload, session
<1>2. ASSUME NEW q \in Processes, Process(q)
      PROVE  Extract(p) \/ Kept
  <2>1. CASE CheckDuplicates(q)
    <3>1. /\ reply' = reply /\ job' = job
          /\ pc[q] = "check" /\ pc' = [pc EXCEPT ![q] = "commit"]
      BY <2>1 DEF CheckDuplicates
    <3>2. \/ draft' = draft
          \/ \E o : draft' = [draft EXCEPT ![q] = MarkDuplicate(draft[q], o)]
      BY <2>1 DEF CheckDuplicates
    <3>3. ASSUME NEW o PROVE MarkDuplicate(draft[q], o).fields = draft[q].fields
      BY DEF MarkDuplicate, TypeOK, Row
    <3>4. draft'[p].fields = draft[p].fields
      BY <3>2, <3>3 DEF TypeOK
    <3>5. QED
      BY <3>1, <3>4 DEF TypeOK
  <2>2. CASE Load(q) \/ Lock(q) \/ ExtractFails(q) \/ CheckFails(q)
                \/ Commit(q) \/ CommitFails(q)
    BY <2>2
    DEF Load, Lock, ExtractFails, CheckFails, Commit, CommitFails, TypeOK
  <2>3. CASE Extract(q)
    BY <2>3 DEF Extract, TypeOK
  <2>4. QED
    BY <1>2, <2>1, <2>2, <2>3 DEF Process
<1>3. ASSUME NEW w \in Workers,
             Receive(w) \/ Settle(w) \/ Crash(w) \/ HardTimeLimit(w)
      PROVE  Kept
  <2>1. CASE Receive(w)
    BY <2>1 DEF Receive, Deliver, TypeOK
  <2>2. CASE Settle(w)
    BY <2>2 DEF Settle, RollbackAndRetry, RollbackAndGiveUp, Republish,
        RepublishFails,
                Acknowledge, Finish, EndSession, TypeOK
  <2>3. CASE Crash(w) \/ HardTimeLimit(w)
    BY <2>3 DEF Crash, HardTimeLimit, Finish, EndSession, TypeOK
  <2>4. QED
    BY <1>3, <2>1, <2>2, <2>3
<1>4. ASSUME NEW q \in Requests, Serve(q) PROVE Kept
  BY <1>4 DEF Serve, Submit, Respond, Abandon, Finish, EndSession, TypeOK
<1>5. CASE Evict \/ UNCHANGED vars
  BY <1>5 DEF Evict, session, vars
<1>6. QED
  BY <1>1, <1>2, <1>3, <1>4, <1>5 DEF Next, Outside

\* Rows get their fields from drafts, and drafts theirs from a reading.
LEMMA NextReadingInv == TypeOK /\ RowInv /\ ReadingInv /\ [Next]_vars => ReadingInv'
<1> SUFFICES ASSUME TypeOK, RowInv, ReadingInv, [Next]_vars PROVE ReadingInv'
  OBVIOUS
<1>1. RowIsOneReading'
  <2>1. ASSUME NEW i \in Invoices, rows[i] = NoRow,
               rows' = [rows EXCEPT ![i] = NewRow]
        PROVE  RowIsOneReading'
    BY <2>1 DEF ReadingInv, RowIsOneReading, Settled, NewRow, NoRow, TypeOK
  <2>2. ASSUME NEW p \in Processes, pc[p] = "commit",
               rows' = [rows EXCEPT ![job[p].invoice] = draft[p]]
        PROVE  RowIsOneReading'
    BY <2>2 DEF ReadingInv, RowIsOneReading, Settled, TypeOK
  <2>3. CASE UNCHANGED rows
    BY <2>3 DEF ReadingInv, RowIsOneReading, Settled
  <2>4. QED
    BY <2>1, <2>2, <2>3, RowSteps
<1>2. ASSUME NEW p \in Processes, pc'[p] \in {"check", "commit"}
      PROVE  /\ draft'[p].fields \in Reads[job'[p].invoice]
             /\ reply'[p].fields = draft'[p].fields
             /\ reply'[p].status = "processed"
  <2>1. CASE Extract(p)
    <3>1. PICK data \in Reads[job[p].invoice] :
            /\ draft'[p] = UpdateExtractedData(draft[p], data)
            /\ reply'[p] = UpdateExtractedData(draft[p], data)
      BY <2>1 DEF Extract, TypeOK
    <3>2. job' = job
      BY <2>1 DEF Extract
    <3>3. draft[p] \in Row
      BY DEF TypeOK
    <3>4. QED
      BY <3>1, <3>2, <3>3 DEF UpdateExtractedData, Row
  <2>2. CASE ~Extract(p)
    BY <1>2, <2>2, ReadingSteps DEF ReadingInv
  <2>3. QED
    BY <2>1, <2>2
<1>3. QED
  BY <1>1, <1>2 DEF ReadingInv

\* What is stored is one reading of the file, however many runs there were.
THEOREM RowsAreReadings == Spec => []RowIsOneReading
<1>1. Spec => [](TypeOK /\ RowInv /\ ReadingInv)
  BY InitTypeOK, NextTypeOK, InitRowInv, NextRowInv, InitReadingInv,
     NextReadingInv, PTL DEF Spec
<1>2. ReadingInv => RowIsOneReading
  BY DEF ReadingInv
<1>3. QED
  BY <1>1, <1>2, PTL

\* A caller is shown the values that its run commits.
THEOREM RepliesAreCommitted == Spec => ReplyIsCommitted
<1> DEFINE Step == \A p \in Processes \ broken :
                      pc[p] = "commit" /\ pc'[p] = "done" =>
                         LET row == rows'[job[p].invoice]
                         IN  /\ row.fields = reply[p].fields
                             /\ row.status \in {reply[p].status, "duplicate"}
<1>1. TypeOK /\ RowInv /\ ReadingInv /\ [Next]_vars => [Step]_vars
  <2> SUFFICES ASSUME TypeOK, RowInv, ReadingInv, [Next]_vars,
                      NEW p \in Processes \ broken,
                      pc[p] = "commit", pc'[p] = "done"
               PROVE  /\ rows'[job[p].invoice].fields = reply[p].fields
                      /\ rows'[job[p].invoice].status
                            \in {reply[p].status, "duplicate"}
    OBVIOUS
  <2>1. Commit(p)
    <3>1. CASE \E i \in Invoices : Upload(i)
      BY <3>1 DEF Upload, BeginUpload, Enqueue, CommitUpload, AbortUpload,
          session
    <3>2. ASSUME NEW q \in Processes, Process(q) PROVE Commit(p)
      BY <3>2 DEF Process, Load, Lock, Extract, ExtractFails, CheckDuplicates,
                  CheckFails, Commit, CommitFails, TypeOK
    <3>3. ASSUME NEW w \in Workers,
                 Receive(w) \/ Settle(w) \/ Crash(w) \/ HardTimeLimit(w)
          PROVE  FALSE
      BY <3>3 DEF Receive, Deliver, Settle, RollbackAndRetry, RollbackAndGiveUp,
                  Republish, RepublishFails, Acknowledge, Crash, HardTimeLimit,
                  Finish,
                  EndSession, TypeOK
    <3>4. ASSUME NEW q \in Requests, Serve(q) PROVE FALSE
      BY <3>4 DEF Serve, Submit, Respond, Abandon, Finish, EndSession, TypeOK
    <3>5. CASE Evict \/ UNCHANGED vars
      BY <3>5 DEF Evict, session, vars
    <3>6. QED
      BY <3>1, <3>2, <3>3, <3>4, <3>5 DEF Next, Outside
  <2>2. rows'[job[p].invoice] = draft[p]
    BY <2>1, JobFields DEF Commit, TypeOK
  <2>3. draft[p].status \in {"processed", "duplicate"}
    BY DEF RowInv, ProgramInv
  <2>4. QED
    BY <2>2, <2>3 DEF ReadingInv
<1>2. Spec => [](TypeOK /\ RowInv /\ ReadingInv)
  BY InitTypeOK, NextTypeOK, InitRowInv, NextRowInv, InitReadingInv,
     NextReadingInv, PTL DEF Spec
<1>3. QED
  BY <1>1, <1>2, PTL DEF Spec, ReplyIsCommitted

\* Rows change by their own upload and by runs of their owner only, although
\* no UPDATE statement has a condition on the owner.
THEOREM OwnersWrite == Spec => OwnerWrites
<1> DEFINE Step == \A i \in Invoices :
                      rows'[i] # rows[i] =>
                          \/ upload[i] = "enqueued" /\ upload'[i] = "committed"
                          \/ \E p \in Processes :
                                job[p].invoice = i /\ job[p].user = Owner[i]
<1>1. TypeOK /\ RowInv /\ [Next]_vars => [Step]_vars
  <2> SUFFICES ASSUME TypeOK, RowInv, [Next]_vars, NEW i \in Invoices,
                      rows'[i] # rows[i]
               PROVE  \/ upload[i] = "enqueued" /\ upload'[i] = "committed"
                      \/ \E p \in Processes :
                            job[p].invoice = i /\ job[p].user = Owner[i]
    OBVIOUS
  <2>1. \/ \E k \in Invoices : CommitUpload(k)
        \/ \E p \in Processes :
              /\ pc[p] = "commit"
              /\ rows' = [rows EXCEPT ![job[p].invoice] = draft[p]]
    BY DEF Next, Outside, vars, session, Upload, Process, Receive, Settle,
        Serve,
           BeginUpload, Enqueue, AbortUpload, Deliver, Submit, Load, Lock,
           Extract, ExtractFails, CheckDuplicates, CheckFails, Commit,
           CommitFails, RollbackAndRetry, RollbackAndGiveUp, Republish,
           RepublishFails,
           Acknowledge, Respond, Abandon, Crash, HardTimeLimit, Evict
  <2>2. ASSUME NEW k \in Invoices, CommitUpload(k)
        PROVE  upload[i] = "enqueued" /\ upload'[i] = "committed"
    BY <2>2 DEF CommitUpload, TypeOK
  <2>3. ASSUME NEW p \in Processes, pc[p] = "commit",
               rows' = [rows EXCEPT ![job[p].invoice] = draft[p]]
        PROVE  job[p].invoice = i /\ job[p].user = Owner[i]
    <3>1. job[p].invoice = i
      BY <2>3 DEF TypeOK
    <3>2. Holding(p)
      BY <2>3 DEF Holding, RowInv, ProgramInv
    <3>3. QED
      BY <3>1, <3>2 DEF RowInv, DraftInv
  <2>4. QED
    BY <2>1, <2>2, <2>3
<1>2. QED
  BY <1>1, TypeCorrect, RowsCorrect, PTL DEF Spec, OwnerWrites

-----------------------------------------------------------------------------
(***************************************************************************)
(* What a run finds is published at once.                                  *)
(***************************************************************************)

\* Fields appear with the status that announces them, and duplicate_of with the
\* status duplicate, in one step.
THEOREM ExtractionsAreAtomic == Spec => ExtractionIsAtomic
<1> DEFINE Step == \A i \in Invoices :
                      /\ rows'[i].fields # rows[i].fields => Settled(i)'
                      /\ rows'[i].original # rows[i].original =>
                            rows'[i].status = "duplicate"
                      /\ ~Settled(i) /\ Settled(i)' =>
                            rows'[i].fields \in Reads[i]
<1>1. TypeOK /\ RowInv /\ ReadingInv /\ [Next]_vars => [Step]_vars
  <2> SUFFICES ASSUME TypeOK, RowInv, ReadingInv, [Next]_vars,
                      NEW i \in Invoices
               PROVE  /\ rows'[i].fields # rows[i].fields => Settled(i)'
                      /\ rows'[i].original # rows[i].original =>
                            rows'[i].status = "duplicate"
                      /\ ~Settled(i) /\ Settled(i)' =>
                            rows'[i].fields \in Reads[i]
    OBVIOUS
  <2>1. CASE UNCHANGED rows
    BY <2>1 DEF Settled
  <2>2. ASSUME NEW k \in Invoices, rows[k] = NoRow,
               rows' = [rows EXCEPT ![k] = NewRow]
        PROVE  rows'[i] = rows[i]
                  \/ /\ rows'[i].fields = rows[i].fields
                     /\ rows'[i].original = rows[i].original
                     /\ ~Settled(i)'
    BY <2>2 DEF NewRow, NoRow, Settled, TypeOK
  <2>3. ASSUME NEW p \in Processes, pc[p] = "commit", job[p].invoice = i,
               rows' = [rows EXCEPT ![job[p].invoice] = draft[p]]
        PROVE  /\ Settled(i)' /\ rows'[i].fields \in Reads[i]
               /\ rows'[i].original # rows[i].original =>
                     rows'[i].status = "duplicate"
    BY <2>3 DEF RowInv, ProgramInv, DraftInv, Holding, ReadingInv, Settled,
        TypeOK
  <2>4. ASSUME NEW p \in Processes, job[p].invoice # i,
               rows' = [rows EXCEPT ![job[p].invoice] = draft[p]]
        PROVE  rows'[i] = rows[i]
    BY <2>4 DEF TypeOK
  <2>5. QED
    BY <2>1, <2>2, <2>3, <2>4, RowSteps DEF Settled
<1>2. Spec => [](TypeOK /\ RowInv /\ ReadingInv)
  BY InitTypeOK, NextTypeOK, InitRowInv, NextRowInv, InitReadingInv,
     NextReadingInv, PTL DEF Spec
<1>3. QED
  BY <1>1, <1>2, PTL DEF Spec, ExtractionIsAtomic

-----------------------------------------------------------------------------
(***************************************************************************)
(* Duplicates, however runs overlap and are repeated.                      *)
(***************************************************************************)

\* Recording restrains nothing.
LEMMA HistoryStep == [HistoryNext]_<<vars, history>> => [Next]_vars
  BY DEF HistoryNext, history, LockAndRecord, CheckAndRecord,
         CheckFailsAndRecord, CommitAndRecord, Next, Process

\* What holds of the pipeline holds of the pipeline with a record.
LEMMA HistoryRows == HistorySpec => [](TypeOK /\ RowInv)
<1>1. HistoryInit => TypeOK /\ RowInv
  BY InitTypeOK, InitRowInv DEF HistoryInit
<1>2. TypeOK /\ RowInv /\ [HistoryNext]_<<vars, history>> => (TypeOK /\ RowInv)'
  BY HistoryStep, NextTypeOK, NextRowInv
<1>3. QED
  BY <1>1, <1>2, PTL DEF HistorySpec

\* Above 0.5, the vendor and the amount alone do not make a duplicate.
LEMMA MatchedByNumber ==
  ASSUME Threshold > 50, NEW x, NEW c, IsDuplicate(x, c)
  PROVE  NumberMatch(x, c)
  BY ScoringAssumption DEF IsDuplicate, Score, Weight

\* So the check looks at every invoice of the user that has the same number,
\* unless LIMIT may have cut it off.
LEMMA AllAreFound ==
  ASSUME Threshold > 50, TypeOK, NEW i \in Invoices, NEW fields,
         NEW c \in Invoices \ {i},
         Owner[c] = Owner[i], rows[c].status # "absent",
         IsDuplicate(fields, rows[c].fields),
         c \notin CutOff(i, Owner[i], fields),
         NEW found \in FindPotentialDuplicates(i, Owner[i], fields)
  PROVE  c \in found
<1>1. c \in Candidates(i, Owner[i], fields)
  BY MatchedByNumber DEF Candidates, Potential, SameNumber, NumberMatch
<1>2. Cardinality(Candidates(i, Owner[i], fields)) <= CandidateLimit
  BY <1>1 DEF CutOff
<1>3. QED
  BY <1>1, <1>2 DEF FindPotentialDuplicates

\* The steps that record nothing leave a process at "commit" only where and as
\* it was, and write no row a draft could have been compared with.
LEMMA UnrecordedSteps ==
  ASSUME TypeOK, RowInv,
         \/ \E p \in Processes : Load(p) \/ Extract(p) \/ ExtractFails(p)
         \/ Outside
         \/ UNCHANGED vars
  PROVE  /\ \A p \in Processes : pc'[p] = "commit" =>
               /\ pc[p] = "commit"
               /\ draft'[p] = draft[p] /\ job'[p] = job[p]
         /\ \A p \in Processes : Holding(p)' =>
               Holding(p) /\ job'[p] = job[p]
         /\ \/ UNCHANGED rows
            \/ \E i \in Invoices : /\ rows[i] = NoRow
                                  /\ rows' = [rows EXCEPT ![i] = NewRow]
<1> DEFINE Kept == /\ \A p \in Processes : pc'[p] = "commit" =>
                         /\ pc[p] = "commit"
                         /\ draft'[p] = draft[p] /\ job'[p] = job[p]
                   /\ \A p \in Processes : Holding(p)' =>
                         Holding(p) /\ job'[p] = job[p]
<1>1. ASSUME NEW i \in Invoices, Upload(i) PROVE Kept
  BY <1>1 DEF Upload, BeginUpload, Enqueue, CommitUpload, AbortUpload, session,
              Holding
<1>2. ASSUME NEW p \in Processes, Load(p) \/ Extract(p) \/ ExtractFails(p)
      PROVE  Kept /\ UNCHANGED rows
  <2>1. pc[p] = "extract" => Holding(p)
    BY DEF RowInv, ProgramInv, Holding
  <2>2. QED
    BY <1>2, <2>1 DEF Load, Extract, ExtractFails, Holding, TypeOK
<1>3. ASSUME NEW w \in Workers,
             Receive(w) \/ Settle(w) \/ Crash(w) \/ HardTimeLimit(w)
      PROVE  Kept /\ UNCHANGED rows
  <2>1. CASE Receive(w)
    <3>1. w \in Processes /\ pc[w] = "idle" /\ ~Holding(w)
      BY <2>1 DEF Receive, Deliver, Processes, RowInv, ProgramInv
    <3>2. QED
      BY <2>1, <3>1 DEF Receive, Deliver, Holding, TypeOK
  <2>2. CASE Settle(w)
    BY <2>2
    DEF Settle, RollbackAndRetry, RollbackAndGiveUp, Republish, RepublishFails,
        Acknowledge, Finish, EndSession, NoRow, Holding, TypeOK
  <2>3. CASE Crash(w) \/ HardTimeLimit(w)
    BY <2>3 DEF Crash, HardTimeLimit, Finish, EndSession, NoRow, Holding, TypeOK
  <2>4. QED
    BY <1>3, <2>1, <2>2, <2>3
<1>4. ASSUME NEW q \in Requests, Serve(q) PROVE Kept /\ UNCHANGED rows
  <2>1. q \in Processes /\ (pc[q] = "idle" => ~Holding(q))
    BY DEF Processes, RowInv, ProgramInv
  <2>2. QED
    BY <1>4, <2>1
    DEF Serve, Submit, Respond, Abandon, Finish, EndSession, NoRow, Holding,
        TypeOK
<1>5. CASE Evict \/ UNCHANGED vars
  BY <1>5 DEF Evict, session, vars, Holding
<1>6. Kept
  BY <1>1, <1>2, <1>3, <1>4, <1>5 DEF Outside
<1>7. ASSUME NEW i \in Invoices, Upload(i)
      PROVE  \/ UNCHANGED rows
             \/ rows[i] = NoRow /\ rows' = [rows EXCEPT ![i] = NewRow]
  <2>1. CASE CommitUpload(i)
    <3>1. rows[i].status = "absent" /\ rows[i] \in Row
      BY <2>1 DEF CommitUpload, RowInv, UploadInv, TypeOK
    <3>2. rows[i].fields = NoFields /\ rows[i].original = None
      BY <3>1 DEF RowInv, BlankInv, Settled
    <3>3. rows[i] = NoRow
      BY <3>1, <3>2 DEF NoRow, Row
    <3>4. QED
      BY <2>1, <3>3 DEF CommitUpload
  <2>2. CASE ~CommitUpload(i)
    BY <1>7, <2>2 DEF Upload, BeginUpload, Enqueue, AbortUpload
  <2>3. QED
    BY <2>1, <2>2
<1>8. QED
  BY <1>2, <1>3, <1>4, <1>5, <1>6, <1>7 DEF Outside, Evict, vars

\* The record has its type.
LEMMA HistoryTypeStep ==
  ASSUME TypeOK, HistoryTypeOK, [HistoryNext]_<<vars, history>>
  PROVE  HistoryTypeOK'
<1> USE DEF HistoryTypeOK
<1>1. ASSUME NEW p \in Processes, LockAndRecord(p) PROVE HistoryTypeOK'
  BY <1>1, JobFields DEF LockAndRecord, Lock
<1>2. ASSUME NEW p \in Processes, CheckAndRecord(p) PROVE HistoryTypeOK'
  <2>1. CutOff(job[p].invoice, job[p].user, draft[p].fields) \subseteq Invoices
    BY DEF CutOff, Candidates
  <2>2. QED
    BY <1>2, <2>1 DEF CheckAndRecord
<1>3. ASSUME NEW p \in Processes, CheckFailsAndRecord(p) PROVE HistoryTypeOK'
  BY <1>3 DEF CheckFailsAndRecord
<1>4. ASSUME NEW p \in Processes, CommitAndRecord(p) PROVE HistoryTypeOK'
  BY <1>4 DEF CommitAndRecord, Written
<1>5. CASE UNCHANGED history
  BY <1>5 DEF history
<1>6. QED
  BY <1>1, <1>2, <1>3, <1>4, <1>5 DEF HistoryNext

\* A commit leaves the table as it was, or writes the one row of its draft; no
\* other process is at its end afterwards that was not before.
LEMMA CommitRecorded ==
  ASSUME TypeOK, RowInv, HistoryTypeOK, NEW p \in Processes, CommitAndRecord(p)
  PROVE  /\ pc[p] = "commit" /\ job[p].invoice \in Invoices
         /\ pc'[p] # "commit" /\ ~Holding(p)' /\ UNCHANGED job
         /\ \A q \in Processes \ {p} : pc'[q] = pc[q] /\ draft'[q] = draft[q]
         /\ \A q \in Processes : missed'[q] = missed[q] \cup Written
         /\ \/ UNCHANGED rows
            \/ /\ rows' = [rows EXCEPT ![job[p].invoice] = draft[p]]
               /\ Written \subseteq {job[p].invoice}
  BY JobFields
  DEF CommitAndRecord, Commit, CommitFails, Holding, NoRow, Written, TypeOK

\* The check compares a draft with every row it has not missed.
LEMMA NextCheckInv ==
  ASSUME Threshold > 50, TypeOK, RowInv, HistoryTypeOK, CheckInv,
         [HistoryNext]_<<vars, history>>
  PROVE  CheckInv'
<1> SUFFICES ASSUME NEW p \in Processes, NEW c \in Invoices,
                    pc'[p] = "commit", draft'[p].status = "processed",
                    c # job'[p].invoice, Owner[c] = Owner[job'[p].invoice],
                    rows'[c].status = "processed", c \notin missed'[p],
                    IsDuplicate(draft'[p].fields, rows'[c].fields)
             PROVE  FALSE
  BY DEF CheckInv
<1>1. ASSUME pc[p] = "commit", draft'[p] = draft[p], job'[p] = job[p],
             rows'[c] = rows[c], missed'[p] = missed[p]
      PROVE  FALSE
  BY <1>1 DEF CheckInv
<1>2. ASSUME NEW q \in Processes, LockAndRecord(q) PROVE FALSE
  BY <1>1, <1>2 DEF LockAndRecord, Lock, TypeOK
<1>3. ASSUME NEW q \in Processes, CheckAndRecord(q) PROVE FALSE
  <2>1. CASE q # p
    BY <1>1, <1>3, <2>1 DEF CheckAndRecord, CheckDuplicates, HistoryTypeOK, TypeOK
  <2>2. CASE q = p
    <3> DEFINE i == job[p].invoice
    <3>1. /\ CheckDuplicates(p)
          /\ job' = job /\ rows' = rows /\ pc[p] = "check"
          /\ missed'[p] = CutOff(i, job[p].user, draft[p].fields)
      BY <1>3, <2>2 DEF CheckAndRecord, CheckDuplicates, HistoryTypeOK
    <3>2. /\ i \in Invoices /\ draft[p].status = "processed"
          /\ job[p].user = Owner[i]
      BY <3>1, JobFields DEF RowInv, ProgramInv, DraftInv, Holding
    <3>3. ASSUME NEW o,
                 draft' = [draft EXCEPT ![p] = MarkDuplicate(draft[p], o)]
          PROVE  FALSE
      BY <3>3 DEF MarkDuplicate, TypeOK, Row
    <3>4. PICK found \in FindPotentialDuplicates(i, Owner[i], draft[p].fields) :
            /\ {k \in found : IsDuplicate(draft[p].fields, rows[k].fields)} = {}
            /\ UNCHANGED draft
      BY <3>1, <3>2, <3>3 DEF CheckDuplicates
    <3>5. c \in found
      BY <3>1, <3>2, <3>4, AllAreFound
    <3>6. QED
      BY <3>1, <3>4, <3>5
  <2>3. QED
    BY <2>1, <2>2
<1>4. ASSUME NEW q \in Processes, CheckFailsAndRecord(q) PROVE FALSE
  BY <1>1, <1>4 DEF CheckFailsAndRecord, CheckFails, HistoryTypeOK, TypeOK
<1>5. ASSUME NEW q \in Processes, CommitAndRecord(q) PROVE FALSE
  <2>1. /\ p # q /\ pc[p] = "commit" /\ draft'[p] = draft[p]
        /\ job'[p] = job[p] /\ c \notin missed[p] /\ c \notin Written
    BY <1>5, CommitRecorded
  <2>2. rows'[c] = rows[c]
    BY <2>1 DEF Written
  <2>3. QED
    BY <2>1, <2>2 DEF CheckInv
<1>6. CASE \/ \E q \in Processes : Load(q) \/ Extract(q) \/ ExtractFails(q)
           \/ Outside
           \/ UNCHANGED vars
  <2>1. CASE UNCHANGED history
    <3>1. pc[p] = "commit" /\ draft'[p] = draft[p] /\ job'[p] = job[p]
      BY <1>6, UnrecordedSteps
    <3>2. \/ UNCHANGED rows
          \/ \E i \in Invoices : rows' = [rows EXCEPT ![i] = NewRow]
      BY <1>6, UnrecordedSteps
    <3>3. rows'[c] = rows[c]
      BY <3>2 DEF NewRow, NoRow, TypeOK
    <3>4. QED
      BY <1>1, <2>1, <3>1, <3>3 DEF history
  <2>2. QED
    BY <1>2, <1>3, <1>4, <1>5, <2>1 DEF HistoryNext, history
<1>7. QED
  BY <1>2, <1>3, <1>4, <1>5, <1>6 DEF HistoryNext

\* A commit that leaves a twin has missed the other row.
LEMMA NextTwinsOverlapped ==
  ASSUME TypeOK, RowInv, HistoryTypeOK, CheckInv, TwinsOverlapped,
         [HistoryNext]_<<vars, history>>
  PROVE  TwinsOverlapped'
<1>1. CASE UNCHANGED <<rows, history>>
  BY <1>1 DEF TwinsOverlapped, Twins, history
<1>2. ASSUME NEW p \in Processes, CommitAndRecord(p) PROVE TwinsOverlapped'
  <2> DEFINE i == job[p].invoice
  <2>1. \A k \in Invoices :
           unseen'[k] = IF k \in Written THEN missed[p] ELSE unseen[k] \ Written
    BY <1>2 DEF CommitAndRecord
  <2>2. \A k \in Invoices \ Written : rows'[k] = rows[k]
    BY DEF Written
  <2>3. i \in Invoices /\ pc[p] = "commit"
    BY <1>2, CommitRecorded
  <2>4. ASSUME NEW k \in Written PROVE k = i /\ rows'[i] = draft[p]
    BY <1>2, <2>3, <2>4, CommitRecorded DEF Written, TypeOK
  <2>5. ASSUME NEW k \in Written, NEW j \in Invoices \ Written,
               Twins(k, j)' \/ Twins(j, k)'
        PROVE  j \in unseen'[k]
    <3>1. k = i /\ rows'[i] = draft[p] /\ rows'[j] = rows[j]
      BY <2>2, <2>4, <2>5
    <3>2. /\ j # i /\ Owner[j] = Owner[i]
          /\ draft[p].status = "processed" /\ rows[j].status = "processed"
          /\ IsDuplicate(draft[p].fields, rows[j].fields)
      BY <2>5, <3>1 DEF Twins
    <3>3. j \in missed[p]
      BY <2>3, <3>2 DEF CheckInv
    <3>4. QED
      BY <2>1, <2>3, <2>5, <3>1, <3>3
  <2>6. ASSUME NEW k \in Invoices, NEW j \in Invoices, Twins(k, j)'
        PROVE  k \in unseen'[j] \/ j \in unseen'[k]
    <3>1. CASE k \in Written /\ j \in Written
      BY <2>4, <2>6, <3>1 DEF Twins
    <3>2. CASE k \in Written /\ j \notin Written
      BY <2>5, <2>6, <3>2
    <3>3. CASE k \notin Written /\ j \in Written
      BY <2>5, <2>6, <3>3
    <3>4. CASE k \notin Written /\ j \notin Written
      <4>1. Twins(k, j)
        BY <2>2, <2>6, <3>4 DEF Twins
      <4>2. QED
        BY <2>1, <3>4, <4>1 DEF TwinsOverlapped
    <3>5. QED
      BY <3>1, <3>2, <3>3, <3>4
  <2>7. QED
    BY <2>6 DEF TwinsOverlapped
<1>3. ASSUME NEW p \in Processes,
             LockAndRecord(p) \/ CheckAndRecord(p) \/ CheckFailsAndRecord(p)
      PROVE  UNCHANGED <<rows, unseen>>
  BY <1>3 DEF LockAndRecord, CheckAndRecord, CheckFailsAndRecord, Lock,
              CheckDuplicates, CheckFails
<1>4. ASSUME UNCHANGED <<rows, unseen>> PROVE TwinsOverlapped'
  BY <1>4 DEF TwinsOverlapped, Twins
<1>5. CASE /\ \/ \E q \in Processes : Load(q) \/ Extract(q) \/ ExtractFails(q)
              \/ Outside
              \/ UNCHANGED vars
           /\ UNCHANGED history
  <2>1. CASE UNCHANGED rows
    BY <1>1, <1>5, <2>1
  <2>2. ASSUME NEW i \in Invoices, rows' = [rows EXCEPT ![i] = NewRow]
        PROVE  TwinsOverlapped'
    <3>1. rows'[i].status # "processed" /\ \A j \in Invoices \ {i} : rows'[j] = rows[j]
      BY <2>2 DEF NewRow, NoRow, TypeOK
    <3>2. \A k, j \in Invoices : Twins(k, j)' => Twins(k, j)
      BY <3>1 DEF Twins
    <3>3. QED
      BY <1>5, <3>2 DEF TwinsOverlapped, history
  <2>3. QED
    BY <1>5, <2>1, <2>2, UnrecordedSteps
<1>6. QED
  BY <1>2, <1>3, <1>4, <1>5 DEF HistoryNext, history

\* Of two matching invoices one is marked, unless the run of the one committed
\* between the check and the commit of the other's, or a check failed or was
\* cut off: however many processes run, die, are repeated and read differently.
THEOREM TwinsOverlap ==
  ASSUME Threshold > 50
  PROVE  HistorySpec => []TwinsOverlapped
<1> DEFINE Inv == HistoryTypeOK /\ CheckInv /\ TwinsOverlapped
<1>1. HistoryInit => Inv
  BY DEF HistoryInit, Init, HistoryTypeOK, CheckInv, TwinsOverlapped, Twins, NoRow
<1>2. TypeOK /\ RowInv /\ Inv /\ [HistoryNext]_<<vars, history>> => Inv'
  BY HistoryTypeStep, NextCheckInv, NextTwinsOverlapped
<1>3. QED
  BY <1>1, <1>2, HistoryRows, PTL DEF HistorySpec

-----------------------------------------------------------------------------
\* A run that holds the draft of a settled invoice found it settled when it
\* began: nobody else can settle it in between.
LEMMA NextRepeatInv ==
  ASSUME TypeOK, RowInv, HistoryTypeOK, RepeatInv,
         [HistoryNext]_<<vars, history>>
  PROVE  RepeatInv'
<1> SUFFICES ASSUME NEW p \in Processes,
                    Holding(p)', Settled(job[p].invoice)'
             PROVE  (job[p].invoice \in repeated)'
  BY DEF RepeatInv
<1>1. ASSUME Holding(p), job'[p] = job[p],
             Settled(job[p].invoice)' => Settled(job[p].invoice),
             repeated \subseteq repeated'
      PROVE  (job[p].invoice \in repeated)'
  BY <1>1 DEF RepeatInv
<1>2. ASSUME NEW q \in Processes, LockAndRecord(q)
      PROVE  (job[p].invoice \in repeated)'
  <2>1. CASE q = p
    <3>1. UNCHANGED <<rows, job>>
          /\ repeated' = repeated \cup {i \in {job[p].invoice} : Settled(i)}
      BY <1>2, <2>1 DEF LockAndRecord, Lock
    <3>2. Settled(job[p].invoice)
      BY <3>1 DEF Settled
    <3>3. QED
      BY <3>1, <3>2
  <2>2. CASE q # p
    <3>1. Holding(p) /\ UNCHANGED <<rows, job>> /\ repeated \subseteq repeated'
      BY <1>2, <2>2 DEF LockAndRecord, Lock, Holding, TypeOK
    <3>2. QED
      BY <1>1, <3>1 DEF Settled
  <2>3. QED
    BY <2>1, <2>2
<1>3. ASSUME NEW q \in Processes, CheckAndRecord(q) \/ CheckFailsAndRecord(q)
      PROVE  (job[p].invoice \in repeated)'
  <2>1. /\ UNCHANGED <<rows, job, repeated>> /\ pc[q] = "check"
        /\ \A r \in Processes \ {q} : draft'[r] = draft[r]
    BY <1>3 DEF CheckAndRecord, CheckFailsAndRecord, CheckDuplicates, CheckFails,
                TypeOK
  <2>2. Holding(p)
    BY <2>1 DEF Holding, RowInv, ProgramInv
  <2>3. QED
    BY <1>1, <2>1, <2>2 DEF Settled
<1>4. ASSUME NEW q \in Processes, CommitAndRecord(q)
      PROVE  (job[p].invoice \in repeated)'
  <2>1. /\ p # q /\ Holding(p) /\ UNCHANGED <<job, repeated>>
        /\ Holding(q) /\ job[q].invoice \in Invoices
    BY <1>4, CommitRecorded DEF Holding, CommitAndRecord, RowInv, ProgramInv
  <2>2. job[p].invoice # job[q].invoice
    BY <2>1 DEF RowInv, LockInv
  <2>3. rows'[job[p].invoice] = rows[job[p].invoice]
    <3>1. job[p].invoice \in Invoices
      BY <2>1, JobFields DEF RowInv, ProgramInv
    <3>2. QED
      BY <1>4, <2>2, <3>1, CommitRecorded DEF TypeOK
  <2>4. QED
    BY <1>1, <2>1, <2>3 DEF Settled
<1>5. CASE /\ \/ \E q \in Processes : Load(q) \/ Extract(q) \/ ExtractFails(q)
              \/ Outside
              \/ UNCHANGED vars
           /\ UNCHANGED history
  <2>1. Holding(p) /\ job'[p] = job[p]
    BY <1>5, UnrecordedSteps
  <2>2. job[p].invoice \in Invoices
    BY <2>1, JobFields DEF RowInv, ProgramInv
  <2>3. Settled(job[p].invoice)' => Settled(job[p].invoice)
    <3>1. ASSUME NEW i \in Invoices, rows' = [rows EXCEPT ![i] = NewRow]
          PROVE  Settled(job[p].invoice)' => Settled(job[p].invoice)
      BY <2>1, <2>2, <3>1 DEF Settled, NewRow, NoRow, TypeOK
    <3>2. QED
      BY <1>5, <2>1, <3>1, UnrecordedSteps DEF Settled
  <2>4. QED
    BY <1>1, <1>5, <2>1, <2>3 DEF history
<1>6. QED
  BY <1>2, <1>3, <1>4, <1>5 DEF HistoryNext, history

\* A first run writes an invoice no mark points to yet, and its own mark points
\* elsewhere.
LEMMA NextOriginalOrRepeat ==
  ASSUME TypeOK, RowInv, HistoryTypeOK, RepeatInv, OriginalOrRepeat,
         [HistoryNext]_<<vars, history>>
  PROVE  OriginalOrRepeat'
<1>1. repeated \subseteq repeated'
  BY DEF HistoryNext, LockAndRecord, CheckAndRecord, CheckFailsAndRecord,
         CommitAndRecord, history
<1>2. CASE UNCHANGED rows
  BY <1>1, <1>2 DEF OriginalOrRepeat, Duplicates
<1>3. ASSUME NEW i \in Invoices, rows[i] = NoRow,
             rows' = [rows EXCEPT ![i] = NewRow]
      PROVE  OriginalOrRepeat'
  <2>1. Duplicates' = Duplicates /\ i \notin Duplicates
        /\ \A j \in Duplicates : rows'[j] = rows[j]
    BY <1>3 DEF Duplicates, NewRow, NoRow, TypeOK
  <2>2. QED
    BY <1>1, <2>1 DEF OriginalOrRepeat
<1>4. ASSUME NEW p \in Processes, pc[p] = "commit",
             rows' = [rows EXCEPT ![job[p].invoice] = draft[p]]
      PROVE  OriginalOrRepeat'
  <2> DEFINE i == job[p].invoice
  <2>1. i \in Invoices /\ Holding(p)
    BY <1>4, JobFields DEF RowInv, ProgramInv, Holding
  <2>2. rows'[i] = draft[p] /\ \A j \in Invoices \ {i} : rows'[j] = rows[j]
    BY <1>4, <2>1 DEF TypeOK
  <2>3. ASSUME i \notin repeated PROVE \A j \in Duplicates : rows[j].original # i
    BY <2>1, <2>3 DEF RepeatInv, RowInv, OriginalIsSettled, Duplicates
  <2>4. i \in Duplicates' => rows'[i].original # i
    BY <1>4, <2>1, <2>2, PipelineAssumption
       DEF RowInv, ProgramInv, DraftInv, PointsTo, Holding, Duplicates
  <2>5. ASSUME NEW group \in SUBSET (Duplicates \ repeated)', group # {}
        PROVE  \E j \in group : rows'[j].original \notin group
    <3> DEFINE rest == group \ {i}
    <3>1. rest \in SUBSET (Duplicates \ repeated)
      BY <1>1, <2>2 DEF Duplicates
    <3>2. CASE rest = {}
      BY <2>4, <2>5, <3>2
    <3>3. CASE rest # {}
      <4>1. PICK j \in rest : rows[j].original \notin rest
        BY <3>1, <3>3 DEF OriginalOrRepeat
      <4>2. rows'[j] = rows[j] /\ j \in Duplicates
        BY <2>2, <3>1 DEF Duplicates
      <4>3. CASE i \in group
        BY <1>1, <2>3, <4>1, <4>2, <4>3
      <4>4. CASE i \notin group
        BY <4>1, <4>2, <4>4
      <4>5. QED
        BY <4>3, <4>4
    <3>4. QED
      BY <3>2, <3>3
  <2>6. QED
    BY <2>5 DEF OriginalOrRepeat
<1>5. QED
  BY <1>2, <1>3, <1>4, HistoryStep, RowSteps

\* Every group of duplicates keeps an original outside it, unless one of them
\* was run again after it had been settled: however many processes run side by
\* side, fail, die or lose what they wrote.
THEOREM OriginalsOrRepeats == HistorySpec => []OriginalOrRepeat
<1> DEFINE Inv == HistoryTypeOK /\ RepeatInv /\ OriginalOrRepeat
<1>1. HistoryInit => Inv
  <2> SUFFICES ASSUME HistoryInit PROVE Inv
    OBVIOUS
  <2>1. Duplicates = {}
    BY DEF HistoryInit, Init, Duplicates, NoRow
  <2>2. QED
    BY <2>1 DEF HistoryInit, Init, HistoryTypeOK, RepeatInv, OriginalOrRepeat,
                Holding, NoRow
<1>2. TypeOK /\ RowInv /\ Inv /\ [HistoryNext]_<<vars, history>> => Inv'
  BY HistoryTypeStep, NextRepeatInv, NextOriginalOrRepeat
<1>3. QED
  BY <1>1, <1>2, HistoryRows, PTL DEF HistorySpec
=============================================================================
