----------------------------- MODULE UploadProofs -----------------------------
(***************************************************************************)
(* The upload directory, for any number of concurrent uploads; then runs   *)
(* and uploads side by side, for any number of them: what was proved of    *)
(* uploads alone still holds, and what may tear a reading.                 *)
(***************************************************************************)
EXTENDS ApiSessions, TLAPS

\* Every request starts before its first step.
LEMMA InitTypeOK == Init => TypeOK
  BY DEF Init, TypeOK

\* Every step keeps the variables within their types.
LEMMA NextTypeOK == TypeOK /\ [Next]_vars => TypeOK'
<1> SUFFICES ASSUME TypeOK, [Next]_vars PROVE TypeOK'
  OBVIOUS
<1> USE UploadAssumption DEF TypeOK, Go, Release, Working, Ended
<1>1. CASE UNCHANGED vars
  BY <1>1 DEF vars
<1>2. ASSUME NEW i \in Uploads, Receive(i) PROVE TypeOK'
  BY <1>2 DEF Receive
<1>3. ASSUME NEW i \in Uploads, SelectUser(i) PROVE TypeOK'
  BY <1>3 DEF SelectUser
<1>4. ASSUME NEW i \in Uploads, InsertUser(i) PROVE TypeOK'
  BY <1>4 DEF InsertUser
<1>5. ASSUME NEW i \in Uploads, OpenFile(i) PROVE TypeOK'
  BY <1>5 DEF OpenFile
<1>6. ASSUME NEW i \in Uploads, WriteFile(i) PROVE TypeOK'
  BY <1>6 DEF WriteFile
<1>7. ASSUME NEW i \in Uploads, CreateInvoice(i) PROVE TypeOK'
  BY <1>7 DEF CreateInvoice
<1>8. ASSUME NEW i \in Uploads, Enqueue(i) PROVE TypeOK'
  BY <1>8 DEF Enqueue
<1>9. ASSUME NEW i \in Uploads, Commit(i) PROVE TypeOK'
  BY <1>9 DEF Commit
<1>10. ASSUME NEW i \in Uploads, Fail(i) PROVE TypeOK'
  BY <1>10 DEF Fail
<1>11. ASSUME NEW i \in Uploads, Die(i) PROVE TypeOK'
  BY <1>11 DEF Die
<1>12. QED
  BY <1>1, <1>2, <1>3, <1>4, <1>5, <1>6, <1>7, <1>8, <1>9, <1>10, <1>11
     DEF Next, Serve

-----------------------------------------------------------------------------
(***************************************************************************)
(* FilesAreWhole is not inductive: it says nothing of requests that have   *)
(* not committed yet, which may have found the file truncated.             *)
(***************************************************************************)
FileInv ==
    /\ \A f \in Paths : content[f] \in Uploads =>
          Path[content[f]] = f /\ at[content[f]] \in {"write", "lost"}
    /\ \A i \in Uploads :
          at[i] \in {"write", "create", "enqueue", "commit", "done"} =>
             content[Path[i]] # "missing"
    /\ \A i \in invoices : at[i] = "done"

\* No file exists at the start.
LEMMA InitFileInv == Init => FileInv
  BY UploadAssumption DEF Init, FileInv

\* Who truncates a file completes it, dies, or leaves it to the next one.
LEMMA NextFileInv ==
  ASSUME TypeOK, FileInv, [Next]_vars
  PROVE  FileInv'
<1> USE UploadAssumption DEF FileInv, TypeOK, Go, Working, Ended
<1>1. CASE UNCHANGED vars
  BY <1>1 DEF vars
<1>2. ASSUME NEW i \in Uploads, Receive(i) PROVE FileInv'
  BY <1>2 DEF Receive
<1>3. ASSUME NEW i \in Uploads, SelectUser(i) PROVE FileInv'
  BY <1>3 DEF SelectUser
<1>4. ASSUME NEW i \in Uploads, InsertUser(i) PROVE FileInv'
  BY <1>4 DEF InsertUser
<1>5. ASSUME NEW i \in Uploads, OpenFile(i) PROVE FileInv'
  BY <1>5 DEF OpenFile
<1>6. ASSUME NEW i \in Uploads, WriteFile(i) PROVE FileInv'
  BY <1>6 DEF WriteFile
<1>7. ASSUME NEW i \in Uploads, CreateInvoice(i) PROVE FileInv'
  BY <1>7 DEF CreateInvoice
<1>8. ASSUME NEW i \in Uploads, Enqueue(i) PROVE FileInv'
  BY <1>8 DEF Enqueue
<1>9. ASSUME NEW i \in Uploads, Commit(i) PROVE FileInv'
  BY <1>9 DEF Commit
<1>10. ASSUME NEW i \in Uploads, Fail(i) PROVE FileInv'
  BY <1>10 DEF Fail
<1>11. ASSUME NEW i \in Uploads, Die(i) PROVE FileInv'
  BY <1>11 DEF Die
<1>12. QED
  BY <1>1, <1>2, <1>3, <1>4, <1>5, <1>6, <1>7, <1>8, <1>9, <1>10, <1>11
     DEF Next, Serve

\* The file of a committed invoice is whole unless somebody is writing the
\* same document again, or has died in doing so.
THEOREM FilesStayWhole == Spec => []FilesAreWhole
<1>1. TypeOK /\ FileInv => FilesAreWhole
  <2> SUFFICES ASSUME TypeOK, FileInv, NEW i \in invoices,
                      content[Path[i]] # "whole"
               PROVE  \E j \in Uploads \ {i} :
                         /\ Path[j] = Path[i]
                         /\ \/ at[j] = "write"
                            \/ at[j] = "lost" /\ content[Path[i]] = j
    BY DEF FilesAreWhole
  <2>1. i \in Uploads /\ at[i] = "done" /\ Path[i] \in Paths
    BY UploadAssumption DEF TypeOK, FileInv
  <2>2. content[Path[i]] # "missing"
    BY <2>1 DEF FileInv
  <2>3. content[Path[i]] \in Uploads
    BY <2>1, <2>2 DEF TypeOK
  <2>4. content[Path[i]] # i
    BY <2>1, <2>3 DEF FileInv
  <2>5. QED
    BY <2>1, <2>3, <2>4 DEF FileInv
<1>2. Init => TypeOK /\ FileInv
  BY InitTypeOK, InitFileInv
<1>3. TypeOK /\ FileInv /\ [Next]_vars => TypeOK' /\ FileInv'
  BY NextTypeOK, NextFileInv
<1>4. QED
  BY <1>1, <1>2, <1>3, PTL DEF Spec

-----------------------------------------------------------------------------
(***************************************************************************)
(* The pipeline's view of an upload.                                       *)
(***************************************************************************)
TaskInv == \A i \in tasks : at[i] \in {"commit", "done", "aborted"}

\* A task is enqueued once, after the row was flushed.
LEMMA NextTaskInv ==
  ASSUME TypeOK, TaskInv, [Next]_vars
  PROVE  TaskInv'
<1> USE DEF TaskInv, TypeOK, Go, Working
<1>1. CASE UNCHANGED vars
  BY <1>1 DEF vars
<1>2. ASSUME NEW i \in Uploads,
             Receive(i) \/ SelectUser(i) \/ InsertUser(i) \/ OpenFile(i) \/ WriteFile(i)
      PROVE  TaskInv'
  BY <1>2 DEF Receive, SelectUser, InsertUser, OpenFile, WriteFile
<1>3. ASSUME NEW i \in Uploads,
             CreateInvoice(i) \/ Enqueue(i) \/ Commit(i) \/ Fail(i) \/ Die(i)
      PROVE  TaskInv'
  BY <1>3 DEF CreateInvoice, Enqueue, Commit, Fail, Die
<1>4. QED
  BY <1>1, <1>2, <1>3 DEF Next, Serve

\* No upload has begun, and there is no process.
LEMMA InitPipeline == Init => Pipeline!Init
<1> SUFFICES ASSUME Init PROVE Pipeline!Init
  OBVIOUS
<1>1. \A i \in Uploads : Progress(i) = "none" /\ InvoiceRow(i) = Pipeline!NoRow
  BY DEF Init, Progress, InvoiceRow, Pipeline!NoRow, Pipeline!NoFields
<1>2. \A x, y : NoProcess(x) = [p \in Pipeline!Processes |-> y]
  BY DEF NoProcess, Pipeline!Processes
<1>3. Pipeline!Retries = {0}
  BY DEF Pipeline!Retries
<1>4. QED
  BY <1>1, <1>2, <1>3 DEF Init, Pipeline!Init

\* How far an upload is for the pipeline, before and after a step.
LEMMA ProgressOf ==
  ASSUME NEW i \in Uploads
  PROVE  /\ at[i] = "enqueue" <=> Progress(i) = "flushed"
         /\ at[i] = "commit" <=> Progress(i) = "enqueued"
         /\ at[i] = "done" <=> Progress(i) = "committed"
         /\ at[i] = "aborted" <=> Progress(i) = "aborted"
         /\ at'[i] = "enqueue" <=> Progress(i)' = "flushed"
         /\ at'[i] = "commit" <=> Progress(i)' = "enqueued"
         /\ at'[i] = "done" <=> Progress(i)' = "committed"
         /\ at'[i] = "aborted" <=> Progress(i)' = "aborted"
         /\ Progress(i) \in {"none", "flushed", "enqueued", "committed", "aborted"}
         /\ Progress(i)' \in {"none", "flushed", "enqueued", "committed", "aborted"}
  BY DEF Progress

\* Only the upload that moves makes progress.
LEMMA UploadMoves ==
  ASSUME TypeOK, NEW i \in Uploads, NEW to, at' = [at EXCEPT ![i] = to]
  PROVE  /\ at'[i] = to
         /\ [j \in Uploads |-> Progress(j)]' =
               [[j \in Uploads |-> Progress(j)] EXCEPT ![i] = Progress(i)']
<1>1. \A j \in Uploads \ {i} : at'[j] = at[j]
  BY DEF TypeOK
<1>2. \A j \in Uploads \ {i} : Progress(j)' = Progress(j)
  BY <1>1 DEF Progress
<1>3. QED
  BY <1>2 DEF TypeOK

\* A step of one upload is a step of the pipeline, or none.
LEMMA StepOfPipeline ==
  ASSUME TypeOK, TaskInv, [Next]_vars
  PROVE  [Pipeline!Next]_(Pipeline!vars)
<1> DEFINE Up == [i \in Uploads |-> Progress(i)]
           Table == [i \in Uploads |-> InvoiceRow(i)]
           Messages == [i \in Uploads |->
                           [r \in {0} |-> IF i \in tasks THEN 1 ELSE 0]]
           NoneRuns == UNCHANGED <<NoProcess("idle"), NoProcess({})>>
<1>1. NoneRuns
  BY DEF NoProcess
<1>2. ASSUME Up' = Up, Table' = Table, Messages' = Messages
      PROVE  UNCHANGED Pipeline!vars
  BY <1>1, <1>2 DEF Pipeline!vars
<1>3. ASSUME invoices' = invoices PROVE Table' = Table
  BY <1>3 DEF InvoiceRow
<1>4. ASSUME tasks' = tasks PROVE Messages' = Messages
  BY <1>4
<1>5. CASE UNCHANGED vars
  <2>1. Up' = Up
    BY <1>5 DEF vars, Progress
  <2>2. QED
    BY <1>2, <1>3, <1>4, <1>5, <2>1 DEF vars
<1>6. ASSUME NEW i \in Uploads, NEW to, at' = [at EXCEPT ![i] = to],
             Progress(i)' = Progress(i), UNCHANGED <<invoices, tasks>>
      PROVE  UNCHANGED Pipeline!vars
  <2>1. Up' = Up
    BY <1>6, UploadMoves
  <2>2. QED
    BY <1>2, <1>3, <1>4, <1>6, <2>1
<1>7. ASSUME NEW i \in Uploads, at[i] \in {"enqueue", "commit"},
             at' = [at EXCEPT ![i] = "aborted"], UNCHANGED <<invoices, tasks>>
      PROVE  Pipeline!AbortUpload(i)
  <2>1. Up[i] \in {"flushed", "enqueued"} /\ Up' = [Up EXCEPT ![i] = "aborted"]
    BY <1>7, UploadMoves, ProgressOf
  <2>2. QED
    BY <1>1, <1>3, <1>4, <1>7, <2>1 DEF Pipeline!AbortUpload, Pipeline!session
<1>8. ASSUME NEW i \in Uploads,
             Receive(i) \/ SelectUser(i) \/ InsertUser(i) \/ OpenFile(i) \/ WriteFile(i)
      PROVE  UNCHANGED Pipeline!vars
  <2>1. PICK to \in {"select", "rejected", "open", "insert", "conflict", "write", "create"} :
           at' = [at EXCEPT ![i] = to]
    BY <1>8 DEF Receive, SelectUser, InsertUser, OpenFile, WriteFile, Go
  <2>2. /\ at[i] \in {"none", "select", "insert", "open", "write"}
        /\ UNCHANGED <<invoices, tasks>>
    BY <1>8 DEF Receive, SelectUser, InsertUser, OpenFile, WriteFile, Go
  <2>3. Progress(i)' = Progress(i)
    BY <2>1, <2>2, UploadMoves, ProgressOf
  <2>4. QED
    BY <1>6, <2>1, <2>2, <2>3
<1>9. ASSUME NEW i \in Uploads, CreateInvoice(i) PROVE Pipeline!BeginUpload(i)
  <2>1. Up[i] = "none" /\ Up' = [Up EXCEPT ![i] = "flushed"]
    BY <1>9, UploadMoves, ProgressOf DEF CreateInvoice, Go
  <2>2. QED
    BY <1>1, <1>3, <1>4, <1>9, <2>1
       DEF CreateInvoice, Pipeline!BeginUpload, Pipeline!session
<1>10. ASSUME NEW i \in Uploads, Enqueue(i) PROVE Pipeline!Enqueue(i)
  <2>1. Up[i] = "flushed" /\ Up' = [Up EXCEPT ![i] = "enqueued"]
    BY <1>10, UploadMoves, ProgressOf DEF Enqueue, Go
  <2>2. i \notin tasks
    BY <1>10 DEF TaskInv, Enqueue, Go
  <2>3. Messages' = [Messages EXCEPT ![i][0] = @ + 1]
    BY <1>10, <2>2 DEF Enqueue
  <2>4. QED
    BY <1>1, <1>3, <1>10, <2>1, <2>3
       DEF Enqueue, Pipeline!Enqueue, Pipeline!session
<1>11. ASSUME NEW i \in Uploads, Commit(i) PROVE Pipeline!CommitUpload(i)
  <2>1. Up[i] = "enqueued" /\ Up' = [Up EXCEPT ![i] = "committed"]
    BY <1>11, UploadMoves, ProgressOf DEF Commit, Go
  <2>2. Table' = [Table EXCEPT ![i] = Pipeline!NewRow]
    BY <1>11 DEF Commit, InvoiceRow, Pipeline!NewRow, Pipeline!NoRow,
                 Pipeline!NoFields
  <2>3. QED
    BY <1>1, <1>4, <1>11, <2>1, <2>2
       DEF Commit, Pipeline!CommitUpload, Pipeline!session
<1>12. ASSUME NEW i \in Uploads, Fail(i) \/ Die(i)
       PROVE  Pipeline!AbortUpload(i) \/ UNCHANGED Pipeline!vars
  <2>1. UNCHANGED <<invoices, tasks>>
    BY <1>12 DEF Fail, Die
  <2>2. CASE /\ at[i] \in {"enqueue", "commit"}
             /\ at' = [at EXCEPT ![i] = "aborted"]
    BY <1>7, <2>1, <2>2
  <2>3. CASE /\ at[i] \in Working \ {"enqueue", "commit"}
             /\ \E to \in {"refused", "lost"} : at' = [at EXCEPT ![i] = to]
    <3>1. PICK to \in {"refused", "lost"} : at' = [at EXCEPT ![i] = to]
      BY <2>3
    <3>2. Progress(i)' = Progress(i)
      BY <2>3, <3>1, UploadMoves, ProgressOf DEF Working
    <3>3. QED
      BY <1>6, <2>1, <3>1, <3>2
  <2>4. QED
    BY <1>12, <2>2, <2>3 DEF Fail, Die, Go, Working
<1>13. QED
  BY <1>5, <1>8, <1>9, <1>10, <1>11, <1>12
     DEF Next, Serve, Pipeline!Next, Pipeline!Outside, Pipeline!Upload

\* What InvoicePipeline assumes of an upload - the row flushed, the task
\* enqueued, the row committed, or an abort in between - is what the endpoint
\* does, for any number of uploads, users and files.
THEOREM UploadRefinesPipeline == Spec => ImplementsUpload
<1>1. Init => TypeOK /\ TaskInv
  BY DEF Init, TypeOK, TaskInv
<1>2. QED
  BY <1>1, NextTypeOK, NextTaskInv, InitPipeline, StepOfPipeline, PTL
     DEF Spec, ImplementsUpload, Pipeline!Spec

-----------------------------------------------------------------------------
\* A step of a run leaves the uploads alone; one of an upload is its own.
LEMMA StepOfUploads == [SessionsNext]_sessionVars => [Next]_vars
<1> SUFFICES ASSUME [SessionsNext]_sessionVars PROVE [Next]_vars
  OBVIOUS
<1>1. CASE UNCHANGED sessionVars
  BY <1>1 DEF sessionVars
<1>2. ASSUME NEW i \in Uploads, UploadEvent(i) \/ Handle(i) PROVE Next
  BY <1>2 DEF UploadEvent, Handle, Connects, Inserts, Truncates, Advances,
              Next, Serve
<1>3. ASSUME NEW r \in Runs, Start(r) \/ Process(r) \/ RunBreaks(r)
      PROVE  UNCHANGED vars
  BY <1>3 DEF Start, Process, RunBreaks, Load, Lock, OpenToRead, Extracted,
              ExtractionFails, CommitRun
<1>4. QED
  BY <1>1, <1>2, <1>3 DEF SessionsNext

\* Whatever waits for connections and locks, and whatever reads the files,
\* uploads behave as InvoiceUpload says.
THEOREM SessionsImplementUpload == SessionsSpec => Spec
<1>1. SessionsInit => Init
  BY DEF SessionsInit
<1>2. QED
  BY <1>1, StepOfUploads, PTL DEF SessionsSpec, Spec

\* So the files of committed invoices stay whole while runs read them, too.
THEOREM SessionsKeepFiles == SessionsSpec => []FilesAreWhole
  BY SessionsImplementUpload, FilesStayWhole, PTL

-----------------------------------------------------------------------------
\* A run that has found its row works on a committed invoice.
RunInv ==
    /\ SessionsTypeOK
    /\ \A r \in Runs : run[r] \in {"lock", "open", "read", "commit"} =>
          Target[r] \in invoices

\* No run has begun.
LEMMA InitRunInv == SessionsInit => RunInv
  BY DEF SessionsInit, RunInv, SessionsTypeOK, Steps

\* Rows of the invoices table are never deleted.
LEMMA InvoicesGrow == TypeOK /\ [Next]_vars => invoices \subseteq invoices'
  BY DEF Next, Serve, vars, TypeOK, Receive, SelectUser, InsertUser, OpenFile,
         WriteFile, CreateInvoice, Enqueue, Commit, Fail, Die

\* Only get_by_id leads a run to its row.
LEMMA NextRunInv ==
  ASSUME TypeOK, RunInv, [SessionsNext]_sessionVars
  PROVE  RunInv'
<1> USE DEF RunInv, SessionsTypeOK, Steps
<1>0. invoices \subseteq invoices'
  BY StepOfUploads, InvoicesGrow
<1>1. CASE UNCHANGED sessionVars
  BY <1>1 DEF sessionVars, vars
<1>2. ASSUME NEW i \in Uploads, UploadEvent(i) \/ Handle(i) PROVE RunInv'
  <2>1. run' = run /\ saw' \in [Runs -> {"nothing", "whole", "torn"}]
    BY <1>2 DEF UploadEvent, Handle, Connects, Inserts, Truncates, Advances, Tear
  <2>2. QED
    BY <1>0, <2>1
<1>3. ASSUME NEW r \in Runs, Start(r) \/ Process(r) \/ RunBreaks(r)
      PROVE  RunInv'
  BY <1>0, <1>3 DEF Start, Process, RunBreaks, Load, Lock, OpenToRead,
                    Extracted, ExtractionFails, CommitRun, Move
<1>4. QED
  BY <1>1, <1>2, <1>3 DEF SessionsNext

\* In a state of the invariants, what tears a reading is another upload of
\* the same document.
LEMMA TearingStep ==
  ASSUME TypeOK, FileInv, FilesAreWhole, RunInv, SessionsNext,
         NEW r \in Runs, saw[r] # "torn", saw'[r] = "torn"
  PROVE  \E j \in Uploads \ {Target[r]} :
            /\ Path[j] = Path[Target[r]]
            /\ \/ at'[j] = "write"
               \/ at'[j] = "lost" /\ content[Path[j]] = j
<1> USE UploadAssumption, SessionsAssumption DEF TypeOK, RunInv, SessionsTypeOK
<1>0. Target[r] \in Uploads
  OBVIOUS
<1>1. ASSUME NEW i \in Uploads, Truncates(i)
      PROVE  /\ i # Target[r]
             /\ Path[i] = Path[Target[r]]
             /\ at'[i] = "write"
  <2>1. run[r] = "read" /\ Path[Target[r]] = Path[i]
    BY <1>1 DEF Truncates, Tear
  <2>2. at[Target[r]] = "done" /\ at[i] = "open" /\ at'[i] = "write"
    BY <1>1, <2>1 DEF Truncates, OpenFile, Go, FileInv
  <2>3. QED
    BY <2>1, <2>2
<1>2. ASSUME OpenToRead(r)
      PROVE  \E j \in Uploads \ {Target[r]} :
                /\ Path[j] = Path[Target[r]]
                /\ \/ at'[j] = "write"
                   \/ at'[j] = "lost" /\ content[Path[j]] = j
  <2>1. Target[r] \in invoices /\ at' = at
    BY <1>2 DEF OpenToRead, Move, vars
  <2>2. content[Path[Target[r]]] # "whole"
    BY <1>2 DEF OpenToRead
  <2>3. QED
    BY <2>1, <2>2 DEF FilesAreWhole
<1>3. ASSUME NEW i \in Uploads, UploadEvent(i) \/ Connects(i) \/ Inserts(i)
                                  \/ Advances(i)
      PROVE  saw' = saw
  BY <1>3 DEF UploadEvent, Connects, Inserts, Advances
<1>4. ASSUME NEW p \in Runs, p # r \/ ~OpenToRead(p),
             Start(p) \/ Process(p) \/ RunBreaks(p)
      PROVE  saw'[r] = saw[r]
  BY <1>4 DEF Start, Process, RunBreaks, Load, Lock, OpenToRead, Extracted,
              ExtractionFails, CommitRun
<1>5. QED
  BY <1>0, <1>1, <1>2, <1>3, <1>4 DEF SessionsNext, Handle

\* A reading is torn by another upload of the same document only: never
\* because a task or a request was faster than its own upload.
THEOREM ReadingsTornByAnother == SessionsSpec => TornByAnother
<1> DEFINE Inv == TypeOK /\ FileInv /\ FilesAreWhole /\ RunInv
<1>1. Inv /\ [SessionsNext]_sessionVars =>
         [\A r \in Runs : saw[r] # "torn" /\ saw'[r] = "torn" =>
             \E j \in Uploads \ {Target[r]} :
                /\ Path[j] = Path[Target[r]]
                /\ \/ at'[j] = "write"
                   \/ at'[j] = "lost" /\ content[Path[j]] = j]_sessionVars
  BY TearingStep
<1>2. SessionsSpec => [](TypeOK /\ FileInv)
  <2>1. SessionsInit => TypeOK /\ FileInv
    BY InitTypeOK, InitFileInv DEF SessionsInit
  <2>2. TypeOK /\ FileInv /\ [SessionsNext]_sessionVars
           => TypeOK' /\ FileInv'
    BY StepOfUploads, NextTypeOK, NextFileInv
  <2>3. QED
    BY <2>1, <2>2, PTL DEF SessionsSpec
<1>3. TypeOK /\ RunInv /\ [SessionsNext]_sessionVars => RunInv'
  BY NextRunInv
<1>4. SessionsSpec => []RunInv
  BY <1>2, <1>3, InitRunInv, PTL DEF SessionsSpec
<1>5. SessionsSpec => []Inv
  BY <1>2, <1>4, SessionsKeepFiles, PTL
<1>6. QED
  BY <1>1, <1>5, PTL DEF SessionsSpec, TornByAnother
=============================================================================
