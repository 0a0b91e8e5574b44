-------------------------- MODULE PipelineHistory --------------------------
(***************************************************************************)
(* The invoice pipeline with a record of what each duplicate check could   *)
(* not see and of which invoices were extracted again, to say when two     *)
(* copies may both be counted, and when none of them.  The record reads    *)
(* the pipeline and never restrains it.                                    *)
(***************************************************************************)
EXTENDS PipelineInvariant

VARIABLES
    missed,    \* missed[p]: the rows that p's check has not seen as they are
    unseen,    \* unseen[i]: the same, for the run that wrote i's row
    repeated   \* invoices a run has started on after they were settled

history == <<missed, unseen, repeated>>

HistoryTypeOK ==
    /\ missed \in [Processes -> SUBSET Invoices]
    /\ unseen \in [Invoices -> SUBSET Invoices]
    /\ repeated \subseteq Invoices

HistoryInit ==
    /\ Init
    /\ missed = [p \in Processes |-> {}]
    /\ unseen = [i \in Invoices |-> {}]
    /\ repeated = {}

LockAndRecord(p) ==
    /\ Lock(p)
    /\ repeated' = repeated \cup {i \in {job[p].invoice} : Settled(i)}
    /\ UNCHANGED <<missed, unseen>>

\* LIMIT may keep any of the candidates from the check.
CutOff(i, user, fields) ==
    LET all == Candidates(i, user, fields)
    IN  IF Cardinality(all) <= CandidateLimit THEN {} ELSE all

CheckAndRecord(p) ==
    /\ CheckDuplicates(p)
    /\ missed' = [missed EXCEPT ![p] =
                     CutOff(job[p].invoice, job[p].user, draft[p].fields)]
    /\ UNCHANGED <<unseen, repeated>>

CheckFailsAndRecord(p) ==
    /\ CheckFails(p)
    /\ missed' = [missed EXCEPT ![p] = Invoices]
    /\ UNCHANGED <<unseen, repeated>>

\* What a commit writes has been seen by nobody's check yet.
Written == {i \in Invoices : rows'[i] # rows[i]}

CommitAndRecord(p) ==
    /\ Commit(p) \/ CommitFails(p)
    /\ missed' = [q \in Processes |-> missed[q] \cup Written]
    /\ unseen' = [i \in Invoices |->
                     IF i \in Written THEN missed[p] ELSE unseen[i] \ Written]
    /\ UNCHANGED repeated

HistoryNext ==
    \/ \E p \in Processes :
          \/ LockAndRecord(p) \/ CheckAndRecord(p) \/ CheckFailsAndRecord(p)
          \/ CommitAndRecord(p)
    \/ /\ \/ \E p \in Processes : Load(p) \/ Extract(p) \/ ExtractFails(p)
          \/ Outside
       /\ UNCHANGED history

HistorySpec == HistoryInit /\ [][HistoryNext]_<<vars, history>>

-----------------------------------------------------------------------------
\* Two matching invoices are both left processed only if their runs overlapped,
\* the one committing between the other's check and its commit, or if a check
\* failed or was cut off by LIMIT.  Whatever is retried, delivered again or
\* requested a second time, and whatever a second reading finds, two runs one
\* after the other leave no twins.
TwinsOverlapped ==
    \A i, j \in Invoices : Twins(i, j) => i \in unseen[j] \/ j \in unseen[i]

\* A group of copies is left without an original, each a duplicate of another
\* one of them, only if one of them was run again after it had been settled: no
\* overlap, failure or loss on the first runs of a group closes a cycle.
OriginalOrRepeat ==
    \A group \in SUBSET (Duplicates \ repeated) :
        group # {} => \E i \in group : rows[i].original \notin group

\* What a draft that will not be marked has been compared with.
CheckInv ==
    \A p \in Processes, c \in Invoices :
        /\ pc[p] = "commit" /\ draft[p].status = "processed"
        /\ c # job[p].invoice /\ Owner[c] = Owner[job[p].invoice]
        /\ rows[c].status = "processed"
        /\ c \notin missed[p]
        => ~IsDuplicate(draft[p].fields, rows[c].fields)

\* A run over a settled row is a repeated one.
RepeatInv ==
    \A p \in Processes :
        Holding(p) /\ Settled(job[p].invoice) => job[p].invoice \in repeated

HistoryInv ==
    HistoryTypeOK /\ CheckInv /\ RepeatInv /\ TwinsOverlapped /\ OriginalOrRepeat
=============================================================================
