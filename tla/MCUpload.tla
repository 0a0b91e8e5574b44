------------------------------ MODULE MCUpload ------------------------------
(* A small instance of ApiSessions. *)
EXTENDS ApiSessions

CONSTANTS A, B, C,         \* uploads
          alice, f1, f2,   \* a user, and paths
          q1, q2, w1,      \* runs
          s1, s2           \* API processes

\* A and B are the same file of the same user.
MCOwner == [i \in Uploads |-> alice]
MCPath == [i \in Uploads |-> IF i = C THEN f2 ELSE f1]

\* The worker and a request process B, another request A; each request is
\* served by the process that serves the upload of the other invoice.
MCTarget == [r \in Runs |-> IF r = q2 THEN A ELSE B]
MCServer == [x \in Requests \cup Uploads |-> IF x \in {B, q2} THEN s2 ELSE s1]
=============================================================================
