-------------------------- MODULE MCDuplicateReport --------------------------
(* A small instance of DuplicateReport. *)
EXTENDS DuplicateReport

\* "Acme/Ltd" stands for a name with a backslash, which ILIKE does not find.
MCVendors == {"Acme", "ACME", "Acme Ltd", "Acme/Ltd"}
MCLower == [v \in MCVendors |-> CASE v = "Acme Ltd" -> "acme ltd"
                                  [] v = "Acme/Ltd" -> "acme/ltd"
                                  [] OTHER -> "acme"]
MCWithin == {p \in MCVendors \X MCVendors :
                /\ p[1] # "Acme/Ltd"
                /\ p[1] = "Acme Ltd" => p[2] = "Acme Ltd"}
\* A credit note, nothing, one unit, and one unit plus 0.99%.
MCAmounts == {-10000, 0, 10000, 10099}
=============================================================================
