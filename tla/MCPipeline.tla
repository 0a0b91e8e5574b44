----------------------------- MODULE MCPipeline -----------------------------
(* Small instances of the invoice pipeline. *)
EXTENDS PipelineInvariant, TLC

CONSTANTS A, B, C,          \* invoices
          alice, bob,       \* users
          n1, v1            \* an invoice number and a vendor

OneOwner == [i \in Invoices |-> alice]
TwoOwners == [i \in Invoices |-> IF i = C THEN bob ELSE alice]

Same == [v \in Vendors |-> v]
Itself == {<<v, v>> : v \in Vendors}

Bill(amount) == [number |-> n1, vendor |-> v1, amount |-> amount]

\* A matches B and B matches C within the tolerance of 1%, but A and C are
\* further apart.
DriftAmounts == {10000, 10099, 10199}
DriftReads ==
    [i \in Invoices |-> {Bill(CASE i = A -> 10000 [] i = B -> 10099
                                                  [] OTHER -> 10199)}]

\* Every invoice is the same document.
OneAmount == {10000}
CopyReads == [i \in Invoices |-> {Bill(10000)}]

\* The LLM finds every field, or only the number.
FullOrNumber ==
    [i \in Invoices |->
        {Bill(10000), [number |-> n1, vendor |-> None, amount |-> None]}]

\* The LLM finds number and vendor, or the amount only.
KeysOrAmount ==
    [i \in Invoices |->
        {[number |-> n1, vendor |-> v1, amount |-> None],
         [number |-> None, vendor |-> None, amount |-> 10000]}]

WorkerSymmetry == Permutations(Workers)
=============================================================================
