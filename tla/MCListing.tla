----------------------------- MODULE MCListing -----------------------------
(* A small instance of InvoiceListing. *)
EXTENDS InvoiceListing

MCInvoices == 1 .. 4
MCCreatedAt == [i \in MCInvoices |-> i]
=============================================================================
