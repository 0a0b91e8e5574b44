----------------------------- MODULE MCAnswers -----------------------------
(* A small instance of AnswerFields: one line item, alone or next to one *)
(* that conforms.                                                        *)
EXTENDS AnswerFields

Conforming == [kind |-> "object", quantity |-> "number", price |-> "plain"]

MCItemLists == {{}} \cup {{item} : item \in Item}
                   \cup {{Conforming, item} : item \in Item}
=============================================================================
