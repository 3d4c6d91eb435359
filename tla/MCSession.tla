------------------------------- MODULE MCSession -------------------------------
(* Two operators whose emails are the same to the memory, in one conversation.    *)
EXTENDS Session

MCActor == [n \in Names |-> IF n.by = "email" THEN Email("o") ELSE n]

=============================================================================
