------------------------------- MODULE MCInvoices -------------------------------
(* Calls of several kinds about one or two invoices of total 2. *)
EXTENDS Invoices, TLC

CONSTANTS i1, i2, t1, t2, t3

Call(kind, invs, amt, to) == [kind |-> kind, invs |-> invs, amt |-> amt, to |-> to]

Creates  == {Call("create", <<i2>>, 1, "draft")}
LineEdits == {Call("add", <<i1>>, 1, "draft"), Call("set", <<i1>>, 1, "draft"),
             Call("drop", <<i1>>, 0, "draft")}
Payments == {Call("pay", <<i1>>, 1, "draft"), Call("pay", <<i1>>, 2, "draft")}
StatusMoves == {Call("status", <<i1>>, 0, "cancelled"), Call("status", <<i1>>, 0, "overdue")}
Bulks    == {Call("status", <<i1, i2>>, 0, "cancelled"), Call("status", <<i2, i1>>, 0, "sent")}

AllCalls == [t \in Txns |-> Creates \cup LineEdits \cup Payments \cup StatusMoves \cup Bulks]
Payers   == [t \in Txns |-> Payments]

Symmetry == Permutations(Txns)
===============================================================================
