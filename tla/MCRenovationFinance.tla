------------------------ MODULE MCRenovationFinance ------------------------
(* Two threads, an invoice of three cents that may be created twice, and a   *)
(* payable of one cent.  Due days sit on the edges of the code's windows:    *)
(* last day of one and first day of the next, overdue and beyond the last.   *)
EXTENDS RenovationFinance, TLC

MCTotal == [b \in Bills |-> IF b = "invoice" THEN 3 ELSE 1]

MCMaxCreates == [b \in Bills |-> IF b = "invoice" THEN 2 ELSE 1]

MCDueDays == {[invoice |-> 7, payable |-> 8], [invoice |-> -1, payable |-> 91]}

MCWindows == <<7, 14, 30, 60, 90>>

MCSymmetry == Permutations(Threads)
=============================================================================
