---------------------- MODULE RenovationFinanceProofs ----------------------
(***************************************************************************)
(* For any set of threads, amounts and bounds: stored bills are well       *)
(* formed, and a bill that is paid in full stays paid.                     *)
(***************************************************************************)
EXTENDS RenovationFinance, TLAPS

(* A bill with payments that do not exceed its amount. *)
Bill(b) == [paid : 0 .. Total[b], records : Seq(Payments)]

BillsTyped ==
    /\ bill = [b \in Bills |-> bill[b]]
    /\ \A b \in Bills : bill[b] = Absent \/ bill[b] \in Bill(b)

BooksTyped ==
    /\ ledger \in [Bills -> SUBSET Payments]
    /\ announced \in [Bills -> Nat]
    /\ excuse \in [Bills -> SUBSET {"overlap", "remade", "died"}]
    /\ begun \in 0 .. MaxPayments

(* What a request carries: a copy in hand is a bill that may be stored. *)
RequestsTyped ==
    /\ req = [t \in Threads |-> req[t]]
    /\ \A t \in Threads :
          /\ "at" \in DOMAIN req[t]
          /\ req[t].at \in {"put", "ledger", "event", "reread", "restore"} => req[t].bill \in Bills
          /\ req[t].at \in {"put", "ledger", "event"} => req[t].pay \in Payments
          /\ req[t].at = "put" => req[t].copy \in Bill(req[t].bill)
          /\ req[t].at \in {"ledger", "event", "reread"} => bill[req[t].bill] # Absent
          /\ req[t].at = "restore" => req[t].copy \in Bill(req[t].bill)

(* While no requests overlapped on a bill, a copy in hand is current: the    *)
(* payment it adds is still accepted, the record it restores still stored.   *)
CopiesCurrent ==
    \A t \in Threads :
        /\ req[t].at = "put" /\ "overlap" \notin excuse[req[t].bill]
              => Accepted(req[t].bill, bill[req[t].bill], req[t].pay)
        /\ req[t].at = "restore" /\ "overlap" \notin excuse[req[t].bill]
              => req[t].copy = bill[req[t].bill]

IInv == BillsTyped /\ BooksTyped /\ RequestsTyped /\ CopiesCurrent

(* The facts about bills on which every step rests. *)
LEMMA BillFacts ==
    ASSUME NEW b \in Bills
    PROVE  /\ open \in Bill(b)
           /\ \A v \in Bill(b) : v # Absent
           /\ \A v \in Bill(b) \cup {Absent}, p \in Payments :
                 Accepted(b, v, p) => apply_payment(v, p) \in Bill(b)
<1>1. Total[b] \in Nat \ {0} BY FinanceAssumption
<1>2. open \in Bill(b) BY <1>1 DEF open, Bill
<1>3. \A v \in Bill(b) : v # Absent BY <1>1 DEF Absent, Bill
<1>4. ASSUME NEW v \in Bill(b) \cup {Absent}, NEW p \in Payments, Accepted(b, v, p)
      PROVE  apply_payment(v, p) \in Bill(b)
  <2>1. v \in Bill(b) /\ p <= Total[b] - v.paid BY <1>4, <1>3 DEF Accepted, outstanding_balance
  <2>2. p \in Nat /\ v.paid \in 0 .. Total[b] /\ v.records \in Seq(Payments)
    BY <2>1, FinanceAssumption DEF Bill
  <2>3. v.paid + p \in 0 .. Total[b] BY <1>1, <2>1, <2>2
  <2>4. Append(v.records, p) \in Seq(Payments) BY <2>2
  <2> QED BY <2>3, <2>4 DEF apply_payment, Bill
<1> QED BY <1>2, <1>3, <1>4

(* A request that stores bill b leaves every other copy of b excused, and    *)
(* keeps the types, provided its own next stage is typed.                    *)
LEMMA WritePreserves ==
    ASSUME IInv, NEW t \in Threads, NEW b \in Bills, NEW v \in Bill(b), NEW r, NEW e,
           e \subseteq {"remade"}, Write(t, b, v, r, e),
           "at" \in DOMAIN r,
           r.at \in {"idle", "ledger", "reread"},
           r.at # "idle" => r.bill = b,
           r.at = "ledger" => r.pay \in Payments
    PROVE  BillsTyped' /\ RequestsTyped' /\ CopiesCurrent'
           /\ excuse' \in [Bills -> SUBSET {"overlap", "remade", "died"}]
<1>1. BillsTyped' BY DEF IInv, BillsTyped, Write
<1>2. excuse' \in [Bills -> SUBSET {"overlap", "remade", "died"}]
  BY DEF IInv, BooksTyped, Write
<1>3. req'[t] = r BY DEF Write
<1>4. ASSUME NEW u \in Threads, u # t
      PROVE  /\ "at" \in DOMAIN req'[u]
             /\ req'[u].at = req[u].at
             /\ req[u].at \notin Reporting => req'[u] = req[u]
  BY <1>4 DEF IInv, RequestsTyped, Write, Reporting
<1>5. v # Absent BY BillFacts
<1>6. RequestsTyped'
  <2>1. req' = [u \in Threads |-> req'[u]] BY DEF Write
  <2>2. \A c \in Bills : bill[c] # Absent => bill'[c] # Absent
    BY <1>5 DEF IInv, BillsTyped, Write
  <2>3. bill'[b] # Absent BY <1>5 DEF IInv, BillsTyped, Write
  <2> QED BY <1>3, <1>4, <2>1, <2>2, <2>3 DEF IInv, RequestsTyped, Reporting
<1>7. CopiesCurrent'
  <2> SUFFICES ASSUME NEW u \in Threads, req'[u].at \in {"put", "restore"},
                      "overlap" \notin excuse'[req'[u].bill]
               PROVE  /\ req'[u].at = "put" =>
                           Accepted(req'[u].bill, bill'[req'[u].bill], req'[u].pay)
                      /\ req'[u].at = "restore" => req'[u].copy = bill'[req'[u].bill]
    BY DEF CopiesCurrent, Accepted, outstanding_balance
  <2>1. u # t BY <1>3
  <2>2. req'[u] = req[u] /\ req[u].at \in {"put", "restore"} BY <1>4, <2>1 DEF Reporting
  <2>3. req[u].bill \in Bills BY <2>2 DEF IInv, RequestsTyped
  <2>4. req[u].bill # b
    <3> SUFFICES ASSUME req[u].bill = b PROVE FALSE OBVIOUS
    <3>1. u \in Holding(b) \ {t} BY <2>1, <2>2 DEF Holding
    <3>2. "overlap" \in excuse'[b] BY <3>1 DEF Write, IInv, BooksTyped
    <3> QED BY <2>2, <3>2
  <2>5. bill'[req[u].bill] = bill[req[u].bill] /\ excuse'[req[u].bill] = excuse[req[u].bill]
    BY <2>3, <2>4 DEF Write, IInv, BillsTyped, BooksTyped
  <2> QED BY <2>2, <2>5 DEF IInv, CopiesCurrent
<1> QED BY <1>1, <1>2, <1>6, <1>7

(* A step that leaves bills and excuses alone and gives thread t a typed     *)
(* request with a current copy.                                              *)
LEMMA LocalPreserves ==
    ASSUME IInv, NEW t \in Threads, NEW r,
           bill' = bill, excuse' = excuse, req' = [req EXCEPT ![t] = r],
           "at" \in DOMAIN r,
           r.at \in {"put", "ledger", "event", "reread", "restore"} => r.bill \in Bills,
           r.at \in {"put", "ledger", "event"} => r.pay \in Payments,
           r.at = "put" => r.copy \in Bill(r.bill) /\ Accepted(r.bill, bill[r.bill], r.pay),
           r.at \in {"ledger", "event", "reread"} => bill[r.bill] # Absent,
           r.at = "restore" => r.copy \in Bill(r.bill) /\ r.copy = bill[r.bill]
    PROVE  BillsTyped' /\ RequestsTyped' /\ CopiesCurrent'
<1>1. BillsTyped' BY DEF IInv, BillsTyped
<1>2. req' = [u \in Threads |-> req'[u]] /\ req'[t] = r
  BY DEF IInv, RequestsTyped
<1>3. \A u \in Threads \ {t} : req'[u] = req[u] BY DEF IInv, RequestsTyped
<1>4. RequestsTyped' BY <1>2, <1>3 DEF IInv, RequestsTyped
<1>5. CopiesCurrent'
  BY <1>2, <1>3 DEF IInv, CopiesCurrent, Accepted, outstanding_balance
<1> QED BY <1>1, <1>4, <1>5

LEMMA InitIInv == Init => IInv
<1> SUFFICES ASSUME Init PROVE IInv OBVIOUS
<1>1. BillsTyped BY DEF Init, BillsTyped
<1>2. BooksTyped BY FinanceAssumption DEF Init, BooksTyped
<1>3. RequestsTyped BY DEF Init, RequestsTyped, Idle
<1>4. CopiesCurrent BY DEF Init, CopiesCurrent, Idle
<1> QED BY <1>1, <1>2, <1>3, <1>4 DEF IInv

LEMMA StepIInv == IInv /\ [Next]_vars => IInv'
<1> SUFFICES ASSUME IInv, [Next]_vars PROVE IInv' OBVIOUS
<1>0. CASE UNCHANGED vars
  BY <1>0 DEF vars, IInv, BillsTyped, BooksTyped, RequestsTyped, CopiesCurrent, Accepted,
              outstanding_balance
<1> USE DEF IInv
<1>1. ASSUME NEW t \in Threads, NEW b \in Bills, CreateBill(t, b) PROVE IInv'
  <2>1. open \in Bill(b) BY BillFacts
  <2>2. PICK e \in SUBSET {"remade"} : Write(t, b, open, AfterEvent(b), e)
    BY <1>1 DEF CreateBill
  <2>3. /\ "at" \in DOMAIN AfterEvent(b) /\ AfterEvent(b).at \in {"idle", "reread"}
        /\ AfterEvent(b).at # "idle" => AfterEvent(b).bill = b
    BY DEF AfterEvent, Idle
  <2>4. /\ BillsTyped' /\ RequestsTyped' /\ CopiesCurrent'
        /\ excuse' \in [Bills -> SUBSET {"overlap", "remade", "died"}]
    BY <2>1, <2>2, <2>3, WritePreserves
  <2>5. BooksTyped' BY <1>1, <2>4 DEF CreateBill, BooksTyped
  <2> QED BY <2>4, <2>5
<1>2. ASSUME NEW t \in Threads, NEW b \in Bills, NEW p \in Payments, PayBegin(t, b, p) PROVE IInv'
  <2> DEFINE r == [at |-> "put", bill |-> b, pay |-> p, copy |-> apply_payment(bill[b], p)]
  <2>1. Accepted(b, bill[b], p) /\ bill' = bill /\ excuse' = excuse /\ req' = [req EXCEPT ![t] = r]
    BY <1>2 DEF PayBegin
  <2>2. apply_payment(bill[b], p) \in Bill(b) BY <2>1, BillFacts DEF BillsTyped
  <2>3. BillsTyped' /\ RequestsTyped' /\ CopiesCurrent'
    <3>1. /\ "at" \in DOMAIN r /\ r.at = "put" /\ r.bill = b /\ r.pay = p
          /\ r.copy = apply_payment(bill[b], p)
      OBVIOUS
    <3> HIDE DEF r
    <3> QED BY <2>1, <2>2, <3>1, LocalPreserves
  <2>4. BooksTyped' BY <1>2, FinanceAssumption DEF PayBegin, BooksTyped
  <2> QED BY <2>3, <2>4
<1>3. ASSUME NEW t \in Threads, PutBill(t) PROVE IInv'
  <2> DEFINE r == [at |-> "ledger", bill |-> req[t].bill, pay |-> req[t].pay]
  <2>1. req[t].bill \in Bills /\ req[t].pay \in Payments /\ req[t].copy \in Bill(req[t].bill)
    BY <1>3 DEF PutBill, RequestsTyped
  <2>2. Write(t, req[t].bill, req[t].copy, r, {}) BY <1>3 DEF PutBill
  <2>3. /\ BillsTyped' /\ RequestsTyped' /\ CopiesCurrent'
        /\ excuse' \in [Bills -> SUBSET {"overlap", "remade", "died"}]
    BY <2>1, <2>2, WritePreserves
  <2>4. BooksTyped' BY <1>3, <2>3 DEF PutBill, BooksTyped
  <2> QED BY <2>3, <2>4
<1>4. ASSUME NEW t \in Threads, _persist_payment(t) PROVE IInv'
  <2> DEFINE r == [at |-> "event", bill |-> req[t].bill, pay |-> req[t].pay]
  <2>1. req[t].bill \in Bills /\ req[t].pay \in Payments /\ bill[req[t].bill] # Absent
    BY <1>4 DEF _persist_payment, RequestsTyped
  <2>2. bill' = bill /\ excuse' = excuse /\ req' = [req EXCEPT ![t] = r]
    BY <1>4 DEF _persist_payment
  <2>3. BillsTyped' /\ RequestsTyped' /\ CopiesCurrent'
    <3>1. /\ "at" \in DOMAIN r /\ r.at = "event" /\ r.bill = req[t].bill
          /\ r.pay = req[t].pay
      OBVIOUS
    <3> HIDE DEF r
    <3> QED BY <2>1, <2>2, <3>1, LocalPreserves
  <2>4. BooksTyped' BY <1>4, <2>1 DEF _persist_payment, BooksTyped
  <2> QED BY <2>3, <2>4
<1>5. ASSUME NEW t \in Threads, PaidEvent(t) PROVE IInv'
  <2>1. req[t].bill \in Bills /\ req[t].pay \in Nat
    BY <1>5, FinanceAssumption DEF PaidEvent, RequestsTyped
  <2>2. bill' = bill /\ excuse' = excuse /\ req' = [req EXCEPT ![t] = AfterEvent(req[t].bill)]
    BY <1>5 DEF PaidEvent
  <2>3. req[t].at = "event" BY <1>5 DEF PaidEvent
  <2>4. bill[req[t].bill] # Absent BY <2>3 DEF RequestsTyped
  <2>5. /\ "at" \in DOMAIN AfterEvent(req[t].bill)
        /\ AfterEvent(req[t].bill).at \in {"idle", "reread"}
        /\ AfterEvent(req[t].bill).at # "idle" => AfterEvent(req[t].bill).bill = req[t].bill
    BY DEF AfterEvent, Idle
  <2>6. BillsTyped' /\ RequestsTyped' /\ CopiesCurrent' BY <2>1, <2>2, <2>4, <2>5, LocalPreserves
  <2>7. BooksTyped' BY <1>5, <2>1 DEF PaidEvent, BooksTyped
  <2> QED BY <2>6, <2>7
<1>6. ASSUME NEW t \in Threads, Reread(t) PROVE IInv'
  <2> DEFINE r == [at |-> "restore", bill |-> req[t].bill, copy |-> bill[req[t].bill]]
  <2>1. req[t].bill \in Bills /\ bill[req[t].bill] \in Bill(req[t].bill)
    BY <1>6 DEF Reread, RequestsTyped, BillsTyped
  <2>2. bill' = bill /\ excuse' = excuse /\ req' = [req EXCEPT ![t] = r] BY <1>6 DEF Reread
  <2>3. BillsTyped' /\ RequestsTyped' /\ CopiesCurrent'
    <3>1. /\ "at" \in DOMAIN r /\ r.at = "restore" /\ r.bill = req[t].bill
          /\ r.copy = bill[req[t].bill]
      OBVIOUS
    <3> HIDE DEF r
    <3> QED BY <2>1, <2>2, <3>1, LocalPreserves
  <2>4. BooksTyped' BY <1>6 DEF Reread, BooksTyped
  <2> QED BY <2>3, <2>4
<1>7. ASSUME NEW t \in Threads, Restore(t) PROVE IInv'
  <2>1. req[t].bill \in Bills /\ req[t].copy \in Bill(req[t].bill)
    BY <1>7 DEF Restore, RequestsTyped
  <2>2. Write(t, req[t].bill, req[t].copy, Idle, {}) BY <1>7 DEF Restore
  <2>3. "at" \in DOMAIN Idle /\ Idle.at = "idle" BY DEF Idle
  <2>4. /\ BillsTyped' /\ RequestsTyped' /\ CopiesCurrent'
        /\ excuse' \in [Bills -> SUBSET {"overlap", "remade", "died"}]
    BY <2>1, <2>2, <2>3, WritePreserves
  <2>5. BooksTyped' BY <1>7, <2>4 DEF Restore, BooksTyped
  <2> QED BY <2>4, <2>5
<1>8. ASSUME NEW t \in Threads, Die(t) PROVE IInv'
  <2>1. req[t].bill \in Bills BY <1>8 DEF Die, RequestsTyped
  <2>2. bill' = bill /\ req' = [req EXCEPT ![t] = Idle] BY <1>8 DEF Die
  <2>3. /\ excuse' \in [Bills -> SUBSET {"overlap", "remade", "died"}]
        /\ \A b \in Bills : excuse[b] \subseteq excuse'[b]
    BY <1>8, <2>1 DEF Die, BooksTyped
  <2>4. BillsTyped' BY <2>2 DEF BillsTyped
  <2>5. /\ req' = [u \in Threads |-> req'[u]] /\ req'[t] = Idle
        /\ \A u \in Threads \ {t} : req'[u] = req[u]
    BY <2>2 DEF RequestsTyped
  <2>6. "at" \in DOMAIN Idle /\ Idle.at = "idle" BY DEF Idle
  <2>7. RequestsTyped' BY <2>2, <2>5, <2>6 DEF RequestsTyped
  <2>8. CopiesCurrent'
    BY <2>2, <2>3, <2>5, <2>6 DEF CopiesCurrent, RequestsTyped, Accepted, outstanding_balance
  <2>9. BooksTyped' BY <1>8, <2>3 DEF Die, BooksTyped
  <2> QED BY <2>4, <2>7, <2>8, <2>9
<1>9. ASSUME NEW t \in Threads, NEW r, req' = [req EXCEPT ![t] = r],
             UNCHANGED <<bill, ledger, announced, due, begun, creates, excuse>>,
             "at" \in DOMAIN r, r.at \in {"payables", "again", "last", "summary", "idle"}
      PROVE  IInv'
  <2>1. BillsTyped' /\ RequestsTyped' /\ CopiesCurrent' BY <1>9, LocalPreserves
  <2>2. BooksTyped' BY <1>9 DEF BooksTyped
  <2> QED BY <2>1, <2>2
<1>10. ASSUME NEW t \in Threads, SummaryBegin(t) PROVE IInv'
  <2> DEFINE r == [at |-> "payables", moved |-> FALSE,
                 i |-> outstanding_balance("invoice", bill["invoice"])]
  <2>1. /\ req' = [req EXCEPT ![t] = r]
        /\ UNCHANGED <<bill, ledger, announced, due, begun, creates, excuse>>
    BY <1>10 DEF SummaryBegin
  <2>2. "at" \in DOMAIN r /\ r.at = "payables" OBVIOUS
  <2> HIDE DEF r
  <2> QED BY <1>9, <2>1, <2>2
<1>11. ASSUME NEW t \in Threads, cash_flow_forecast(t) PROVE IInv'
  <2> DEFINE r == [at |-> "again", moved |-> req[t].moved,
                 forecast |-> Forecast(req[t].i,
                                       outstanding_balance("payable", bill["payable"]))]
  <2>1. /\ req' = [req EXCEPT ![t] = r]
        /\ UNCHANGED <<bill, ledger, announced, due, begun, creates, excuse>>
    BY <1>11 DEF cash_flow_forecast
  <2>2. "at" \in DOMAIN r /\ r.at = "again" OBVIOUS
  <2> HIDE DEF r
  <2> QED BY <1>9, <2>1, <2>2
<1>12. ASSUME NEW t \in Threads, SummaryInvoices(t) PROVE IInv'
  <2> DEFINE r == [at |-> "last", moved |-> req[t].moved, forecast |-> req[t].forecast,
                 i |-> outstanding_balance("invoice", bill["invoice"])]
  <2>1. /\ req' = [req EXCEPT ![t] = r]
        /\ UNCHANGED <<bill, ledger, announced, due, begun, creates, excuse>>
    BY <1>12 DEF SummaryInvoices
  <2>2. "at" \in DOMAIN r /\ r.at = "last" OBVIOUS
  <2> HIDE DEF r
  <2> QED BY <1>9, <2>1, <2>2
<1>13. ASSUME NEW t \in Threads, owner_financial_summary(t) PROVE IInv'
  <2> DEFINE r == [at |-> "summary", moved |-> req[t].moved, forecast |-> req[t].forecast,
                 i |-> req[t].i, p |-> outstanding_balance("payable", bill["payable"])]
  <2>1. /\ req' = [req EXCEPT ![t] = r]
        /\ UNCHANGED <<bill, ledger, announced, due, begun, creates, excuse>>
    BY <1>13 DEF owner_financial_summary
  <2>2. "at" \in DOMAIN r /\ r.at = "summary" OBVIOUS
  <2> HIDE DEF r
  <2> QED BY <1>9, <2>1, <2>2
<1>14. ASSUME NEW t \in Threads, Respond(t) PROVE IInv'
  <2>1. "at" \in DOMAIN Idle /\ Idle.at = "idle" BY DEF Idle
  <2> QED BY <1>9, <1>14, <2>1 DEF Respond
<1> QED
  BY <1>0, <1>1, <1>2, <1>3, <1>4, <1>5, <1>6, <1>7, <1>8, <1>10, <1>11, <1>12, <1>13, <1>14 DEF Next

(* Every bill that is stored is well formed and not overpaid. *)
THEOREM FinanceTypeCorrect == Spec => []TypeOK
<1>1. IInv => TypeOK
  BY DEF IInv, BillsTyped, BooksTyped, Bill, TypeOK
<1> QED BY InitIInv, StepIInv, <1>1, PTL DEF Spec

(* In a step of the system, a bill that is paid in full changes only with an *)
(* excuse.                                                                   *)
LEMMA PaidStep ==
    ASSUME IInv, [Next]_vars, NEW b \in Bills,
           outstanding_balance(b, bill[b]) = 0, bill[b] # Absent, bill'[b] # bill[b]
    PROVE  excuse'[b] \cap {"overlap", "remade"} # {}
<1> USE DEF IInv
<1>1. Total[b] \in Nat \ {0} BY FinanceAssumption
<1>2. bill[b] \in Bill(b) /\ bill[b].paid = Total[b]
  BY <1>1 DEF BillsTyped, outstanding_balance, Bill
<1>3. ASSUME NEW t \in Threads, NEW c \in Bills, NEW v, NEW r, NEW e, Write(t, c, v, r, e)
      PROVE  c = b /\ bill'[b] = v /\ excuse[b] \cup e \subseteq excuse'[b]
  BY <1>3 DEF Write, BillsTyped, BooksTyped
<1>4. ASSUME NEW t \in Threads, NEW c \in Bills, CreateBill(t, c)
      PROVE  excuse'[b] \cap {"overlap", "remade"} # {}
  <2>1. Write(t, c, open, AfterEvent(c), IF bill[c] \in {Absent, open} THEN {} ELSE {"remade"})
    BY <1>4 DEF CreateBill
  <2>2. c = b /\ (IF bill[c] \in {Absent, open} THEN {} ELSE {"remade"}) \subseteq excuse'[b]
    BY <1>3, <2>1
  <2>3. bill[b] # open BY <1>1, <1>2 DEF open
  <2> QED BY <2>2, <2>3
<1>5. ASSUME NEW t \in Threads, PutBill(t)
      PROVE  excuse'[b] \cap {"overlap", "remade"} # {}
  <2>1. req[t].bill \in Bills /\ req[t].pay \in Nat \ {0}
    BY <1>5, FinanceAssumption DEF PutBill, RequestsTyped
  <2>2. req[t].bill = b /\ excuse[b] \subseteq excuse'[b]
    BY <1>3, <1>5, <2>1 DEF PutBill
  <2>3. ~ Accepted(b, bill[b], req[t].pay) BY <2>1 DEF Accepted
  <2>4. "overlap" \in excuse[b] BY <1>5, <2>2, <2>3 DEF CopiesCurrent, PutBill
  <2> QED BY <2>2, <2>4
<1>6. ASSUME NEW t \in Threads, Restore(t)
      PROVE  excuse'[b] \cap {"overlap", "remade"} # {}
  <2>1. req[t].bill \in Bills BY <1>6 DEF Restore, RequestsTyped
  <2>2. req[t].bill = b /\ bill'[b] = req[t].copy /\ excuse[b] \subseteq excuse'[b]
    BY <1>3, <1>6, <2>1 DEF Restore
  <2>3. "overlap" \in excuse[b] BY <1>6, <2>2 DEF CopiesCurrent, Restore
  <2> QED BY <2>2, <2>3
<1>7. bill' # bill OBVIOUS
<1> QED
  BY <1>4, <1>5, <1>6, <1>7
     DEF Next, vars, PayBegin, _persist_payment, PaidEvent, Reread, Die, SummaryBegin,
         cash_flow_forecast, SummaryInvoices, owner_financial_summary, Respond

(* A bill that is paid in full is only changed by a request that creates it  *)
(* again, or by one that writes a copy another request has made stale: alone *)
(* pay_invoice finds no balance left, and _record_for restores what is there.*)
THEOREM PaidStaysPaid == Spec => PaidIsFinal
<1>1. IInv /\ [Next]_vars
        => [\A b \in Bills :
              outstanding_balance(b, bill[b]) = 0 /\ bill[b] # Absent /\ bill'[b] # bill[b]
                  => excuse'[b] \cap {"overlap", "remade"} # {}]_vars
  BY PaidStep
<1> QED BY InitIInv, StepIInv, <1>1, PTL DEF Spec, PaidIsFinal
=============================================================================
