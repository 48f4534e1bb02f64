------------------------- MODULE RenovationFinance -------------------------
(***************************************************************************)
(* Invoices and vendor payables of the renovation vertical: creation,      *)
(* payment, the payment ledger, the replay check, the cash flow forecast   *)
(* and the owner's summary.  Requests run in threads of the server and     *)
(* share one document store, whose get and put are the atomic steps; no    *)
(* lock spans a read and the write that follows it.  The identifier of a   *)
(* bill or of a payment is a digest of its contents, so creating a bill    *)
(* again replaces it and paying the same amount twice names one payment.   *)
(* Amounts are whole cents and due dates days after the forecast's date.   *)
(***************************************************************************)
EXTENDS Integers, Sequences, SequencesExt, FiniteSets

CONSTANTS
    Threads,     \* request threads
    Total,       \* [Bills -> amount of the bill]
    Payments,    \* payment amounts; date, method and reference are the same
    DueDays,     \* possible functions from Bills to a due day
    Windows,     \* FORECAST_WINDOWS
    MaxPayments, \* bound: payments begun
    MaxCreates   \* bound: creations of each bill

Bills == {"invoice", "payable"}

ASSUME FinanceAssumption ==
    /\ Total \in [Bills -> Nat \ {0}]
    /\ Payments \subseteq Nat \ {0}
    /\ DueDays \subseteq [Bills -> Int]
    /\ Windows \in Seq(Nat)
    /\ MaxPayments \in Nat
    /\ MaxCreates \in [Bills -> Nat]

VARIABLES
    bill,      \* stored artifact of each bill, or Absent
    ledger,    \* renovation_payments: the payments of each bill, by identifier
    announced, \* sum of the amounts of INVOICE_PAID / payable events
    due,       \* due day of each bill
    req,       \* what each thread is doing
    begun,     \* payments begun
    creates,   \* creations of each bill
    excuse     \* history: what happened to a bill that may falsify its books

vars == <<bill, ledger, announced, due, req, begun, creates, excuse>>

Absent == [paid |-> -1, records |-> <<>>]

open == [paid |-> 0, records |-> <<>>]

Idle == [at |-> "idle"]

outstanding_balance(b, v) == IF v = Absent THEN 0 ELSE Total[b] - v.paid

(* _payment refuses a paid bill and an amount above the balance. *)
Accepted(b, v, p) == v # Absent /\ p <= outstanding_balance(b, v)

apply_payment(v, p) == [paid |-> v.paid + p, records |-> Append(v.records, p)]

Init ==
    /\ bill = [b \in Bills |-> Absent]
    /\ ledger = [b \in Bills |-> {}]
    /\ announced = [b \in Bills |-> 0]
    /\ due \in DueDays
    /\ req = [t \in Threads |-> Idle]
    /\ begun = 0
    /\ creates = [b \in Bills |-> 0]
    /\ excuse = [b \in Bills |-> {}]

-----------------------------------------------------------------------------

(* Threads that will write back a copy of b they have already read. *)
Holding(b) == {t \in Threads : req[t].at \in {"put", "restore"} /\ req[t].bill = b}

Reporting == {"payables", "again", "last"}

(* Thread t stores v as bill b and moves to r: a thread that holds a copy of *)
(* b, or is adding balances up, has not seen v.                              *)
Write(t, b, v, r, e) ==
    /\ bill' = [bill EXCEPT ![b] = v]
    /\ req' = [u \in Threads |->
                 IF u = t THEN r
                 ELSE IF req[u].at \in Reporting THEN [req[u] EXCEPT !.moved = TRUE]
                 ELSE req[u]]
    /\ excuse' = [excuse EXCEPT ![b] =
                    @ \cup e \cup (IF Holding(b) \ {t} # {} THEN {"overlap"} ELSE {})]

(* Only the invoice routes end with _record_for. *)
AfterEvent(b) == IF b = "invoice" THEN [at |-> "reread", bill |-> b] ELSE Idle

CreateBill(t, b) ==
    /\ req[t] = Idle
    /\ creates[b] < MaxCreates[b]
    /\ creates' = [creates EXCEPT ![b] = @ + 1]
    /\ Write(t, b, open, AfterEvent(b),
             IF bill[b] \in {Absent, open} THEN {} ELSE {"remade"})
    /\ UNCHANGED <<ledger, announced, due, begun>>

(* get_invoice / get_payable and the check; a refused payment changes nothing. *)
PayBegin(t, b, p) ==
    /\ req[t] = Idle
    /\ begun < MaxPayments
    /\ Accepted(b, bill[b], p)
    /\ req' = [req EXCEPT ![t] =
                 [at |-> "put", bill |-> b, pay |-> p, copy |-> apply_payment(bill[b], p)]]
    /\ begun' = begun + 1
    /\ UNCHANGED <<bill, ledger, announced, due, creates, excuse>>

PutBill(t) ==
    /\ req[t].at = "put"
    /\ Write(t, req[t].bill, req[t].copy,
             [at |-> "ledger", bill |-> req[t].bill, pay |-> req[t].pay], {})
    /\ UNCHANGED <<ledger, announced, due, begun, creates>>

(* Mutant of _persist_payment: the row is keyed by the bill. *)
PersistByBill(t) ==
    /\ req[t].at = "ledger"
    /\ ledger' = [ledger EXCEPT ![req[t].bill] = {req[t].pay}]
    /\ req' = [req EXCEPT ![t] = [at |-> "event", bill |-> req[t].bill, pay |-> req[t].pay]]
    /\ UNCHANGED <<bill, announced, due, begun, creates, excuse>>

_persist_payment(t) ==
    /\ req[t].at = "ledger"
    /\ ledger' = [ledger EXCEPT ![req[t].bill] = @ \cup {req[t].pay}]
    /\ req' = [req EXCEPT ![t] = [at |-> "event", bill |-> req[t].bill, pay |-> req[t].pay]]
    /\ UNCHANGED <<bill, announced, due, begun, creates, excuse>>

PaidEvent(t) ==
    /\ req[t].at = "event"
    /\ announced' = [announced EXCEPT ![req[t].bill] = @ + req[t].pay]
    /\ req' = [req EXCEPT ![t] = AfterEvent(req[t].bill)]
    /\ UNCHANGED <<bill, ledger, due, begun, creates, excuse>>

(* _record_for: the record is read and put back with its timestamps. *)
Reread(t) ==
    /\ req[t].at = "reread"
    /\ req' = [req EXCEPT ![t] =
                 [at |-> "restore", bill |-> req[t].bill, copy |-> bill[req[t].bill]]]
    /\ UNCHANGED <<bill, ledger, announced, due, begun, creates, excuse>>

(* Mutant of Restore: the record goes back as it was created. *)
RestoreOpen(t) ==
    /\ req[t].at = "restore"
    /\ Write(t, req[t].bill, open, Idle, {})
    /\ UNCHANGED <<ledger, announced, due, begun, creates>>

Restore(t) ==
    /\ req[t].at = "restore"
    /\ Write(t, req[t].bill, req[t].copy, Idle, {})
    /\ UNCHANGED <<ledger, announced, due, begun, creates>>

(* The request dies: an append or a put raises, or the process stops. *)
Die(t) ==
    /\ req[t].at \in {"put", "ledger", "event", "reread", "restore"}
    /\ excuse' = [excuse EXCEPT ![req[t].bill] =
                    @ \cup (IF req[t].at \in {"ledger", "event"} THEN {"died"} ELSE {})]
    /\ req' = [req EXCEPT ![t] = Idle]
    /\ UNCHANGED <<bill, ledger, announced, due, begun, creates>>

-----------------------------------------------------------------------------

(* Receivables minus payables that fall due from day lo to day hi. *)
Net(i, p, lo, hi) ==
    (IF due["invoice"] \in lo .. hi THEN i ELSE 0)
      - (IF due["payable"] \in lo .. hi THEN p ELSE 0)

Overdue(i, p) ==
    (IF due["invoice"] < 0 THEN i ELSE 0) - (IF due["payable"] < 0 THEN p ELSE 0)

(* ProfitabilityService.forecast: the cumulative balance at each window. *)
Forecast(i, p) ==
    LET cumulative[w \in 0 .. Len(Windows)] ==
          IF w = 0 THEN Overdue(i, p)
          ELSE cumulative[w - 1]
                 + Net(i, p, IF w = 1 THEN 0 ELSE Windows[w - 1] + 1, Windows[w])
    IN  [w \in 1 .. Len(Windows) |-> cumulative[w]]

(* owner_financial_summary lists the invoices and the payables for its     *)
(* forecast and then lists both again for its own balances.                *)
SummaryBegin(t) ==
    /\ req[t] = Idle
    /\ req' = [req EXCEPT ![t] =
                 [at |-> "payables", moved |-> FALSE,
                  i |-> outstanding_balance("invoice", bill["invoice"])]]
    /\ UNCHANGED <<bill, ledger, announced, due, begun, creates, excuse>>

cash_flow_forecast(t) ==
    /\ req[t].at = "payables"
    /\ req' = [req EXCEPT ![t] =
                 [at |-> "again", moved |-> req[t].moved,
                  forecast |-> Forecast(req[t].i,
                                        outstanding_balance("payable", bill["payable"]))]]
    /\ UNCHANGED <<bill, ledger, announced, due, begun, creates, excuse>>

SummaryInvoices(t) ==
    /\ req[t].at = "again"
    /\ req' = [req EXCEPT ![t] =
                 [at |-> "last", moved |-> req[t].moved, forecast |-> req[t].forecast,
                  i |-> outstanding_balance("invoice", bill["invoice"])]]
    /\ UNCHANGED <<bill, ledger, announced, due, begun, creates, excuse>>

owner_financial_summary(t) ==
    /\ req[t].at = "last"
    /\ req' = [req EXCEPT ![t] =
                 [at |-> "summary", moved |-> req[t].moved, forecast |-> req[t].forecast,
                  i |-> req[t].i, p |-> outstanding_balance("payable", bill["payable"])]]
    /\ UNCHANGED <<bill, ledger, announced, due, begun, creates, excuse>>

Respond(t) ==
    /\ req[t].at = "summary"
    /\ req' = [req EXCEPT ![t] = Idle]
    /\ UNCHANGED <<bill, ledger, announced, due, begun, creates, excuse>>

Next ==
    \E t \in Threads :
        \/ \E b \in Bills : CreateBill(t, b)
        \/ \E b \in Bills, p \in Payments : PayBegin(t, b, p)
        \/ PutBill(t)
        \/ _persist_payment(t)
        \/ PaidEvent(t)
        \/ Reread(t)
        \/ Restore(t)
        \/ Die(t)
        \/ SummaryBegin(t)
        \/ cash_flow_forecast(t)
        \/ SummaryInvoices(t)
        \/ owner_financial_summary(t)
        \/ Respond(t)

Spec == Init /\ [][Next]_vars

-----------------------------------------------------------------------------

(* A stored bill is a bill and the ledger holds payments: every write of an  *)
(* invoice or payable stores a whole artifact whose balance is not negative. *)
TypeOK ==
    /\ \A b \in Bills :
          \/ bill[b] = Absent
          \/ /\ bill[b].paid \in 0 .. Total[b]
             /\ bill[b].records \in Seq(Payments)
    /\ ledger \in [Bills -> SUBSET Payments]
    /\ \A b \in Bills : announced[b] \in Nat /\ excuse[b] \subseteq {"overlap", "remade", "died"}
    /\ begun \in 0 .. MaxPayments

(* replay_invoice and replay_payable: the payments recorded in the bill,     *)
(* applied one by one to a fresh bill with the checks of _payment.           *)
replay(b, v) ==
    LET step[n \in 0 .. Len(v.records)] ==
          IF n = 0 THEN open
          ELSE IF Accepted(b, step[n - 1], v.records[n])
               THEN apply_payment(step[n - 1], v.records[n])
               ELSE Absent
    IN  step[Len(v.records)]

(* Replaying a stored bill never diverges and never raises "already paid" or *)
(* "payment exceeds outstanding balance": whatever payments, creations and   *)
(* _record_for calls overlap, each of them stores a whole consistent bill.   *)
ReplayAgrees ==
    \A b \in Bills : bill[b] # Absent => replay(b, bill[b]) = bill[b]

Settled(b) == \A t \in Threads : req[t] = Idle \/ req[t].at \in Reporting \cup {"summary"}
                                   \/ req[t].bill # b \/ req[t].at \in {"reread", "restore"}

(* Once its requests have returned, the payments recorded in a bill, the     *)
(* payment ledger and the payment events tell the same story, unless two     *)
(* requests overlapped on the bill, it was created again after a payment, or *)
(* a payment died half way.  The ledger counts equal payments once.          *)
BooksAgree ==
    \A b \in Bills :
        Settled(b) /\ excuse[b] = {} /\ bill[b] # Absent =>
            /\ ledger[b] = ToSet(bill[b].records)
            /\ announced[b] = bill[b].paid

(* A bill that is paid in full stays paid: only re-creating it, or a request *)
(* that read the bill before it was paid, brings a balance back.             *)
PaidIsFinal ==
    [][\A b \in Bills :
          outstanding_balance(b, bill[b]) = 0 /\ bill[b] # Absent /\ bill'[b] # bill[b]
              => excuse'[b] \cap {"overlap", "remade"} # {}]_vars

(* The owner's summary adds up: if no bill changed while it was made, then   *)
(* the forecast it carries is, at the end of every window, the difference of *)
(* its own receivables and payables that are due by that day.                *)
SummaryAddsUp ==
    \A t \in Threads :
        req[t].at = "summary" /\ ~req[t].moved =>
            \A w \in 1 .. Len(Windows) :
                req[t].forecast[w] =
                    (IF due["invoice"] <= Windows[w] THEN req[t].i ELSE 0)
                      - (IF due["payable"] <= Windows[w] THEN req[t].p ELSE 0)

(* The books of the renovation business hold together: a bill is what its     *)
(* history makes of it, the ledger and the events agree with it, and the      *)
(* summary made of the bills adds up.                                         *)
FinanceRecordsAgree == ReplayAgrees /\ BooksAgree /\ SummaryAddsUp
=============================================================================
