------------------------- MODULE CreditMonitoring -------------------------
(***************************************************************************)
(* What becomes of a credit check after the response that promised it:     *)
(* dispatch_pending_credit_check, step by step, on the worker threads that *)
(* run background tasks, while requests go on creating, approving and      *)
(* paying invoices.                                                        *)
(*                                                                         *)
(* P2P runs a dispatch as one step.  Here a worker reads the vendor's      *)
(* exposure, then its alert, and then writes the alert and the check in    *)
(* one transaction; nothing orders the workers, or a worker's reads and    *)
(* another's transaction, but the database.                                *)
(***************************************************************************)
EXTENDS P2P

CONSTANTS
    Workers,   \* threads that run background tasks
    Faults     \* what may go wrong: a "crash" of the process, an "error" in a task

ASSUME FaultsAssumption == Faults \subseteq {"crash", "error"}

VARIABLE workers

monitor == <<vars, workers>>

Resting == [step |-> "resting"]

(* alert: the check whose alert the worker found in the table.  The alert  *)
(* of a check has a generated id, so this identifies the row.              *)
Dispatching ==
    [step : {"evaluated", "alert read"}, check : Keys, breached : BOOLEAN,
     alert : Keys \cup {None}]

MonitorTypeOK == TypeOK /\ workers \in [Workers -> Dispatching \cup {Resting}]

VendorOf(k) == credit_checks[k].vendor_id

-----------------------------------------------------------------------------
(* Mutant: the task stays queued while it runs. *)
EvaluateExposureOfQueued(w, k) ==
    /\ workers[w] = Resting
    /\ k \in background_tasks
    /\ workers' = [workers EXCEPT ![w] =
          [step |-> "evaluated", check |-> k, alert |-> None,
           breached |-> Exposure(invoices, VendorOf(k)) > CreditLimit[VendorOf(k)]]]
    /\ UNCHANGED vars

(* Mutant: only the invoice that started the check counts. *)
EvaluateExposureOneInvoice(w, k) ==
    /\ workers[w] = Resting
    /\ k \in background_tasks
    /\ background_tasks' = background_tasks \ {k}
    /\ workers' = [workers EXCEPT ![w] =
          [step |-> "evaluated", check |-> k, alert |-> None,
           breached |-> invoices[credit_checks[k].triggering_invoice_id].invoice_amount
                          > CreditLimit[VendorOf(k)]]]
    /\ UNCHANGED <<documents, history, idempotency_keys, credit_checks, credit_alerts>>

(* Mutant: a vendor at its limit is already above it. *)
EvaluateExposureAtLimit(w, k) ==
    LET v == VendorOf(k)
    IN  /\ workers[w] = Resting
        /\ k \in background_tasks
        /\ background_tasks' = background_tasks \ {k}
        /\ workers' = [workers EXCEPT ![w] =
              [step |-> "evaluated", check |-> k, alert |-> None,
               breached |-> Exposure(invoices, v) >= CreditLimit[v]]]
        /\ UNCHANGED <<documents, history, idempotency_keys, credit_checks, credit_alerts>>

(* A worker takes a task and reads the check, its vendor and invoice,      *)
(* which do not change any more, and the vendor's exposure; a check that   *)
(* is already completed is left alone.                                     *)
EvaluateExposure(w, k) ==
    LET v == VendorOf(k)
    IN  /\ workers[w] = Resting
        /\ k \in background_tasks
        /\ background_tasks' = background_tasks \ {k}
        /\ workers' = IF credit_checks[k].status = "COMPLETED" THEN workers
                      ELSE [workers EXCEPT ![w] =
                              [step |-> "evaluated", check |-> k, alert |-> None,
                               breached |-> Exposure(invoices, v) > CreditLimit[v]]]
        /\ UNCHANGED <<documents, history, idempotency_keys, credit_checks, credit_alerts>>

(* Mutant: remembers the invoice in place of the alert. *)
FindAlertedInvoice(w) ==
    LET alert == credit_alerts[VendorOf(workers[w].check)]
    IN  /\ workers[w].step = "evaluated"
        /\ workers' = [workers EXCEPT
              ![w].step = "alert read",
              ![w].alert = IF alert = None THEN None ELSE alert.triggering_invoice_id]
        /\ UNCHANGED vars

(* The select with which upsert_active and clear_active start. *)
FindActiveAlert(w) ==
    LET alert == credit_alerts[VendorOf(workers[w].check)]
    IN  /\ workers[w].step = "evaluated"
        /\ workers' = [workers EXCEPT
              ![w].step = "alert read",
              ![w].alert = IF alert = None THEN None ELSE alert.credit_check_id]
        /\ UNCHANGED vars

(* The row the worker found is still the vendor's. *)
FoundAlertStands(w) ==
    LET alert == credit_alerts[VendorOf(workers[w].check)]
    IN  IF workers[w].alert = None THEN alert = None
        ELSE alert # None /\ alert.credit_check_id = workers[w].alert

CompleteCheck(k, alert_id) ==
    credit_checks' = [credit_checks EXCEPT ![k].status = "COMPLETED", ![k].alert_id = alert_id]

(* Mutant: the check is completed before its alert has an id. *)
RaiseAlertUnlinked(w) ==
    LET k == workers[w].check
    IN  /\ workers[w].step = "alert read"
        /\ workers[w].breached
        /\ FoundAlertStands(w)
        /\ credit_alerts' = [credit_alerts EXCEPT ![VendorOf(k)] =
              [credit_check_id |-> k,
               triggering_invoice_id |-> credit_checks[k].triggering_invoice_id]]
        /\ CompleteCheck(k, None)
        /\ workers' = [workers EXCEPT ![w] = Resting]
        /\ UNCHANGED <<documents, history, idempotency_keys, background_tasks>>

(* upsert_active and the completion of the check, one transaction. *)
RaiseAlert(w) ==
    LET k == workers[w].check
    IN  /\ workers[w].step = "alert read"
        /\ workers[w].breached
        /\ FoundAlertStands(w)
        /\ credit_alerts' = [credit_alerts EXCEPT ![VendorOf(k)] =
              [credit_check_id |-> k,
               triggering_invoice_id |-> credit_checks[k].triggering_invoice_id]]
        /\ CompleteCheck(k, k)
        /\ workers' = [workers EXCEPT ![w] = Resting]
        /\ UNCHANGED <<documents, history, idempotency_keys, background_tasks>>

(* An insert beside an alert raised meanwhile breaks UNIQUE(vendor_id); an *)
(* update of a row replaced or deleted meanwhile matches none and is an    *)
(* error too.  The task ends, logged, and leaves its check PENDING.        *)
RaiseAlertCollides(w) ==
    /\ workers[w].step = "alert read"
    /\ workers[w].breached
    /\ ~FoundAlertStands(w)
    /\ workers' = [workers EXCEPT ![w] = Resting]
    /\ UNCHANGED vars

(* Mutant: returns early when there is no alert to clear. *)
ClearFoundAlert(w) ==
    LET k == workers[w].check
    IN  /\ workers[w].step = "alert read"
        /\ ~workers[w].breached
        /\ IF workers[w].alert # None /\ FoundAlertStands(w)
           THEN /\ credit_alerts' = [credit_alerts EXCEPT ![VendorOf(k)] = None]
                /\ CompleteCheck(k, None)
           ELSE UNCHANGED <<credit_alerts, credit_checks>>
        /\ workers' = [workers EXCEPT ![w] = Resting]
        /\ UNCHANGED <<documents, history, idempotency_keys, background_tasks>>

(* clear_active and the completion of the check, one transaction.  A       *)
(* delete that matches no row only warns.                                  *)
ClearAlert(w) ==
    LET k == workers[w].check
    IN  /\ workers[w].step = "alert read"
        /\ ~workers[w].breached
        /\ credit_alerts' = IF FoundAlertStands(w)
                            THEN [credit_alerts EXCEPT ![VendorOf(k)] = None]
                            ELSE credit_alerts
        /\ CompleteCheck(k, None)
        /\ workers' = [workers EXCEPT ![w] = Resting]
        /\ UNCHANGED <<documents, history, idempotency_keys, background_tasks>>

TaskFails(w) ==
    /\ "error" \in Faults
    /\ workers[w] # Resting
    /\ workers' = [workers EXCEPT ![w] = Resting]
    /\ UNCHANGED vars

Crash ==
    /\ "crash" \in Faults
    /\ background_tasks' = {}
    /\ workers' = [w \in Workers |-> Resting]
    /\ UNCHANGED <<documents, history, idempotency_keys, credit_checks, credit_alerts>>

-----------------------------------------------------------------------------
Dispatch(w) ==
    \/ \E k \in Keys : EvaluateExposure(w, k)
    \/ FindActiveAlert(w)
    \/ RaiseAlert(w)
    \/ RaiseAlertCollides(w)
    \/ ClearAlert(w)

Serve == \E k \in Keys : (OrderStep(k) \/ InvoiceStep(k)) /\ UNCHANGED workers

MonitorNext ==
    \/ Serve
    \/ \E w \in Workers : Dispatch(w) \/ TaskFails(w)
    \/ Crash

MonitorInit == Init /\ workers = [w \in Workers |-> Resting]

Monitor == MonitorInit /\ [][MonitorNext]_monitor

(* A worker thread that can go on does; clients need not. *)
WorkersRun == \A w \in Workers : WF_monitor(Dispatch(w))

-----------------------------------------------------------------------------
(* An active alert is the doing of a completed check of that vendor that   *)
(* found a breach and names the same invoice; no half of the transaction   *)
(* is ever seen without the other.                                         *)
AlertsComeFromChecks ==
    \A v \in Vendors : credit_alerts[v] # None =>
        LET k == credit_alerts[v].credit_check_id
        IN  /\ credit_checks[k] # None
            /\ credit_checks[k].vendor_id = v
            /\ credit_checks[k].status = "COMPLETED"
            /\ credit_checks[k].alert_id = k
            /\ credit_checks[k].triggering_invoice_id = credit_alerts[v].triggering_invoice_id

(* A check is given to one worker at most once: what is queued or being    *)
(* dispatched is PENDING, and no two workers have the same check.          *)
DispatchedOnce ==
    LET taken == {w \in Workers : workers[w] # Resting}
    IN  /\ \A k \in background_tasks \cup {workers[w].check : w \in taken} :
              credit_checks[k] # None /\ credit_checks[k].status = "PENDING"
        /\ \A u, w \in taken :
              /\ workers[w].check \notin background_tasks
              /\ u # w => workers[u].check # workers[w].check

(* An alert outlives its breach only by payments, which start no check: a  *)
(* vendor with an active alert would still be above its limit if nothing   *)
(* had been paid.                                                          *)
AlertsOutliveOnlyPayments ==
    \A v \in Vendors : credit_alerts[v] # None =>
        LET paid == {i \in Invoices : /\ invoices[i] # None
                                      /\ invoices[i].vendor_id = v
                                      /\ invoices[i].status = "PAID"}
        IN  Exposure(invoices, v) + MapThenSumSet(LAMBDA i : invoices[i].invoice_amount, paid)
              > CreditLimit[v]

(* Every check that a successful create or approve promised completes.     *)
EveryCheckCompletes ==
    \A k \in Keys : (credit_checks[k] # None) ~>
                    (credit_checks[k] # None /\ credit_checks[k].status = "COMPLETED")
=============================================================================
