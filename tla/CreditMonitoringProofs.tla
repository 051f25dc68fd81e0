---------------------- MODULE CreditMonitoringProofs ----------------------
(***************************************************************************)
(* Proofs about CreditMonitoring, for every number of workers and requests *)
(* and whatever fails: a check is dispatched by one worker at most, and an *)
(* alert is never seen without the check that raised it.                   *)
(***************************************************************************)
EXTENDS CreditMonitoring, P2PTotalsProofs

(* DispatchedOnce needs that the check of a new request was in nobody's    *)
(* hands, AlertsComeFromChecks that a check in dispatch has raised none.   *)
MonitorInv ==
    /\ MonitorTypeOK
    /\ ChecksHaveRequests
    /\ DispatchedOnce
    /\ AlertsComeFromChecks

(* A worker that is at a step of a dispatch is not resting.                *)
LEMMA AtAStep ==
    ASSUME NEW w \in Workers, workers[w].step # "resting"
    PROVE  workers[w] # Resting
<1>1. Resting.step = "resting"
  BY DEF Resting
<1> QED
  BY <1>1

(* A worker that is not resting has a check in hand, a row of the table.   *)
LEMMA TakenCheck ==
    ASSUME MonitorTypeOK, DispatchedOnce, NEW w \in Workers, workers[w] # Resting
    PROVE  /\ workers[w] \in Dispatching
           /\ workers[w].check \in Keys
           /\ workers[w].check \notin background_tasks
           /\ credit_checks[workers[w].check] \in CreditCheck
           /\ credit_checks[workers[w].check].status = "PENDING"
           /\ \A u \in Workers \ {w} : workers[u] # Resting =>
                 workers[u].check # workers[w].check
<1>1. workers[w] \in Dispatching /\ workers[w].check \in Keys
  BY DEF MonitorTypeOK, Dispatching
<1>2. credit_checks[workers[w].check] # None /\ credit_checks[workers[w].check].status = "PENDING"
  BY DEF DispatchedOnce
<1>3. credit_checks[workers[w].check] \in CreditCheck
  BY <1>1, <1>2 DEF MonitorTypeOK, TypeOK
<1> QED
  BY <1>1, <1>2, <1>3 DEF DispatchedOnce

(* A request keeps the invariant: the check it inserts is new.             *)
LEMMA ServeKeepsInv ==
    ASSUME MonitorInv, Serve
    PROVE  MonitorInv'
<1>1. PICK k \in Keys : (OrderStep(k) \/ InvoiceStep(k)) /\ UNCHANGED workers
  BY DEF Serve
<1>2. TypeOK /\ TasksHaveChecks
  BY DEF MonitorInv, MonitorTypeOK, DispatchedOnce, TasksHaveChecks
<1>3. MonitorTypeOK'
  <2>1. TypeOK'
    BY <1>1, <1>2, TypeStep DEF Next
  <2> QED
    BY <1>1, <2>1 DEF MonitorInv, MonitorTypeOK
<1>4. /\ ~Recorded(k)
      /\ Recorded(k)'
      /\ \A j \in Keys \ {k} : Recorded(j)' <=> Recorded(j)
      /\ UNCHANGED credit_alerts
  BY <1>1, <1>2, RequestStartsOwnCheck
<1>5. CASE UNCHANGED <<credit_checks, background_tasks>>
  <2>1. ChecksHaveRequests'
    BY <1>4, <1>5 DEF MonitorInv, ChecksHaveRequests
  <2>2. DispatchedOnce'
    BY <1>1, <1>5 DEF MonitorInv, DispatchedOnce
  <2>3. AlertsComeFromChecks'
    BY <1>4, <1>5 DEF MonitorInv, AlertsComeFromChecks
  <2> QED
    BY <1>3, <2>1, <2>2, <2>3 DEF MonitorInv
<1>6. CASE \E v \in Vendors, i \in Invoices, action \in {"CREATE", "APPROVE"},
             channel \in Channels : StartCreditCheck(k, v, i, action, channel)
  <2>1. PICK v \in Vendors, i \in Invoices, action \in {"CREATE", "APPROVE"},
             channel \in Channels : StartCreditCheck(k, v, i, action, channel)
    BY <1>6
  <2> DEFINE check == [vendor_id |-> v, triggering_invoice_id |-> i,
                       triggering_action |-> action, status |-> "PENDING", alert_id |-> None]
  <2>2. check # None /\ check.status = "PENDING"
    BY NoneIsNoRow DEF CreditCheck
  <2>3. /\ credit_checks'[k] = check
        /\ \A j \in Keys \ {k} : credit_checks'[j] = credit_checks[j]
        /\ background_tasks' \subseteq background_tasks \cup {k}
    BY <1>2, <2>1 DEF StartCreditCheck, TypeOK
  <2>4. credit_checks[k] = None
    BY <1>4 DEF MonitorInv, ChecksHaveRequests
  <2>5. ChecksHaveRequests'
    BY <1>4, <2>3 DEF MonitorInv, ChecksHaveRequests
  <2>6. DispatchedOnce'
    <3>1. \A w \in Workers : workers[w] # Resting => workers[w].check \in Keys \ {k}
      BY <2>4, TakenCheck DEF MonitorInv, DispatchedOnce
    <3>2. background_tasks \subseteq Keys \ {k}
      BY <1>2, <2>4 DEF TypeOK, TasksHaveChecks
    <3> QED
      BY <1>1, <2>2, <2>3, <3>1, <3>2 DEF MonitorInv, DispatchedOnce
  <2>7. AlertsComeFromChecks'
    <3> SUFFICES ASSUME NEW u \in Vendors, credit_alerts[u] # None
                 PROVE  LET j == credit_alerts[u].credit_check_id
                        IN  /\ credit_checks'[j] # None
                            /\ credit_checks'[j].vendor_id = u
                            /\ credit_checks'[j].status = "COMPLETED"
                            /\ credit_checks'[j].alert_id = j
                            /\ credit_checks'[j].triggering_invoice_id
                                 = credit_alerts[u].triggering_invoice_id
      BY <1>4 DEF AlertsComeFromChecks
    <3>1. credit_alerts[u].credit_check_id \in Keys
      BY <1>2 DEF TypeOK, CreditAlert
    <3>2. credit_alerts[u].credit_check_id # k
      BY <2>4 DEF MonitorInv, AlertsComeFromChecks
    <3> QED
      BY <2>3, <3>1, <3>2 DEF MonitorInv, AlertsComeFromChecks
  <2> QED
    BY <1>3, <2>5, <2>6, <2>7 DEF MonitorInv
<1> QED
  BY <1>1, <1>2, <1>5, <1>6, RequestStartsOwnCheck

(* A task that is taken leaves the queue, and its worker had none.         *)
LEMMA EvaluateKeepsInv ==
    ASSUME MonitorInv, NEW w \in Workers, NEW k \in Keys, EvaluateExposure(w, k)
    PROVE  MonitorInv'
<1> DEFINE breached == Exposure(invoices, VendorOf(k)) > CreditLimit[VendorOf(k)]
<1> USE DEF documents, history
<1>1. /\ k \in background_tasks
      /\ background_tasks' = background_tasks \ {k}
      /\ UNCHANGED <<credit_checks, credit_alerts, idempotency_keys>>
  BY DEF EvaluateExposure
<1>2. breached \in BOOLEAN
  OBVIOUS
<1>3. \/ workers' = workers
      \/ /\ workers[w] = Resting
         /\ workers' = [workers EXCEPT ![w] =
              [step |-> "evaluated", check |-> k, alert |-> None, breached |-> breached]]
  BY DEF EvaluateExposure
<1> HIDE DEF breached
<1>4. MonitorTypeOK'
  <2>1. TypeOK'
    BY DEF MonitorInv, MonitorTypeOK, TypeOK, EvaluateExposure
  <2>2. workers' \in [Workers -> Dispatching \cup {Resting}]
    <3>1. [step |-> "evaluated", check |-> k, alert |-> None, breached |-> breached] \in Dispatching
      BY <1>2 DEF Dispatching
    <3> QED
      BY <1>3, <3>1 DEF MonitorInv, MonitorTypeOK
  <2> QED
    BY <2>1, <2>2 DEF MonitorTypeOK
<1>5. ChecksHaveRequests' /\ AlertsComeFromChecks'
  BY <1>1 DEF MonitorInv, ChecksHaveRequests, AlertsComeFromChecks, Recorded
<1>6. DispatchedOnce'
  <2>1. CASE workers' = workers
    BY <1>1, <2>1 DEF MonitorInv, DispatchedOnce
  <2>2. CASE workers' # workers
    <3>1. /\ \A u \in Workers \ {w} : workers'[u] = workers[u]
          /\ workers'[w].check = k
      BY <1>3, <2>2 DEF MonitorInv, MonitorTypeOK
    <3> QED
      BY <1>1, <3>1 DEF MonitorInv, DispatchedOnce
  <2> QED
    BY <2>1, <2>2
<1> QED
  BY <1>4, <1>5, <1>6 DEF MonitorInv

(* Reading the alert changes what a worker remembers, not its check.       *)
LEMMA FindKeepsInv ==
    ASSUME MonitorInv, NEW w \in Workers, FindActiveAlert(w)
    PROVE  MonitorInv'
<1> DEFINE k == workers[w].check
           alert == credit_alerts[VendorOf(k)]
           found == IF alert = None THEN None ELSE alert.credit_check_id
<1>1. workers[w] # Resting
  <2>1. workers[w].step # "resting"
    BY DEF FindActiveAlert
  <2> QED
    BY <2>1, AtAStep
<1>2. /\ workers[w] \in Dispatching
      /\ credit_checks[k] \in CreditCheck
  BY <1>1, TakenCheck DEF MonitorInv
<1>3. /\ UNCHANGED vars
      /\ workers' = [workers EXCEPT ![w].step = "alert read", ![w].alert = found]
  BY DEF FindActiveAlert
<1>4. found \in Keys \cup {None}
  BY <1>2 DEF MonitorInv, MonitorTypeOK, TypeOK, VendorOf, CreditCheck, CreditAlert
<1> HIDE DEF found
<1>5. workers'[w] = [workers[w] EXCEPT !.step = "alert read", !.alert = found]
  BY <1>3 DEF MonitorInv, MonitorTypeOK
<1>6. /\ workers'[w] \in Dispatching
      /\ workers'[w].check = workers[w].check
      /\ \A u \in Workers \ {w} : workers'[u] = workers[u]
  <2>1. \A task \in Dispatching :
           LET read == [task EXCEPT !.step = "alert read", !.alert = found]
           IN  read \in Dispatching /\ read.check = task.check
    BY <1>4 DEF Dispatching
  <2>2. \A u \in Workers \ {w} : workers'[u] = workers[u]
    BY <1>3 DEF MonitorInv, MonitorTypeOK
  <2> QED
    BY <1>2, <1>5, <2>1, <2>2
<1>7. MonitorTypeOK'
  <2>1. workers' \in [Workers -> Dispatching \cup {Resting}]
    BY <1>3, <1>6 DEF MonitorInv, MonitorTypeOK
  <2> QED
    BY <1>3, <2>1 DEF MonitorInv, MonitorTypeOK, TypeOK, vars, documents, history, credit
<1>8. ChecksHaveRequests' /\ AlertsComeFromChecks'
  BY <1>3 DEF MonitorInv, ChecksHaveRequests, AlertsComeFromChecks, Recorded, vars, credit
<1>9. DispatchedOnce'
  <2>1. \A u \in Workers : workers'[u] # Resting =>
            workers[u] # Resting /\ workers'[u].check = workers[u].check
    BY <1>1, <1>6
  <2>2. UNCHANGED <<credit_checks, background_tasks>>
    BY <1>3 DEF vars, credit
  <2> QED
    BY <2>1, <2>2 DEF MonitorInv, DispatchedOnce
<1> QED
  BY <1>7, <1>8, <1>9 DEF MonitorInv

(* A worker that gives up leaves everything but its hands as it was.       *)
LEMMA GivingUpKeepsInv ==
    ASSUME MonitorInv, NEW w \in Workers, UNCHANGED vars,
           workers' = [workers EXCEPT ![w] = Resting]
    PROVE  MonitorInv'
<1> USE DEF vars, documents, history, credit
<1>1. MonitorTypeOK'
  <2>1. TypeOK'
    BY DEF MonitorInv, MonitorTypeOK, TypeOK
  <2>2. workers' \in [Workers -> Dispatching \cup {Resting}]
    BY DEF MonitorInv, MonitorTypeOK
  <2> QED
    BY <2>1, <2>2 DEF MonitorTypeOK
<1>2. ChecksHaveRequests' /\ AlertsComeFromChecks'
  BY DEF MonitorInv, ChecksHaveRequests, AlertsComeFromChecks, Recorded
<1>3. \A u \in Workers : workers'[u] # Resting => u # w /\ workers'[u] = workers[u]
  BY DEF MonitorInv, MonitorTypeOK
<1>4. DispatchedOnce'
  BY <1>3 DEF MonitorInv, DispatchedOnce
<1> QED
  BY <1>1, <1>2, <1>4 DEF MonitorInv

(* Completing a check, with or without an alert of it, keeps what does not *)
(* concern the alerts: its worker rests in the same step.                  *)
LEMMA CompletionKeepsWorkers ==
    ASSUME MonitorInv, NEW w \in Workers, workers[w] # Resting,
           NEW alert_id \in Keys \cup {None},
           CompleteCheck(workers[w].check, alert_id),
           credit_alerts' \in [Vendors -> CreditAlert \cup {None}],
           workers' = [workers EXCEPT ![w] = Resting],
           UNCHANGED <<documents, history, idempotency_keys, background_tasks>>
    PROVE  MonitorTypeOK' /\ ChecksHaveRequests' /\ DispatchedOnce'
<1> DEFINE k == workers[w].check
<1> USE DEF documents, history
<1>1. /\ k \in Keys
      /\ k \notin background_tasks
      /\ credit_checks[k] \in CreditCheck
      /\ \A u \in Workers \ {w} : workers[u] # Resting => workers[u].check # k
  BY TakenCheck DEF MonitorInv
<1>2. credit_checks \in [Keys -> CreditCheck \cup {None}]
  BY DEF MonitorInv, MonitorTypeOK, TypeOK
<1>3. credit_checks' = [credit_checks EXCEPT ![k].status = "COMPLETED", ![k].alert_id = alert_id]
  BY DEF CompleteCheck
<1>4. /\ credit_checks'[k] \in CreditCheck
      /\ \A j \in Keys \ {k} : credit_checks'[j] = credit_checks[j]
      /\ credit_checks' \in [Keys -> CreditCheck \cup {None}]
  BY <1>1, <1>2, <1>3 DEF CreditCheck
<1>5. MonitorTypeOK'
  <2>1. TypeOK'
    BY <1>4 DEF MonitorInv, MonitorTypeOK, TypeOK
  <2>2. workers' \in [Workers -> Dispatching \cup {Resting}]
    BY DEF MonitorInv, MonitorTypeOK
  <2> QED
    BY <2>1, <2>2 DEF MonitorTypeOK
<1>6. ChecksHaveRequests'
  BY <1>1, <1>4, NoneIsNoRow DEF MonitorInv, ChecksHaveRequests, Recorded
<1>7. \A u \in Workers : workers'[u] # Resting => u # w /\ workers'[u] = workers[u]
  BY DEF MonitorInv, MonitorTypeOK
<1>8. DispatchedOnce'
  <2>1. background_tasks \subseteq Keys
    BY DEF MonitorInv, MonitorTypeOK, TypeOK
  <2>2. \A u \in Workers : workers[u] # Resting => workers[u].check \in Keys
    BY TakenCheck DEF MonitorInv
  <2> QED
    BY <1>1, <1>4, <1>7, <2>1, <2>2 DEF MonitorInv, DispatchedOnce
<1> QED
  BY <1>5, <1>6, <1>8

(* Raising an alert writes both halves, the alert and its check.           *)
LEMMA RaiseKeepsInv ==
    ASSUME MonitorInv, NEW w \in Workers, RaiseAlert(w)
    PROVE  MonitorInv'
<1> DEFINE k == workers[w].check
           v == VendorOf(k)
           i == credit_checks[k].triggering_invoice_id
<1>1. workers[w] # Resting
  <2>1. workers[w].step # "resting"
    BY DEF RaiseAlert
  <2> QED
    BY <2>1, AtAStep
<1>2. /\ k \in Keys
      /\ credit_checks[k] \in CreditCheck
      /\ credit_checks[k].status = "PENDING"
  BY <1>1, TakenCheck DEF MonitorInv
<1>3. v \in Vendors /\ i \in Invoices
  BY <1>2 DEF VendorOf, CreditCheck
<1>4. credit_alerts' =
        [credit_alerts EXCEPT ![v] = [credit_check_id |-> k, triggering_invoice_id |-> i]]
  BY DEF RaiseAlert
<1>5. credit_alerts \in [Vendors -> CreditAlert \cup {None}]
  BY DEF MonitorInv, MonitorTypeOK, TypeOK
<1>6. credit_alerts' \in [Vendors -> CreditAlert \cup {None}]
  BY <1>2, <1>3, <1>4, <1>5 DEF CreditAlert
<1>7. MonitorTypeOK' /\ ChecksHaveRequests' /\ DispatchedOnce'
  BY <1>1, <1>2, <1>6, CompletionKeepsWorkers DEF RaiseAlert
<1>8. AlertsComeFromChecks'
  <2>1. credit_checks \in [Keys -> CreditCheck \cup {None}]
    BY DEF MonitorInv, MonitorTypeOK, TypeOK
  <2>2. credit_checks' = [credit_checks EXCEPT ![k].status = "COMPLETED", ![k].alert_id = k]
    BY DEF RaiseAlert, CompleteCheck
  <2>3. /\ credit_checks'[k] = [credit_checks[k] EXCEPT !.status = "COMPLETED", !.alert_id = k]
        /\ credit_checks'[k] \in CreditCheck
        /\ \A j \in Keys \ {k} : credit_checks'[j] = credit_checks[j]
    BY <1>2, <2>1, <2>2 DEF CreditCheck
  <2> SUFFICES ASSUME NEW u \in Vendors, credit_alerts'[u] # None
               PROVE  LET j == credit_alerts'[u].credit_check_id
                      IN  /\ credit_checks'[j] # None
                          /\ credit_checks'[j].vendor_id = u
                          /\ credit_checks'[j].status = "COMPLETED"
                          /\ credit_checks'[j].alert_id = j
                          /\ credit_checks'[j].triggering_invoice_id
                               = credit_alerts'[u].triggering_invoice_id
    BY DEF AlertsComeFromChecks
  <2>4. CASE u = v
    <3>1. credit_alerts'[u] = [credit_check_id |-> k, triggering_invoice_id |-> i]
      BY <1>3, <1>4, <1>5, <2>4
    <3>2. /\ credit_checks'[k].vendor_id = u
          /\ credit_checks'[k].status = "COMPLETED"
          /\ credit_checks'[k].alert_id = k
          /\ credit_checks'[k].triggering_invoice_id = i
          /\ credit_checks'[k] # None
      BY <1>2, <2>3, <2>4, NoneIsNoRow DEF VendorOf, CreditCheck
    <3> QED
      BY <3>1, <3>2
  <2>5. CASE u # v
    <3>1. credit_alerts'[u] = credit_alerts[u]
      BY <1>4, <1>5, <2>5
    <3>2. credit_alerts[u].credit_check_id \in Keys \ {k}
      BY <1>2, <1>5, <3>1 DEF MonitorInv, AlertsComeFromChecks, CreditAlert
    <3> QED
      BY <2>3, <3>1, <3>2 DEF MonitorInv, AlertsComeFromChecks
  <2> QED
    BY <2>4, <2>5
<1> QED
  BY <1>7, <1>8 DEF MonitorInv

(* The alert of another check may stay or go: no alert is this check's.    *)
LEMMA ClearKeepsInv ==
    ASSUME MonitorInv, NEW w \in Workers, ClearAlert(w)
    PROVE  MonitorInv'
<1> DEFINE k == workers[w].check
           v == VendorOf(k)
<1>1. workers[w] # Resting
  <2>1. workers[w].step # "resting"
    BY DEF ClearAlert
  <2> QED
    BY <2>1, AtAStep
<1>2. /\ k \in Keys
      /\ credit_checks[k] \in CreditCheck
      /\ credit_checks[k].status = "PENDING"
  BY <1>1, TakenCheck DEF MonitorInv
<1>3. v \in Vendors
  BY <1>2 DEF VendorOf, CreditCheck
<1>4. /\ credit_alerts \in [Vendors -> CreditAlert \cup {None}]
      /\ credit_checks \in [Keys -> CreditCheck \cup {None}]
  BY DEF MonitorInv, MonitorTypeOK, TypeOK
<1>5. credit_alerts' = [credit_alerts EXCEPT ![v] = None] \/ UNCHANGED credit_alerts
  BY DEF ClearAlert
<1>6. credit_alerts' \in [Vendors -> CreditAlert \cup {None}]
  BY <1>3, <1>4, <1>5
<1>7. MonitorTypeOK' /\ ChecksHaveRequests' /\ DispatchedOnce'
  BY <1>1, <1>2, <1>6, CompletionKeepsWorkers DEF ClearAlert
<1>8. AlertsComeFromChecks'
  <2>1. \A j \in Keys \ {k} : credit_checks'[j] = credit_checks[j]
    BY <1>4 DEF ClearAlert, CompleteCheck
  <2>2. \A u \in Vendors : credit_alerts'[u] # None =>
            /\ credit_alerts'[u] = credit_alerts[u]
            /\ credit_alerts[u].credit_check_id \in Keys
    BY <1>3, <1>4, <1>5 DEF CreditAlert
  <2>3. \A u \in Vendors : credit_alerts'[u] # None =>
            credit_alerts[u].credit_check_id \in Keys \ {k}
    BY <1>2, <2>2 DEF MonitorInv, AlertsComeFromChecks
  <2> QED
    BY <2>1, <2>2, <2>3 DEF MonitorInv, AlertsComeFromChecks
<1> QED
  BY <1>7, <1>8 DEF MonitorInv

(* A crash loses the queue and what the workers had in hand, no row.       *)
LEMMA CrashKeepsInv ==
    ASSUME MonitorInv, Crash
    PROVE  MonitorInv'
<1> USE DEF documents, history
<1>1. /\ background_tasks' = {}
      /\ workers' = [w \in Workers |-> Resting]
      /\ UNCHANGED <<idempotency_keys, credit_checks, credit_alerts>>
  BY DEF Crash
<1>2. TypeOK'
  BY DEF MonitorInv, MonitorTypeOK, TypeOK, Crash
<1>3. MonitorTypeOK'
  BY <1>1, <1>2 DEF MonitorTypeOK
<1>4. ChecksHaveRequests' /\ AlertsComeFromChecks' /\ DispatchedOnce'
  BY <1>1 DEF MonitorInv, ChecksHaveRequests, AlertsComeFromChecks, DispatchedOnce, Recorded
<1> QED
  BY <1>3, <1>4 DEF MonitorInv

(* The tables and the workers start empty-handed.                          *)
LEMMA MonitorInvStarts == MonitorInit => MonitorInv
<1> SUFFICES ASSUME MonitorInit PROVE MonitorInv
  OBVIOUS
<1>1. TypeOK
  BY DEF MonitorInit, Init, TypeOK
<1>2. MonitorTypeOK
  BY <1>1 DEF MonitorInit, MonitorTypeOK
<1>3. ChecksHaveRequests /\ AlertsComeFromChecks /\ DispatchedOnce
  BY DEF MonitorInit, Init, ChecksHaveRequests, AlertsComeFromChecks, DispatchedOnce
<1> QED
  BY <1>2, <1>3 DEF MonitorInv

(* Every step of a request, of a worker or of a fault keeps the invariant. *)
LEMMA MonitorInvStep == MonitorInv /\ [MonitorNext]_monitor => MonitorInv'
<1> SUFFICES ASSUME MonitorInv, [MonitorNext]_monitor PROVE MonitorInv'
  OBVIOUS
<1>1. CASE Serve
  BY <1>1, ServeKeepsInv
<1>2. ASSUME NEW w \in Workers, Dispatch(w) \/ TaskFails(w)
      PROVE  MonitorInv'
  <2>1. CASE \E k \in Keys : EvaluateExposure(w, k)
    BY <2>1, EvaluateKeepsInv
  <2>2. CASE FindActiveAlert(w)
    BY <2>2, FindKeepsInv
  <2>3. CASE RaiseAlert(w)
    BY <2>3, RaiseKeepsInv
  <2>4. CASE RaiseAlertCollides(w) \/ TaskFails(w)
    BY <2>4, GivingUpKeepsInv DEF RaiseAlertCollides, TaskFails
  <2>5. CASE ClearAlert(w)
    BY <2>5, ClearKeepsInv
  <2> QED
    BY <1>2, <2>1, <2>2, <2>3, <2>4, <2>5 DEF Dispatch
<1>3. CASE Crash
  BY <1>3, CrashKeepsInv
<1>4. CASE UNCHANGED monitor
  <2>1. UNCHANGED <<vars, workers>>
    BY <1>4 DEF monitor
  <2>2. TypeOK'
    BY <2>1 DEF MonitorInv, MonitorTypeOK, TypeOK, vars, documents, history, credit
  <2> QED
    BY <2>1, <2>2 DEF MonitorInv, MonitorTypeOK, ChecksHaveRequests, AlertsComeFromChecks,
                      DispatchedOnce, Recorded, vars, history, credit
<1> QED
  BY <1>1, <1>2, <1>3, <1>4 DEF MonitorNext

(* The invariant holds whatever requests, workers and faults do.           *)
THEOREM MonitorInvariant == Monitor => []MonitorInv
<1> QED
  BY MonitorInvStarts, MonitorInvStep, PTL DEF Monitor

(* Every table keeps its type while workers write to it, and a worker that *)
(* is dispatching always knows its check.                                  *)
THEOREM MonitorTypeCorrect == Monitor => []MonitorTypeOK
<1>1. MonitorInv => MonitorTypeOK
  BY DEF MonitorInv
<1> QED
  BY <1>1, MonitorInvariant, PTL

(* Whatever requests, workers, errors and crashes do, no check is          *)
(* dispatched by two workers, or again once it is completed.               *)
THEOREM ChecksAreDispatchedOnce == Monitor => []DispatchedOnce
<1>1. MonitorInv => DispatchedOnce
  BY DEF MonitorInv
<1> QED
  BY <1>1, MonitorInvariant, PTL

(* However the workers' reads and transactions interleave, an active alert *)
(* and the check that raised it agree with each other.                     *)
THEOREM AlertsAgreeWithChecks == Monitor => []AlertsComeFromChecks
<1>1. MonitorInv => AlertsComeFromChecks
  BY DEF MonitorInv
<1> QED
  BY <1>1, MonitorInvariant, PTL

-----------------------------------------------------------------------------
(* What a step does to the workers, the checks and the alerts              *)

(* A worker rests, goes on with what it found, or has just evaluated a     *)
(* check from the queue.                                                   *)
LEMMA WorkerMoves ==
    ASSUME MonitorInv, [MonitorNext]_monitor, NEW w \in Workers
    PROVE  \/ workers'[w] = Resting
           \/ /\ workers[w] # Resting
              /\ workers'[w].check = workers[w].check
              /\ workers'[w].breached = workers[w].breached
           \/ \E k \in background_tasks :
                 /\ workers'[w].check = k
                 /\ workers'[w].breached = (Exposure(invoices, VendorOf(k)) > CreditLimit[VendorOf(k)])
                 /\ UNCHANGED invoices
<1> DEFINE Goes == \/ workers'[w] = Resting
                   \/ /\ workers[w] # Resting
                      /\ workers'[w].check = workers[w].check
                      /\ workers'[w].breached = workers[w].breached
<1>1. workers \in [Workers -> Dispatching \cup {Resting}]
  BY DEF MonitorInv, MonitorTypeOK
<1>2. ASSUME workers'[w] = workers[w] PROVE Goes
  BY <1>2
<1>3. Serve \/ UNCHANGED monitor => Goes
  BY <1>2 DEF Serve, monitor
<1>4. Crash => Goes
  BY DEF Crash
<1>5. ASSUME NEW u \in Workers, u # w, Dispatch(u) \/ TaskFails(u)
      PROVE  workers'[w] = workers[w]
  BY <1>1, <1>5 DEF Dispatch, TaskFails, EvaluateExposure, FindActiveAlert, RaiseAlert,
                    RaiseAlertCollides, ClearAlert
<1>6. ASSUME RaiseAlert(w) \/ RaiseAlertCollides(w) \/ ClearAlert(w) \/ TaskFails(w)
      PROVE  workers'[w] = Resting
  BY <1>1, <1>6 DEF RaiseAlert, RaiseAlertCollides, ClearAlert, TaskFails
<1>7. ASSUME FindActiveAlert(w) PROVE Goes
  <2>1. workers[w].step # "resting"
    BY <1>7 DEF FindActiveAlert
  <2>2. workers[w] # Resting /\ workers[w] \in Dispatching
    BY <1>1, <2>1, AtAStep
  <2>3. PICK found : workers' = [workers EXCEPT ![w].step = "alert read", ![w].alert = found]
    BY <1>7 DEF FindActiveAlert
  <2>4. workers'[w] = [workers[w] EXCEPT !.step = "alert read", !.alert = found]
    BY <1>1, <2>3
  <2>5. \A task \in Dispatching :
           LET read == [task EXCEPT !.step = "alert read", !.alert = found]
           IN  read.check = task.check /\ read.breached = task.breached
    BY DEF Dispatching
  <2> QED
    BY <2>2, <2>4, <2>5
<1>8. ASSUME NEW k \in Keys, EvaluateExposure(w, k)
      PROVE  \/ Goes
             \/ /\ k \in background_tasks
                /\ workers'[w].check = k
                /\ workers'[w].breached = (Exposure(invoices, VendorOf(k)) > CreditLimit[VendorOf(k)])
                /\ UNCHANGED invoices
  <2> DEFINE breached == Exposure(invoices, VendorOf(k)) > CreditLimit[VendorOf(k)]
  <2>1. \/ workers' = workers
        \/ workers' = [workers EXCEPT ![w] =
              [step |-> "evaluated", check |-> k, alert |-> None, breached |-> breached]]
    BY <1>8 DEF EvaluateExposure
  <2>2. k \in background_tasks /\ UNCHANGED invoices
    BY <1>8 DEF EvaluateExposure, documents
  <2> HIDE DEF breached
  <2>3. \/ workers' = workers
        \/ workers'[w].check = k /\ workers'[w].breached = breached
    BY <1>1, <2>1
  <2> QED
    BY <1>2, <2>2, <2>3 DEF breached
<1> HIDE DEF Goes
<1>9. \/ Goes
      \/ workers'[w] = workers[w]
      \/ workers'[w] = Resting
      \/ \E k \in Keys : /\ k \in background_tasks
                         /\ workers'[w].check = k
                         /\ workers'[w].breached
                              = (Exposure(invoices, VendorOf(k)) > CreditLimit[VendorOf(k)])
                         /\ UNCHANGED invoices
  <2>1. CASE Serve \/ UNCHANGED monitor \/ Crash
    BY <1>3, <1>4, <2>1
  <2>2. ASSUME NEW u \in Workers, u # w, Dispatch(u) \/ TaskFails(u)
        PROVE  workers'[w] = workers[w]
    BY <1>5, <2>2
  <2>3. CASE RaiseAlert(w) \/ RaiseAlertCollides(w) \/ ClearAlert(w) \/ TaskFails(w)
    BY <1>6, <2>3
  <2>4. CASE FindActiveAlert(w)
    BY <1>7, <2>4
  <2>5. CASE \E k \in Keys : EvaluateExposure(w, k)
    BY <1>8, <2>5
  <2> QED
    BY <2>1, <2>2, <2>3, <2>4, <2>5 DEF MonitorNext, Dispatch
<1> QED
  BY <1>9 DEF Goes

(* A check stays, of its vendor; who completes it rests, and has raised an *)
(* alert if it had found a breach.                                         *)
LEMMA CheckMoves ==
    ASSUME MonitorInv, [MonitorNext]_monitor, NEW k \in Keys, credit_checks[k] # None
    PROVE  /\ credit_checks'[k] # None
           /\ credit_checks'[k].vendor_id = credit_checks[k].vendor_id
           /\ \/ credit_checks'[k].status = credit_checks[k].status
              \/ \E w \in Workers : /\ workers[w] # Resting
                                    /\ workers'[w] = Resting
                                    /\ workers[w].check = k
                                    /\ workers[w].breached => credit_alerts'[VendorOf(k)] # None
<1> DEFINE Kept == credit_checks'[k] = credit_checks[k]
<1>1. /\ TypeOK
      /\ credit_checks[k] \in CreditCheck
      /\ credit_checks \in [Keys -> CreditCheck \cup {None}]
      /\ workers \in [Workers -> Dispatching \cup {Resting}]
  BY DEF MonitorInv, MonitorTypeOK, TypeOK
<1>2. CASE Serve
  <2>1. PICK j \in Keys : OrderStep(j) \/ InvoiceStep(j)
    BY <1>2 DEF Serve
  <2>2. ~Recorded(j) /\ Recorded(k)
    BY <1>1, <2>1, RequestStartsOwnCheck DEF MonitorInv, ChecksHaveRequests
  <2>3. \A i \in Keys \ {j} : credit_checks'[i] = credit_checks[i]
    BY <1>1, <2>1, RequestStartsOwnCheck DEF StartCreditCheck
  <2> QED
    BY <2>2, <2>3
<1>3. ASSUME NEW w \in Workers, RaiseAlert(w) \/ ClearAlert(w), workers[w].check = k
      PROVE  /\ workers[w] # Resting
             /\ workers'[w] = Resting
             /\ workers[w].breached => credit_alerts'[VendorOf(k)] # None
             /\ credit_checks'[k] # None
             /\ credit_checks'[k].vendor_id = credit_checks[k].vendor_id
  <2>1. workers[w].step # "resting"
    BY <1>3 DEF RaiseAlert, ClearAlert
  <2>2. workers'[w] = Resting
    BY <1>1, <1>3 DEF RaiseAlert, ClearAlert
  <2>3. workers[w].breached => credit_alerts'[VendorOf(k)] # None
    <3> SUFFICES ASSUME workers[w].breached PROVE credit_alerts'[VendorOf(k)] # None
      OBVIOUS
    <3> DEFINE alert == [credit_check_id |-> k,
                         triggering_invoice_id |-> credit_checks[k].triggering_invoice_id]
    <3>1. RaiseAlert(w)
      BY <1>3 DEF ClearAlert
    <3>2. credit_alerts' = [credit_alerts EXCEPT ![VendorOf(k)] = alert]
      BY <1>3, <3>1 DEF RaiseAlert
    <3>3. alert # None
      BY <1>1, NoneIsNoRow DEF CreditCheck, CreditAlert
    <3>4. VendorOf(k) \in Vendors
      BY <1>1 DEF VendorOf, CreditCheck
    <3> HIDE DEF alert
    <3> QED
      BY <1>1, <3>2, <3>3, <3>4 DEF TypeOK
  <2>4. PICK alert_id \in Keys \cup {None} : CompleteCheck(k, alert_id)
    BY <1>3 DEF RaiseAlert, ClearAlert
  <2>5. /\ credit_checks'[k] \in CreditCheck
        /\ credit_checks'[k].vendor_id = credit_checks[k].vendor_id
    <3>1. credit_checks'[k] = [credit_checks[k] EXCEPT !.status = "COMPLETED", !.alert_id = alert_id]
      BY <1>1, <2>4 DEF CompleteCheck
    <3> QED
      BY <1>1, <3>1 DEF CreditCheck
  <2> QED
    BY <2>1, <2>2, <2>3, <2>5, AtAStep, NoneIsNoRow
<1>4. ASSUME NEW w \in Workers, RaiseAlert(w) \/ ClearAlert(w), workers[w].check # k
      PROVE  Kept
  BY <1>1, <1>4 DEF RaiseAlert, ClearAlert, CompleteCheck
<1>5. ASSUME NEW w \in Workers,
             \/ \E j \in Keys : EvaluateExposure(w, j)
             \/ FindActiveAlert(w) \/ RaiseAlertCollides(w) \/ TaskFails(w)
      PROVE  Kept
  BY <1>5 DEF EvaluateExposure, FindActiveAlert, RaiseAlertCollides, TaskFails, vars, credit
<1>6. Crash \/ UNCHANGED monitor => Kept
  BY DEF Crash, monitor, vars, credit
<1>7. \/ Serve
      \/ Kept
      \/ \E w \in Workers : (RaiseAlert(w) \/ ClearAlert(w)) /\ workers[w].check = k
  BY <1>4, <1>5, <1>6 DEF MonitorNext, Dispatch
<1> QED
  BY <1>2, <1>3, <1>7

(* An alert is raised by a worker that found a breach of that vendor, and  *)
(* cleared by one that found none.                                         *)
LEMMA AlertMoves ==
    ASSUME MonitorInv, [MonitorNext]_monitor, NEW v \in Vendors
    PROVE  \/ credit_alerts'[v] = credit_alerts[v]
           \/ \E w \in Workers : /\ workers[w] # Resting
                                 /\ VendorOf(workers[w].check) = v
                                 /\ (workers[w].breached <=> credit_alerts'[v] # None)
<1> DEFINE Kept == credit_alerts'[v] = credit_alerts[v]
<1>1. TypeOK
  BY DEF MonitorInv, MonitorTypeOK
<1>2. Serve => Kept
  BY <1>1, RequestStartsOwnCheck DEF Serve
<1>3. ASSUME NEW w \in Workers, RaiseAlert(w), VendorOf(workers[w].check) # v
      PROVE  Kept
  BY <1>1, <1>3 DEF RaiseAlert, TypeOK
<1>4. ASSUME NEW w \in Workers, ClearAlert(w), VendorOf(workers[w].check) # v
      PROVE  Kept
  BY <1>1, <1>4 DEF ClearAlert, TypeOK
<1>5. ASSUME NEW w \in Workers, ClearAlert(w), VendorOf(workers[w].check) = v
      PROVE  Kept \/ (~workers[w].breached /\ credit_alerts'[v] = None)
  BY <1>1, <1>5 DEF ClearAlert, TypeOK
<1>6. ASSUME NEW w \in Workers, RaiseAlert(w), VendorOf(workers[w].check) = v
      PROVE  workers[w].breached /\ credit_alerts'[v] # None
  <2> DEFINE k == workers[w].check
             alert == [credit_check_id |-> k,
                       triggering_invoice_id |-> credit_checks[k].triggering_invoice_id]
  <2>1. workers[w].breached /\ credit_alerts' = [credit_alerts EXCEPT ![v] = alert]
    BY <1>6 DEF RaiseAlert
  <2>2. credit_checks[k] \in CreditCheck /\ k \in Keys
    <3>1. workers[w].step # "resting"
      BY <1>6 DEF RaiseAlert
    <3>2. workers[w] # Resting
      BY <3>1, AtAStep
    <3> QED
      BY <3>2, TakenCheck DEF MonitorInv
  <2>3. alert # None
    BY <2>2, NoneIsNoRow DEF CreditCheck, CreditAlert
  <2> HIDE DEF alert
  <2> QED
    BY <1>1, <2>1, <2>3 DEF TypeOK
<1>7. ASSUME NEW w \in Workers, RaiseAlert(w) \/ ClearAlert(w) PROVE workers[w] # Resting
  <2>1. workers[w].step # "resting"
    BY <1>7 DEF RaiseAlert, ClearAlert
  <2> QED
    BY <2>1, AtAStep
<1>8. ASSUME NEW w \in Workers,
             \/ \E j \in Keys : EvaluateExposure(w, j)
             \/ FindActiveAlert(w) \/ RaiseAlertCollides(w) \/ TaskFails(w)
      PROVE  Kept
  BY <1>8 DEF EvaluateExposure, FindActiveAlert, RaiseAlertCollides, TaskFails, vars, credit
<1>9. Crash \/ UNCHANGED monitor => Kept
  BY DEF Crash, monitor, vars, credit
<1>10. Kept \/ \E w \in Workers : RaiseAlert(w) \/ ClearAlert(w)
  BY <1>2, <1>8, <1>9 DEF MonitorNext, Dispatch
<1> QED
  BY <1>3, <1>4, <1>5, <1>6, <1>7, <1>10

-----------------------------------------------------------------------------
(* Alerts and breaches                                                     *)

(* Workers and faults add no receipt and no invoice.                       *)
LEMMA MonitorRowsStep ==
    ASSUME MonitorInv, FinitelyManyRows, [MonitorNext]_monitor
    PROVE  /\ FinitelyManyRows'
           /\ UNCHANGED invoices \/ Serve
           /\ [Next]_vars \/ UNCHANGED invoices
<1>1. TypeOK
  BY DEF MonitorInv, MonitorTypeOK
<1>2. Serve => Next
  BY DEF Serve, Next
<1>3. Serve \/ UNCHANGED <<invoices, goods_receipts>>
  <2>1. Crash \/ UNCHANGED monitor => UNCHANGED <<invoices, goods_receipts>>
    BY DEF Crash, monitor, vars, documents, history
  <2>2. ASSUME NEW w \in Workers, Dispatch(w) \/ TaskFails(w)
        PROVE  UNCHANGED <<invoices, goods_receipts>>
    BY <2>2 DEF Dispatch, TaskFails, EvaluateExposure, FindActiveAlert, RaiseAlert,
                RaiseAlertCollides, ClearAlert, vars, documents, history
  <2> QED
    BY <2>1, <2>2 DEF MonitorNext
<1>4. UNCHANGED <<invoices, goods_receipts>> => FinitelyManyRows'
  BY DEF FinitelyManyRows
<1> QED
  BY <1>1, <1>2, <1>3, <1>4, FinitelyManyRowsStep

(* The tables stay finite while workers write to them.                     *)
THEOREM MonitorTablesAreFinite == Monitor => []FinitelyManyRows
<1>1. MonitorInit => FinitelyManyRows
  BY FS_EmptySet DEF MonitorInit, Init, FinitelyManyRows
<1>2. MonitorInv /\ FinitelyManyRows /\ [MonitorNext]_monitor => FinitelyManyRows'
  BY MonitorRowsStep
<1> QED
  BY <1>1, <1>2, MonitorInvariant, PTL DEF Monitor

(* What AlertsOutliveOnlyPayments needs: a breach that a worker has found, *)
(* or that an alert tells of, was one of invoices that are all still       *)
(* there.                                                                  *)
BreachesAreBilled ==
    /\ \A v \in Vendors : credit_alerts[v] # None => BilledInAll(invoices, v) > CreditLimit[v]
    /\ \A w \in Workers : (workers[w] # Resting /\ workers[w].breached) =>
          BilledInAll(invoices, VendorOf(workers[w].check)) > CreditLimit[VendorOf(workers[w].check)]

(* What has been billed above the limit stays above it.                    *)
LEMMA BilledStays ==
    ASSUME Amounts \subseteq Nat, MonitorInv, MonitorInv', FinitelyManyRows, FinitelyManyRows',
           [MonitorNext]_monitor, NEW v \in Vendors, BilledInAll(invoices, v) > CreditLimit[v]
    PROVE  BilledInAll(invoices', v) > CreditLimit[v]
<1>1. TypeOK /\ TypeOK'
  BY DEF MonitorInv, MonitorTypeOK
<1>2. CASE UNCHANGED invoices
  BY <1>2
<1>3. CASE [Next]_vars
  <2>1. /\ BilledInAll(invoices, v) \in Int /\ BilledInAll(invoices', v) \in Int
        /\ BilledInAll(invoices, v) <= BilledInAll(invoices', v)
    BY <1>1, <1>3, BilledGrows
  <2>2. CreditLimit[v] \in Int
    BY CreditLimitAssumption
  <2> QED
    BY <2>1, <2>2
<1> QED
  BY <1>2, <1>3, MonitorRowsStep

(* A breach is found among the unpaid invoices, which are billed.          *)
LEMMA BreachesAreBilledStep ==
    ASSUME Amounts \subseteq Nat, MonitorInv, MonitorInv', FinitelyManyRows, FinitelyManyRows',
           BreachesAreBilled, [MonitorNext]_monitor
    PROVE  BreachesAreBilled'
<1>1. TypeOK
  BY DEF MonitorInv, MonitorTypeOK
<1>2. ASSUME NEW v \in Vendors, credit_alerts'[v] # None
      PROVE  BilledInAll(invoices', v) > CreditLimit[v]
  <2>1. credit_alerts[v] # None => BilledInAll(invoices, v) > CreditLimit[v]
    BY DEF BreachesAreBilled
  <2>2. ASSUME NEW w \in Workers, workers[w] # Resting, workers[w].breached,
               VendorOf(workers[w].check) = v
        PROVE  BilledInAll(invoices, v) > CreditLimit[v]
    BY <2>2 DEF BreachesAreBilled
  <2>3. BilledInAll(invoices, v) > CreditLimit[v]
    BY <1>2, <2>1, <2>2, AlertMoves
  <2> QED
    BY <2>3, BilledStays
<1>3. ASSUME NEW w \in Workers, workers'[w] # Resting, workers'[w].breached
      PROVE  BilledInAll(invoices', credit_checks'[workers'[w].check].vendor_id)
               > CreditLimit[credit_checks'[workers'[w].check].vendor_id]
  <2> DEFINE k == workers'[w].check
             v == VendorOf(k)
  <2>1. k \in Keys /\ credit_checks[k] # None /\ BilledInAll(invoices, v) > CreditLimit[v]
    <3>1. CASE /\ workers[w] # Resting
               /\ workers'[w].check = workers[w].check
               /\ workers'[w].breached = workers[w].breached
      <4>1. k \in Keys /\ credit_checks[k] # None
        BY <3>1, TakenCheck DEF MonitorInv, DispatchedOnce
      <4>2. BilledInAll(invoices, v) > CreditLimit[v]
        BY <1>3, <3>1 DEF BreachesAreBilled
      <4> QED
        BY <4>1, <4>2
    <3>2. CASE \E j \in background_tasks :
                 /\ workers'[w].check = j
                 /\ workers'[w].breached = (Exposure(invoices, VendorOf(j)) > CreditLimit[VendorOf(j)])
                 /\ UNCHANGED invoices
      <4>1. k \in background_tasks /\ Exposure(invoices, v) > CreditLimit[v]
        BY <1>3, <3>2
      <4>2. k \in Keys /\ credit_checks[k] \in CreditCheck /\ credit_checks[k] # None
        BY <1>1, <4>1 DEF MonitorInv, DispatchedOnce, TypeOK
      <4>3. v \in Vendors
        BY <4>2 DEF VendorOf, CreditCheck
      <4> HIDE DEF v
      <4>4. /\ Exposure(invoices, v) <= BilledInAll(invoices, v)
            /\ Exposure(invoices, v) \in Int
            /\ BilledInAll(invoices, v) \in Int
            /\ CreditLimit[v] \in Int
        BY <1>1, <4>3, ExposureWithinBilled, ExposureType, BilledType, CreditLimitAssumption
      <4> QED
        BY <4>1, <4>2, <4>4
    <3> QED
      BY <1>3, <3>1, <3>2, WorkerMoves
  <2>2. credit_checks'[k].vendor_id = v
    BY <2>1, CheckMoves DEF VendorOf
  <2>3. v \in Vendors
    BY <1>1, <2>1 DEF VendorOf, TypeOK, CreditCheck
  <2> HIDE DEF v
  <2>4. BilledInAll(invoices', v) > CreditLimit[v]
    BY <2>1, <2>3, BilledStays
  <2> QED
    BY <2>2, <2>4
<1> QED
  BY <1>2, <1>3 DEF BreachesAreBilled, VendorOf

(* However many workers run, and whatever fails, an alert outlives the     *)
(* breach it tells of by payments only.  Amounts below zero, which the     *)
(* HTTP schema refuses, would end a breach too.                            *)
THEOREM AlertsEndWithPayments ==
    ASSUME Amounts \subseteq Nat
    PROVE  Monitor => []AlertsOutliveOnlyPayments
<1>1. MonitorInit => BreachesAreBilled
  BY DEF MonitorInit, Init, BreachesAreBilled
<1>2. /\ MonitorInv /\ MonitorInv' /\ FinitelyManyRows /\ FinitelyManyRows'
      /\ BreachesAreBilled /\ [MonitorNext]_monitor
      => BreachesAreBilled'
  BY BreachesAreBilledStep
<1>3. MonitorInv /\ FinitelyManyRows /\ BreachesAreBilled => AlertsOutliveOnlyPayments
  <2> SUFFICES ASSUME TypeOK, FinitelyManyRows, BreachesAreBilled
               PROVE  AlertsOutliveOnlyPayments
    BY DEF MonitorInv, MonitorTypeOK
  <2>1. \A v \in Vendors :
          LET paid == {i \in Invoices : /\ invoices[i] # None
                                        /\ invoices[i].vendor_id = v
                                        /\ invoices[i].status = "PAID"}
          IN  Exposure(invoices, v) + MapThenSumSet(LAMBDA i : invoices[i].invoice_amount, paid)
                = BilledInAll(invoices, v)
    BY BilledIsOwedOrPaid
  <2> QED
    BY <2>1 DEF BreachesAreBilled, AlertsOutliveOnlyPayments
<1> QED
  BY <1>1, <1>2, <1>3, MonitorInvariant, MonitorTablesAreFinite, PTL DEF Monitor

-----------------------------------------------------------------------------
(* One worker                                                              *)

Waiting(k, v) ==
    /\ credit_checks[k] # None
    /\ credit_checks[k].vendor_id = v
    /\ credit_checks[k].status = "PENDING"

FoundNone(w) == workers[w] # Resting /\ ~workers[w].breached

(* What NoSilentBreach needs: the alert of a vendor above its limit is not *)
(* about to be cleared, or a check of it waits that will find the breach.  *)
(* A second worker breaks it: it found no breach before the first raised   *)
(* the alert, and clears it.                                               *)
BreachesAreSeen ==
    \A v \in Vendors : Exposure(invoices, v) > CreditLimit[v] =>
        \/ /\ credit_alerts[v] # None
           /\ \A w \in Workers : FoundNone(w) => VendorOf(workers[w].check) # v
        \/ \E k \in Keys : /\ Waiting(k, v)
                           /\ \A w \in Workers : FoundNone(w) => workers[w].check # k

(* While a vendor is above its limit no worker finds the contrary.         *)
LEMMA FindsTheBreach ==
    ASSUME MonitorInv, [MonitorNext]_monitor, NEW v \in Vendors,
           Exposure(invoices, v) > CreditLimit[v], NEW w \in Workers,
           workers'[w] # Resting, ~workers'[w].breached,
           credit_checks'[workers'[w].check].vendor_id = v
    PROVE  /\ FoundNone(w)
           /\ workers'[w].check = workers[w].check
           /\ VendorOf(workers[w].check) = v
<1>1. CASE /\ workers[w] # Resting
           /\ workers'[w].check = workers[w].check
           /\ workers'[w].breached = workers[w].breached
  <2>1. workers[w].check \in Keys /\ credit_checks[workers[w].check] # None
    BY <1>1, TakenCheck DEF MonitorInv, DispatchedOnce
  <2>2. credit_checks'[workers[w].check].vendor_id = credit_checks[workers[w].check].vendor_id
    BY <2>1, CheckMoves
  <2> QED
    BY <1>1, <2>2 DEF FoundNone, VendorOf
<1>2. ASSUME NEW k \in background_tasks,
             workers'[w].check = k,
             workers'[w].breached = (Exposure(invoices, VendorOf(k)) > CreditLimit[VendorOf(k)])
      PROVE  FALSE
  <2>1. k \in Keys /\ credit_checks[k] # None
    BY DEF MonitorInv, MonitorTypeOK, TypeOK, DispatchedOnce
  <2>2. VendorOf(k) = v
    BY <1>2, <2>1, CheckMoves DEF VendorOf
  <2> QED
    BY <1>2, <2>2
<1> QED
  BY <1>1, <1>2, WorkerMoves

(* A breach there was stays seen, ...                                      *)
LEMMA SeenBreachStaysSeen ==
    ASSUME \A u, w \in Workers : u = w,
           MonitorInv, BreachesAreSeen, [MonitorNext]_monitor, NEW v \in Vendors,
           Exposure(invoices, v) > CreditLimit[v]
    PROVE  \/ /\ credit_alerts'[v] # None
              /\ \A w \in Workers : (workers'[w] # Resting /\ ~workers'[w].breached) =>
                    credit_checks'[workers'[w].check].vendor_id # v
           \/ \E k \in Keys :
                 /\ Waiting(k, v)'
                 /\ \A w \in Workers : (workers'[w] # Resting /\ ~workers'[w].breached) =>
                       workers'[w].check # k
<1>1. CASE /\ credit_alerts[v] # None
           /\ \A w \in Workers : FoundNone(w) => VendorOf(workers[w].check) # v
  <2>1. ASSUME NEW w \in Workers, workers'[w] # Resting, ~workers'[w].breached
        PROVE  credit_checks'[workers'[w].check].vendor_id # v
    BY <1>1, <2>1, FindsTheBreach
  <2>2. credit_alerts'[v] # None
    BY <1>1, AlertMoves DEF FoundNone
  <2> QED
    BY <2>1, <2>2
<1>2. ASSUME NEW k \in Keys, Waiting(k, v),
             \A w \in Workers : FoundNone(w) => workers[w].check # k
      PROVE  \/ /\ credit_alerts'[v] # None
                /\ \A w \in Workers : workers'[w] = Resting
             \/ /\ Waiting(k, v)'
                /\ \A w \in Workers : (workers'[w] # Resting /\ ~workers'[w].breached) =>
                      workers'[w].check # k
  <2>1. /\ credit_checks[k] # None
        /\ VendorOf(k) = v
        /\ credit_checks[k].status = "PENDING"
    BY <1>2 DEF Waiting, VendorOf
  <2>2. /\ credit_checks'[k] # None
        /\ credit_checks'[k].vendor_id = v
    BY <2>1, CheckMoves DEF VendorOf
  <2>3. CASE credit_checks'[k].status = credit_checks[k].status
    <3>1. ASSUME NEW w \in Workers, workers'[w] # Resting, ~workers'[w].breached
          PROVE  workers'[w].check # k
      BY <1>2, <2>2, <3>1, FindsTheBreach
    <3> QED
      BY <2>1, <2>2, <2>3, <3>1 DEF Waiting
  <2>4. ASSUME NEW w \in Workers, workers[w] # Resting, workers'[w] = Resting,
               workers[w].check = k, workers[w].breached => credit_alerts'[VendorOf(k)] # None
        PROVE  /\ credit_alerts'[v] # None
               /\ \A u \in Workers : workers'[u] = Resting
    BY <1>2, <2>1, <2>4 DEF FoundNone
  <2> QED
    BY <2>1, <2>3, <2>4, CheckMoves
<1> QED
  BY <1>1, <1>2 DEF BreachesAreSeen

(* ... and a request that makes one leaves a check nobody has in hand yet. *)
LEMMA BreachesAreSeenStep ==
    ASSUME Amounts \subseteq Nat, \A u, w \in Workers : u = w,
           MonitorInv, FinitelyManyRows, BreachesAreSeen, [MonitorNext]_monitor
    PROVE  BreachesAreSeen'
<1> SUFFICES ASSUME NEW v \in Vendors, Exposure(invoices', v) > CreditLimit[v]
             PROVE  \/ /\ credit_alerts'[v] # None
                       /\ \A w \in Workers : (workers'[w] # Resting /\ ~workers'[w].breached) =>
                             credit_checks'[workers'[w].check].vendor_id # v
                    \/ \E k \in Keys :
                          /\ Waiting(k, v)'
                          /\ \A w \in Workers : (workers'[w] # Resting /\ ~workers'[w].breached) =>
                                workers'[w].check # k
  BY DEF BreachesAreSeen, FoundNone, VendorOf
<1>1. CASE Exposure(invoices, v) > CreditLimit[v]
  BY <1>1, SeenBreachStaysSeen
<1>2. CASE ~(Exposure(invoices, v) > CreditLimit[v])
  <2>1. TypeOK
    BY DEF MonitorInv, MonitorTypeOK
  <2>2. Serve
    BY <1>2, MonitorRowsStep
  <2>3. PICK k \in Keys : (OrderStep(k) \/ InvoiceStep(k)) /\ UNCHANGED workers
    BY <2>2 DEF Serve
  <2>4. Waiting(k, v)'
    BY <1>2, <2>1, <2>3, BreachStartsCheck DEF Waiting
  <2>5. credit_checks[k] = None
    BY <2>1, <2>3, RequestStartsOwnCheck DEF MonitorInv, ChecksHaveRequests
  <2>6. ASSUME NEW w \in Workers, workers[w] # Resting PROVE workers[w].check # k
    BY <2>5, <2>6 DEF MonitorInv, DispatchedOnce
  <2> QED
    BY <2>3, <2>4, <2>6
<1> QED
  BY <1>1, <1>2

(* With a single worker no vendor is above its limit unseen, whatever the  *)
(* requests it interleaves with and whatever fails: an alert says so, or a *)
(* check is PENDING.                                                       *)
THEOREM NoBreachIsSilentToOneWorker ==
    ASSUME Amounts \subseteq Nat, \A u, w \in Workers : u = w
    PROVE  Monitor => []NoSilentBreach
<1>1. MonitorInit => BreachesAreSeen
  <2> SUFFICES ASSUME MonitorInit, NEW v \in Vendors PROVE ~(Exposure(invoices, v) > CreditLimit[v])
    BY DEF BreachesAreSeen
  <2>1. Owed(invoices, v) = {}
    BY DEF Owed, MonitorInit, Init
  <2>2. Exposure(invoices, v) = 0
    BY <2>1, ExposureSum, SumEmpty
  <2> QED
    BY <2>2, CreditLimitAssumption
<1>2. MonitorInv /\ FinitelyManyRows /\ BreachesAreSeen /\ [MonitorNext]_monitor
        => BreachesAreSeen'
  BY BreachesAreSeenStep
<1>3. BreachesAreSeen => NoSilentBreach
  BY DEF BreachesAreSeen, NoSilentBreach, Waiting
<1> QED
  BY <1>1, <1>2, <1>3, MonitorInvariant, MonitorTablesAreFinite, PTL DEF Monitor
=============================================================================
