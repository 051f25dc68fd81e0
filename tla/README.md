# Formal models of the procure-to-pay API

TLA+ modules that model the service under `src/` (a FastAPI and MCP front over
SQLAlchemy and SQLite: vendors, purchase orders, goods receipts, invoices,
three-way matching, ledger postings, credit alerts), configurations that check
them with TLC, and theorems proved with TLAPS. Source paths below are relative
to the repository, so the application package is `src/src`.

    tlc -config P2P_Lifecycle.cfg MCP2P      # one run; PROJECT.json lists all
    tlapm P2PProofs.tla                      # one proof module

## 1. The system

| Component | State | Operations | Talks to |
|---|---|---|---|
| Purchase order service (`domain/services/purchase_order_service.py`, `goods_receipt_service.py`) | `purchase_orders` with lines, `goods_receipts`, `idempotency_keys` | create, submit, receive, get | vendors (read) |
| Invoice services (`invoice_service.py`, `invoice_matching_service.py`, `invoice_approval_service.py`, `invoice_payment_service.py`) | `invoices`, `invoice_match_snapshots`, `gl_entries`, `purchase_orders.invoice_id` and `.status`, `idempotency_keys` | create, match, approve, pay | orders (read and written), credit checks |
| Vendor credit alerts (`vendor_credit_alert_service.py`) | `credit_checks`, `credit_alerts` | insert a PENDING check with an invoice or approval; dispatch it later | invoices (exposure), vendors (limit) |
| Domain rules (`domain/models`, `domain/rules`) | none | validate, build or transform one row | called by the services |
| Idempotency (`core/idempotency.py`, `idempotency_repository.py`) | `idempotency_keys` | look up, record | first read and last insert of every handler |
| Repositories, sessions (`persistence/`) | the SQLite database | read, insert, update of changed columns | one session per request |
| HTTP routes, process (`api/routes`, `main.py`) | the queue of background tasks | call a handler, queue the dispatch of its check | services |
| MCP tools (`mcp/`) | none | call the same handlers | services; queue nothing |
| Demo data (`persistence/seed/bootstrap.py`) | rows of every table | insert them into an empty database at start-up | the tables, not the services |
| Schemas, replies, errors (`api/schemas`, `api/dependencies`, `core/errors.py`) | none | refuse an amount, turn a result into a reply | routes and tools |
| Clients, among them `scripts/p2p_mcp_e2e.py` | which calls were made, what was answered | call, call again, give up, go on by the reply | routes and tools, over a network |
| Vendor eligibility, exposure, obligation guard | none | read only | vendors, invoices, alerts |

Every handler has the same shape: look up the idempotency key (replay the
recorded result, or refuse a key used for something else); read the rows and
refuse what the rules refuse; apply a domain rule to the row in memory; then, in
one transaction, write the row, insert what goes with it, and insert the
record of the key last. Any exception rolls the transaction back.

What is hard about it:

* **Reads outside the transaction.** Routes run in a thread pool with a session
  each. The check of a status, the computation of a quantity and the write are
  three separate accesses, and nothing compares versions.
* **Retries.** A key must have one effect, also when the retry is sent before
  the first answer, and a replay is answered from the present state of the
  document, which has moved on.
* **The connection.** A reply may be lost after the commit, a call may arrive
  late or twice, and the same key may come with something else. What a client
  was told must be true, and must stay useful.
* **Two documents in step.** An invoice and its order point at each other and
  must be paid and closed together; the ledger must hold one posting.
* **Work after the response.** Credit checks run later, in other threads, in
  memory only; they may be lost, fail half way, or be overtaken.

What makes each component correct:

* orders: no line over-received, receipts add up, status only forward;
* invoices: linked one to one with orders, matched only against goods received,
  stages in order, paid with their order closed;
* ledger: one balanced pair per approved invoice;
* idempotency: every effect belongs to exactly one recorded key, and a retry of
  what succeeded succeeds;
* clients: what is acknowledged is booked as it was sent, a refusal is final,
  advice stays good, everyone is answered in the end;
* credit alerts: an alert and its check change together, each check runs once
  and completes, no breach goes unseen.

`PROJECT.json` lists the hazards line by line under `hazards`.

## 2. The modules

    P2PDomain                rules on rows, no state
       |
      P2P                    the service, one request at a time   MCP2P
       |  |  | P2PPayables   the service implements Payables      MCP2P
       |  |  |      \__ Payables       one order's contract
       |  | DemoData         the rows of the seed
       |  |  \__ P2PClients  calls, clients and the network       MCP2PClients
       | CreditMonitoring    workers that run credit checks       MCCreditMonitoring
    P2PThreads               requests as threads and sessions     MCP2PThreads

    SumTheorems              sums over finite sets                the modules with proofs:
    P2PProofs                rows, links, stages, ledger          each extends the module
       |  \__ P2PPayablesProofs   the refinement of Payables      it is named after and
    P2PTotalsProofs          whatever is summed; retries          those it hangs from
       |  |  \__ CreditMonitoringProofs
       |  \__ P2PClientsProofs    what clients rely on, from the demo rows
    P2PThreadsProofs         what races leave intact
       |
    P2PSerialProofs          P2PThreads implements P2P, and with P2PPayablesProofs Payables

**P2PDomain** has one operator per rule: `...Refusal` returns the error code of
the first check that fails or `"OK"`, in the order of the code's early returns;
`DraftPurchaseOrder`, `Submitted`, `Received`, `PendingInvoice`, `Matched`,
`Approved`, `Paid`, `Closed` are the rows the rules return. Money is an integer
number of cents. The lines of an order are a function from line items to
quantities, 0 where there is no line (the code refuses quantities that are not
positive). Time stamps are the key of the request that set them.

**P2P** has the tables as variables and one action per handler, which is the
handler from lookup to commit. Refused, conflicting, replayed and rolled-back
requests change nothing and are stuttering steps; what the client is then told
is `...Refusal` and `Replay`. A submission whose key the order already carries is
answered with the order as it is (`SubmittedUnder`): that, too, changes nothing,
and only a request that races its own duplicate gets there, for the record of the
key is looked up first. A dispatch of a credit check is one step. A check
may fail (`CreditCheckFails`), and a stop of the process loses the queue
(`Restart`). The vendor tables are constants: the service never writes them.

**P2PThreads** splits each handler into the accesses it makes. A thread reads
and applies the rule (`Start...`, then `LoadOrder` for the order of match and pay,
which a match looks up twice, first only to see that it exists, `FindOrder`),
reads the row once more in the repository's `update` (`Reread`), and then
commits in one step the columns in which the rule's row and the second read
differ (`Written`). Why these steps and no others: pysqlite opens a transaction
at the first write, so earlier reads are in autocommit and see the latest
commit; SQLite has one writer, so a transaction is atomic to the others; the
session's identity map is weak, the row of the first read has been converted
and dropped, so `session.get` in `update` reads again; SQLAlchemy writes only
changed columns. Time stamps are always written, for a naive value read back
never equals the aware one of the rule. `RollBack` covers refusals, UNIQUE
violations, a locked database and a crash before the commit.

**CreditMonitoring** splits the dispatch of a check into its reads and its
transaction, for several workers: take the task and evaluate the exposure, find
the active alert, raise or clear it and complete the check. An alert replaced or
inserted meanwhile makes an insert or update fail (`RaiseAlertCollides`), while
a delete of a row that is gone only warns (`ClearAlert`). `TaskFails` and
`Crash` are switched by `Faults`. Requests are the serial handlers of P2P.
`Monitor`, the specification the theorems are about, starts from empty tables;
the runs start where its order steps lead (`ReceivedOrders`).

**Payables** is the abstract specification: what an accounts-payable department
expects, order by order, with no requests, keys, rows or retries. Per order there
are the goods (`NONE`, `AWAITED`, `DELIVERED`, `CLOSED`), what the arrived goods
are worth, one bill with its stage (`OPEN`, `COVERED`, `OWED`, `SETTLED`), and
the entries posted for it. `Cover` wants the goods to be worth the bill, `Owe`
posts the pair in the step that makes the bill owed, `Settle` wants the order
delivered and closes it. **P2PPayables** is the refinement mapping: the stages of
an order are read off `status`, `invoice_id` and the linked invoice, its entries
off `gl_entries`. What goods are worth may become anything when they are ordered
or arrive: how it is computed is the service's affair (`LineValue`), and the
contract is in comparing it with the bill.

**DemoData** transcribes the rows of `seed_initial_data`. **P2PClients** starts
from them and adds what lies between a client and a handler. A call is what is
put on the wire: entries of a receipt that may name a line twice or be negative,
prices and amounts in tenths of a cent. `Ordered`, `Delivered` and `Cents` are
the code's numbering, summing and rounding, `Fingerprint` is taken after them,
as in the code, and the handlers of P2P are applied to the result. `Code` is the
answer in the order of the code's early returns: schema, record of the key,
receipt found by its key, refusal of the rules, colliding insert. A call stays
in `network` and is handled any number of times; its reply may be heard, be
lost, or come when nobody waits; the transaction may fail; the read after the
commit may fail (`ReadBackFails`). Clients that resend do so until they hear an
answer that is not retryable. The script sends each of its calls once, waits for
a while (`TimesOut`), and goes on only after a success. New documents are named
by the key of the call that created them, and can only be named by others once
they exist, for ids are random.

**MC modules** hold instances only: concrete orders and deliveries, key order,
symmetry, and start states.

Operators whose comment starts with "Mutant" are deliberate defects of the
definition after them. No specification uses one; they show that each property
can fail.

## 3. What is checked

| Run | What it shows | Instance |
|---|---|---|
| `p2p_lifecycle` | `TypeOK`, `ReceiptsAddUp`, `NeverOverReceived`, `PaidMeansDelivered`, `PostedOnce`, `MatchedStaysCovered`, `ReplayFailsOnlyOncePaid`, `DocumentsOnlyAdvance`, `ImplementsPayables` | one order of two lines (2 at 1 cent, 1 at 2), five deliveries from none to too much, amounts 2, 4 (the whole order) and 5, an unknown vendor, both channels, 11 keys; 10,732 states |
| `p2p_two_orders` | `InvoiceLinks`, `NoSilentBreach`, `ImplementsPayables` | two orders, two invoices, two numbers, an active and an inactive vendor, limit 2 with amounts 1 and 2, so that only the sum breaches; 9 keys; 344,519 states |
| `threads_races` | `EffectsAreRecorded`, `NoStageSkipped`, `InvoicesAreDistinct` | two threads on one submitted order, two invoice ids, 8 keys; 177,815 states |
| `threads_per_order` | `ThreadsTypeOK`, `ImplementsSerialSystem` | two threads, two orders, 7 keys, from empty tables, never two requests in flight about one order; 212,603 states |
| `credit_one_worker` | `NoSilentBreach`, `EveryCheckCompletes` | one worker, no faults, two received orders to invoice, approve and pay |
| `credit_workers` | `MonitorTypeOK`, `AlertsComeFromChecks`, `DispatchedOnce`, `AlertsOutliveOnlyPayments` | two workers, failing tasks, crashes |
| `clients_demo` | `AcknowledgedIsDone`, `RefusalsAreFinal`, `GuidanceIsSound`, `NegativePostingsAreMCPs`, `EveryCallIsAnswered`, `WorkflowEnds` | the demo rows and 37 calls at five desks, at most four of a desk made beside the script's seven; 22,615 states |
| `approve_replay` | `EveryRetrySucceeds` fails | as `p2p_lifecycle` |
| `over_receipt` | `ReceiptsWithinOrder` fails | as `threads_races` |
| `double_posting` | `TwoEntriesPerInvoice` fails | as `threads_races` |
| `silent_breach` | `NoSilentBreach` fails with two workers | as `credit_workers`, no faults |
| `mcp_check` | `EveryCheckCompletes` fails with MCP clients | as `credit_one_worker`, both channels |

The five whose property fails are disagreements of the code with its own documentation; section
5 tells each story.

**Bounds.** The number of keys bounds the length of a behaviour, since every
transaction consumes one. A whole life of one order takes create, submit, up to
three receipts, invoice, match, approve, pay: nine; the lifecycle run has two
more for blocked or repeated matches. Within 9 keys two orders cannot both
be paid, but both can be invoiced with one of them approved, or one be paid
beside an open one, which is what links and exposure are about. In `threads_races` the first two keys are spent (the
order is submitted), six remain: receipt, invoice, match, approval, payment and
one competitor at any stage. Two threads suffice for a lost update and for a
retry in flight. Keys are first used in increasing order (`KeysInOrder`):
they are only compared for equality, so this removes renamings. Order, invoice
and thread ids are symmetric in the safety runs; liveness runs use no symmetry,
and there the key order is a guard of the next-state relation and no constraint.
In `clients_demo` the calls are written out, and a behaviour makes those of one
desk: calls on the same rows or under the same keys. The desks are the script
with a clerk who works on its order and a receipt for another; a dock with three calls that share a key,
two that share another and two under the key of a demo row; invoices for PO-200
of 600.00 and 600.005 under one key, of nothing and of less than nothing, beside
a receipt; the three open demo invoices with one key used for two approvals and
one for two payments; and an order at 0.004 a piece. Calls of different desks
that meet at all (a receipt for PO-200 and one for PO-1001) are of a kind that
also meets within a desk. `MadeBound` (4) is the number of calls a behaviour
makes beside the script's: delivery, match, approval and payment of a demo
invoice, or order, submission, invoice and match of a new one. A life of more
calls is the script's, or that of `p2p_lifecycle`. The replies that occur are
successes with every advice, both refusals for a state, a line that is invalid, a
surplus, an inactive vendor, a key conflict, a malformed amount and the
retryable error.
Deadlock checking is off in every run: the service may run out of keys here and
of clients in reality, and a system nobody calls is not in error.

**Start states.** Runs start from tables without documents
(`SEED_ON_STARTUP=false`, with vendors loaded from elsewhere: the service has no
operation that writes them), or from a state such a start reaches: the submitted
order of `MCP2PThreads`, the received orders of `MCCreditMonitoring`, each with
the rows its requests would have left. `clients_demo` starts from the demo rows
(`SEED_ON_STARTUP=true`, the default). No sequence of requests leads there: an
APPROVED and a PAID invoice have no ledger entries, stamps or checks, an open one
belongs to an inactive vendor, orders have no keys, and receipts have keys with
no recorded request. So `PostedOnce` and `Stamped` do not hold of a seeded database, and the
theorems about `Spec` say nothing of it. What it does keep has theorems of its own
(section 4), and the properties of `clients_demo` hold with the exceptions they
name.

**Fairness.** `WorkersRun` is weak fairness of each worker's `Dispatch`: the
thread pool keeps running a task it has begun, takes the next queued one, and
no step of a dispatch waits for a client. Requests have no fairness.
`EveryCheckCompletes` is stated for one worker without faults; with faults it is
false by design (`docs/interview-conversation-starters.md`, "Why can in-process
background work leave `PENDING` checks behind after a restart?"), and with two
workers a collision leaves a check PENDING.

In P2PClients `Fairness` says that while some call has an answer to be heard one
such answer is heard in the end: lost replies and a failing database do not go
on for ever (the stated contract of a retryable error), and resending clients do
not give up; and that the script goes on after a success. It says nothing of a
particular call, so `EveryCallIsAnswered` is that time and again nobody waits:
calls are finitely many, and whoever can be answered is. Its exceptions are the
approval of an invoice that was paid since (section 5, 1) and a receipt under the
key of another order's demo receipt: their answer is never anything but
retryable. `WorkflowEnds` excuses the script where a reply of its own was lost,
the database failed it, or a clerk worked on its order, for it sends nothing
again and stops at the first error.

**Composition.** `P2PThreads` extends P2P with the threads, and
`ImplementsSerialSystem` is the refinement: projected on the tables, each of its
steps is a step of P2P or a stutter. The discipline under which it holds is
`OneRequestPerOrder`: no two requests in flight about one order (`SerialPerOrder`
of the run is it together with the order of the keys). A client that serialises
its calls per order gets everything proved of P2P, whatever the number of threads
(`SerialPerOrderImplementsP2P`), among it the contract of Payables. Without the discipline, `threads_races` shows what survives and
the three thread-level findings what does not. `ImplementsPayables` is a second
refinement, of the serial service, and composes with the first
(`SerialPerOrderImplementsPayables`).
P2PClients composes the handlers of P2P with clients and a network.

## 4. What is proved

Every safety and action property that a run checks has a theorem, which states it
for all sets of vendors, orders, lines, invoices, amounts, limits and keys, for
every number of workers and threads, and for every collection of calls, a script
among them.

| Theorem | Statement |
|---|---|
| *The serial service (P2PProofs, P2PPayablesProofs, P2PTotalsProofs)* | |
| `TypeCorrect` | `Spec => [](TypeOK /\ TasksHaveChecks)` |
| `NothingOverReceived` | `Spec => []NeverOverReceived` |
| `OrdersAndInvoicesLinked` | `Spec => []InvoiceLinks` |
| `StampsTellStage` | `Spec => []Stamped` |
| `LedgerPostedOnce` | `Spec => []PostedOnce` |
| `PaymentSettlesDelivery` | `Spec => []PaidMeansDelivered` |
| `DocumentsAdvance` | `Spec => DocumentsOnlyAdvance` |
| `ServiceImplementsPayables` | `Spec => ImplementsPayables` |
| `TablesAreFinite` | `Spec => []FinitelyManyRows` |
| `ReceiptsAlwaysAddUp` | `Spec => []ReceiptsAddUp` |
| `MatchedIsCovered` | `Spec => []MatchedStaysCovered` |
| `RetriesSucceed` | `Spec => []ReplayFailsOnlyOncePaid` |
| `NoBreachIsSilent` | `Spec => []NoSilentBreach`, if `Amounts \subseteq Nat` |
| *Workers (CreditMonitoringProofs)* | |
| `MonitorTypeCorrect` | `Monitor => []MonitorTypeOK` |
| `ChecksAreDispatchedOnce` | `Monitor => []DispatchedOnce` |
| `AlertsAgreeWithChecks` | `Monitor => []AlertsComeFromChecks` |
| `MonitorTablesAreFinite` | `Monitor => []FinitelyManyRows` |
| `AlertsEndWithPayments` | `Monitor => []AlertsOutliveOnlyPayments`, if `Amounts \subseteq Nat` |
| `NoBreachIsSilentToOneWorker` | `Monitor => []NoSilentBreach`, if `Amounts \subseteq Nat` and there is at most one worker |
| *Threads (P2PThreadsProofs, P2PSerialProofs)* | |
| `ThreadsInvariant` | `ThreadsSpec => []ThreadsInv` |
| `ThreadsTypesAreCorrect` | `ThreadsSpec => []ThreadsTypeOK` |
| `RacesKeepInvoicesDistinct` | `ThreadsSpec => []InvoicesAreDistinct` |
| `RacesKeepEffectsRecorded` | `ThreadsSpec => []EffectsAreRecorded` |
| `RacesSkipNoStage` | `ThreadsSpec => []NoStageSkipped` |
| `SerialPerOrderImplementsP2P` | `ThreadsSpec /\ []OneRequestPerOrder => ImplementsSerialSystem` |
| `SerialPerOrderImplementsPayables` | `ThreadsSpec /\ []OneRequestPerOrder => ImplementsPayables` |
| `SerialPerOrderKeepsTheBooks` | `ThreadsSpec /\ []OneRequestPerOrder => [](ReceiptsWithinOrder /\ TwoEntriesPerInvoice)` |
| *Clients, from the demo rows (P2PClientsProofs)* | |
| `ClientsInvariant` | `ClientsSpec => []ClientsInv` |
| `DemoBooksHold` | `ClientsSpec => [](TypeOK /\ NeverOverReceived /\ InvoiceLinks /\ PaidMeansDelivered /\ MatchedStaysCovered)` |
| `AcknowledgementsHold` | `ClientsSpec => []AcknowledgedIsDone` |
| `RefusalsHold` | `ClientsSpec => []RefusalsAreFinal` |
| `GuidanceHolds` | `ClientsSpec => []GuidanceIsSound` |
| `OnlyMCPsPostNegative` | `ClientsSpec => []NegativePostingsAreMCPs` |
| *The service on the demo rows (P2PClientsProofs)* | |
| `ClientsUseTheService` | `ClientsSpec => DemoSpec` |
| `SeededReceiptsAddUp` | `DemoSpec => []ReceiptsAddUp` |
| `NoSeededBreachIsSilent` | `DemoSpec => []NoSilentBreach`, if `Amounts \subseteq Nat` |
| `SeededLedgerPostedOnce` | `DemoSpec => []LedgerFollowsStamps` |
| `SeededRetriesSucceed` | `DemoSpec => []ReplayFailsOnlyOncePaid` |
| `SeededDocumentsAdvance` | `DemoSpec => DocumentsOnlyAdvance` |

**Assumptions.** Those the modules name, which TLC evaluates in the runs:

* P2PDomain and P2P: active vendors are vendors and vendors are among the ids
  requests may name; lines are finitely many (`LinesAssumption`); orders and
  deliveries are functions to naturals; amounts are integers (not positive ones:
  the MCP tools accept any); `None` is not an element of any row type or id set.
  Vendors, orders, invoices and keys may be infinitely many.
* DemoData: the sets hold what the seed inserts (`DemoFits`).
* P2PClients: calls are of the shape a client can give them, their lines add up to
  something, and what is not refused is an order or delivery of P2P
  (`CallsAssumption`); the script works on documents its earlier calls have made
  (`WorkflowAssumption`); `None` is no answer (`NoneIsNoAnswer`).

Some theorems have hypotheses of their own. `Amounts \subseteq Nat`, of
the four about exposure, is what the HTTP schema and the rounding to cents leave. It
is needed: an invoice below zero, which the MCP tools accept, lowers the exposure,
and its payment raises it again without starting a check. At most one worker is
what `silent_breach` shows to be needed. `[]OneRequestPerOrder` is the discipline
of the clients and no invariant: `over_receipt` and `double_posting` are what
happens otherwise, and `threads_per_order` reaches 212,603 states that satisfy it.

**Argument: rows.** `TypeOK` is not inductive alone: a dispatch reads
`credit_checks[k]` of a queued task, which must exist, hence `TasksHaveChecks`.
`NeverOverReceived` needs the type invariant only, once a lemma says what an
accepted receipt guarantees (`ReceiptWithinOrder`); `StepCases` reduces every
other step to "the three tables are unchanged". `InvoiceLinks` is inductive with
the type invariant: a new invoice goes to an order whose `invoice_id` is NULL, so
by the invariant no other invoice names that order, and the handlers of existing
rows keep identity (`...KeepIdentity`). For the ledger and the stages,
`InvoiceMoves` says that any step is at most one of four moves of one invoice
(created, matched, approved, paid) and what each does to `gl_entries`. From it
follow `PostedOnce`, whose approval case needs that nothing was posted for a
MATCHED invoice, and `Stamped`, half of which (`StampsFollow`) is what
`DocumentsOnlyAdvance` needs: that a step stamps no approval anew follows only if
a MATCHED invoice has no stamp.
`PaidMeansDelivered` is split: paid iff closed is inductive with `InvoiceLinks`
(closing an order closes the order of that invoice and of no other), and the
delivery follows from `NeverOverReceived`.

`ServiceImplementsPayables` maps every action of P2P to a step of Payables or to
a stutter. It rests on the invariants above: `InvoiceLinks` makes the bill of an
order that of the one invoice that names it, so that a step of an invoice moves
one order's bill; `PostedOnce` makes the ledger of an order empty before its
approval and the pair after it; `PaidMeansDelivered` ties the two documents at
the payment.

**Argument: totals.** `MapThenSumSet` takes an operator, and induction over a set
takes a predicate; the provers can instantiate neither. SumTheorems therefore
sums a function (`SumOver`), and takes of all subsets for which a law fails one
that is minimal by inclusion: that a finite set of finite sets has one
(`MinimalSubset`) replaces the induction. P2PTotalsProofs shows of each sum of the
model that it is a `SumOver`. Sums need finite tables: every step adds at most one
row to each (`TablesAreFinite`), so no set of ids need be finite.

`ReceiptsAddUp` needs that a receipt belongs to an order that is there, so that a
new order has none. `MatchedStaysCovered` is not inductive, for its comparison
with the whole order is about `qty_ordered`; `Covered`, which compares the amount
with what was received, is: quantities received only grow, prices do not change,
and a MATCHED invoice that is matched again is compared again. `RetriesSucceed`
rests on `RecordsHaveRows`: the rows that a replay reads are there and at the
stage of the recorded request or past it. For `NoSilentBreach`, the later
stages never raise an exposure (`StagesLowerExposure`), so a vendor gets above its
limit only where an invoice is created, and that step inserts a check of the
vendor (`BreachStartsCheck`).

**Argument: workers.** The theorems about workers share one inductive invariant,
`MonitorInv`. `DispatchedOnce` alone is not inductive: that the check a request
inserts is in nobody's hands holds because its key is new and a check exists only
with the record of its request (`ChecksHaveRequests`), so no queue, worker or
alert names it. `AlertsComeFromChecks` needs `DispatchedOnce`: a check in a
worker's hands is PENDING, so no alert is its work, and completing it, with an
alert or without, cannot part another alert from its check. That the alert a
worker found may have been replaced meanwhile is harmless to both; what it is not
harmless to is `NoSilentBreach` (section 5, 4).

`AlertsOutliveOnlyPayments` compares an alert with an exposure that was read some
steps ago. What a vendor has billed in all, paid or not (`BilledInAll`), only grows, so
the breach a worker has in hand, or an alert tells of, remains one of what was
billed (`BreachesAreBilled`); if the exposure is below the limit now, something
was paid. `NoSilentBreach` for one worker needs `BreachesAreSeen`: a vendor
above its limit has an alert that no worker is about to clear, or a check that
waits and that no worker has evaluated without finding the breach. A second worker
breaks the first half: it found no breach, the first raises the alert, and the
second clears it.

**Argument: threads.** What a request has in hand is stale, so the invariant
`ThreadsInv` says what staleness leaves of it: the rows it read had the identity
the tables still show, a status it was allowed to read was reached, and what it
wants to write is a row of its table (`InHand`). That others do not take this
away is one lemma (`InHandStays`) over what no commit ever undoes (`TablesGrow`:
rows keep their identity, snapshots and entries stay). A stage is skipped by
nobody, for the stage before left a snapshot or entries, and those stay however
often the status is written back (`StagesFollow`). Effects are counted by keys:
who inserted the record of the key inserted the rest in the same transaction.

For the refinement `HandsAreFresh` says the opposite: under `OneRequestPerOrder`
what a thread has in hand is what the rules make of the tables as they are now. A
commit of another thread is about another order, hence about another invoice,
since an invoice names one order; so the commit writes what the handler of P2P
would, and the second read and the unwritten columns make no difference.
`SerialPerOrderKeepsTheBooks` and `SerialPerOrderImplementsPayables` then apply the
theorems about P2P.

**Argument: clients.** `Books` is what holds of the service also from the demo
rows. In place of `Stamped` and `PostedOnce`, which do not, it says that stamps
follow the stage and not the reverse (`StampsFollow`), that entries show the
amount of their invoice (`EntriesAreInvoices`), and that an open order is not
complete (`OrdersAreOpen`). It adds what was done under each recorded key
(`RecordsAreDone`), where receipts and
submissions come from (`ReceiptsAreKnown`, `SubmissionsAreKnown`), and that the
advice of every snapshot is still good (`SnapshotsAdvise`).

Over the books, `ClientsInv` says what each client holds. A success is on record:
the record of the call's key is that of this call and has the advice that was
given (`Acknowledged`); a document has the key of its call for its name
(`NamedByKey`), so `RecordsAreDone` turns the record into the rows that
`AcknowledgedIsDone` asks for. Calls in flight name documents that exist
(`InFlightExist`). A refusal for good is one of several conditions that every step
keeps (`FinallyRefused`): a recorded key, a status passed, a quantity that no
longer fits, terms that never will. That this is not the refusal of the moment is
the point: a late duplicate may be refused for another reason, but is refused.
Invoices of zero or below come from calls over MCP (`CheapInvoices`).

`DemoSpec` is the service of P2P started from the demo rows, whoever calls it. What
clients do is a behaviour of it (`ClientsUseTheService`): every step of clients and
network is, on the tables, a step of `Next` or a stutter. So these
theorems hold under clients, too. Sums over the demo rows are worked out once, row
by row; the steps are those of P2PTotalsProofs. `LedgerFollowsStamps` replaces
`PostedOnce`: an invoice without a stamp has no entries, APPROVED or not, which is
what the demo invoices are. For retries, `RecordsNameDocuments` says that a record
names the document of its request, which with `RecordsAreDone` finds the rows that
a replay reads.

*Only model-checked.* The liveness properties `EveryCheckCompletes`,
`EveryCallIsAnswered` and `WorkflowEnds`: they hold under fairness, whose use needs
ENABLED, which the prover does not handle.

## 5. Where code and documentation part

1. **A paid invoice's approval cannot be replayed** (`approve_replay`). The
   replay asks for status APPROVED; `README.md:259` promises the original result
   or a conflict. All other replays are right: `ReplayFailsOnlyOncePaid`.
2. **Concurrent receipts exceed the order** (`over_receipt`). Quantities are
   written back as absolute numbers; `specs/004-po-lifecycle/data-model.md:95`.
3. **Concurrent approvals post twice** (`double_posting`). The status is checked
   before the transaction only; `README.md:182`.
4. **A stale check clears a newer alert** (`silent_breach`).
   `specs/019-vendor-credit-alert/spec.md:145`.
5. **Checks promised over MCP never run** (`mcp_check`).
   `specs/019-vendor-credit-alert/spec.md:104`.

Two more are contained in the models without a run of their own. The schema that
would refuse an MCP invoice amount of zero or less (`CreateInvoiceToolPayload`,
`mcp/models.py:44`) is used by no tool: such an invoice is matched at once and
posted, and `NegativePostingsAreMCPs` says that this is the only way in. And a
stale `submit` or `receive` that commits after an invoice was registered sets the
order's `invoice_id` back to NULL, which `ImplementsSerialSystem` excludes only
where no two requests in flight are about one order.

## 6. Not modelled

Error texts, status codes and correlation ids, MCP resources and prompts,
settings, field formats, and the read-only services hold no state of the kind
the properties are about. Match warnings, alert amounts and account codes are
computed and stored but read by no rule. A background task is queued by the step
that commits its check (`StartCreditCheck`), in the code by the route just after;
since it may be run at any later step, and lost by a stop in between, only its
absence during that moment is left out. Distinct normalised requests are assumed
to have distinct fingerprints. Entries of one line that add up to zero are
outside the models (one of them is not positive, so the code refuses them).
Widths of columns
(`Numeric(12, 2)`, string lengths) are not enforced by SQLite and not modelled.

## 7. Plan

Done, in this order: the rules and the serial service, its proofs, the threads,
credit monitoring, Payables with its refinement and proof, the demo start, the
clients with raw request lines, the proofs about credit monitoring, sums and what
is added up, the threads and their refinement of P2P, the clients, the service on
the demo rows. What is left:

1. Credit monitoring from the demo rows, where vendors have open invoices and no
   checks.
2. Larger instances of `threads_races`: a third thread, so that a lost update and
   a retry in flight meet.
