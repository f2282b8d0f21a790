------------------------------ MODULE KeepaJobs ------------------------------
(***************************************************************************)
(* Jobs that collect products from Keepa, as operators steer them          *)
(* (api/admin_routes.py): they promote a job to another priority or cancel *)
(* it.  The worker that runs the jobs is not part of this repository; it   *)
(* takes a queued job and ends it.                                         *)
(*                                                                         *)
(* A handler reads the job without a lock, refuses one that has ended, and *)
(* then updates the row, which every other handler and the worker wait for *)
(* until the commit: the update and what follows it are one step.          *)
(***************************************************************************)
EXTENDS Naturals, Sequences, SequencesExt

CONSTANTS
    Operators,
    MaxDecisions    \* bound of the model on what operators decide

Priorities == {"interactive_high", "background_low"}
Ended == {"completed", "failed", "cancelled"}

VARIABLES
    job,      \* the row: status and priority
    request,  \* what an operator has asked for, and the row as it was read
    ledger,   \* sync.keepa_token_ledger: what was recorded, for which queue
    audit     \* the audit log: what was decided, and the row before it

vars == <<job, request, ledger, audit>>

Idle == [step |-> "idle"]

Init ==
    /\ job \in [status : {"queued", "completed"}, priority : Priorities]
    /\ request = [o \in Operators |-> Idle]
    /\ ledger = <<>> /\ audit = <<>>

\* CASE WHEN priority LIKE 'interactive%'
Queue(priority) == IF priority = "interactive_high" THEN "interactive" ELSE "background"

\* The worker (external) takes the job and ends it.
Work(status) ==
    /\ \/ job.status = "queued" /\ status = "running"
       \/ job.status = "running" /\ status \in {"completed", "failed"}
    /\ job' = [job EXCEPT !.status = status]
    /\ UNCHANGED <<request, ledger, audit>>

\* A job that has ended is refused with 409.
Ask(o, action, priority) ==
    /\ request[o] = Idle
    /\ Len(ledger) < MaxDecisions
    /\ job.status \notin Ended
    /\ request' = [request EXCEPT ![o] =
                     [step |-> "checked", action |-> action, priority |-> priority, before |-> job]]
    /\ UNCHANGED <<job, ledger, audit>>

\* The rows that go with a decision: the ledger reads the job again under the lock of its row,
\* the audit keeps the row as it was read first.
Recorded(o, queue) ==
    /\ ledger' = Append(ledger, [action |-> request[o].action, queue |-> queue])
    /\ audit' = Append(audit, [action |-> request[o].action, before |-> request[o].before,
                               priority |-> request[o].priority])
    /\ request' = [request EXCEPT ![o] = Idle]

\* admin_promote_keepa_job
Promote(o) ==
    /\ request[o].step = "checked" /\ request[o].action = "promote"
    /\ job' = [job EXCEPT !.priority = request[o].priority]
    /\ Recorded(o, Queue(request[o].priority))

\* Faulty variant of QueueOfCancel: the priority that was read with the check.
QueueAsChecked(o) == Queue(request[o].before.priority)

QueueOfCancel(o) == Queue(job.priority)

\* admin_cancel_keepa_job: whatever the job has become since the check, it is cancelled.
Cancel(o) ==
    /\ request[o].step = "checked" /\ request[o].action = "cancel"
    /\ job' = [job EXCEPT !.status = "cancelled"]
    /\ Recorded(o, QueueOfCancel(o))

\* The database breaks off: nothing of the decision is left.
Abort(o) ==
    /\ request[o].step = "checked"
    /\ request' = [request EXCEPT ![o] = Idle]
    /\ UNCHANGED <<job, ledger, audit>>

Next ==
    \/ \E status \in {"running", "completed", "failed"} : Work(status)
    \/ \E o \in Operators, p \in Priorities : Ask(o, "promote", p)
    \/ \E o \in Operators : Ask(o, "cancel", job.priority) \/ Promote(o) \/ Cancel(o) \/ Abort(o)

Spec == Init /\ [][Next]_vars

-----------------------------------------------------------------------------
(* Properties. *)

\* The variables have their types.
TypeOK ==
    /\ job \in [status : Ended \cup {"queued", "running"}, priority : Priorities]
    /\ \A o \in Operators : request[o] = Idle \/ request[o].before.status \notin Ended
    /\ \A e \in ToSet(ledger) : e.queue \in {"interactive", "background"}

\* The last promotion among the first n decisions is the one at k.
LastPromotion(k, n) ==
    /\ k \in 1..n /\ audit[k].action = "promote"
    /\ \A later \in (k + 1)..n : audit[later].action # "promote"

\* The ledger of the tokens and the audit log tell the same story: one entry each for a decision,
\* the job has the priority of the last promotion, and a cancellation is booked in the queue
\* the job was in when it was cancelled, also when two operators decide at a time.
BooksAgree ==
    /\ Len(ledger) = Len(audit)
    /\ \A i \in DOMAIN ledger : ledger[i].action = audit[i].action
    /\ \A k \in DOMAIN audit : LastPromotion(k, Len(audit)) => job.priority = audit[k].priority
    /\ \A i \in DOMAIN ledger : ledger[i].action = "cancel" =>
         \A k \in DOMAIN audit : LastPromotion(k, i - 1) => ledger[i].queue = Queue(audit[k].priority)

-----------------------------------------------------------------------------
(* What makes them inductive. *)

Jobs == [status : Ended \cup {"queued", "running"}, priority : Priorities]
Decisions == [action : {"promote", "cancel"}, before : Jobs, priority : Priorities]

IInv ==
    /\ TypeOK /\ BooksAgree
    /\ request \in [Operators -> {Idle} \cup [step : {"checked"}, action : {"promote", "cancel"},
                                              priority : Priorities, before : Jobs]]
    /\ ledger \in Seq([action : {"promote", "cancel"}, queue : {"interactive", "background"}])
    /\ audit \in Seq(Decisions)
=============================================================================
