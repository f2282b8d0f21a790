-------------------------------- MODULE Runs --------------------------------
(***************************************************************************)
(* Chat sessions, their messages and the analysis runs in them             *)
(* (api/public_routes.py, 343 to 543, domains/runtime_records/service.py), *)
(* and the reports that Dify sends of a run (api/internal_routes.py, 380   *)
(* to 494).  One session with one run; reports may come twice, late and in *)
(* any order, and are handled at the same time.                            *)
(*                                                                         *)
(* A handler is a transaction.  What it writes is seen when it commits; a  *)
(* row it has written is locked until then.                                *)
(***************************************************************************)
EXTENDS Integers, Sequences, FiniteSets

CONSTANTS
    Handlers, Nobody,
    Reports,        \* id, status, and what a report brings: answer, message, artifacts
    Keys,           \* artifact_key
    MaxCommits      \* bound: transactions that are committed

Terminal == {"completed", "failed", "canceled"}
NoValue == 0

VARIABLES
    run,            \* app.analysis_run, status "absent" before it is created
    session,        \* app.chat_session: status and closed_at
    messages,       \* app.chat_message: how many there are
    artifacts,      \* app.analysis_artifact: the report each was taken from
    lock,           \* the holder of the row of the run, and of the session
    task,           \* what each handler is doing
    log             \* history: what was committed, in order

vars == <<run, session, messages, artifacts, lock, task, log>>
Idle == [step |-> "idle"]
NewRun == [status |-> "queued", answer |-> NoValue, finished |-> NoValue]
NoRun == [NewRun EXCEPT !.status = "absent"]

Init ==
    /\ run = NoRun
    /\ session = [status |-> "active", closed |-> NoValue]
    /\ messages = 0
    /\ artifacts = [k \in Keys |-> NoValue]
    /\ lock = [run |-> Nobody, session |-> Nobody]
    /\ task = [h \in Handlers |-> Idle]
    /\ log = <<>>

To(h, t) == task' = [task EXCEPT ![h] = t]
Takes(h, row) == lock[row] = Nobody /\ lock' = [lock EXCEPT ![row] = h]
Released(h) == [row \in DOMAIN lock |-> IF lock[row] = h THEN Nobody ELSE lock[row]]
Done(h, entry) ==
    /\ Len(log) < MaxCommits
    /\ log' = Append(log, entry)
    /\ lock' = Released(h)
    /\ To(h, Idle)

-----------------------------------------------------------------------------
\* create_chat_message, create_theme_run: the session is read, without a lock, before the insert.
Open(h, what) ==
    /\ task[h] = Idle /\ session.status = "active"
    /\ what = "run" => run = NoRun
    /\ To(h, [step |-> "insert", what |-> what])
    /\ UNCHANGED <<run, session, messages, artifacts, lock, log>>

\* The insert, and the UPDATE of the session that waits for its row.
Touch(h) ==
    /\ task[h].step = "insert"
    /\ Takes(h, "session")
    /\ To(h, [task[h] EXCEPT !.step = "commit"])
    /\ UNCHANGED <<run, session, messages, artifacts, log>>

CreateMessage(h) ==
    /\ task[h].step = "commit" /\ task[h].what = "message"
    /\ messages' = messages + 1
    /\ Done(h, [what |-> "message"])
    /\ UNCHANGED <<run, session, artifacts>>

CreateRun(h) ==
    /\ task[h].step = "commit" /\ task[h].what = "run"
    /\ IF run = NoRun THEN run' = NewRun /\ Done(h, [what |-> "run"])
       ELSE UNCHANGED <<run, log>> /\ lock' = Released(h) /\ To(h, Idle)
    /\ UNCHANGED <<session, messages, artifacts>>

\* close_chat_session, one statement; closed_at keeps its first value.
Close(h) ==
    /\ task[h] = Idle /\ lock.session = Nobody
    /\ session' = [status |-> "closed",
                   closed |-> IF session.closed = NoValue THEN Len(log) + 1 ELSE session.closed]
    /\ Done(h, [what |-> "close"])
    /\ UNCHANGED <<run, messages, artifacts>>

-----------------------------------------------------------------------------
\* dify_run_callback: a report of a run that is not there is refused (404).
Receive(h, r) ==
    /\ task[h] = Idle /\ run # NoRun
    /\ To(h, [step |-> "update", report |-> r])
    /\ UNCHANGED <<run, session, messages, artifacts, lock, log>>

\* Faulty variant of UpdateRun: the row is read, not locked, before it is written.
ReadRun(h) ==
    /\ task[h].step = "update"
    /\ To(h, [step |-> "touch", report |-> task[h].report, seen |-> run])
    /\ UNCHANGED <<run, session, messages, artifacts, lock, log>>

\* The UPDATE waits for the row of the run and works on what it then holds.
UpdateRun(h) ==
    /\ task[h].step = "update"
    /\ Takes(h, "run")
    /\ To(h, [step |-> "touch", report |-> task[h].report, seen |-> run])
    /\ UNCHANGED <<run, session, messages, artifacts, log>>

\* Message, artifacts and usage events are inserted, then the session is touched.
TouchSession(h) ==
    /\ task[h].step = "touch"
    /\ Takes(h, "session")
    /\ To(h, [task[h] EXCEPT !.step = "report"])
    /\ UNCHANGED <<run, session, messages, artifacts, log>>

\* The status is that of the report; an answer and an end are kept until a
\* report brings others (COALESCE).
Merged(row, r) ==
    [status |-> r.status,
     answer |-> IF r.answer THEN r.id ELSE row.answer,
     finished |-> IF r.status \in Terminal THEN r.id ELSE row.finished]

Apply(h) ==
    /\ task[h].step = "report"
    /\ LET r == task[h].report IN
       /\ run' = Merged(task[h].seen, r)
       /\ messages' = messages + IF r.message THEN 1 ELSE 0
       /\ artifacts' = [k \in Keys |-> IF k \in r.artifacts THEN r.id ELSE artifacts[k]]
       /\ Done(h, [what |-> "report", report |-> r])
    /\ UNCHANGED session

\* An error or a lost connection: nothing of the transaction remains.
Abort(h) ==
    /\ task[h] # Idle
    /\ lock' = Released(h) /\ To(h, Idle)
    /\ UNCHANGED <<run, session, messages, artifacts, log>>

Next ==
    \E h \in Handlers :
        \/ \E what \in {"message", "run"} : Open(h, what)
        \/ Touch(h) \/ CreateMessage(h) \/ CreateRun(h) \/ Close(h)
        \/ \E r \in Reports : Receive(h, r)
        \/ UpdateRun(h) \/ TouchSession(h) \/ Apply(h) \/ Abort(h)

Spec == Init /\ [][Next]_vars

-----------------------------------------------------------------------------
\* The variables have their types.
TypeOK ==
    /\ run.status \in {"absent", "queued", "running"} \cup Terminal
    /\ session.status \in {"active", "closed"}
    /\ messages \in Nat
    /\ artifacts \in [Keys -> {NoValue} \cup {r.id : r \in Reports}]
    /\ \A row \in DOMAIN lock : lock[row] = Nobody \/ task[lock[row]] # Idle

\* What was committed: the creation of the run, and the reports that bring something.
Created == {n \in DOMAIN log : log[n].what = "run"}
Said == {n \in DOMAIN log : log[n].what = "report"}
Wrote == {n \in DOMAIN log : log[n].what = "message"} \cup {n \in Said : log[n].report.message}
Answered == {n \in Said : log[n].report.answer}
Finished == {n \in Said : log[n].report.status \in Terminal}
Holding(k) == {n \in Said : k \in log[n].report.artifacts}

\* The id of the last report of those in S.
Last(S) ==
    IF S = {} THEN NoValue ELSE log[CHOOSE n \in S : \A m \in S : m <= n].report.id

\* However reports overlap, fail and are repeated, a run is what its committed
\* reports say in the order they were committed: no report undoes the answer,
\* the end or an artifact of another it did not speak of, and none leaves a
\* message without its status or a status without its message.
ReportsInOneOrder ==
    /\ run # NoRun <=> Created # {}
    /\ \A n \in Said : (\A m \in Said : m <= n) => run.status = log[n].report.status
    /\ Said = {} => run \in {NoRun, NewRun}
    /\ run.answer = Last(Answered) /\ run.finished = Last(Finished)
    /\ messages = Cardinality(Wrote)
    /\ \A k \in Keys : artifacts[k] = Last(Holding(k))
    /\ session.closed # NoValue <=> session.status = "closed"

\* ReportsInOneOrder with what it rests on: a report that has the row of the run holds its lock,
\* and has read what is in it.
Rows == [status : {"absent", "queued", "running"} \cup Terminal, answer : Nat, finished : Nat]
Entries == [what : {"message", "run", "close"}] \cup [what : {"report"}, report : Reports]
Tasks ==
    {Idle} \cup [step : {"insert", "commit"}, what : {"message", "run"}]
    \cup [step : {"update"}, report : Reports]
    \cup [step : {"touch", "report"}, report : Reports, seen : Rows]

IInv ==
    /\ ReportsInOneOrder
    /\ run \in Rows /\ messages \in Nat /\ log \in Seq(Entries)
    /\ DOMAIN lock = {"run", "session"} /\ task \in [Handlers -> Tasks]
    /\ \A h \in Handlers :
          /\ task[h].step \in {"update", "touch", "report"} => run # NoRun
          /\ task[h].step \in {"touch", "report"} => lock.run = h /\ task[h].seen = run
=============================================================================
