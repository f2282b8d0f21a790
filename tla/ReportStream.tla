---------------------------- MODULE ReportStream ----------------------------
(***************************************************************************)
(* Streams of a provider that the service hands on                         *)
(* (api/internal/provider_routes.py, domains/provider_proxy/service.py).   *)
(* A report of Dify is read line by line and keeps account of the nodes    *)
(* that have finished; when Dify falls silent, an event says how far the   *)
(* report had come.  Other streams are handed on as they are.              *)
(*                                                                         *)
(* Dify and the client are external: one sends lines, breaks or ends, the  *)
(* other may hang up while the generator waits for a line.                 *)
(***************************************************************************)
EXTENDS Sequences, SequencesExt

CONSTANT MaxLines    \* bound of the model on the lines of a stream

\* Lines of Dify: nodes that finished, of which some carry evidence, or anything else.
Lines == {"evidence", "node", "text"}
Errors == {"report_final_answer_timeout", "report_stream_idle_timeout"}

VARIABLES
    stream,     \* the request: what it streams, and how far it has come
    upstream,   \* the connection to the provider
    finished,   \* finished_titles
    sent,       \* what the client was sent
    hungUp,     \* the client is gone
    ended       \* how the provider's side ended

vars == <<stream, upstream, finished, sent, hungUp, ended>>

Init ==
    /\ stream = [kind |-> "report", step |-> "idle"]
    /\ upstream = "closed" /\ finished = {} /\ sent = <<>>
    /\ hungUp = FALSE /\ ended = "no"

-----------------------------------------------------------------------------
Over(e) ==
    /\ stream' = [stream EXCEPT !.step = "idle"]
    /\ upstream' = "closed"
    /\ ended' = e

\* The post with stream=True; a status of 400 or more is answered with 502 and closed.
Open(kind, accepted) ==
    /\ stream.step = "idle"
    /\ stream' = [kind |-> kind, step |-> IF accepted THEN "reading" ELSE "idle"]
    /\ upstream' = IF accepted THEN "open" ELSE "closed"
    /\ ended' = IF accepted THEN "no" ELSE "refused"
    /\ finished' = {} /\ sent' = <<>> /\ hungUp' = FALSE

\* The client hangs up; the generator learns of it when it next hands on a line.
HangUp ==
    /\ stream.step = "reading" /\ ~hungUp
    /\ hungUp' = TRUE
    /\ UNCHANGED <<stream, upstream, finished, sent, ended>>

\* A line is handed on; the title of a node that finished is kept.
Forward(line) ==
    /\ stream.step = "reading" /\ ~hungUp /\ Len(sent) < MaxLines
    /\ sent' = Append(sent, line)
    /\ finished' = IF stream.kind = "report" /\ line # "text" THEN finished \cup {line} ELSE finished
    /\ UNCHANGED <<stream, upstream, hungUp, ended>>

\* A line for a client that is gone closes the generator.
Dropped ==
    /\ stream.step = "reading" /\ hungUp
    /\ Over("hung up")
    /\ UNCHANGED <<finished, sent, hungUp>>

\* Faulty variant of TimeoutEvent: any node counts as evidence.
TimeoutEventOfAny ==
    IF finished # {} THEN "report_final_answer_timeout" ELSE "report_stream_idle_timeout"

\* _report_stream_timeout_event
TimeoutEvent ==
    IF "evidence" \in finished THEN "report_final_answer_timeout" ELSE "report_stream_idle_timeout"

\* Dify falls silent for longer than the limit, or the connection breaks.  Of another stream the
\* exception breaks the connection to the client too.
Break ==
    /\ stream.step = "reading"
    /\ sent' = IF hungUp THEN sent
               ELSE Append(sent, IF stream.kind = "report" THEN TimeoutEvent ELSE "aborted")
    /\ Over("broken")
    /\ UNCHANGED <<finished, hungUp>>

EndOfStream ==
    /\ stream.step = "reading"
    /\ Over("complete")
    /\ UNCHANGED <<finished, sent, hungUp>>

Next ==
    \/ \E kind \in {"report", "other"}, accepted \in BOOLEAN : Open(kind, accepted)
    \/ HangUp \/ Dropped \/ Break \/ EndOfStream
    \/ \E line \in Lines : Forward(line)

Spec == Init /\ [][Next]_vars

-----------------------------------------------------------------------------
\* The variables have their types.
TypeOK ==
    /\ stream \in [kind : {"report", "other"}, step : {"idle", "reading"}]
    /\ upstream \in {"open", "closed"}
    /\ finished \subseteq Lines
    /\ sent \in Seq(Lines \cup Errors \cup {"aborted"}) /\ Len(sent) <= MaxLines + 1
    /\ hungUp \in BOOLEAN
    /\ ended \in {"no", "refused", "hung up", "broken", "complete"}

(***************************************************************************)
(* A client that listens to the end is told when the stream broke, and     *)
(* only then; a report says that its evidence was complete exactly when    *)
(* the client had received evidence; the connection to the provider is     *)
(* open exactly as long as the stream is read (_iter_report_stream_chunks).*)
(***************************************************************************)
BreaksAreTold ==
    LET told == ToSet(sent) \ Lines IN
    /\ upstream = "open" <=> stream.step = "reading"
    /\ ended = "broken" /\ ~hungUp <=> told # {}
    /\ told # {} =>
          /\ told = {Last(sent)} /\ ended = "broken"
          /\ stream.kind = "report" =>
                (Last(sent) = "report_final_answer_timeout" <=> "evidence" \in ToSet(sent))

\* BreaksAreTold with what it rests on: the titles kept are those of the lines sent, and lines are
\* sent only while the stream is read.
IInv ==
    /\ BreaksAreTold
    /\ stream \in [kind : {"report", "other"}, step : {"idle", "reading"}]
    /\ sent \in Seq(Lines \cup Errors \cup {"aborted"}) /\ hungUp \in BOOLEAN
    /\ stream.step = "reading" => ended = "no"
    /\ stream.kind = "report" => ("evidence" \in finished <=> "evidence" \in ToSet(sent))
=============================================================================
