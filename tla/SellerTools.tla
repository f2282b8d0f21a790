------------------------------ MODULE SellerTools ------------------------------
(***************************************************************************)
(* The seller tools that ask a language model (domains/tools/service.py,   *)
(* 371 to 868 and 1060 to 2186): the cache of answers, the limits for an   *)
(* address and a day, and what becomes of an answer.                       *)
(*                                                                         *)
(* The routes call the tools in the event loop of the one process, so one  *)
(* call runs at a time, and all others wait for its provider; only time    *)
(* passes while it is under way.  Times are kept as ages, in ticks.        *)
(***************************************************************************)
EXTENDS Integers, FiniteSets, Sequences, SequencesExt

CONSTANTS
    Tools,                   \* the tools of a run, some of AllTools
    Addresses,
    MaxCalls, Window,        \* _AI_RATE_LIMIT_MAX_CALLS, _AI_RATE_LIMIT_WINDOW_SECONDS
    DailyCap, DayLength,     \* _AI_DAILY_CALL_CAP, and the ticks of a day
    Lifetime, MaxEntries,    \* _AI_CACHE_TTL_SECONDS, _AI_CACHE_MAX_ENTRIES
    Evicted                  \* the entries that make room for a new one (64)

\* What the model answered: nothing that can be read as JSON, JSON without
\* usable items, items in the list a tool asks for, or in its second list.
Answers == {"unreadable", "empty", "main", "second"}

\* The answers each tool can use.  The review of a text is content with none:
\* a text may have no risks.
TitleUses == {"main"}
KeywordUses == {"main"}
DescriptionUses == {"main"}
ComplianceUses == {"empty", "main", "second"}
CompetitorUses == {"main", "second"}
OutlineUses == {"main"}
ReviewUses == {"main", "second"}
ReplyUses == {"main"}

Usable(tool) ==
    CASE tool = "title" -> TitleUses
      [] tool = "keywords" -> KeywordUses
      [] tool = "description" -> DescriptionUses
      [] tool = "compliance" -> ComplianceUses
      [] tool = "competitors" -> CompetitorUses
      [] tool = "outline" -> OutlineUses
      [] tool = "reviews" -> ReviewUses
      [] tool = "reply" -> ReplyUses

\* Inputs each tool refuses (ToolInputError, 400) before it asks anything.
Inputs == {"fine", "missing", "long"}
TitleTakes == {"fine"}
KeywordTakes == {"fine"}
DescriptionTakes == {"fine"}
ComplianceTakes == {"fine"}
CompetitorTakes == {"fine"}
OutlineTakes == {"fine"}
ReviewTakes == {"fine"}
ReplyTakes == {"fine", "missing"}

Takes(tool) ==
    CASE tool = "title" -> TitleTakes
      [] tool = "keywords" -> KeywordTakes
      [] tool = "description" -> DescriptionTakes
      [] tool = "compliance" -> ComplianceTakes
      [] tool = "competitors" -> CompetitorTakes
      [] tool = "outline" -> OutlineTakes
      [] tool = "reviews" -> ReviewTakes
      [] tool = "reply" -> ReplyTakes

AllTools == {"title", "keywords", "description", "compliance",
             "competitors", "outline", "reviews", "reply"}

Inquiries == [tool : Tools, input : Inputs]
NotCached == [age |-> -1, answer |-> "unreadable"]
AgeCap == Lifetime + 1

VARIABLES
    recent,                  \* _AI_IP_BUCKETS: ages of the calls of an address, oldest first
    counter,                 \* _AI_DAILY_COUNTER; day is TRUE while it is of today
    cache,                   \* _AI_RESULT_CACHE
    hour,                    \* ticks since midnight
    call,                    \* the call that is under way
    reply,                   \* the status of the last reply and the answer it showed
    today, calls             \* history: calls since midnight; calls of an address by age

vars == <<recent, counter, cache, hour, call, reply, today, calls>>
NoCall == [step |-> "none"]

Init ==
    /\ recent = [a \in Addresses |-> <<>>]
    /\ counter = [day |-> FALSE, count |-> 0]
    /\ cache = [q \in Inquiries |-> NotCached]
    /\ hour = 0 /\ today = 0
    /\ call = NoCall
    /\ reply = [status |-> "none", answer |-> "unreadable", age |-> 0]
    /\ calls = [a \in Addresses |-> [age \in 0 .. Window |-> 0]]

-----------------------------------------------------------------------------
\* An entry is used until it has expired.
Fresh(q) == cache[q].age \in 0 .. Lifetime

AnswerFromCache(a, q) ==
    /\ call = NoCall /\ q.input \in Takes(q.tool)
    /\ Fresh(q)
    /\ reply' = [status |-> "ok", answer |-> cache[q].answer, age |-> cache[q].age]
    /\ UNCHANGED <<recent, counter, cache, hour, call, today, calls>>

Counted == IF counter.day THEN counter ELSE [day |-> TRUE, count |-> 0]
Kept(a) ==
    FoldLeft(LAMBDA kept, age : IF age <= Window THEN Append(kept, age) ELSE kept, <<>>, recent[a])

\* Faulty variant of CheckQuota: a new day is not noticed once the count has reached the cap.
CheckQuotaByWindow(a, q) ==
    /\ call = NoCall /\ q.input \in Takes(q.tool) /\ ~Fresh(q)
    /\ cache' = [cache EXCEPT ![q] = NotCached]
    /\ counter' = [Counted EXCEPT !.count = @ + 1]
    /\ IF Len(Kept(a)) >= MaxCalls
       THEN /\ reply' = [status |-> "degraded", answer |-> "unreadable", age |-> 0]
            /\ recent' = [recent EXCEPT ![a] = Kept(a)]
            /\ UNCHANGED <<call, today, calls>>
       ELSE /\ recent' = [recent EXCEPT ![a] = Append(Kept(a), 0)]
            /\ call' = [step |-> "ask", inquiry |-> q]
            /\ today' = today + 1
            /\ calls' = [calls EXCEPT ![a][0] = @ + 1]
            /\ UNCHANGED reply
    /\ UNCHANGED hour

\* The day first, then the address; a refused call is not counted.
CheckQuota(a, q) ==
    /\ call = NoCall /\ q.input \in Takes(q.tool) /\ ~Fresh(q)
    /\ cache' = [cache EXCEPT ![q] = NotCached]
    /\ IF Counted.count >= DailyCap \/ Len(Kept(a)) >= MaxCalls
       THEN /\ counter' = Counted
            /\ recent' = [recent EXCEPT ![a] = IF Counted.count >= DailyCap THEN @ ELSE Kept(a)]
            /\ reply' = [status |-> "degraded", answer |-> "unreadable", age |-> 0]
            /\ UNCHANGED <<call, today, calls>>
       ELSE /\ counter' = [Counted EXCEPT !.count = @ + 1]
            /\ recent' = [recent EXCEPT ![a] = Append(Kept(a), 0)]
            /\ call' = [step |-> "ask", inquiry |-> q]
            /\ today' = today + 1
            /\ calls' = [calls EXCEPT ![a][0] = @ + 1]
            /\ UNCHANGED reply
    /\ UNCHANGED hour

\* A full cache loses the entries that expire first, whether or not the key is in it.
Entries == {q \in Inquiries : cache[q] # NotCached}
Evictions ==
    IF Cardinality(Entries) < MaxEntries THEN {{}}
    ELSE {out \in SUBSET Entries :
             /\ Cardinality(out) = IF Evicted < Cardinality(Entries) THEN Evicted
                                   ELSE Cardinality(Entries)
             /\ \A q \in out, r \in Entries \ out : cache[q].age >= cache[r].age}

Put(q, answer) ==
    \E out \in Evictions :
        cache' = [r \in Inquiries |-> IF r = q THEN [age |-> 0, answer |-> answer]
                                      ELSE IF r \in out THEN NotCached ELSE cache[r]]

Success(answer) ==
    /\ call.step = "ask" /\ answer \in Usable(call.inquiry.tool)
    /\ Put(call.inquiry, answer)
    /\ reply' = [status |-> "ok", answer |-> answer, age |-> 0]
    /\ call' = NoCall
    /\ UNCHANGED <<recent, counter, hour, today, calls>>

\* No provider, no answer, or none that can be used: the tool shows its rules and a note.
Failure ==
    /\ call.step = "ask"
    /\ reply' = [status |-> "error", answer |-> "unreadable", age |-> 0]
    /\ call' = NoCall
    /\ UNCHANGED <<recent, counter, cache, hour, today, calls>>

Older(age, cap) == IF age < cap THEN age + 1 ELSE cap

Tick ==
    /\ hour' = (hour + 1) % DayLength
    /\ IF hour' = 0 THEN counter' = [counter EXCEPT !.day = FALSE] /\ today' = 0
                    ELSE UNCHANGED <<counter, today>>
    /\ recent' = [a \in Addresses |-> [i \in DOMAIN recent[a] |-> Older(recent[a][i], Window + 1)]]
    /\ cache' = [q \in Inquiries |-> IF cache[q] = NotCached THEN NotCached
                                     ELSE [cache[q] EXCEPT !.age = Older(@, AgeCap)]]
    /\ calls' = [a \in Addresses |->
                    [age \in 0 .. Window |-> IF age = 0 THEN 0 ELSE calls[a][age - 1]]]
    /\ UNCHANGED <<call, reply>>

Next ==
    \/ \E a \in Addresses, q \in Inquiries : AnswerFromCache(a, q) \/ CheckQuota(a, q)
    \/ \E answer \in Answers : Success(answer)
    \/ Failure
    \/ Tick

Spec == Init /\ [][Next]_vars

-----------------------------------------------------------------------------
\* The calls of an address that are not older than an age.
Called(a, age) ==
    LET upTo[k \in 0 .. Window] == calls[a][k] + IF k = 0 THEN 0 ELSE upTo[k - 1]
    IN  upTo[age]

\* The variables have their types.
TypeOK ==
    /\ recent \in [Addresses -> Seq(0 .. Window + 1)]
    /\ counter \in [day : BOOLEAN, count : 0 .. DailyCap]
    /\ cache \in [Inquiries -> [age : -1 .. AgeCap, answer : Answers]]
    /\ hour \in 0 .. DayLength - 1 /\ today \in Nat
    /\ call = NoCall \/ call \in [step : {"ask"}, inquiry : Inquiries]
    /\ reply \in [status : {"none", "ok", "degraded", "error"}, answer : Answers, age : Nat]

\* The model is asked at most DailyCap times a day, across midnight too, and
\* at most MaxCalls times within any Window for one address; the counter of
\* the day, when it is of today, tells how often (_check_ai_quota).
BudgetIsKept ==
    /\ today <= DailyCap
    /\ counter.day => counter.count = today
    /\ \A a \in Addresses : Called(a, Window) <= MaxCalls

\* What the cache keeps can be used, was asked for, and does not outgrow its
\* bound (_cache_put); what is shown as the answer of the model is one it can
\* use and is at most Lifetime old (_cache_get).
AnswersAreUsable ==
    /\ \A q \in Entries : q.input \in Takes(q.tool) /\ cache[q].answer \in Usable(q.tool)
    /\ Cardinality(Entries) <= MaxEntries
    /\ reply.status = "ok" => reply.answer # "unreadable" /\ reply.age <= Lifetime

-----------------------------------------------------------------------------
(* What makes it inductive. *)

Bounds ==
    /\ Tools \subseteq AllTools
    /\ MaxCalls \in Nat /\ Window \in Nat /\ DailyCap \in Nat /\ DayLength \in Nat \ {0}
    /\ Lifetime \in Nat /\ MaxEntries \in Nat \ {0} /\ Evicted \in Nat \ {0}

\* The last entries of the queue of an address are its calls, the youngest at the end.
YoungAreLast(a, age, count) ==
    /\ count <= Len(recent[a])
    /\ \A i \in 1 .. Len(recent[a]) : recent[a][i] <= age <=> i > Len(recent[a]) - count

IInv ==
    /\ TypeOK /\ BudgetIsKept /\ AnswersAreUsable
    /\ counter.day \/ today = 0
    /\ calls \in [Addresses -> [0 .. Window -> Nat]]
    /\ \A a \in Addresses, age \in 0 .. Window : YoungAreLast(a, age, Called(a, age))
    /\ IsFiniteSet(Entries)
    /\ call.step = "ask" => call.inquiry.input \in Takes(call.inquiry.tool)
=============================================================================
