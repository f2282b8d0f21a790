------------------------------ MODULE Sourcing ------------------------------
(***************************************************************************)
(* The two tools that ask a market while a report is written: suppliers on *)
(* 1688 (domains/onebound_1688_sourcing) and opportunities on TikTok Shop  *)
(* (domains/tiktok_shop_opportunity).  Both decide whether to ask at all,  *)
(* reuse a recent snapshot of the same report, or make a series of calls   *)
(* of which any may fail, score what came back, and store a snapshot.      *)
(*                                                                         *)
(* The vendors are external.  An answer finds something or nothing; of the *)
(* calls made, only what later calls and the status depend on is kept.     *)
(***************************************************************************)
EXTENDS Integers, FiniteSets

CONSTANTS
    Keys,        \* report, query and market of a request
    NoKey,       \* a request outside a report
    Lifetime,    \* AGENT_CACHE_TTL_MINUTES
    MaxRows      \* bound of the model on the snapshots stored

Vendors == {"1688", "tiktok"}
Outcomes == {"found", "empty", "timeout", "error"}

\* The calls of a vendor in their order, and what an answer to each is evidence of.
NextCall(v, c) ==
    CASE v = "1688" /\ c = "begin" -> "item_search"
      [] v = "1688" /\ c = "item_search" -> "item_get"
      [] v = "1688" /\ c = "item_get" -> "seller_info"
      [] v = "tiktok" /\ c = "begin" -> "hot_products"
      [] v = "tiktok" /\ c = "hot_products" -> "suggestions"
      [] v = "tiktok" /\ c = "suggestions" -> "searchwords"
      [] v = "tiktok" /\ c = "searchwords" -> "search_products"
      [] v = "tiktok" /\ c = "search_products" -> "product_detail"
      [] v = "tiktok" /\ c = "search_again" -> "product_detail"
      [] v = "tiktok" /\ c = "product_detail" -> "posts"
      [] OTHER -> "score"

Calls == {"item_search", "item_get", "seller_info", "hot_products", "suggestions", "searchwords",
          "search_products", "search_again", "product_detail", "posts"}

VARIABLES
    snapshots,   \* app.report_onebound_1688_realtime_queries, app.report_tiktok_realtime_queries
    inquiry,     \* the request under way
    tally,       \* of its calls: has one answered, failed, timed out; has one failed untold
    evidence,    \* the searches that have found something
    outcome      \* the answer to the last request

vars == <<snapshots, inquiry, tally, evidence, outcome>>

Idle == [vendor |-> "1688", key |-> NoKey, at |-> "idle"]
NoCalls == [answered |-> FALSE, failed |-> FALSE, timedOut |-> FALSE, hidden |-> FALSE]
NoOutcome == [from |-> "nothing", status |-> "none", evidence |-> {}, rows |-> {}, tally |-> NoCalls]
Searches == {"item_search", "hot_products", "suggestions", "search_products"}

Init ==
    /\ snapshots = {} /\ inquiry = Idle /\ tally = NoCalls
    /\ evidence = {} /\ outcome = NoOutcome

-----------------------------------------------------------------------------
Usable(v) == {"ok", "partial", "timeout"} \cup (IF v = "1688" THEN {"no_result"} ELSE {})

\* Faulty variant of Recent: the status of a snapshot is not looked at.
RecentOfAnyStatus(v, k) ==
    {s \in snapshots : s.vendor = v /\ s.key = k /\ s.age <= Lifetime}

\* Snapshots that may be reused (fetch_recent_onebound_1688_query, fetch_recent_tiktok_realtime_query).
Recent(v, k) ==
    {s \in snapshots : s.vendor = v /\ s.key = k /\ s.age <= Lifetime /\ s.status \in Usable(v)}

Answer(from, status, found, rows) ==
    outcome' = [from |-> from, status |-> status, evidence |-> found, rows |-> rows, tally |-> tally]

\* A request of which nothing is asked; the reason is the status.
Decline(v, k, refresh, clear, configured, reason) ==
    /\ inquiry.at = "idle"
    /\ LET reused == k # NoKey /\ ~refresh /\ Recent(v, k) # {} IN
       \/ reason = "skipped" /\ ~clear
       \/ reason = "disabled" /\ clear /\ ~configured /\ (v = "1688" \/ ~reused)
    /\ Answer("nothing", reason, {}, {})
    /\ UNCHANGED <<snapshots, inquiry, tally, evidence>>

\* The latest snapshot; TikTok looks for it before it looks whether it may call at all.
Reuse(v, k, refresh, configured, s) ==
    /\ inquiry.at = "idle"
    /\ k # NoKey /\ ~refresh
    /\ v = "tiktok" \/ configured
    /\ s \in Recent(v, k) /\ \A t \in Recent(v, k) : s.age <= t.age
    /\ Answer("snapshot", s.status, {}, {s})
    /\ UNCHANGED <<snapshots, inquiry, tally, evidence>>

Begin(v, k, refresh) ==
    /\ inquiry.at = "idle"
    /\ k = NoKey \/ refresh \/ Recent(v, k) = {}
    /\ k # NoKey => Cardinality(snapshots) < MaxRows
    /\ inquiry' = [vendor |-> v, key |-> k, at |-> NextCall(v, "begin")]
    /\ outcome' = NoOutcome
    /\ UNCHANGED <<snapshots, tally, evidence>>

\* The result of a call after its retries (Onebound1688Client.get, TikHubClient.get).
Count(t, o) ==
    [t EXCEPT !.answered = @ \/ o \in {"found", "empty"},
              !.failed = @ \/ o \in {"timeout", "error"},
              !.timedOut = @ \/ o = "timeout"]

\* 1688: another search with other words, or on with what was found.  Details and sellers are asked
\* for what was found, one call each, and several of a kind or none, as configured.
CallSupplier(o, again) ==
    /\ inquiry.vendor = "1688" /\ inquiry.at \in Calls
    /\ tally' = Count(tally, o)
    /\ evidence' = evidence \cup (IF o = "found" THEN {inquiry.at} \cap Searches ELSE {})
    /\ inquiry' = [inquiry EXCEPT !.at =
          IF again THEN @
          ELSE IF "item_search" \in evidence' THEN NextCall("1688", @) ELSE "score"]
    /\ UNCHANGED <<snapshots, outcome>>

\* Nothing is asked of details and sellers when the configuration allows no call.
PassOver ==
    /\ inquiry.at \in {"item_get", "seller_info"}
    /\ inquiry' = [inquiry EXCEPT !.at = NextCall("1688", @)]
    /\ UNCHANGED <<snapshots, tally, evidence, outcome>>

\* TikTok: one call of each kind.
CallShop(o) ==
    /\ inquiry.vendor = "tiktok" /\ inquiry.at \in Calls \ {"search_products", "search_again"}
    /\ tally' = Count(tally, o)
    /\ evidence' = evidence \cup (IF o = "found" THEN {inquiry.at} \cap Searches ELSE {})
    /\ inquiry' = [inquiry EXCEPT !.at = NextCall("tiktok", @)]
    /\ UNCHANGED <<snapshots, outcome>>

\* Products have details; without products there are none to ask.
AfterSearch(found) == IF found \cap {"search_products", "hot_products"} # {} THEN "product_detail" ELSE "posts"

\* The search goes by the first suggestion.  When that fails and differs from the words of the
\* request, it is tried with those, and a success then takes the place of the failure.
Search(o, differs) ==
    /\ inquiry.at = "search_products"
    /\ LET retry == o \in {"timeout", "error"} /\ "suggestions" \in evidence /\ differs IN
       /\ tally' = IF retry THEN [tally EXCEPT !.hidden = TRUE] ELSE Count(tally, o)
       /\ evidence' = evidence \cup (IF o = "found" THEN {"search_products"} ELSE {})
       /\ inquiry' = [inquiry EXCEPT !.at = IF retry THEN "search_again" ELSE AfterSearch(evidence')]
    /\ UNCHANGED <<snapshots, outcome>>

\* first: how the search before it had failed, which counts when this one fails too.
SearchAgain(o, first) ==
    /\ inquiry.at = "search_again"
    /\ tally' = IF o \in {"found", "empty"} THEN Count(tally, o)
                ELSE [Count(Count(tally, first), o) EXCEPT !.hidden = FALSE]
    /\ evidence' = evidence \cup (IF o = "found" THEN {"search_products"} ELSE {})
    /\ inquiry' = [inquiry EXCEPT !.at = AfterSearch(evidence')]
    /\ UNCHANGED <<snapshots, outcome>>

\* _safe_status
Status(v, t, found) ==
    IF ~t.failed THEN IF v = "tiktok" \/ "item_search" \in found THEN "ok" ELSE "no_result"
    ELSE IF t.timedOut THEN "timeout"
    ELSE IF ~t.answered THEN "failed"
    ELSE IF v = "tiktok" \/ "item_search" \in found THEN "partial" ELSE "no_result"

\* The end of the calls: a snapshot is stored for a report (_persist_if_requested).
Score ==
    LET v == inquiry.vendor
        s == [vendor |-> v, key |-> inquiry.key, status |-> Status(v, tally, evidence),
              age |-> 0]
    IN  /\ inquiry.at = "score"
        /\ snapshots' = IF inquiry.key = NoKey THEN snapshots ELSE snapshots \cup {s}
        /\ Answer("calls", s.status, evidence, {})
        /\ inquiry' = Idle /\ tally' = NoCalls /\ evidence' = {}

\* The snapshot cannot be stored: the request fails, whatever was found.
ScoreIsLost ==
    /\ inquiry.at = "score" /\ inquiry.key # NoKey
    /\ inquiry' = Idle /\ tally' = NoCalls /\ evidence' = {}
    /\ UNCHANGED <<snapshots, outcome>>

\* Time passes; what is older than the lifetime is alike.
Tick ==
    /\ inquiry.at = "idle"
    /\ snapshots' = {[s EXCEPT !.age = IF @ > Lifetime THEN @ ELSE @ + 1] : s \in snapshots}
    /\ outcome' = NoOutcome
    /\ UNCHANGED <<inquiry, tally, evidence>>

Next ==
    \/ \E v \in Vendors, k \in Keys \cup {NoKey}, refresh \in BOOLEAN :
          \/ \E clear, configured \in BOOLEAN, reason \in {"skipped", "disabled"} :
                Decline(v, k, refresh, clear, configured, reason)
          \/ \E configured \in BOOLEAN, s \in snapshots : Reuse(v, k, refresh, configured, s)
          \/ Begin(v, k, refresh)
    \/ \E o \in Outcomes : CallShop(o)
    \/ \E o \in Outcomes, again \in BOOLEAN : CallSupplier(o, again) \/ Search(o, again)
    \/ \E o \in Outcomes, first \in {"timeout", "error"} : SearchAgain(o, first)
    \/ PassOver \/ Score \/ ScoreIsLost \/ Tick

Spec == Init /\ [][Next]_vars

-----------------------------------------------------------------------------
\* The variables have their types.
SnapshotType == [vendor : Vendors, key : Keys, status : {"ok", "partial", "timeout", "no_result", "failed"},
                 age : 0 .. Lifetime + 1]

Inquiries == [vendor : Vendors, key : Keys \cup {NoKey}, at : Calls \cup {"idle", "score"}]

TypeOK ==
    /\ snapshots \subseteq SnapshotType
    /\ inquiry \in Inquiries
    /\ DOMAIN tally = DOMAIN NoCalls /\ \A x \in DOMAIN tally : tally[x] \in BOOLEAN
    /\ evidence \subseteq Searches
    /\ outcome.from \in {"nothing", "snapshot", "calls"} /\ outcome.evidence \subseteq Searches

(***************************************************************************)
(* What a report is told of its sources.  A snapshot is reused only for    *)
(* the same report, query and market, while it is recent and unless every  *)
(* call had failed, and is told with its own status.  An answer that calls *)
(* itself complete has no failed call behind it but a search that a second *)
(* one made good, one that calls itself failed has no evidence, and one    *)
(* without a call has none either (run_onebound_1688_supplier_discovery,   *)
(* run_tiktok_opportunity).                                                *)
(***************************************************************************)
SourcesAreTold ==
    /\ outcome.from = "snapshot" =>
          \A s \in outcome.rows :
              s.age <= Lifetime /\ s.status # "failed" /\ s.status = outcome.status
    /\ outcome.from = "calls" =>
          /\ outcome.status = "ok" => ~outcome.tally.failed
          /\ outcome.tally.hidden => outcome.tally.answered /\ "suggestions" \in outcome.evidence
          /\ outcome.status = "failed" => outcome.evidence = {} /\ ~outcome.tally.answered
          /\ outcome.status = "no_result" => outcome.tally.answered /\ "item_search" \notin outcome.evidence

\* SourcesAreTold with what it rests on: a search that found something was answered, one whose
\* failure is not told went by a suggestion, and 1688 is scored after a call.
IInv ==
    /\ SourcesAreTold
    /\ inquiry \in Inquiries
    /\ DOMAIN tally = DOMAIN NoCalls /\ \A x \in DOMAIN tally : tally[x] \in BOOLEAN
    /\ evidence # {} => tally.answered
    /\ tally.hidden => "suggestions" \in evidence
    /\ inquiry.at = "idle" => tally = NoCalls /\ evidence = {}
    /\ inquiry.vendor = "1688" =>
          /\ inquiry.at \in {"idle", "item_search", "item_get", "seller_info", "score"}
          /\ inquiry.at \in {"item_get", "seller_info"} => "item_search" \in evidence
          /\ inquiry.at = "score" => tally.answered \/ tally.failed
=============================================================================
