------------------------------ MODULE Retrieval ------------------------------
(***************************************************************************)
(* The searches that are proxied for the agents                            *)
(* (domains/provider_proxy/service.py): knowledge bases of IMA, datasets   *)
(* of Dify and the web search of Tavily.  A search asks several sources,   *)
(* one after the other; some may fail, and what the others gave is put     *)
(* together, filtered and cut to size.                                     *)
(*                                                                         *)
(* A source is a pair of knowledge base and search term, a dataset, or a   *)
(* variant of the query.                                                   *)
(***************************************************************************)
EXTENDS Integers, FiniteSets

CONSTANTS
    Sources,
    Items,          \* results: the signs that scores are made of, and whether there is a text
    TopK            \* the results a caller asks for

Services == {"ima", "datasets", "help", "commerce", "news"}

VARIABLES
    search,         \* the search that is under way
    reply           \* what the last one answered, and for the properties what had been found and who failed

vars == <<search, reply>>
NoSearch == [step |-> "none"]
NoReply == [status |-> "none", shown |-> {}, warned |-> FALSE,
            service |-> "none", found |-> {}, failed |-> {}]

Init == search = NoSearch /\ reply = NoReply

-----------------------------------------------------------------------------
\* _score_tavily_result, in hundredths: a share of the product's words, the
\* platform, words and domains of commerce, and words of the news as noise.
CommerceScore(item) ==
    item.base + (45 * item.product) \div 100
    + (IF "platform" \in item.signs THEN 15 ELSE 0) + (IF "context" \in item.signs THEN 8 ELSE 0)
    + (IF "domain" \in item.signs THEN 12 ELSE 0) - (IF "noise" \in item.signs THEN 30 ELSE 0)

\* _score_tavily_news_result.
NewsScore(item) ==
    item.base
    + (IF "context" \in item.signs THEN 35 ELSE 0) + (IF "platform" \in item.signs THEN 20 ELSE 0)
    + (IF "news" \in item.signs THEN 15 ELSE 0) + (IF "impact" \in item.signs THEN 12 ELSE 0)
    + (IF "dated" \in item.signs THEN 8 ELSE 0) + (IF "domain" \in item.signs THEN 18 ELSE 0)
    - (IF "technical" \in item.signs THEN 70 ELSE 0) - (IF "noise" \in item.signs THEN 25 ELSE 0)

Score(service, item) == IF service = "news" THEN NewsScore(item) ELSE CommerceScore(item)
Relevant(service, item) == Score(service, item) >= IF service = "news" THEN 25 ELSE 35

\* _build_tavily_search_query, _build_tavily_news_query_variants: news are
\* searched for in up to four ways, everything else in one.
Asked(service) ==
    {some \in SUBSET Sources :
        /\ some # {}
        /\ service \in {"commerce", "help"} => Cardinality(some) = 1
        /\ service = "news" => Cardinality(some) <= 4}

Ask(service) ==
    /\ search = NoSearch
    /\ \E sources \in Asked(service) :
          search' = [step |-> "ask", service |-> service, asked |-> sources,
                     left |-> sources, answered |-> {}, found |-> {}, failed |-> {}]
    /\ UNCHANGED reply

\* The sources are asked in their order; equal results are kept once.
Answers(source, items) ==
    /\ search.step = "ask" /\ source \in search.left
    /\ search' = [search EXCEPT !.left = @ \ {source}, !.found = @ \cup items,
                                !.answered = @ \cup {source}]
    /\ UNCHANGED reply

\* Faulty variant of Fails: an answer that cannot be read counts as an empty one.
FailsUnnoticed(source) ==
    /\ search.step = "ask" /\ source \in search.left
    /\ search' = [search EXCEPT !.left = @ \ {source},
                                !.failed = IF search.found = {} THEN @ \cup {source} ELSE @]
    /\ UNCHANGED reply

\* A timeout, a status other than 2xx, or an answer that is not JSON; the
\* next source is asked all the same.
Fails(source) ==
    /\ search.step = "ask" /\ source \in search.left
    /\ search' = [search EXCEPT !.left = @ \ {source}, !.failed = @ \cup {source}]
    /\ UNCHANGED reply

\* The best TopK of them, in one order or another where they are equal.
Best(service, items) ==
    {cut \in SUBSET items :
        /\ Cardinality(cut) = IF TopK < Cardinality(items) THEN TopK ELSE Cardinality(items)
        /\ \A i \in cut, j \in items \ cut : Score(service, i) >= Score(service, j)}

Finished == search.step = "ask" /\ search.left = {}
Reply(status, shown, warned) ==
    /\ reply' = [status |-> status, shown |-> shown, warned |-> warned,
                 service |-> search.service, found |-> search.found, failed |-> search.asked \ search.answered]
    /\ search' = NoSearch

\* _proxy_ima_retrieve: the first TopK that were found.
ReplyIma ==
    /\ Finished /\ search.service = "ima"
    /\ IF search.found = {} /\ search.failed # {} THEN Reply("error", {}, TRUE)
       ELSE \E cut \in SUBSET search.found :
               /\ Cardinality(cut) = IF TopK < Cardinality(search.found) THEN TopK
                                     ELSE Cardinality(search.found)
               /\ Reply("ok", cut, search.failed # {})

\* _proxy_knowledge_retrieve: the best TopK, and of these the ones with a
\* text; if there is none, failures are no longer told.
ReplyDatasets ==
    /\ Finished /\ search.service = "datasets"
    /\ IF search.found = {} /\ search.failed # {} THEN Reply("error", {}, TRUE)
       ELSE \E cut \in Best("datasets", search.found) :
               LET shown == {i \in cut : i.text} IN
               Reply("ok", shown, shown # {} /\ search.failed # {})

\* _proxy_customer_help_retrieve: one dataset.
ReplyHelp ==
    /\ Finished /\ search.service = "help"
    /\ IF search.failed # {} THEN Reply("error", {}, TRUE)
       ELSE \E cut \in Best("help", search.found) : Reply("ok", {i \in cut : i.text}, FALSE)

\* _proxy_tavily_search: what is relevant, the best TopK of it; the failures
\* are counted in the answer.
ReplyTavily ==
    /\ Finished /\ search.service \in {"commerce", "news"}
    /\ LET relevant == {i \in search.found : Relevant(search.service, i)} IN
       IF search.failed = search.asked THEN Reply("error", {}, TRUE)
       ELSE \E cut \in Best(search.service, relevant) :
               Reply(IF cut = {} THEN "no_relevant_results"
                     ELSE IF search.failed # {} THEN "partial" ELSE "ok",
                     cut, search.failed # {})

Next ==
    \/ \E service \in Services : Ask(service)
    \/ \E source \in Sources : \E items \in SUBSET Items : Answers(source, items)
    \/ \E source \in Sources : Fails(source)
    \/ ReplyIma \/ ReplyDatasets \/ ReplyHelp \/ ReplyTavily

Spec == Init /\ [][Next]_vars

-----------------------------------------------------------------------------
\* The variables have their types.
TypeOK ==
    /\ search = NoSearch \/ search.left \cup search.failed \subseteq search.asked
    /\ reply.shown \subseteq reply.found /\ reply.found \subseteq Items
    /\ Cardinality(reply.shown) <= TopK

\* A source that failed is told of, by an error or by a warning beside the
\* results; the one exception is a search of datasets whose best records are
\* all without a text.  An error says that nothing was found, and what is
\* shown is not worse than what is left out (_proxy_ima_retrieve,
\* _proxy_tavily_search, _proxy_knowledge_retrieve, _proxy_customer_help_retrieve).
FailuresAreTold ==
    /\ reply.failed # {} => \/ reply.warned
                            \/ reply.service = "datasets" /\ reply.shown = {} /\ reply.found # {}
    /\ reply.status = "error" => reply.found = {}
    /\ reply.service = "ima" /\ reply.found # {} => reply.shown # {}
    /\ reply.service \in {"commerce", "news"} =>
          LET usable == {i \in reply.found : Relevant(reply.service, i)} IN
          /\ reply.shown \subseteq usable
          /\ usable # {} => reply.shown # {}
          /\ \A i \in reply.shown, j \in usable \ reply.shown :
                Score(reply.service, i) >= Score(reply.service, j)
          /\ reply.status = "ok" <=> reply.failed = {} /\ reply.shown # {}

\* FailuresAreTold with what it rests on: a source that was asked has answered or failed, and
\* what was found is an answer.
IInv ==
    /\ FailuresAreTold
    /\ search # NoSearch =>
          /\ search \in [step : {"ask"}, service : Services, asked : SUBSET Sources,
                         left : SUBSET Sources, answered : SUBSET Sources,
                         found : SUBSET Items, failed : SUBSET Sources]
          /\ search.asked \in Asked(search.service)
          /\ search.asked = search.left \cup search.answered \cup search.failed
          /\ search.left \cap (search.answered \cup search.failed) = {}
          /\ search.answered \cap search.failed = {}
          /\ search.answered = {} => search.found = {}
=============================================================================
