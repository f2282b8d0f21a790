------------------------------ MODULE MCServices ------------------------------
(***************************************************************************)
(* The parts of the service that share no state with each other, explored  *)
(* side by side: part says which one runs, and x1 to x11 are the variables *)
(* of that part (each INSTANCE says which); those a part has no use for    *)
(* stay empty.  So the states of this specification are those of the parts *)
(* put together, and a property speaks of the part it belongs to.          *)
(***************************************************************************)
EXTENDS Parts, Dialogues, TLC

VARIABLE part

vars == <<part, x1, x2, x3, x4, x5, x6, x7, x8, x9, x10, x11>>

Sheet == INSTANCE Calculators WITH
    Amounts <- {0, 10, 140}, Rates <- {0, 15, 100, 1500, 3330, 6000}, Lengths <- {10, 79, 80, 201, 251},
    Prices <- {-1, 12, 18, 19}, Reviews <- {-1, 4999, 5000, 10000, 30000},
    Ranks <- {-1, 100, 1000, 1001}, Sales <- {-1, 299, 300, 500}, Offers <- {-1, 3, 4},
    sheet <- x1
Market == INSTANCE MarketScores WITH
    Found <- {0, 1, 12}, Overlaps <- {0, 50}, Offers <- {0, 3, 10, 30, 60}, Moqs <- {-1, 50, 301},
    sample <- x1
Memory == INSTANCE MemoryProfile WITH
    Platforms <- {"p1", "p2", "p3", "p4"}, Blank <- "", MaxSessions <- 4,
    profile <- x1
Llm == INSTANCE LlmClient WITH
    MaxTurns <- 4,
    history <- x1, said <- x2, call <- x3, told <- x4

-----------------------------------------------------------------------------
Empty1 == x11 = 0
Empty3 == x9 = 0 /\ x10 = 0 /\ x11 = 0
Empty4 == x8 = 0 /\ x9 = 0 /\ x10 = 0 /\ x11 = 0
Empty5 == x7 = 0 /\ x8 = 0 /\ x9 = 0 /\ x10 = 0 /\ x11 = 0
Empty6 == x6 = 0 /\ x7 = 0 /\ x8 = 0 /\ x9 = 0 /\ x10 = 0 /\ x11 = 0
Empty7 == x5 = 0 /\ x6 = 0 /\ x7 = 0 /\ x8 = 0 /\ x9 = 0 /\ x10 = 0 /\ x11 = 0
Empty8 == x4 = 0 /\ x5 = 0 /\ x6 = 0 /\ x7 = 0 /\ x8 = 0 /\ x9 = 0 /\ x10 = 0 /\ x11 = 0
Empty9 == x3 = 0 /\ x4 = 0 /\ x5 = 0 /\ x6 = 0 /\ x7 = 0 /\ x8 = 0 /\ x9 = 0 /\ x10 = 0 /\ x11 = 0
Empty10 == x2 = 0 /\ x3 = 0 /\ x4 = 0 /\ x5 = 0 /\ x6 = 0 /\ x7 = 0 /\ x8 = 0 /\ x9 = 0 /\ x10 = 0 /\ x11 = 0

Init ==
    \/ part = "codes" /\ Redeem!Init /\ Empty3
    \/ part = "invitations" /\ Invite!Init /\ Empty1
    \/ part = "guests" /\ Guest!Init /\ Empty5
    \/ part = "trial" /\ Trial!Init /\ Empty7
    \/ part = "window" /\ Limit!Init /\ Empty8
    \/ part = "tools" /\ Tool!Init /\ Empty3
    \/ part = "settings" /\ Setting!Init /\ Empty4
    \/ part = "sheets" /\ Sheet!Init /\ Empty10
    \/ part = "scores" /\ Market!Init /\ Empty10
    \/ part = "profile" /\ Memory!Init /\ Empty10
    \/ part = "model" /\ Llm!Init /\ Empty7
    \/ part = "runs" /\ Run!Init /\ Empty4
    \/ part = "search" /\ Search!Init /\ Empty9
    \/ part = "stream" /\ Stream!Init /\ Empty5
    \/ part = "sources" /\ Source!Init /\ Empty6
    \/ part = "checkout" /\ Page!Init /\ Empty1
    \/ part = "mailing" /\ Mailing!Init
    \/ part = "jobs" /\ Job!Init /\ Empty7
    \/ part = "notes" /\ Note!Init /\ Empty4
    \/ part = "users" /\ User!Init /\ Empty3

Next ==
    /\ UNCHANGED part
    /\ \/ part = "codes" /\ Redeem!Next /\ UNCHANGED <<x9, x10, x11>>
       \/ part = "invitations" /\ Invite!Next /\ UNCHANGED x11
       \/ part = "guests" /\ Guest!Next /\ UNCHANGED <<x7, x8, x9, x10, x11>>
       \/ part = "trial" /\ Trial!Next /\ UNCHANGED <<x5, x6, x7, x8, x9, x10, x11>>
       \/ part = "window" /\ Limit!Next /\ UNCHANGED <<x4, x5, x6, x7, x8, x9, x10, x11>>
       \/ part = "tools" /\ Tool!Next /\ UNCHANGED <<x9, x10, x11>>
       \/ part = "settings" /\ Setting!Next /\ UNCHANGED <<x8, x9, x10, x11>>
       \/ part = "sheets" /\ Sheet!Next /\ UNCHANGED <<x2, x3, x4, x5, x6, x7, x8, x9, x10, x11>>
       \/ part = "scores" /\ Market!Next /\ UNCHANGED <<x2, x3, x4, x5, x6, x7, x8, x9, x10, x11>>
       \/ part = "profile" /\ Memory!Next /\ UNCHANGED <<x2, x3, x4, x5, x6, x7, x8, x9, x10, x11>>
       \/ part = "model" /\ Llm!Next /\ UNCHANGED <<x5, x6, x7, x8, x9, x10, x11>>
       \/ part = "runs" /\ Run!Next /\ UNCHANGED <<x8, x9, x10, x11>>
       \/ part = "search" /\ Search!Next /\ UNCHANGED <<x3, x4, x5, x6, x7, x8, x9, x10, x11>>
       \/ part = "stream" /\ Stream!Next /\ UNCHANGED <<x7, x8, x9, x10, x11>>
       \/ part = "sources" /\ Source!Next /\ UNCHANGED <<x6, x7, x8, x9, x10, x11>>
       \/ part = "checkout" /\ Page!Next /\ UNCHANGED x11
       \/ part = "mailing" /\ Mailing!Next
       \/ part = "jobs" /\ Job!Next /\ UNCHANGED <<x5, x6, x7, x8, x9, x10, x11>>
       \/ part = "notes" /\ Note!Next /\ UNCHANGED <<x8, x9, x10, x11>>
       \/ part = "users" /\ User!Next /\ UNCHANGED <<x9, x10, x11>>

Spec == Init /\ [][Next]_vars

Interchangeable == Permutations(Actors) \cup Permutations(Owners) \cup Permutations(Things)

-----------------------------------------------------------------------------
(* Properties. *)

\* Every variable has its type, as the module of the part has it.
TypeOK ==
    CASE part = "codes" -> Redeem!TypeOK
      [] part = "invitations" -> Invite!TypeOK
      [] part = "guests" -> Guest!TypeOK
      [] part = "trial" -> Trial!TypeOK
      [] part = "window" -> Limit!TypeOK
      [] part = "tools" -> Tool!TypeOK
      [] part = "sheets" -> Sheet!TypeOK
      [] part = "runs" -> Run!TypeOK
      [] part = "search" -> Search!TypeOK
      [] part = "stream" -> Stream!TypeOK
      [] part = "sources" -> Source!TypeOK
      [] part = "settings" -> Setting!TypeOK
      [] part = "checkout" -> Page!TypeOK
      [] part = "mailing" -> Mailing!TypeOK
      [] part = "jobs" -> Job!TypeOK
      [] part = "notes" -> Note!TypeOK
      [] part = "users" -> User!TypeOK
      [] OTHER -> part \in {"scores", "profile", "model"}

\* A code has paid exactly when it is marked as redeemed, and an account redeems one code of a
\* batch, whoever redeems and disables at the same time (_redeem_code).
CodePaysOnce == part = "codes" => Redeem!CodePaysOnce /\ Redeem!OneCodePerBatch

\* Invited and inviter are rewarded once, when they should be
\* (_grant_referral_invited_reward_if_needed, _grant_referral_inviter_reward_if_needed).
RewardedExactlyOnce == part = "invitations" => Invite!RewardedExactlyOnce

\* What a guest is shown as consumed explains the balance, across midnight and refunds
\* (_adjust_daily_credit_quota_consumed).
QuotaExplainsBalance == part = "guests" => Guest!QuotaExplainsBalance

\* A limit holds however requests overlap and time passes: the trials of a device and an address
\* (_reserve_public_quick_trial), the requests of a window (infra/http.py), the calls of the model
\* a day and an hour with the answers kept (_check_ai_quota, _cache_put), and how old a setting
\* is that one of them reads (_get_site_config).
LimitsHold ==
    /\ part = "trial" => Trial!TrialsWithinLimits
    /\ part = "window" => Limit!WindowIsKept
    /\ part = "tools" => Tool!BudgetIsKept /\ Tool!AnswersAreUsable
    /\ part = "settings" => Setting!SettingsAreRecent

\* What two parts of the code compute of one thing agrees: the calculators and their inverses, the
\* verdicts on a product or a supplier, the evidence a trial ends with, what a report is told of
\* its user, and a conversation in the formats of two providers.
AnswersAgree ==
    /\ part = "sheets" => Sheet!CalculatorsAgree
    /\ part = "scores" => Market!VerdictsAgree
    /\ part = "trial" => Trial!BestEvidence
    /\ part = "profile" => Memory!LeaningFollowsWords /\ Memory!TargetIsPreferred
    /\ part = "model" => Llm!ConversationIsKept /\ Llm!ResultsFollowUses /\ Llm!JsonIsAsked

\* The reports of a run have the effect of one order, although they overlap (dify_run_callback).
ReportsInOneOrder == part = "runs" => Run!ReportsInOneOrder

\* Nobody is left with less than happened: a search says which sources failed, a stream how it
\* broke, a report where its evidence is from; and the checkout page says what has become of an
\* order, that it is paid or has been closed (though not that a closed one was paid afterwards).
FailuresAreTold ==
    /\ part = "search" => Search!FailuresAreTold
    /\ part = "stream" => Stream!BreaksAreTold
    /\ part = "sources" => Source!SourcesAreTold
    /\ part = "checkout" => Page!PageIsTrue /\ Page!PendingIsWatched

\* The records that operators and users change at the same time stay true: a mailing reaches an
\* address once, and again only for a mail its records do not know of, and counts what it did;
\* jobs and their books agree, a broadcast counts its readers; what was read stays read, and a
\* user keeps code, key, lock-out and confirmation.
RecordsAreKept ==
    /\ [](/\ part = "mailing" => Mailing!MailedOnce /\ Mailing!CampaignIsTrue
          /\ part = "jobs" => Job!BooksAgree
          /\ part = "notes" => Note!DeliveredIsCounted)
    /\ [][/\ part = "notes" => Note!KeepsRead
          /\ part = "users" => User!KeepsUsers]_vars
=============================================================================
