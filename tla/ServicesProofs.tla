--------------------------- MODULE ServicesProofs ---------------------------
(***************************************************************************)
(* Proofs about MCServices: what the parts promise holds side by side.     *)
(* PartsProofs has the parts of Parts, DialogueProofs those of Dialogues.  *)
(* Of the other four (Calculators, MarketScores, MemoryProfile, LlmClient) *)
(* nothing is proved.                                                      *)
(***************************************************************************)
EXTENDS MCServices, PartsProofs, DialogueProofs

-----------------------------------------------------------------------------
(* The parts side by side. *)

ServicesInv ==
    /\ part = "codes" => RedeemInv
    /\ part = "invitations" => InviteInv
    /\ part = "guests" => Guest!IInv
    /\ part = "trial" => Trial!IInv
    /\ part = "window" => Limit!IInv
    /\ part = "tools" => Tool!IInv
    /\ part = "settings" => Setting!IInv
    /\ part = "stream" => Stream!IInv
    /\ part = "sources" => Source!IInv
    /\ part = "search" => Search!IInv
    /\ part = "runs" => Run!IInv
    /\ part = "checkout" => Page!IInv
    /\ part = "users" => User!IInv
    /\ part = "jobs" => Job!IInv
    /\ part = "notes" => Note!IInv
    /\ part = "mailing" => Mailing!IInv

LEMMA InitInv == Init => ServicesInv
<1> USE NobodyAssumption, InvitationsAssumption, BoundsAssumption, MessagesAssumption
<1>1. Init /\ part = "codes" => RedeemInv
    BY RedeemInit DEF Init
<1>2. Init /\ part = "invitations" => InviteInv
    BY InviteInit DEF Init
<1>3. Init /\ part = "guests" => Guest!IInv
    BY GuestInit DEF Init
<1>4. Init /\ part = "trial" => Trial!IInv
    BY TrialInit DEF Init
<1>5. Init /\ part = "window" => Limit!IInv
    BY LimitInit DEF Init
<1>6. Init /\ part = "tools" => Tool!IInv
    BY ToolInit DEF Init
<1>7. Init /\ part = "settings" => Setting!IInv
    BY SettingInit DEF Init
<1>8. Init /\ part = "stream" => Stream!IInv
    BY StreamInit DEF Init
<1>9. Init /\ part = "sources" => Source!IInv
    BY SourceInit DEF Init
<1>10. Init /\ part = "search" => Search!IInv
    BY SearchInit DEF Init
<1>11. Init /\ part = "runs" => Run!IInv
    BY RunInit DEF Init
<1>12. Init /\ part = "checkout" => Page!IInv
    BY PageInit DEF Init
<1>13. Init /\ part = "users" => User!IInv
    BY UserInit DEF Init
<1>14. Init /\ part = "jobs" => Job!IInv
    BY JobInit DEF Init
<1>15. Init /\ part = "notes" => Note!IInv
    BY NoteInit DEF Init
<1>16. Init /\ part = "mailing" => Mailing!IInv
    BY CampInit DEF Init
<1> QED
    BY <1>1, <1>2, <1>3, <1>4, <1>5, <1>6, <1>7, <1>8, <1>9, <1>10, <1>11, <1>12, <1>13, <1>14,
       <1>15, <1>16 DEF ServicesInv

LEMMA NextInv == ServicesInv /\ [Next]_vars => ServicesInv'
<1> USE NobodyAssumption, InvitationsAssumption, BoundsAssumption, MessagesAssumption
<1> SUFFICES ASSUME ServicesInv, [Next]_vars PROVE ServicesInv'
    OBVIOUS
<1>1. part' = part
    BY DEF Next, vars
<1>2. ASSUME part = "codes" PROVE RedeemInv'
    <2>1. [Redeem!Next]_(Redeem!vars)
        BY <1>2 DEF Next, vars, Redeem!vars
    <2> QED
        BY <1>2, <2>1, RedeemNext DEF ServicesInv
<1>3. ASSUME part = "invitations" PROVE InviteInv'
    <2>1. [Invite!Next]_(Invite!vars)
        BY <1>3 DEF Next, vars, Invite!vars
    <2> QED
        BY <1>3, <2>1, InviteNext DEF ServicesInv
<1>4. ASSUME part = "guests" PROVE Guest!IInv'
    <2>1. [Guest!Next]_(Guest!vars)
        BY <1>4 DEF Next, vars, Guest!vars
    <2> QED
        BY <1>4, <2>1, GuestNext DEF ServicesInv
<1>5. ASSUME part = "trial" PROVE Trial!IInv'
    <2>1. [Trial!Next]_(Trial!vars)
        BY <1>5 DEF Next, vars, Trial!vars
    <2> QED
        BY <1>5, <2>1, TrialNext DEF ServicesInv
<1>6. ASSUME part = "window" PROVE Limit!IInv'
    <2>1. [Limit!Next]_(Limit!vars)
        BY <1>6 DEF Next, vars, Limit!vars
    <2> QED
        BY <1>6, <2>1, LimitNext DEF ServicesInv
<1>7. ASSUME part = "tools" PROVE Tool!IInv'
    <2>1. [Tool!Next]_(Tool!vars)
        BY <1>7 DEF Next, vars, Tool!vars
    <2> QED
        BY <1>7, <2>1, ToolNext DEF ServicesInv
<1>8. ASSUME part = "settings" PROVE Setting!IInv'
    <2>1. [Setting!Next]_(Setting!vars)
        BY <1>8 DEF Next, vars, Setting!vars
    <2> QED
        BY <1>8, <2>1, SettingNext DEF ServicesInv
<1>9. ASSUME part = "stream" PROVE Stream!IInv'
    <2>1. [Stream!Next]_(Stream!vars)
        BY <1>9 DEF Next, vars, Stream!vars
    <2> QED
        BY <1>9, <2>1, StreamNext DEF ServicesInv
<1>10. ASSUME part = "sources" PROVE Source!IInv'
    <2>1. [Source!Next]_(Source!vars)
        BY <1>10 DEF Next, vars, Source!vars
    <2> QED
        BY <1>10, <2>1, SourceNext DEF ServicesInv
<1>11. ASSUME part = "search" PROVE Search!IInv'
    <2>1. [Search!Next]_(Search!vars)
        BY <1>11 DEF Next, vars, Search!vars
    <2> QED
        BY <1>11, <2>1, SearchNext DEF ServicesInv
<1>12. ASSUME part = "runs" PROVE Run!IInv'
    <2>1. [Run!Next]_(Run!vars)
        BY <1>12 DEF Next, vars, Run!vars
    <2> QED
        BY <1>12, <2>1, RunNext DEF ServicesInv
<1>13. ASSUME part = "checkout" PROVE Page!IInv'
    <2>1. [Page!Next]_(Page!vars)
        BY <1>13 DEF Next, vars, Page!vars, Page!page
    <2> QED
        BY <1>13, <2>1, PageNext DEF ServicesInv
<1>14. ASSUME part = "users" PROVE User!IInv'
    <2>1. [User!Next]_(User!vars)
        BY <1>14 DEF Next, vars, User!vars
    <2> QED
        BY <1>14, <2>1, UserNext DEF ServicesInv
<1>15. ASSUME part = "jobs" PROVE Job!IInv'
    <2>1. [Job!Next]_(Job!vars)
        BY <1>15 DEF Next, vars, Job!vars
    <2> QED
        BY <1>15, <2>1, JobNext DEF ServicesInv
<1>16. ASSUME part = "notes" PROVE Note!IInv'
    <2>1. [Note!Next]_(Note!vars)
        BY <1>16 DEF Next, vars, Note!vars
    <2> QED
        BY <1>16, <2>1, NoteNext DEF ServicesInv
<1>17. ASSUME part = "mailing" PROVE Mailing!IInv'
    <2>1. [Mailing!Next]_(Mailing!vars)
        BY <1>17 DEF Next, vars, Mailing!vars
    <2> QED
        BY <1>17, <2>1, CampNext DEF ServicesInv
<1> QED
    BY <1>1, <1>2, <1>3, <1>4, <1>5, <1>6, <1>7, <1>8, <1>9, <1>10, <1>11, <1>12, <1>13, <1>14,
       <1>15, <1>16, <1>17 DEF ServicesInv

\* A code has paid exactly when it is marked as redeemed, and an account redeems one code of a
\* batch, whoever redeems and disables at the same time (_redeem_code, _disable_redeem_code).
THEOREM CodesPayOnce == Spec => []CodePaysOnce
<1>1. ServicesInv => CodePaysOnce
    BY RedeemSafe DEF ServicesInv, CodePaysOnce
<1> QED
    BY <1>1, InitInv, NextInv, PTL DEF Spec

\* Invited and inviter are rewarded once, when they should be, whatever rules are switched
\* (_grant_referral_invited_reward_if_needed, _grant_referral_inviter_reward_if_needed).
THEOREM InvitationsAreRewarded == Spec => []RewardedExactlyOnce
<1>1. ServicesInv => RewardedExactlyOnce
    BY InviteSafe DEF ServicesInv, RewardedExactlyOnce
<1> QED
    BY <1>1, InitInv, NextInv, PTL DEF Spec

\* What a guest is shown as consumed explains the balance, wherever midnight falls and whatever
\* is rolled back (_apply_guest_daily_quota_if_needed, _adjust_daily_credit_quota_consumed).
THEOREM QuotaIsExplained == Spec => []QuotaExplainsBalance
<1>1. ServicesInv => QuotaExplainsBalance
    BY GuestSafe, BoundsAssumption DEF ServicesInv, QuotaExplainsBalance
<1> QED
    BY <1>1, InitInv, NextInv, PTL DEF Spec

\* A limit holds however requests overlap and time passes: the trials of a device and an address
\* (_reserve_public_quick_trial), the requests of a window (infra/http.py), the calls of the model
\* a day and a window, with the answers that are kept (_check_ai_quota, _cache_put), and how old a
\* setting is that a request reads (_get_site_config).
THEOREM LimitsAreKept == Spec => []LimitsHold
<1>1. ServicesInv => LimitsHold
    BY TrialSafe, LimitSafe, ToolSafe, SettingSafe, BoundsAssumption DEF ServicesInv, LimitsHold
<1> QED
    BY <1>1, InitInv, NextInv, PTL DEF Spec

\* The reports of a run have the effect of one order, that in which they are committed, however they
\* overlap, fail and are repeated (dify_run_callback, create_theme_run, close_chat_session).
THEOREM ReportsAreOrdered == Spec => []ReportsInOneOrder
<1>1. ServicesInv => ReportsInOneOrder
    BY DEF ServicesInv, ReportsInOneOrder, Run!IInv
<1> QED
    BY <1>1, InitInv, NextInv, PTL DEF Spec

\* A search says which of its sources failed, a stream that it broke, a report what its evidence is
\* worth. The checkout page says of an order only what has become of it: that it is paid, or that it
\* has been closed, which does not keep a late notification from paying it (_proxy_tavily_search
\* and its like, _iter_report_stream_chunks, run_tiktok_opportunity, renderOrderState, startPolling).
THEOREM FailuresAreAlwaysTold == Spec => []FailuresAreTold
<1>1. ServicesInv => FailuresAreTold
    BY PageSafe DEF ServicesInv, FailuresAreTold, Stream!IInv, Source!IInv, Search!IInv
<1> QED
    BY <1>1, InitInv, NextInv, PTL DEF Spec

\* The records that operators, users and scripts change at the same time stay true: a mailing
\* reaches an address once, and again only for a mail the records do not know of, which a crash
\* forgot or a broken answer had recorded as failed, or after its user left it; it counts what it
\* did; ledger and audit of the jobs agree; a broadcast counts its readers (_send_email_campaign,
\* admin_cancel_keepa_job, _fanout_system_notification_broadcast); what was read stays read, and a
\* user keeps code, key, lock-out and confirmation (_upsert_user_notification,
\* _execute_app_user_upsert, _ensure_user_api_key, cleanup_placeholder_users.py).
THEOREM RecordsAreAlwaysKept == Spec => RecordsAreKept
<1> DEFINE State == /\ part = "mailing" => Mailing!MailedOnce /\ Mailing!CampaignIsTrue
                    /\ part = "jobs" => Job!BooksAgree
                    /\ part = "notes" => Note!DeliveredIsCounted
           Step == /\ part = "notes" => Note!KeepsRead
                   /\ part = "users" => User!KeepsUsers
<1>1. ServicesInv => State
    BY DEF ServicesInv, Mailing!IInv, Job!IInv, Note!IInv
<1>2. ServicesInv /\ [Next]_vars => [Step]_vars
    <2> SUFFICES ASSUME ServicesInv, [Next]_vars PROVE Step
        OBVIOUS
    <2>1. ASSUME part = "notes" PROVE Note!KeepsRead
        <3>1. [Note!Next]_(Note!vars)
            BY <2>1 DEF Next, vars, Note!vars
        <3> QED
            BY <2>1, <3>1, NoteNext, MessagesAssumption DEF ServicesInv
    <2>2. ASSUME part = "users" PROVE User!KeepsUsers
        <3>1. [User!Next]_(User!vars)
            BY <2>2 DEF Next, vars, User!vars
        <3> QED
            BY <2>2, <3>1, UserNext, BoundsAssumption DEF ServicesInv
    <2> QED
        BY <2>1, <2>2
<1> QED
    BY <1>1, <1>2, InitInv, NextInv, PTL DEF Spec, RecordsAreKept
=============================================================================
