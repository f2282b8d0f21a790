------------------------------ MODULE Campaigns ------------------------------
(***************************************************************************)
(* A mailing that an operator sends to chosen users                        *)
(* (domains/email_campaigns/service.py, api/admin_routes.py).              *)
(*                                                                         *)
(* All of a sending is one transaction: the recipients are written down,   *)
(* every one is mailed, and the outcome is committed at the end.  Mails    *)
(* cannot be rolled back.  Operators send at the same time and again, the  *)
(* service may stop in the middle, and users change their address.  The    *)
(* mail server is external: it takes a mail, refuses it, or takes it and   *)
(* is not heard of again, because the connection breaks or the time runs   *)
(* out before its answer.                                                  *)
(***************************************************************************)
EXTENDS Naturals, FiniteSets

CONSTANTS
    Users, Addresses, Operators,
    Nobody,       \* no operator, no address
    MaxSendings   \* bound of the model on sendings

VARIABLES
    email,      \* app_user.email
    selected,   \* selected_user_ids_json of the campaign
    campaign,   \* its committed row: status and counts
    rows,       \* app.email_campaign_recipient, committed: status of an address
    sending,    \* a sending: how far it is, what it read, wrote and has still to mail
    rowLock, campaignLock,
    mailed,     \* mails the server took for each address
    lost,       \* (history) mails for each address that the records do not know of: forgotten
                \* with their transaction, or recorded as failed although the server took them
    left,       \* addresses a selected user has given up
    started     \* sendings so far

vars == <<email, selected, campaign, rows, sending, rowLock, campaignLock, mailed, lost, left, started>>

NoCampaign == [status |-> "none", total |-> 0, sent |-> 0, failed |-> 0]
NoRows == [a \in Addresses |-> "none"]
Idle == [step |-> "idle", read |-> NoRows, wrote |-> NoRows, left |-> {},
         now |-> Nobody, out |-> {}, sent |-> 0, failed |-> 0]

Init ==
    /\ email \in [Users -> Addresses \cup {Nobody}]
    /\ \A u, v \in Users : u # v /\ email[u] # Nobody => email[u] # email[v]
    /\ selected = {} /\ campaign = NoCampaign /\ rows = NoRows
    /\ sending = [o \in Operators |-> Idle]
    /\ rowLock = [a \in Addresses |-> Nobody] /\ campaignLock = Nobody
    /\ mailed = [a \in Addresses |-> 0]
    /\ lost = [a \in Addresses |-> 0] /\ left = {} /\ started = 0

-----------------------------------------------------------------------------
\* admin_create_email_campaign refuses an empty selection; a new campaign is a draft.
Create(chosen) ==
    /\ campaign = NoCampaign
    /\ chosen # {}
    /\ selected' = chosen
    /\ campaign' = [NoCampaign EXCEPT !.status = "draft"]
    /\ UNCHANGED <<email, rows, sending, rowLock, campaignLock, mailed, lost, left, started>>

\* A user confirms another address, or an operator takes it away (external to this module).
Move(u, a) ==
    /\ a \notin {email[v] : v \in Users \ {u}} \ {Nobody} /\ a # email[u]
    /\ left' = left \cup ({email[u]} \ {Nobody})
    /\ email' = [email EXCEPT ![u] = a]
    /\ UNCHANGED <<selected, campaign, rows, sending, rowLock, campaignLock, mailed, lost, started>>

\* What a transaction sees: its own writes over what is committed.
Seen(o, r) == [a \in Addresses |-> IF sending[o].wrote[a] # "none" THEN sending[o].wrote[a] ELSE r[a]]
CountOf(r, status) == Cardinality({a \in Addresses : r[a] = status})
Counts(status, r) ==
    [status |-> status, total |-> Cardinality(Addresses) - CountOf(r, "none"),
     sent |-> CountOf(r, "sent"), failed |-> CountOf(r, "failed")]

\* The addresses of the selected users that have one.
Reachable == {email[u] : u \in selected} \ {Nobody}

\* Faulty variant of Locks: rows that exist already are left alone, and not locked.
LocksNew(o) == {a \in Reachable : rows[a] = "none"}

\* INSERT ... ON CONFLICT DO UPDATE locks the row of every reachable address,
\* be it new or not; the users come in one order, so that a sending waits for the other.
Locks(o) == Reachable

\* _materialize_campaign_recipients: then every row of the campaign is read, without a lock.
Materialize(o) ==
    /\ sending[o].step = "idle" /\ campaign.status # "none" /\ started < MaxSendings
    /\ \A a \in Locks(o) : rowLock[a] = Nobody
    /\ started' = started + 1
    /\ LET new == [a \in Addresses |-> IF a \in Locks(o) /\ rows[a] = "none" THEN "pending" ELSE "none"]
           all == [a \in Addresses |-> IF new[a] # "none" THEN new[a] ELSE rows[a]]
       IN  IF selected = {} \/ all = NoRows
             THEN UNCHANGED <<sending, rowLock>>      \* "no valid recipients selected"
             ELSE /\ sending' = [sending EXCEPT ![o] = [Idle EXCEPT !.step = "written", !.read = all, !.wrote = new]]
                  /\ rowLock' = [a \in Addresses |-> IF a \in Locks(o) THEN o ELSE rowLock[a]]
    /\ UNCHANGED <<email, selected, campaign, rows, campaignLock, mailed, lost, left>>

\* _refresh_campaign_counts and the status sending: the row of the campaign is locked from here on.
Announce(o) ==
    /\ sending[o].step = "written" /\ campaignLock = Nobody
    /\ campaignLock' = o
    /\ sending' = [sending EXCEPT ![o].step = "mailing",
                     ![o].left = {a \in Addresses : sending[o].read[a] \notin {"none", "sent"}},
                     ![o].sent = CountOf(sending[o].read, "sent")]
    /\ UNCHANGED <<email, selected, campaign, rows, rowLock, mailed, lost, left, started>>

\* A recipient is mailed.  Any error of the connection fails this recipient only, be it that the
\* server refused the mail or that its answer was not heard.
Mail(o, a, outcome) ==
    /\ sending[o].step = "mailing" /\ a \in sending[o].left
    /\ mailed' = IF outcome # "refused" THEN [mailed EXCEPT ![a] = @ + 1] ELSE mailed
    /\ lost' = IF outcome = "unheard" THEN [lost EXCEPT ![a] = @ + 1] ELSE lost
    /\ sending' = [sending EXCEPT ![o].step = "recording", ![o].left = @ \ {a}, ![o].now = a,
                     ![o].sent = IF outcome = "taken" THEN @ + 1 ELSE @,
                     ![o].failed = IF outcome = "taken" THEN @ ELSE @ + 1,
                     ![o].out = IF outcome = "taken" THEN @ \cup {a} ELSE @]
    /\ UNCHANGED <<email, selected, campaign, rows, rowLock, campaignLock, left, started>>

\* Then its row is updated, which waits for whoever holds it.
Record(o) ==
    LET a == sending[o].now
    IN  /\ sending[o].step = "recording" /\ rowLock[a] \in {Nobody, o}
        /\ rowLock' = [rowLock EXCEPT ![a] = o]
        /\ sending' = [sending EXCEPT ![o].step = "mailing", ![o].now = Nobody,
                         ![o].wrote[a] = IF a \in sending[o].out THEN "sent" ELSE "failed"]
        /\ UNCHANGED <<email, selected, campaign, rows, campaignLock, mailed, lost, left, started>>

Over(o) ==
    /\ sending' = [sending EXCEPT ![o] = Idle]
    /\ rowLock' = [a \in Addresses |-> IF rowLock[a] = o THEN Nobody ELSE rowLock[a]]
    /\ campaignLock' = IF campaignLock = o THEN Nobody ELSE campaignLock

\* The final status follows what this sending counted, the counts what the rows say; then the commit.
Finish(o) ==
    /\ sending[o].step = "mailing" /\ sending[o].left = {}
    /\ rows' = Seen(o, rows)
    /\ campaign' = Counts(IF sending[o].failed = 0 THEN "sent"
                            ELSE IF sending[o].sent = 0 THEN "failed" ELSE "partial_failed", rows')
    /\ Over(o)
    /\ UNCHANGED <<email, selected, mailed, lost, left, started>>

\* The process stops or the database breaks off: the transaction is rolled back, the mails are out.
Crash(o) ==
    /\ sending[o].step # "idle"
    /\ lost' = [a \in Addresses |-> IF a \in sending[o].out THEN lost[a] + 1 ELSE lost[a]]
    /\ Over(o)
    /\ UNCHANGED <<email, selected, campaign, rows, mailed, left, started>>

Next ==
    \/ \E chosen \in SUBSET Users : Create(chosen)
    \/ \E u \in Users, a \in Addresses \cup {Nobody} : Move(u, a)
    \/ \E o \in Operators : Materialize(o) \/ Announce(o) \/ Record(o) \/ Finish(o) \/ Crash(o)
    \/ \E o \in Operators, a \in Addresses, outcome \in {"taken", "unheard", "refused"} : Mail(o, a, outcome)

Spec == Init /\ [][Next]_vars

-----------------------------------------------------------------------------
(* Properties. *)

\* The variables have their types, and what a sending wrote it has locked.
TypeOK ==
    /\ email \in [Users -> Addresses \cup {Nobody}] /\ selected \subseteq Users
    /\ campaign.status \in {"none", "draft", "sent", "failed", "partial_failed"}
    /\ rows \in [Addresses -> {"none", "pending", "sent", "failed"}]
    /\ mailed \in [Addresses -> 0..MaxSendings] /\ lost \in [Addresses -> Nat]
    /\ campaignLock \in Operators \cup {Nobody}
    /\ \A o \in Operators :
          /\ sending[o].step \in {"mailing", "recording"} <=> campaignLock = o
          /\ \A a \in Addresses : sending[o].wrote[a] # "none" => rowLock[a] = o

\* However often and by however many operators a campaign is sent, an address that no user has
\* given up meanwhile gets one mail, and one more for each the records do not know of: that was
\* forgotten in a crash, or recorded as failed because the server's answer was not heard.
MailedOnce == \A a \in Addresses \ left : mailed[a] <= lost[a] + 1

\* What an operator reads of a campaign is true: it counts the rows as they are, a row that says
\* sent was mailed, and the status is that of the rows while nobody has moved.
CampaignIsTrue ==
    /\ campaign.status \notin {"none", "draft"} => campaign = Counts(campaign.status, rows)
    /\ \A a \in Addresses : rows[a] = "sent" => mailed[a] > 0
    /\ left = {} => /\ campaign.status = "sent" => CountOf(rows, "failed") = 0
                    /\ campaign.status = "failed" => CountOf(rows, "sent") = 0

-----------------------------------------------------------------------------
(* What makes them inductive. *)

Bounds == Nobody \notin Operators /\ IsFiniteSet(Addresses) /\ MaxSendings \in Nat

Statuses == {"none", "pending", "sent", "failed"}
Sendings == [step : {"idle", "written", "mailing", "recording"},
             read : [Addresses -> Statuses], wrote : [Addresses -> Statuses], left : SUBSET Addresses,
             now : Addresses \cup {Nobody}, out : SUBSET Addresses, sent : Nat, failed : Nat]

Live(o) == sending[o].step # "idle"
Underway(o) == sending[o].step \in {"mailing", "recording"}

\* The addresses a sending has read as not sent, and those of them it has still to mail.
Unsent(o) == {a \in Addresses : sending[o].read[a] \notin {"none", "sent"}}
ToMail(o) == IF sending[o].step = "written" THEN Unsent(o) ELSE sending[o].left

\* Every address a sending has to do with is still to be mailed, being recorded, or recorded.
Progress(o) == LET s == sending[o] IN
    /\ s.step = "idle" => s = Idle
    /\ s.step = "written" => s.left = {} /\ s.out = {} /\ \A a \in Addresses : s.wrote[a] \in {"none", "pending"}
    /\ s.step = "recording" => s.now \in Unsent(o) \ s.left
    /\ Live(o) => \E a \in Addresses : s.read[a] # "none"
    /\ s.left \subseteq Unsent(o) \ s.out
    /\ \A a \in s.out : a \in Unsent(o) /\ mailed[a] > 0 /\ (s.wrote[a] = "sent" \/ (s.step = "recording" /\ a = s.now))
    /\ \A a \in Addresses :
          /\ s.wrote[a] # "none" => a \in Unsent(o)
          /\ s.wrote[a] = "sent" => a \in s.out
          /\ Underway(o) /\ a \in Unsent(o) =>
                a \in s.left \/ (s.step = "recording" /\ a = s.now) \/ s.wrote[a] \in {"sent", "failed"}

\* What a sending counts: a recipient that failed, one that was sent before or is out.
CountsAreReal(o) == LET s == sending[o] IN
    /\ \A a \in Addresses : s.wrote[a] = "failed" => s.failed > 0
    /\ s.step = "recording" /\ s.now \notin s.out => s.failed > 0
    /\ \A a \in Addresses : Underway(o) /\ (a \in s.out \/ s.read[a] = "sent") => s.sent > 0

\* While nobody gives an address up, whoever has read its row holds it, and it is as it was read.
RowsAreHeld ==
    \A a \in Addresses \ left :
       /\ rows[a] # "none" => a \in Reachable
       /\ \A o \in Operators : sending[o].read[a] # "none" =>
             a \in Reachable /\ rowLock[a] = o /\ rows[a] \in {sending[o].read[a], "none"}

\* A mail more than those the records do not know of is in the rows or about to be.
MailsAreKnown ==
    \A a \in Addresses \ left :
       /\ mailed[a] > lost[a] => rows[a] = "sent" \/ \E o \in Operators : a \in sending[o].out
       /\ \A o \in Operators : a \in ToMail(o) => mailed[a] <= lost[a]

\* As long as nobody has given up an address, one sending runs at a time.
OneByOne ==
    left = {} => \A o \in Operators : Live(o) =>
       /\ \A p \in Operators \ {o} : ~Live(p)
       /\ \A a \in Addresses : rows[a] # "none" => sending[o].read[a] = rows[a]

\* Before there is a campaign nothing is sent.
NothingBefore ==
    campaign.status = "none" => /\ \A a \in Addresses : rows[a] = "none"
                                /\ \A o \in Operators : ~Live(o)

\* A sending mails an address once at most.
Mailers(a) == {o \in Operators : a \in ToMail(o)}
MailsAreCounted ==
    \A a \in Addresses : IsFiniteSet(Mailers(a)) /\ mailed[a] + Cardinality(Mailers(a)) <= started

IInv ==
    /\ TypeOK /\ MailedOnce /\ CampaignIsTrue
    /\ sending \in [Operators -> Sendings] /\ rowLock \in [Addresses -> Operators \cup {Nobody}]
    /\ started \in 0..MaxSendings
    /\ \A o \in Operators : Progress(o) /\ CountsAreReal(o)
    /\ RowsAreHeld /\ MailsAreKnown /\ OneByOne /\ NothingBefore /\ MailsAreCounted
=============================================================================
