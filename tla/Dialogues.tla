------------------------------- MODULE Dialogues -------------------------------
(***************************************************************************)
(* The parts of the service in which what one actor says is waited for,    *)
(* handed on or contradicted by another.                                   *)
(***************************************************************************)
EXTENDS Common

CONSTANTS Members, Readers, Facts, Rewards, Broadcasts, RecentLimit,  \* of Notifications
          Mailboxes, MaxSendings                                      \* of Campaigns

\* Reports of Dify: one that runs, one that ends with an answer, one that fails late.
ReportsOfDify ==
    {[id |-> 1, status |-> "running", answer |-> FALSE, message |-> FALSE, artifacts |-> {}],
     [id |-> 2, status |-> "completed", answer |-> TRUE, message |-> TRUE, artifacts |-> {"table"}],
     [id |-> 3, status |-> "failed", answer |-> FALSE, message |-> FALSE, artifacts |-> {"table"}]}

\* Results of a search: a good one, one that is noise, one without a text.
ItemsFound ==
    {[base |-> 20, product |-> 100, signs |-> {"context"}, text |-> TRUE],
     [base |-> 60, product |-> 0, signs |-> {"noise", "technical"}, text |-> TRUE],
     [base |-> 90, product |-> 50, signs |-> {}, text |-> FALSE]}

Invite == INSTANCE Referrals WITH
    Users <- Owners, Handlers <- Actors,
    verified <- x1, binding <- x2, rewarded <- x3, paid <- x4, claims <- x5, rules <- x6,
    lock <- x7, stage <- x8, request <- x9, draft <- x10
Run == INSTANCE Runs WITH
    Handlers <- Actors, Reports <- ReportsOfDify, Keys <- {"table"}, MaxCommits <- 4,
    run <- x1, session <- x2, messages <- x3, artifacts <- x4, lock <- x5, task <- x6,
    log <- x7
Search == INSTANCE Retrieval WITH
    Sources <- {"s1", "s2"}, Items <- ItemsFound, TopK <- 1,
    search <- x1, reply <- x2
Stream == INSTANCE ReportStream WITH
    MaxLines <- 3,
    stream <- x1, upstream <- x2, finished <- x3, sent <- x4, hungUp <- x5, ended <- x6
Source == INSTANCE Sourcing WITH
    Keys <- {"k1", "k2"}, NoKey <- "none", Lifetime <- 1, MaxRows <- 1,
    snapshots <- x1, inquiry <- x2, tally <- x3, evidence <- x4, outcome <- x5
Page == INSTANCE CheckoutPage WITH
    Orders <- Owners, Slots <- Actors, None <- Nobody,
    orders <- x1, requests <- x2, url <- x3, current <- x4, shown <- x5, dialog <- x6,
    polling <- x7, told <- x8, loading <- x9, strayed <- x10
Note == INSTANCE Notifications WITH
    Users <- Members, Handlers <- Actors,
    active <- x1, facts <- x2, low <- x3, notes <- x4, delivered <- x5, request <- x6,
    rowLock <- x7
Mailing == INSTANCE Campaigns WITH
    Users <- Owners, Addresses <- Mailboxes, Operators <- Actors,
    email <- x1, selected <- x2, campaign <- x3, rows <- x4, sending <- x5, rowLock <- x6,
    campaignLock <- x7, mailed <- x8, lost <- x9, left <- x10, started <- x11

\* What DialogueProofs assumes of the constants.
ASSUME InvitationsAssumption == Invite!NobodyApart
ASSUME MessagesAssumption == Note!Bounds /\ Mailing!Bounds
=============================================================================
