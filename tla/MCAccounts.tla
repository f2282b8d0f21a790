----------------------------- MODULE MCAccounts -----------------------------
(***************************************************************************)
(* The account of one user: the codes sent to its address, and its         *)
(* sessions on devices.  The two share the row of the user, of which they  *)
(* write different columns; each is explored on its own, and part says     *)
(* which.  Codes are those of EmailChallenges, with its properties.        *)
(***************************************************************************)
EXTENDS EmailChallenges, TLC

CONSTANTS Browsers, Sessions, Nobody, DeviceOf, MaxTokens, MaxResets

VARIABLES part,
          version, password, sessions, cookie, tokens, phase, job, mine, aim, pending

sessionVars == <<version, password, sessions, cookie, tokens, phase, job, mine, aim, pending>>

\* The devices of the run: every browser is one of its own.
EachItsOwn == [b \in Browsers |-> b]

Device == INSTANCE DeviceSessions

\* What AccountsProofs assumes of the constants.
ASSUME BoundsAssumption == Bounds /\ Device!Bounds

AccountInit ==
    /\ part \in {"mail", "sessions"}
    /\ Init /\ Device!Init

AccountNext ==
    /\ UNCHANGED part
    /\ \/ part = "mail" /\ Next /\ UNCHANGED sessionVars
       \/ part = "sessions" /\ Device!Next /\ UNCHANGED vars

AccountSpec == AccountInit /\ [][AccountNext]_<<part, vars, sessionVars>>

Interchangeable ==
    Permutations(Handlers) \cup Permutations(Sessions) \cup Permutations(Addresses)

\* Two codes are of one purpose: codes of different purposes meet only in the
\* row of the user, which a code and a request beside it show.
CodesOfOnePurpose ==
    \A c, d \in Ids :
        \/ challenges[c].purpose = challenges[d].purpose
        \/ Nothing \in {challenges[c].purpose, challenges[d].purpose}

\* Every variable has its type, that of a code or of a session.
AccountTypeOK == TypeOK /\ Device!TypeOK

\* A reset of the password ends every session (_confirm_password_reset).
ResetEndsSessions == Device!ResetEndsSessions
=============================================================================
