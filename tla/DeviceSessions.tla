--------------------------- MODULE DeviceSessions ---------------------------
(***************************************************************************)
(* Sessions of devices (domains/device_sessions/service.py) and the routes *)
(* of api/portal_routes.py that use them: every page bootstraps a session, *)
(* a confirmed code elevates it, an elevated one revokes others, and a     *)
(* reset of the password (domains/identity/service.py) revokes them all.   *)
(* One user with several browsers.                                         *)
(*                                                                         *)
(* A request is one transaction at READ COMMITTED that writes into its     *)
(* draft.  Rows that another has written wait for its end; the condition   *)
(* of the statement is then evaluated again.                               *)
(***************************************************************************)
EXTENDS Naturals, FiniteSets

CONSTANTS Browsers, Sessions, Handlers, Nobody,
          DeviceOf,     \* label, user agent and address of a browser
          MaxTokens,    \* bound of the model on the tokens that are made
          MaxResets     \* bound of the model on resets of the password

\* What is used of the constants: bounds are numbers, and browsers are devices.
Bounds ==
    /\ IsFiniteSet(Handlers)
    /\ MaxTokens \in Nat /\ MaxResets \in Nat
    /\ DeviceOf \in [Browsers -> Browsers]

VARIABLES
    version,    \* app_user.auth_session_version
    password,   \* resets that Open WebUI has stored, in a database of its own
    sessions,   \* app.user_device_session
    cookie,     \* the token a browser holds, 0 without one
    tokens,     \* tokens made so far
    phase, job, mine, aim, pending

vars == <<version, password, sessions, cookie, tokens, phase, job, mine, aim, pending>>

Unused == [token |-> 0, version |-> 0, device |-> Nobody, revoked |-> FALSE,
           elevated |-> FALSE, old |-> FALSE]
NoJob == [kind |-> "none", browser |-> Nobody]
NoPending == [session |-> Nobody, token |-> 0, row |-> Unused, holds |-> {},
              revokes |-> {}, elevates |-> FALSE, resets |-> FALSE]

Init ==
    /\ version = 1 /\ password = 0 /\ tokens = 0
    /\ sessions = [s \in Sessions |-> Unused]
    /\ cookie = [b \in Browsers |-> 0]
    /\ phase = [h \in Handlers |-> "idle"]
    /\ job = [h \in Handlers |-> NoJob]
    /\ mine = [h \in Handlers |-> Nobody]
    /\ aim = [h \in Handlers |-> {}]
    /\ pending = [h \in Handlers |-> NoPending]

-----------------------------------------------------------------------------
Enter(h, p) == phase' = [phase EXCEPT ![h] = p]
Tables == <<version, password, sessions, cookie, tokens>>
Rows == {s \in Sessions : sessions[s] # Unused}
Device(h) == DeviceOf[job[h].browser]

\* Rows that nobody else has written; the row of the user.
Free(h, S) == \A g \in Handlers \ {h} : pending[g].holds \cap S = {}
UserFree(h) == \A g \in Handlers \ {h} : ~pending[g].resets

Open(s) == s \in Rows /\ ~sessions[s].revoked

\* Faulty variant of Accepted: the version is not compared.
AcceptedOfAnyVersion(s) == Open(s) /\ ~sessions[s].old

\* Not revoked, of the user's version, not too old.
Accepted(s) == Open(s) /\ sessions[s].version = version /\ ~sessions[s].old

\* _fetch_active_device_session
With(t) == {s \in Sessions : t # 0 /\ Accepted(s) /\ sessions[s].token = t}

Over(h) ==
    /\ Enter(h, "idle")
    /\ job' = [job EXCEPT ![h] = NoJob]
    /\ mine' = [mine EXCEPT ![h] = Nobody]
    /\ aim' = [aim EXCEPT ![h] = {}]
    /\ pending' = [pending EXCEPT ![h] = NoPending]

\* An exception, or a deadlock that the database resolves.
Abort(h) ==
    /\ phase[h] # "idle"
    /\ Over(h)
    /\ UNCHANGED Tables

\* The answer brings a new cookie, or is lost.
Commit(h) ==
    LET p == pending[h]
        b == job[h].browser
    IN  /\ phase[h] = "commit"
        /\ sessions' = [s \in Sessions |->
              IF s \in p.revokes THEN [sessions[s] EXCEPT !.revoked = TRUE]
              ELSE IF s # p.session THEN sessions[s]
              ELSE IF p.elevates THEN [sessions[s] EXCEPT !.elevated = TRUE]
              ELSE IF p.row # Unused THEN p.row
              ELSE [sessions[s] EXCEPT !.token = p.token]]
        /\ version' = IF p.resets THEN version + 1 ELSE version
        /\ \/ UNCHANGED cookie
           \/ p.token # 0 /\ cookie' = [cookie EXCEPT ![b] = p.token]
        /\ Over(h)
        /\ UNCHANGED <<password, tokens>>

-----------------------------------------------------------------------------
Kinds == {"page", "elevate", "others", "one"}

Arrive(h, kind, b) ==
    /\ phase[h] = "idle"
    /\ job' = [job EXCEPT ![h] = [kind |-> kind, browser |-> b]]

\* The session of the cookie is found, and touched later.
Evaluate(h, kind, b) ==
    /\ Arrive(h, kind, b)
    /\ \E s \in With(cookie[b]) : mine' = [mine EXCEPT ![h] = s]
    /\ Enter(h, "touch")
    /\ UNCHANGED <<Tables, aim, pending>>

\* Without one a page bootstraps it; what else is asked for is refused with
\* 409, current device session expired.
Bootstrap(h, b) ==
    /\ Arrive(h, "page", b)
    /\ With(cookie[b]) = {}
    /\ Enter(h, "reuse")
    /\ UNCHANGED <<Tables, mine, aim, pending>>

\* The row is written whatever has become of it since it was found; and for a
\* revocation it must be elevated.
MayRevoke(h) == job[h].kind \in {"others", "one"} => sessions[mine[h]].elevated

Touch(h) ==
    /\ phase[h] = "touch"
    /\ Free(h, {mine[h]})
    /\ MayRevoke(h)
    /\ pending' = [pending EXCEPT ![h].holds = {mine[h]}]
    /\ Enter(h, CASE job[h].kind = "page" -> "commit"
                  [] job[h].kind = "elevate" -> "elevate"
                  [] OTHER -> "aim")
    /\ UNCHANGED <<Tables, job, mine, aim>>

\* 403: security verification required.
NotElevated(h) ==
    /\ phase[h] = "touch" /\ Free(h, {mine[h]}) /\ ~MayRevoke(h)
    /\ Abort(h)

\* A session of the same device is taken over with a new token.  Rows that
\* are written by others are skipped.
Reusable(h) == {s \in Sessions : Accepted(s) /\ sessions[s].device = Device(h) /\ Free(h, {s})}

Reuse(h) ==
    /\ phase[h] = "reuse" /\ tokens < MaxTokens
    /\ tokens' = tokens + 1
    /\ \E s \in Reusable(h) :
          pending' = [pending EXCEPT ![h].session = s, ![h].token = tokens', ![h].holds = {s}]
    /\ Enter(h, "commit")
    /\ UNCHANGED <<version, password, sessions, cookie, job, mine, aim>>

\* INSERT ... SELECT: of the version that is committed now.
InsertSession(h) ==
    /\ phase[h] = "reuse" /\ tokens < MaxTokens
    /\ Reusable(h) = {}
    /\ tokens' = tokens + 1
    /\ \E s \in Sessions \ (Rows \cup {pending[g].session : g \in Handlers}) :
          pending' = [pending EXCEPT ![h].session = s, ![h].token = tokens', ![h].holds = {s},
                         ![h].row = [Unused EXCEPT !.token = tokens', !.version = version,
                                                   !.device = Device(h)]]
    /\ Enter(h, "commit")
    /\ UNCHANGED <<version, password, sessions, cookie, job, mine, aim>>

-----------------------------------------------------------------------------
\* The code was right: elevated, if it is not revoked by now.
Elevate(h) ==
    /\ phase[h] = "elevate"
    /\ Open(mine[h])
    /\ pending' = [pending EXCEPT ![h].session = mine[h], ![h].elevates = TRUE]
    /\ Enter(h, "commit")
    /\ UNCHANGED <<Tables, job, mine, aim>>

ElevateNone(h) ==
    /\ phase[h] = "elevate" /\ ~Open(mine[h])
    /\ Abort(h)

\* Which rows the UPDATE sees: all others, or those of one other session's
\* device, or (after a reset) every one.
Aim(h) ==
    /\ phase[h] = "aim"
    /\ CASE job[h].kind = "others" -> aim' = [aim EXCEPT ![h] = {s \in Rows \ {mine[h]} : Open(s)}]
         [] job[h].kind = "one" ->
              \E t \in Rows \ {mine[h]} :
                 /\ Open(t)
                 /\ aim' = [aim EXCEPT ![h] = {s \in Rows \ {mine[h]} :
                                 Open(s) /\ sessions[s].device = sessions[t].device}]
         [] OTHER -> aim' = [aim EXCEPT ![h] = {s \in Rows : Open(s)}]
    /\ Enter(h, "revoke")
    /\ UNCHANGED <<Tables, job, mine, pending>>

\* It waits for each of them, and leaves out what was revoked meanwhile.
Revoke(h) ==
    /\ phase[h] = "revoke"
    /\ Free(h, aim[h])
    /\ pending' = [pending EXCEPT ![h].revokes = {s \in aim[h] : Open(s)},
                                  ![h].holds = @ \cup aim[h]]
    /\ aim' = [aim EXCEPT ![h] = {}]
    /\ Enter(h, "commit")
    /\ UNCHANGED <<Tables, job, mine>>

-----------------------------------------------------------------------------
\* The new password is stored at once, the rest with the transaction.
StorePassword(h, b) ==
    /\ Arrive(h, "reset", b)
    /\ password < MaxResets
    /\ password' = password + 1
    /\ Enter(h, "rotate")
    /\ UNCHANGED <<version, sessions, cookie, tokens, mine, aim, pending>>

RotateVersion(h) ==
    /\ phase[h] = "rotate"
    /\ UserFree(h)
    /\ pending' = [pending EXCEPT ![h].resets = TRUE]
    /\ Enter(h, "aim")
    /\ UNCHANGED <<Tables, job, mine, aim>>

\* A session ages, and stops being elevated.
Age(s) ==
    /\ s \in Rows
    /\ \/ sessions[s].elevated /\ sessions' = [sessions EXCEPT ![s].elevated = FALSE]
       \/ ~sessions[s].old /\ sessions' = [sessions EXCEPT ![s].old = TRUE]
    /\ UNCHANGED <<version, password, cookie, tokens, phase, job, mine, aim, pending>>

Next ==
    \/ \E s \in Sessions : Age(s)
    \/ \E h \in Handlers :
         \/ \E b \in Browsers :
              \/ \E kind \in Kinds : Evaluate(h, kind, b)
              \/ Bootstrap(h, b) \/ StorePassword(h, b)
         \/ Touch(h) \/ NotElevated(h) \/ Reuse(h) \/ InsertSession(h)
         \/ Elevate(h) \/ ElevateNone(h) \/ Aim(h) \/ Revoke(h) \/ RotateVersion(h)
         \/ Commit(h) \/ Abort(h)

Spec == Init /\ [][Next]_vars

-----------------------------------------------------------------------------
Row == [token : 0..MaxTokens, version : 0..MaxResets + 1, device : Browsers \cup {Nobody},
        revoked : BOOLEAN, elevated : BOOLEAN, old : BOOLEAN]

TypeOK ==
    /\ version \in 1..MaxResets + 1 /\ password \in 0..MaxResets /\ tokens \in 0..MaxTokens
    /\ sessions \in [Sessions -> Row]
    /\ cookie \in [Browsers -> 0..MaxTokens]
    /\ phase \in [Handlers -> {"idle", "touch", "reuse", "elevate", "aim", "revoke",
                               "rotate", "commit"}]
    /\ job \in [Handlers -> [kind : Kinds \cup {"none", "reset"},
                             browser : Browsers \cup {Nobody}]]
    /\ mine \in [Handlers -> Sessions \cup {Nobody}]
    /\ aim \in [Handlers -> SUBSET Sessions]
    /\ pending \in [Handlers -> [session : Sessions \cup {Nobody}, token : 0..MaxTokens,
                                 row : Row, holds : SUBSET Sessions, revokes : SUBSET Sessions,
                                 elevates : BOOLEAN, resets : BOOLEAN]]

\* A reset of the password ends every session, also one that is bootstrapped
\* while the reset runs and is not among the rows it revokes; and it does so
\* only once the new password is stored (_confirm_password_reset,
\* _rotate_user_auth_session_version, _revoke_all_device_sessions).
ResetEndsSessions ==
    [][version' # version =>
          /\ password >= version' - 1
          /\ \A s \in Sessions : ~Accepted(s)']_vars
=============================================================================
