----------------------------- MODULE SiteConfig -----------------------------
(***************************************************************************)
(* A setting of the site that operators change while requests read it      *)
(* (domains/site_config), such as how many codes may be mailed a day.      *)
(*                                                                         *)
(* Requests read a dictionary they share, without a lock when it is young  *)
(* enough.  It is reloaded under a lock, but emptied and filled while      *)
(* others may be reading it; an update invalidates it before its commit.   *)
(*                                                                         *)
(* One setting, of which the value is a number or a text that is none.     *)
(***************************************************************************)
EXTENDS Integers, FiniteSetsExt

CONSTANTS
    Readers, Operators,
    Nobody,      \* no thread
    Numbers,     \* values an operator may write that are numbers
    Default,     \* what the code has for this setting
    Minimum,     \* its least value
    TTL,         \* _SITE_CONFIG_CACHE_TTL, in ticks
    Stall        \* bound of the model on the ticks that pass during a request

NoText == -1     \* a blank value, or one that is no number
NoRow == -2      \* the dictionary has no row of this setting
Values == Numbers \cup {NoText}
Outdated == TTL + 2 * Stall + 1     \* cap of the model on ages

VARIABLES
    row,       \* app.site_config, committed
    age,       \* ticks since a value was the committed one: 0 of the value that is, Outdated at least
    cache,     \* _SITE_CONFIG_CACHE: the value in it, or NoRow
    loaded,    \* ticks since _SITE_CONFIG_CACHE_TS
    lock,      \* holder of _SITE_CONFIG_CACHE_LOCK
    reader,    \* a request that reads: how far it is, the value it has read, ticks it has taken
    update     \* an update: how far it is, what it writes

vars == <<row, age, cache, loaded, lock, reader, update>>

Idle == [step |-> "idle", value |-> NoRow, took |-> 0]
NoUpdate == [step |-> "idle", value |-> NoRow]

Init ==
    /\ row \in Values
    /\ age = [v \in Values |-> IF v = row THEN 0 ELSE Outdated]
    /\ cache = NoRow /\ loaded = TTL
    /\ lock = Nobody
    /\ reader = [r \in Readers |-> Idle]
    /\ update = [o \in Operators |-> NoUpdate]

-----------------------------------------------------------------------------
(* _get_site_config *)

Go(r, step) == reader' = [reader EXCEPT ![r].step = step]

\* Faulty variant of Young: a dictionary that is not empty is young.
YoungWhenFilled == cache # NoRow

Young == cache # NoRow /\ loaded < TTL

\* The dictionary is returned as it is, or the lock is asked for.
Look(r) ==
    /\ reader[r].step = "idle"
    /\ Go(r, IF Young THEN "get" ELSE "lock")
    /\ UNCHANGED <<row, age, cache, loaded, lock, update>>

\* Under the lock the dictionary is looked at again; then the rows are read.
Lock(r) ==
    /\ reader[r].step = "lock" /\ lock = Nobody
    /\ IF Young
         THEN Go(r, "get") /\ UNCHANGED lock
         ELSE Go(r, "load") /\ lock' = r
    /\ UNCHANGED <<row, age, cache, loaded, update>>

\* _load_site_config_from_db sees what is committed.
Load(r) ==
    /\ reader[r].step = "load"
    /\ reader' = [reader EXCEPT ![r].step = "clear", ![r].value = row]
    /\ UNCHANGED <<row, age, cache, loaded, lock, update>>

\* The rows cannot be read: the request fails and the dictionary stays.
LoadFails(r) ==
    /\ reader[r].step = "load"
    /\ reader' = [reader EXCEPT ![r] = Idle]
    /\ lock' = Nobody
    /\ UNCHANGED <<row, age, cache, loaded, update>>

\* clear and update are two steps for whoever has the dictionary.
Clear(r) ==
    /\ reader[r].step = "clear"
    /\ cache' = NoRow
    /\ Go(r, "fill")
    /\ UNCHANGED <<row, age, loaded, lock, update>>

Fill(r) ==
    /\ reader[r].step = "fill"
    /\ cache' = reader[r].value
    /\ loaded' = 0 /\ lock' = Nobody
    /\ Go(r, "get")
    /\ UNCHANGED <<row, age, update>>

\* _get_site_config_value takes the row from the dictionary as it is by now.
Get(r) ==
    /\ reader[r].step = "get"
    /\ reader' = [reader EXCEPT ![r].step = "told", ![r].value = cache]
    /\ UNCHANGED <<row, age, cache, loaded, lock, update>>

Done(r) ==
    /\ reader[r].step = "told"
    /\ reader' = [reader EXCEPT ![r] = Idle]
    /\ UNCHANGED <<row, age, cache, loaded, lock, update>>

\* _get_site_config_int_value: no row, a blank and a text that is no number give way to the default.
IntValue(value) == Max({Minimum, IF value \in {NoRow, NoText} THEN Default ELSE value})

-----------------------------------------------------------------------------
(* admin_update_site_config *)

\* The UPDATE waits for the row.
Write(o, value) ==
    /\ update[o].step = "idle"
    /\ \A p \in Operators : update[p].step = "idle"
    /\ update' = [update EXCEPT ![o] = [step |-> "written", value |-> value]]
    /\ UNCHANGED <<row, age, cache, loaded, lock, reader>>

\* _invalidate_site_config_cache, before the commit.
Invalidate(o) ==
    /\ update[o].step = "written" /\ lock = Nobody
    /\ cache' = NoRow /\ loaded' = TTL
    /\ update' = [update EXCEPT ![o].step = "commit"]
    /\ UNCHANGED <<row, age, lock, reader>>

Commit(o) ==
    /\ update[o].step = "commit"
    /\ row' = update[o].value
    /\ age' = [age EXCEPT ![row'] = 0]
    /\ update' = [update EXCEPT ![o] = NoUpdate]
    /\ UNCHANGED <<cache, loaded, lock, reader>>

Abort(o) ==
    /\ update[o].step # "idle"
    /\ update' = [update EXCEPT ![o] = NoUpdate]
    /\ UNCHANGED <<row, age, cache, loaded, lock, reader>>

-----------------------------------------------------------------------------
Tick ==
    /\ \A r \in Readers : reader[r].step \in {"idle", "told"} \/ reader[r].took < Stall
    /\ age' = [v \in Values |-> IF v = row THEN 0 ELSE Min({age[v] + 1, Outdated})]
    /\ loaded' = Min({loaded + 1, TTL})
    /\ reader' = [r \in Readers |-> IF reader[r].step \in {"idle", "told"} THEN Idle
                                    ELSE [reader[r] EXCEPT !.took = @ + 1]]
    /\ UNCHANGED <<row, cache, lock, update>>

Next ==
    \/ \E r \in Readers : \/ Look(r) \/ Lock(r) \/ Load(r) \/ LoadFails(r)
                          \/ Clear(r) \/ Fill(r) \/ Get(r) \/ Done(r)
    \/ \E o \in Operators : Invalidate(o) \/ Commit(o) \/ Abort(o) \/ \E v \in Values : Write(o, v)
    \/ Tick

Spec == Init /\ [][Next]_vars

-----------------------------------------------------------------------------
(* Properties. *)

\* The variables have their types, and only a request that reloads holds the lock.
TypeOK ==
    /\ row \in Values /\ cache \in Values \cup {NoRow}
    /\ age \in [Values -> 0..Outdated] /\ loaded \in 0..TTL
    /\ lock \in Readers \cup {Nobody}
    /\ reader \in [Readers -> [step : {"idle", "lock", "load", "clear", "fill", "get", "told"},
                              value : Values \cup {NoRow}, took : 0..Stall]]
    /\ update \in [Operators -> [step : {"idle", "written", "commit"}, value : Values \cup {NoRow}]]
    /\ \A r \in Readers : reader[r].step \in {"load", "clear", "fill"} <=> lock = r

\* Whoever updates and reloads at the same time, a request is told a value that was the committed
\* one at most a lifetime and the length of two requests ago, or the default while the dictionary is
\* filled; a value of an update that was rolled back is never told.
SettingsAreRecent ==
    \A r \in Readers : reader[r].step = "told" =>
        /\ reader[r].value # NoRow => age[reader[r].value] < TTL + 2 * Stall
        /\ IntValue(reader[r].value) >= Minimum

-----------------------------------------------------------------------------
(* What makes it inductive. *)

Bounds ==
    /\ Nobody \notin Readers
    /\ Numbers \subseteq Int \ {NoText, NoRow} /\ Default \in Int /\ Minimum \in Int
    /\ TTL \in Nat \ {0} /\ Stall \in Nat

\* A request that waits, loads or has looked is a bit older than what it will tell.
IInv ==
    /\ TypeOK /\ age[row] = 0
    /\ \A o \in Operators : update[o].step # "idle" => update[o].value \in Values
    /\ cache # NoRow /\ loaded < TTL => age[cache] <= loaded + Stall
    /\ \A r \in Readers :
          /\ reader[r].step \in {"clear", "fill"} =>
                 reader[r].value # NoRow /\ age[reader[r].value] <= reader[r].took
          /\ reader[r].step = "get" /\ cache # NoRow => age[cache] < TTL + Stall + reader[r].took
          /\ reader[r].step = "told" /\ reader[r].value # NoRow => age[reader[r].value] < TTL + 2 * Stall
=============================================================================
