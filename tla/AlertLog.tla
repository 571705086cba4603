------------------------------ MODULE AlertLog ------------------------------
(***************************************************************************)
(* What the tables of triggers and tracked games promise the people who    *)
(* read them (football_triggers, comeback_triggers, bottom8_games): what   *)
(* was recorded at the moment of the alert stays as it was, a final is     *)
(* written once and never changes, and an entry nobody could settle ages   *)
(* out for good.  FootballAlerts, Comeback and Bottom8 implement it.       *)
(***************************************************************************)
CONSTANTS Key, Moment, Final

VARIABLE entries

None == [kind |-> "none"]

Entry(moment, final) == [moment |-> moment, final |-> final]

LogInit == entries = <<>>

Raise(k, moment) ==
    /\ k \notin DOMAIN entries
    /\ entries' = [i \in DOMAIN entries \cup {k} |->
                      IF i = k THEN Entry(moment, None) ELSE entries[i]]

\* One statement may settle several entries: it retires all that are too old.
Settle(finals) ==
    /\ \A k \in DOMAIN finals : entries[k].final = None
    /\ entries' = [k \in DOMAIN entries |->
                      IF k \in DOMAIN finals THEN Entry(entries[k].moment, finals[k]) ELSE entries[k]]

LogNext ==
    \/ \E k \in Key, moment \in Moment : Raise(k, moment)
    \/ \E settled \in SUBSET DOMAIN entries : \E finals \in [settled -> Final] : Settle(finals)

LogSpec == LogInit /\ [][LogNext]_entries
=============================================================================
