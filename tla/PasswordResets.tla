-------------------------- MODULE PasswordResets --------------------------
(***************************************************************************)
(* auth/store.py, sessions.py and api.py: signing in, changing a password  *)
(* and resetting it.                                                       *)
(*                                                                         *)
(* The endpoints are plain functions on worker threads and every store     *)
(* call is a transaction of its own.  A request that has done its first    *)
(* part (verified the password, or consumed the link) is a record in       *)
(* `running', and what it has left to do is its row of Rest, one           *)
(* transaction per step: other requests fall between any two, and a        *)
(* request may end before any of them.                                     *)
(*                                                                         *)
(* A password is a version number: it is only ever replaced.  A link that  *)
(* expires and one that is replaced are alike.  The login throttle is not  *)
(* modelled.                                                               *)
(***************************************************************************)
EXTENDS Integers, Sequences, FiniteSets

CONSTANTS Person,       \* accounts, all of them active
          MaxPassword,  \* bound on the passwords of an account
          MaxRequests   \* bound on the requests between two transactions

VARIABLES password,  \* the version of each account's password
          sessions,  \* which password each was opened with, and in which version's time
          link,      \* accounts with an unused reset link
          asked,     \* accounts with an open reset request
          running,   \* requests between two transactions
          cutOff     \* history: accounts with a change that ended before its sign-out

resetVars == <<password, sessions, link, asked, running, cutOff>>

ResetInit ==
    /\ password = [p \in Person |-> 0]
    /\ sessions = {} /\ link = {} /\ asked = {} /\ running = {} /\ cutOff = {}

SessionsOf(p) == {s \in sessions : s.user = p}

-----------------------------------------------------------------------------
\* Mutant of Rest.
RestSignsOutFirst ==
    [login |-> <<"sign_in">>, change |-> <<"revoke", "set", "sign_in">>,
     reset |-> <<"revoke", "set", "clear">>]

\* login, change_password and reset after the password or the link was accepted.
Rest == [login |-> <<"sign_in">>, change |-> <<"set", "revoke", "sign_in">>,
         reset |-> <<"set", "revoke", "clear">>]

\* Whoever gets here knows the password of now, or holds a link.
Begin(p, kind) ==
    /\ Cardinality(running) < MaxRequests
    /\ running' = running \cup {[user |-> p, kind |-> kind, at |-> 1, knows |-> password[p]]}

Login(p) == Begin(p, "login") /\ UNCHANGED <<password, sessions, link, asked, cutOff>>

\* Only a browser that is signed in.
ChangePassword(p) ==
    /\ SessionsOf(p) # {}
    /\ Begin(p, "change")
    /\ UNCHANGED <<password, sessions, link, asked, cutOff>>

ConsumeReset(p) ==
    /\ p \in link
    /\ link' = link \ {p}
    /\ Begin(p, "reset")
    /\ UNCHANGED <<password, sessions, asked, cutOff>>

AtStep(q, step) == Rest[q.kind][q.at] = step

\* The request goes on with its next transaction, or is answered after the last.
GoOn(q, knows) ==
    running' = (running \ {q}) \cup
        {r \in {[user |-> q.user, kind |-> q.kind, at |-> q.at + 1, knows |-> knows]} :
            r.at <= Len(Rest[r.kind])}

SetPassword(q) ==
    /\ AtStep(q, "set") /\ password[q.user] < MaxPassword
    /\ password' = [password EXCEPT ![q.user] = @ + 1]
    /\ GoOn(q, password[q.user] + 1)
    /\ UNCHANGED <<sessions, link, asked, cutOff>>

RevokeAll(q) ==
    /\ AtStep(q, "revoke")
    /\ sessions' = sessions \ SessionsOf(q.user)
    /\ cutOff' = cutOff \ {q.user}
    /\ GoOn(q, q.knows)
    /\ UNCHANGED <<password, link, asked>>

\* A login, or change_password that keeps this browser signed in.
CreateSession(q) ==
    /\ AtStep(q, "sign_in")
    /\ sessions' = sessions \cup
           {[user |-> q.user, knows |-> q.knows, opened |-> password[q.user]]}
    /\ GoOn(q, q.knows)
    /\ UNCHANGED <<password, link, asked, cutOff>>

ClearRequests(q) ==
    /\ AtStep(q, "clear")
    /\ asked' = asked \ {q.user}
    /\ GoOn(q, q.knows)
    /\ UNCHANGED <<password, sessions, link, cutOff>>

\* The call raises, or the process stops.
RequestEnds(q) ==
    /\ running' = running \ {q}
    /\ cutOff' = IF AtStep(q, "revoke") THEN cutOff \cup {q.user} ELSE cutOff
    /\ UNCHANGED <<password, sessions, link, asked>>

-----------------------------------------------------------------------------
\* logout, or the end of its days.
Logout(s) ==
    /\ sessions' = sessions \ {s}
    /\ UNCHANGED <<password, link, asked, running, cutOff>>

\* forgot queues one open request.
RequestReset(p) ==
    /\ asked' = asked \cup {p}
    /\ UNCHANGED <<password, sessions, link, running, cutOff>>

\* The administrator's answer: a new link replaces the unused one.
CreateReset(p) ==
    /\ link' = link \cup {p}
    /\ UNCHANGED <<password, sessions, asked, running, cutOff>>

\* Its second transaction, or never.
AnswerRequest(p) ==
    /\ p \in link
    /\ asked' = asked \ {p}
    /\ UNCHANGED <<password, sessions, link, running, cutOff>>

LinkEnds(p) ==
    /\ link' = link \ {p}
    /\ UNCHANGED <<password, sessions, asked, running, cutOff>>

ResetNext ==
    \/ \E p \in Person : \/ Login(p) \/ ChangePassword(p) \/ ConsumeReset(p)
                         \/ RequestReset(p) \/ CreateReset(p) \/ AnswerRequest(p) \/ LinkEnds(p)
    \/ \E q \in running : \/ SetPassword(q) \/ RevokeAll(q) \/ CreateSession(q)
                          \/ ClearRequests(q) \/ RequestEnds(q)
    \/ \E s \in sessions : Logout(s)

ResetSpec == ResetInit /\ [][ResetNext]_resetVars

-----------------------------------------------------------------------------
Request == {q \in [user : Person, kind : DOMAIN Rest, at : 1..3, knows : Nat] :
               q.at <= Len(Rest[q.kind])}

ResetTypeOK ==
    /\ password \in [Person -> Nat]
    /\ sessions \subseteq [user : Person, knows : Nat, opened : Nat]
    /\ link \subseteq Person /\ asked \subseteq Person /\ cutOff \subseteq Person
    /\ running \subseteq Request

\* A replaced password whose sign-out has yet to run, or never will.
SignOutIsDue(p) == p \in cutOff \/ \E q \in running : q.user = p /\ AtStep(q, "revoke")

\* api.reset and change_password: "Changing a password logs every other browser
\* out".  However logins, changes and resets of one account overlap, a session rests
\* on the password of now, or the sign-out of a change is still due or was cut off,
\* or its login verified the password before a change and inserted the session after
\* it: such a session stays, and no other one of an older password does.
ResetSignsOut == \A s \in sessions :
    \/ s.knows = password[s.user]
    \/ SignOutIsDue(s.user)
    \/ s.knows < s.opened /\ s.opened = password[s.user]
=============================================================================
