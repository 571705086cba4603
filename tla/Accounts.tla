----------------------------- MODULE Accounts -----------------------------
(***************************************************************************)
(* auth/store.py and auth/api.py: invitations, registration and the two    *)
(* flags of an account.                                                    *)
(*                                                                         *)
(* The endpoints are plain functions that run on worker threads.  Every    *)
(* store call is a transaction of its own, so requests interleave between  *)
(* their calls, and the process may stop between any two of them.          *)
(*                                                                         *)
(* A username is an account.  An invitation that expires and one that is   *)
(* revoked are alike.  An administrator's request is checked against the   *)
(* flags of the moment; sessions and resets are in PasswordResets.         *)
(***************************************************************************)
EXTENDS Integers, FiniteSets

CONSTANTS Name,    \* usernames
          Invite   \* invitations that are ever minted (a bound)

VARIABLES invite,       \* state of each invitation and whether it makes an administrator
          users, admin, active,  \* rows of auth_users and their two flags
          registering,  \* registrations between two transactions
          changing,     \* changes of a flag that have passed their check
          madeWith,     \* history: which invitation each account was made with
          apart,        \* history: accounts whose registration was cut off half-way, or
                        \* that an administrator activated
          raced         \* history: two administrator checks have overlapped

authVars == <<invite, users, admin, active, registering, changing, madeWith, apart, raced>>

AuthInit ==
    /\ invite = [i \in Invite |-> [state |-> "none", grants |-> FALSE]]
    /\ users = {} /\ admin = {} /\ active = {}
    /\ registering = {} /\ changing = {}
    /\ madeWith = {} /\ apart = {} /\ raced = FALSE

Admins == admin \cap active

-----------------------------------------------------------------------------
\* From the console (bootstrap_invite) only without an administrator, else by one.
CreateInvite(i, grants) ==
    /\ Admins = {} => grants
    /\ invite[i].state = "none"
    /\ invite' = [invite EXCEPT ![i] = [state |-> "open", grants |-> grants]]
    /\ UNCHANGED <<users, admin, active, registering, changing, madeWith, apart, raced>>

\* revoke_invite, or the end of its days.
InviteEnds(i) ==
    /\ invite[i].state = "open"
    /\ invite' = [invite EXCEPT ![i].state = "ended"]
    /\ UNCHANGED <<users, admin, active, registering, changing, madeWith, apart, raced>>

\* register looks at the invitation and at the name first.
Register(i, n) ==
    /\ invite[i].state = "open" /\ n \notin users
    /\ registering' = registering \cup {[invite |-> i, name |-> n, step |-> "create"]}
    /\ UNCHANGED <<invite, users, admin, active, changing, madeWith, apart, raced>>

MoveTo(q, step) == registering' = (registering \ {q}) \cup {[q EXCEPT !.step = step]}
Done(q) == registering' = registering \ {q}

\* The name is UNIQUE: the second insert raises.
CreateUser(q) ==
    /\ q.step = "create"
    /\ \/ q.name \in users /\ Done(q) /\ UNCHANGED <<users, admin, active, madeWith>>
       \/ /\ q.name \notin users /\ MoveTo(q, "consume")
          /\ users' = users \cup {q.name}
          /\ active' = active \cup {q.name}
          /\ admin' = IF invite[q.invite].grants THEN admin \cup {q.name} ELSE admin
          /\ madeWith' = madeWith \cup {<<q.invite, q.name>>}
    /\ UNCHANGED <<invite, changing, apart, raced>>

\* Mutant of Redeemable.
RedeemableIfMinted(i) == invite[i].state # "none"

\* consume_invite: the UPDATE is guarded.
Redeemable(i) == invite[i].state = "open"

ConsumeInvite(q) ==
    /\ q.step = "consume"
    /\ \/ /\ Redeemable(q.invite)
          /\ invite' = [invite EXCEPT ![q.invite].state = "used"]
          /\ Done(q)
       \/ ~Redeemable(q.invite) /\ MoveTo(q, "roll_back") /\ UNCHANGED invite
    /\ UNCHANGED <<users, admin, active, changing, madeWith, apart, raced>>

\* Accounts whose registration has not been answered.
InFlight == {q.name : q \in {q \in registering : q.step # "create"}}

\* The loser's account is deactivated.
RollBack(q) ==
    /\ q.step = "roll_back"
    /\ active' = active \ {q.name}
    /\ Done(q)
    /\ UNCHANGED <<invite, users, admin, changing, madeWith, apart, raced>>

-----------------------------------------------------------------------------
\* Mutant of IsLastAdmin.
IsLastAdminOfAll(u) == u \in admin /\ Cardinality(admin) <= 1

\* "never let the last admin demote themselves out of the system"
IsLastAdmin(u) == u \in admin /\ Cardinality(Admins) <= 1

\* A registration whose account already counts as an administrator may yet lose.
Unsettled == \E q \in registering : q.step # "create" /\ q.name \in admin

\* set_admin and set_active: the check and the write are two transactions.
CheckChange(a, u, what) ==
    /\ a \in Admins /\ u \in users
    /\ what = "deactivate" => u # a
    /\ ~IsLastAdmin(u)
    /\ changing' = changing \cup {[user |-> u, what |-> what]}
    /\ raced' = (raced \/ changing # {} \/ Unsettled)
    /\ UNCHANGED <<invite, users, admin, active, registering, madeWith, apart>>

WriteChange(d) ==
    /\ changing' = changing \ {d}
    /\ \/ d.what = "demote" /\ admin' = admin \ {d.user} /\ UNCHANGED active
       \/ d.what = "deactivate" /\ active' = active \ {d.user} /\ UNCHANGED admin
    /\ UNCHANGED <<invite, users, registering, madeWith, apart, raced>>

\* Promoting and activating are not checked.
Promote(u) ==
    /\ Admins # {} /\ u \in users
    /\ \/ admin' = admin \cup {u} /\ UNCHANGED <<active, apart>>
       \/ active' = active \cup {u} /\ apart' = apart \cup {u} /\ UNCHANGED admin
    /\ UNCHANGED <<invite, users, registering, changing, madeWith, raced>>

\* The process stops: requests end wherever they are.
AuthStop ==
    /\ registering' = {} /\ changing' = {}
    /\ apart' = apart \cup InFlight
    /\ UNCHANGED <<invite, users, admin, active, madeWith, raced>>

AuthNext ==
    \/ \E i \in Invite : InviteEnds(i) \/ \E g \in BOOLEAN : CreateInvite(i, g)
    \/ \E i \in Invite, n \in Name : Register(i, n)
    \/ \E q \in registering : CreateUser(q) \/ ConsumeInvite(q) \/ RollBack(q)
    \/ \E a, u \in users, what \in {"demote", "deactivate"} : CheckChange(a, u, what)
    \/ \E d \in changing : WriteChange(d)
    \/ \E u \in users : Promote(u)
    \/ AuthStop

AuthSpec == AuthInit /\ [][AuthNext]_authVars

-----------------------------------------------------------------------------
AuthTypeOK ==
    /\ invite \in [Invite -> [state : {"none", "open", "used", "ended"}, grants : BOOLEAN]]
    /\ users \subseteq Name /\ admin \subseteq users /\ active \subseteq users
    /\ registering \subseteq [invite : Invite, name : Name, step : {"create", "consume", "roll_back"}]
    /\ changing \subseteq [user : users, what : {"demote", "deactivate"}]
    /\ madeWith \subseteq Invite \X users /\ apart \subseteq users
    /\ raced \in BOOLEAN

\* api.register: "if two people opened the same link at once, only one UPDATE can
\* win and the loser's account is rolled back": whatever expires, is revoked or is
\* deactivated meanwhile, at most one of the accounts made with an invitation stays
\* active.  Not counted are accounts whose registration is under way or was cut off
\* (between create_user and consume_invite, which leaves an active account and an open
\* invitation, or before the roll-back), and those an administrator activated.
LetIn == active \ (apart \cup InFlight)

OneJoinsPerInvite == \A p, q \in madeWith :
    p[1] = q[1] /\ {p[2], q[2]} \subseteq LetIn => p = q

HadAdmin == \E i \in Invite : invite[i].state = "used" /\ invite[i].grants

\* api.set_admin, set_active: somebody administers the application, from the
\* first administrator's registration on, whoever is demoted, deactivated or
\* rolled back, unless two checks have overlapped.
AdminRemains == HadAdmin /\ ~raced => Admins # {}

\* api.set_admin: "never let the last admin demote themselves out of the system".
\* Two administrators who demote each other at once both pass the check.
SomeAdmin == HadAdmin => Admins # {}
=============================================================================
