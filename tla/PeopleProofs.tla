---------------------------- MODULE PeopleProofs ----------------------------
(***************************************************************************)
(* Proofs about the people of the application: what a password reset       *)
(* leaves of the sessions, how many an invitation lets in, that somebody   *)
(* administers the application, that the accounts a user follows survive a *)
(* rebuild of their table, and that the trips and fees of an account are   *)
(* the cash of its fills; and the types of all of these.                   *)
(***************************************************************************)
EXTENDS Accounts, PasswordResets, TraderAccounts, TraderSync, TripMatch, FiniteSetTheorems,
        WellFoundedInduction, TLAPS

-----------------------------------------------------------------------------
(***************************************************************************)
(* PasswordResets.  A request that replaces the password has its sign-out  *)
(* as the next transaction, which is what makes ResetSignsOut inductive:   *)
(* it fails of a session only when the password moves on, and then the     *)
(* sign-out of the account is due.                                         *)
(***************************************************************************)
OpenedOf == [user : Person, knows : Nat, opened : Nat]

\* What is known was the password of some moment before.
KnowledgeIsPast ==
    /\ \A q \in running : q.knows <= password[q.user]
    /\ \A s \in sessions : s.knows <= s.opened /\ s.opened <= password[s.user]

ResetInv == ResetTypeOK /\ KnowledgeIsPast /\ ResetSignsOut

LEMMA RequestSteps ==
  ASSUME NEW q \in Request
  PROVE  /\ AtStep(q, "set") <=> q.kind \in {"change", "reset"} /\ q.at = 1
         /\ AtStep(q, "revoke") <=> q.kind \in {"change", "reset"} /\ q.at = 2
         /\ q.at + 1 <= Len(Rest[q.kind]) => q.at + 1 \in 1..3
         /\ q.user \in Person /\ q.kind \in DOMAIN Rest
         /\ q.kind \in {"change", "reset"} => Len(Rest[q.kind]) = 3
<1>1. /\ Len(Rest["login"]) = 1 /\ Rest["login"][1] = "sign_in"
      /\ Len(Rest["change"]) = 3 /\ Rest["change"][1] = "set" /\ Rest["change"][2] = "revoke"
      /\ Rest["change"][3] = "sign_in"
      /\ Len(Rest["reset"]) = 3 /\ Rest["reset"][1] = "set" /\ Rest["reset"][2] = "revoke"
      /\ Rest["reset"][3] = "clear"
  BY DEF Rest
<1>2. q.kind \in {"login", "change", "reset"} /\ q.at \in 1..3
      /\ q.at <= Len(Rest[q.kind]) /\ q.user \in Person /\ q.kind \in DOMAIN Rest
  BY DEF Request, Rest
<1>3. q.at = 1 \/ q.at = 2 \/ q.at = 3
  BY <1>2
<1>4. CASE q.kind = "login"
  BY <1>1, <1>2, <1>3, <1>4 DEF AtStep
<1>5. CASE q.kind = "change"
  <2>1. /\ Len(Rest[q.kind]) = 3 /\ Rest[q.kind][1] = "set" /\ Rest[q.kind][2] = "revoke"
        /\ Rest[q.kind][3] = "sign_in"
    BY <1>1, <1>5
  <2>2. CASE q.at = 1
    BY <1>2, <1>5, <2>1, <2>2 DEF AtStep
  <2>3. CASE q.at = 2
    BY <1>2, <1>5, <2>1, <2>3 DEF AtStep
  <2>4. CASE q.at = 3
    BY <1>2, <1>5, <2>1, <2>4 DEF AtStep
  <2> QED
    BY <1>3, <2>2, <2>3, <2>4
<1>6. CASE q.kind = "reset"
  <2>1. /\ Len(Rest[q.kind]) = 3 /\ Rest[q.kind][1] = "set" /\ Rest[q.kind][2] = "revoke"
        /\ Rest[q.kind][3] = "clear"
    BY <1>1, <1>6
  <2>2. CASE q.at = 1
    BY <1>2, <1>6, <2>1, <2>2 DEF AtStep
  <2>3. CASE q.at = 2
    BY <1>2, <1>6, <2>1, <2>3 DEF AtStep
  <2>4. CASE q.at = 3
    BY <1>2, <1>6, <2>1, <2>4 DEF AtStep
  <2> QED
    BY <1>3, <2>2, <2>3, <2>4
<1> QED
  BY <1>2, <1>4, <1>5, <1>6

LEMMA ResetTypesInit == ResetInit => ResetInv
  BY DEF ResetInit, ResetInv, ResetTypeOK, KnowledgeIsPast, ResetSignsOut

\* A new request, and one that goes on.
LEMMA Begun ==
  ASSUME ResetInv, NEW p \in Person, NEW kind \in {"login", "change", "reset"}, Begin(p, kind),
         UNCHANGED <<password, sessions, cutOff>>, link' \subseteq Person, asked' \subseteq Person
  PROVE  ResetInv'
<1> DEFINE q == [user |-> p, kind |-> kind, at |-> 1, knows |-> password[p]]
<1>1. q \in Request /\ q.user = p /\ q.knows = password[p]
  <2>1. /\ kind \in DOMAIN Rest /\ 1 <= Len(Rest[kind])
    BY DEF Rest
  <2>2. q.kind = kind /\ q.at = 1 /\ q.user = p /\ q.knows = password[p]
    OBVIOUS
  <2>3. q \in [user : Person, kind : DOMAIN Rest, at : 1..3, knows : Nat]
    BY <2>1 DEF ResetInv, ResetTypeOK
  <2> QED
    BY <2>1, <2>2, <2>3 DEF Request
<1>2. running' = running \cup {q}
  BY DEF Begin
<1> HIDE DEF q
<1>3. running' \subseteq Request
  BY <1>1, <1>2 DEF ResetInv, ResetTypeOK
<1>4. ResetTypeOK'
  BY <1>3 DEF ResetInv, ResetTypeOK, Request
<1>5. KnowledgeIsPast'
  BY <1>1, <1>2 DEF ResetInv, ResetTypeOK, KnowledgeIsPast
<1>6. ResetSignsOut'
  BY <1>2 DEF ResetInv, ResetSignsOut, SignOutIsDue, AtStep
<1> QED
  BY <1>4, <1>5, <1>6 DEF ResetInv

LEMMA GoesOn ==
  ASSUME ResetTypeOK, NEW q \in running, NEW k \in Nat, GoOn(q, k)
  PROVE  /\ q \in Request
         /\ running' \subseteq Request
         /\ running \ {q} \subseteq running'
         /\ \A r \in running' : r \in running \/ (r.user = q.user /\ r.knows = k)
         /\ AtStep(q, "set") => \E r \in running' : r.user = q.user /\ AtStep(r, "revoke")
<1> DEFINE n == [user |-> q.user, kind |-> q.kind, at |-> q.at + 1, knows |-> k]
<1>1. q \in Request
  BY DEF ResetTypeOK
<1>2. n.user = q.user /\ n.kind = q.kind /\ n.at = q.at + 1 /\ n.knows = k
  OBVIOUS
<1>3. q.at + 1 <= Len(Rest[q.kind]) => n \in Request
  BY <1>1, RequestSteps DEF Request
<1> HIDE DEF n
<1>4. running' = (running \ {q}) \cup {r \in {n} : r.at <= Len(Rest[r.kind])}
  BY DEF GoOn, n
<1>5. \A r \in running' : r \in running \/ (r = n /\ q.at + 1 <= Len(Rest[q.kind]))
  BY <1>2, <1>4
<1>6. running \subseteq Request
  BY DEF ResetTypeOK
<1>7. ASSUME AtStep(q, "set") PROVE \E r \in running' : r.user = q.user /\ AtStep(r, "revoke")
  <2>1. q.kind \in {"change", "reset"} /\ q.at = 1 /\ Len(Rest[q.kind]) = 3
    BY <1>1, <1>7, RequestSteps
  <2>2. n.at = 2 /\ n.at <= Len(Rest[n.kind]) /\ n.kind \in {"change", "reset"}
    BY <1>2, <2>1
  <2>3. n \in running'
    BY <1>4, <2>2
  <2>4. n \in Request
    BY <1>2, <1>3, <2>2
  <2>5. AtStep(n, "revoke")
    BY <2>2, <2>4, RequestSteps
  <2> QED
    BY <1>2, <2>3, <2>5
<1> QED
  BY <1>1, <1>2, <1>3, <1>4, <1>5, <1>6, <1>7

LEMMA OneAtATime ==
  ASSUME NEW q \in Request
  PROVE  /\ ~(AtStep(q, "set") /\ AtStep(q, "revoke"))
         /\ ~(AtStep(q, "sign_in") /\ AtStep(q, "revoke"))
         /\ ~(AtStep(q, "clear") /\ AtStep(q, "revoke"))
  BY DEF AtStep

LEMMA ResetInductive == ResetInv /\ [ResetNext]_resetVars => ResetInv'
<1> SUFFICES ASSUME ResetInv, [ResetNext]_resetVars PROVE ResetInv'
  OBVIOUS
<1> USE DEF ResetInv
<1>0. /\ \A p \in Person : password[p] \in Nat
      /\ running \subseteq Request /\ sessions \subseteq OpenedOf
      /\ \A q \in running : q.user \in Person /\ q.knows \in Nat
      /\ \A s \in sessions : s.user \in Person /\ s.knows \in Nat /\ s.opened \in Nat
  BY DEF ResetTypeOK, Request, OpenedOf
<1>1. ASSUME NEW p \in Person, Login(p) \/ ChangePassword(p) \/ ConsumeReset(p) PROVE ResetInv'
  BY <1>1, Begun DEF Login, ChangePassword, ConsumeReset, ResetTypeOK
<1>2. ASSUME NEW p \in Person, RequestReset(p) \/ CreateReset(p) \/ AnswerRequest(p) \/ LinkEnds(p)
      PROVE  ResetInv'
  BY <1>2 DEF RequestReset, CreateReset, AnswerRequest, LinkEnds, ResetTypeOK, KnowledgeIsPast,
              ResetSignsOut, SignOutIsDue, AtStep
<1>3. ASSUME NEW s \in sessions, Logout(s) PROVE ResetInv'
  BY <1>3 DEF Logout, ResetTypeOK, KnowledgeIsPast, ResetSignsOut, SignOutIsDue, AtStep
<1>4. ASSUME NEW q \in running, SetPassword(q) PROVE ResetInv'
  <2>1. /\ AtStep(q, "set") /\ GoOn(q, password[q.user] + 1)
        /\ password' = [password EXCEPT ![q.user] = @ + 1]
        /\ UNCHANGED <<sessions, link, asked, cutOff>>
    BY <1>4 DEF SetPassword
  <2>2. /\ password'[q.user] = password[q.user] + 1
        /\ \A p \in Person : p # q.user => password'[p] = password[p]
        /\ password' \in [Person -> Nat]
    BY <1>0, <2>1 DEF ResetTypeOK
  <2>3. /\ running' \subseteq Request /\ running \ {q} \subseteq running'
        /\ \A r \in running' : r \in running \/ (r.user = q.user /\ r.knows = password[q.user] + 1)
        /\ \E r \in running' : r.user = q.user /\ AtStep(r, "revoke")
    BY <1>0, <2>1, GoesOn
  <2>4. ResetTypeOK'
    BY <2>1, <2>2, <2>3 DEF ResetTypeOK, Request
  <2>5. \A p \in Person : password[p] <= password'[p]
    BY <1>0, <2>2
  <2>6. KnowledgeIsPast'
    <3>1. ASSUME NEW r \in running' PROVE r.knows <= password'[r.user]
      <4>1. CASE r \in running
        BY <1>0, <2>2, <2>5, <4>1 DEF KnowledgeIsPast
      <4>2. CASE r.user = q.user /\ r.knows = password[q.user] + 1
        BY <1>0, <2>2, <4>2
      <4> QED
        BY <2>3, <4>1, <4>2
    <3>2. ASSUME NEW s \in sessions PROVE s.knows <= s.opened /\ s.opened <= password'[s.user]
      BY <1>0, <2>2, <2>5 DEF KnowledgeIsPast
    <3> QED
      BY <2>1, <3>1, <3>2 DEF KnowledgeIsPast
  <2>7. ASSUME NEW s \in sessions
        PROVE  \/ s.knows = password'[s.user] \/ SignOutIsDue(s.user)'
               \/ s.knows < s.opened /\ s.opened = password'[s.user]
    <3>1. CASE s.user = q.user
      BY <2>3, <3>1 DEF SignOutIsDue, AtStep
    <3>2. CASE s.user # q.user
      <4>1. SignOutIsDue(s.user) => SignOutIsDue(s.user)'
        BY <2>1, <2>3, <3>2 DEF SignOutIsDue, AtStep
      <4> QED
        BY <1>0, <2>2, <3>2, <4>1 DEF ResetSignsOut
    <3> QED
      BY <3>1, <3>2
  <2> QED
    BY <2>1, <2>4, <2>6, <2>7 DEF ResetSignsOut
<1>5. ASSUME NEW q \in running, RevokeAll(q) PROVE ResetInv'
  <2>1. /\ AtStep(q, "revoke") /\ GoOn(q, q.knows)
        /\ sessions' = sessions \ SessionsOf(q.user) /\ cutOff' = cutOff \ {q.user}
        /\ UNCHANGED <<password, link, asked>>
    BY <1>5 DEF RevokeAll
  <2>2. /\ running' \subseteq Request /\ running \ {q} \subseteq running'
        /\ \A r \in running' : r \in running \/ (r.user = q.user /\ r.knows = q.knows)
    BY <1>0, <2>1, GoesOn
  <2>3. ResetTypeOK'
    BY <2>1, <2>2 DEF ResetTypeOK, Request
  <2>4. KnowledgeIsPast'
    BY <1>0, <2>1, <2>2 DEF KnowledgeIsPast
  <2>5. \A s \in sessions' : s \in sessions /\ s.user # q.user
    BY <2>1 DEF SessionsOf
  <2>6. \A p : p # q.user /\ SignOutIsDue(p) => SignOutIsDue(p)'
    BY <2>1, <2>2 DEF SignOutIsDue, AtStep
  <2>7. ResetSignsOut'
    BY <2>1, <2>5, <2>6 DEF ResetSignsOut
  <2> QED
    BY <2>3, <2>4, <2>7
<1>6. ASSUME NEW q \in running, CreateSession(q) PROVE ResetInv'
  <2> DEFINE n == [user |-> q.user, knows |-> q.knows, opened |-> password[q.user]]
  <2>1. /\ AtStep(q, "sign_in") /\ GoOn(q, q.knows)
        /\ sessions' = sessions \cup {n}
        /\ UNCHANGED <<password, link, asked, cutOff>>
    BY <1>6 DEF CreateSession
  <2>2. /\ n.user = q.user /\ n.knows = q.knows /\ n.opened = password[q.user]
        /\ n \in [user : Person, knows : Nat, opened : Nat]
    BY <1>0
  <2> HIDE DEF n
  <2>3. /\ running' \subseteq Request /\ running \ {q} \subseteq running'
        /\ \A r \in running' : r \in running \/ (r.user = q.user /\ r.knows = q.knows)
    BY <1>0, <2>1, GoesOn
  <2>4. ResetTypeOK'
    BY <2>1, <2>2, <2>3 DEF ResetTypeOK, Request
  <2>5. KnowledgeIsPast'
    BY <1>0, <2>1, <2>2, <2>3 DEF KnowledgeIsPast
  <2>6. ~AtStep(q, "revoke")
    BY <1>0, <2>1, OneAtATime
  <2>7. \A p : SignOutIsDue(p) => SignOutIsDue(p)'
    BY <2>1, <2>3, <2>6 DEF SignOutIsDue, AtStep
  <2>8. q.knows = password[q.user] \/ q.knows < password[q.user]
    BY <1>0 DEF KnowledgeIsPast
  <2>9. ResetSignsOut'
    BY <2>1, <2>2, <2>7, <2>8 DEF ResetSignsOut
  <2> QED
    BY <2>4, <2>5, <2>9
<1>7. ASSUME NEW q \in running, ClearRequests(q) PROVE ResetInv'
  <2>1. /\ AtStep(q, "clear") /\ GoOn(q, q.knows) /\ asked' \subseteq asked
        /\ UNCHANGED <<password, sessions, link, cutOff>>
    BY <1>7 DEF ClearRequests
  <2>2. /\ running' \subseteq Request /\ running \ {q} \subseteq running'
        /\ \A r \in running' : r \in running \/ (r.user = q.user /\ r.knows = q.knows)
    BY <1>0, <2>1, GoesOn
  <2>3. ResetTypeOK'
    BY <2>1, <2>2 DEF ResetTypeOK, Request
  <2>4. KnowledgeIsPast'
    BY <1>0, <2>1, <2>2 DEF KnowledgeIsPast
  <2>5. ~AtStep(q, "revoke")
    BY <1>0, <2>1, OneAtATime
  <2>6. \A p : SignOutIsDue(p) => SignOutIsDue(p)'
    BY <2>1, <2>2, <2>5 DEF SignOutIsDue, AtStep
  <2>7. ResetSignsOut'
    BY <2>1, <2>6 DEF ResetSignsOut
  <2> QED
    BY <2>3, <2>4, <2>7
<1>8. ASSUME NEW q \in running, RequestEnds(q) PROVE ResetInv'
  <2>1. /\ running' = running \ {q} /\ UNCHANGED <<password, sessions, link, asked>>
        /\ cutOff' = IF AtStep(q, "revoke") THEN cutOff \cup {q.user} ELSE cutOff
    BY <1>8 DEF RequestEnds
  <2>2. ResetTypeOK'
    BY <1>0, <2>1 DEF ResetTypeOK
  <2>3. KnowledgeIsPast'
    BY <2>1 DEF KnowledgeIsPast
  <2>4. \A p : SignOutIsDue(p) => SignOutIsDue(p)'
    BY <2>1 DEF SignOutIsDue, AtStep
  <2>5. ResetSignsOut'
    BY <2>1, <2>4 DEF ResetSignsOut
  <2> QED
    BY <2>2, <2>3, <2>5
<1>9. CASE UNCHANGED resetVars
  BY <1>9 DEF resetVars, ResetTypeOK, KnowledgeIsPast, ResetSignsOut, SignOutIsDue, AtStep
<1> QED
  BY <1>1, <1>2, <1>3, <1>4, <1>5, <1>6, <1>7, <1>8, <1>9 DEF ResetNext

\* The types of PasswordResets, whoever signs in, changes or resets a password.
THEOREM ResetTypeCorrect == ResetSpec => []ResetTypeOK
<1>1. ResetInv => ResetTypeOK
  BY DEF ResetInv
<1> QED
  BY <1>1, ResetTypesInit, ResetInductive, PTL DEF ResetSpec

\* auth/api.reset and change_password: however logins, changes and resets overlap
\* between their transactions and wherever they end, a session of a replaced password
\* is gone unless its sign-out is due or was cut off, or its login overlapped the change.
THEOREM ResetSignsOutCorrect == ResetSpec => []ResetSignsOut
<1>1. ResetInv => ResetSignsOut
  BY DEF ResetInv
<1> QED
  BY <1>1, ResetTypesInit, ResetInductive, PTL DEF ResetSpec

-----------------------------------------------------------------------------
(***************************************************************************)
(* Accounts.  An account that was let in has used its invitation for good, *)
(* and no other account made with it is let in.  For the administrators    *)
(* the invariant follows one of them who is settled: no pending change is  *)
(* about him and no registration that may still be rolled back is his.  A  *)
(* check that overlaps with nothing leaves such an administrator behind,   *)
(* and an administrator's own registration ends with one.                  *)
(***************************************************************************)
Created(q) == q \in registering /\ q.step # "create"

UsedOnce ==
    /\ OneJoinsPerInvite
    /\ \A p \in madeWith : p[2] \in LetIn => invite[p[1]].state = "used"
    /\ \A p, r \in madeWith : p[2] = r[2] => p = r
    /\ \A q \in registering : /\ invite[q.invite].state # "none"
                              /\ Created(q) => <<q.invite, q.name>> \in madeWith

NamesAreTaken ==
    /\ \A q \in registering : Created(q) => q.name \in users
    /\ \A q, r \in registering : Created(q) /\ Created(r) /\ q.name = r.name => q = r

Settled(a) ==
    /\ a \in Admins
    /\ \A d \in changing : d.user # a
    /\ \A q \in registering : Created(q) => q.name # a

SomeoneSettled == HadAdmin /\ ~raced => \E a \in Name : Settled(a)

ComingAdminsStay == ~raced => \A q \in registering :
    Created(q) /\ invite[q.invite].grants
        => q.name \in Admins /\ \A d \in changing : d.user # q.name

AuthInv == AuthTypeOK /\ UsedOnce /\ NamesAreTaken /\ SomeoneSettled /\ ComingAdminsStay

Registrations == [invite : Invite, name : Name, step : {"create", "consume", "roll_back"}]

LEMMA MovedRecord ==
  ASSUME NEW q \in Registrations, NEW step \in {"consume", "roll_back"}
  PROVE  /\ [q EXCEPT !.step = step] \in Registrations
         /\ [q EXCEPT !.step = step].invite = q.invite
         /\ [q EXCEPT !.step = step].name = q.name
         /\ [q EXCEPT !.step = step].step = step
  BY DEF Registrations

\* An invitation changes its state by these three updates, and what it grants only
\* while it is not yet minted.
LEMMA InviteUpdates ==
  ASSUME AuthTypeOK, NEW i \in Invite, NEW state \in {"open", "used", "ended"},
         invite' = [invite EXCEPT ![i].state = state]
  PROVE  /\ invite' \in [Invite -> [state : {"none", "open", "used", "ended"}, grants : BOOLEAN]]
         /\ invite'[i].state = state
         /\ \A j \in Invite \ {i} : invite'[j].state = invite[j].state
         /\ \A j \in Invite : invite'[j].grants = invite[j].grants
<1>1. invite[i] \in [state : {"none", "open", "used", "ended"}, grants : BOOLEAN]
  BY DEF AuthTypeOK
<1>2. invite'[i] = [invite[i] EXCEPT !.state = state]
  BY DEF AuthTypeOK
<1>3. \A j \in Invite \ {i} : invite'[j] = invite[j]
  BY DEF AuthTypeOK
<1>4. /\ invite'[i] \in [state : {"none", "open", "used", "ended"}, grants : BOOLEAN]
      /\ invite'[i].state = state /\ invite'[i].grants = invite[i].grants
  BY <1>1, <1>2
<1> QED
  BY <1>3, <1>4 DEF AuthTypeOK

LEMMA AuthInitInv == AuthInit => AuthInv
<1> SUFFICES ASSUME AuthInit PROVE AuthInv
  OBVIOUS
<1>1. AuthTypeOK
  BY DEF AuthInit, AuthTypeOK
<1>2. UsedOnce /\ NamesAreTaken /\ SomeoneSettled /\ ComingAdminsStay
  <2>1. \A i \in Invite : invite[i].state = "none"
    BY DEF AuthInit
  <2> QED
    BY <2>1 DEF AuthInit, UsedOnce, OneJoinsPerInvite, NamesAreTaken, SomeoneSettled, HadAdmin,
                ComingAdminsStay, Created
<1> QED
  BY <1>1, <1>2 DEF AuthInv

LEMMA AuthTypes == AuthInv /\ [AuthNext]_authVars => AuthTypeOK'
<1> SUFFICES ASSUME AuthTypeOK, NamesAreTaken, [AuthNext]_authVars PROVE AuthTypeOK'
  BY DEF AuthInv
<1>1. ASSUME NEW i \in Invite, InviteEnds(i) PROVE AuthTypeOK'
  <2>1. invite' \in [Invite -> [state : {"none", "open", "used", "ended"}, grants : BOOLEAN]]
    BY <1>1, InviteUpdates DEF InviteEnds
  <2> QED
    BY <1>1, <2>1 DEF InviteEnds, AuthTypeOK
<1>2. ASSUME NEW i \in Invite, NEW g \in BOOLEAN, CreateInvite(i, g) PROVE AuthTypeOK'
  <2>1. [state |-> "open", grants |-> g] \in [state : {"none", "open", "used", "ended"}, grants : BOOLEAN]
    OBVIOUS
  <2>2. invite' \in [Invite -> [state : {"none", "open", "used", "ended"}, grants : BOOLEAN]]
    BY <1>2, <2>1 DEF CreateInvite, AuthTypeOK
  <2> QED
    BY <1>2, <2>2 DEF CreateInvite, AuthTypeOK
<1>3. ASSUME NEW i \in Invite, NEW n \in Name, Register(i, n) PROVE AuthTypeOK'
  BY <1>3 DEF Register, AuthTypeOK
<1>4. ASSUME NEW q \in registering, CreateUser(q) PROVE AuthTypeOK'
  <2>1. q \in Registrations
    BY DEF AuthTypeOK, Registrations
  <2>2. registering' \subseteq registering \cup {[q EXCEPT !.step = "consume"]}
    BY <1>4 DEF CreateUser, MoveTo, Done
  <2>3. registering' \subseteq Registrations
    BY <2>1, <2>2, MovedRecord DEF AuthTypeOK, Registrations
  <2>4. /\ UNCHANGED <<invite, changing, apart, raced>>
        /\ users' \subseteq users \cup {q.name} /\ admin' \subseteq users' /\ active' \subseteq users'
        /\ users \subseteq users'
        /\ madeWith' = madeWith \/ (madeWith' = madeWith \cup {<<q.invite, q.name>>} /\ q.name \in users')
    BY <1>4, <2>1 DEF CreateUser, AuthTypeOK
  <2>5. q.name \in Name /\ q.invite \in Invite
    BY <2>1 DEF Registrations
  <2>6. madeWith' \subseteq Invite \X users'
    BY <2>4, <2>5 DEF AuthTypeOK
  <2>7. changing' \subseteq [user : users', what : {"demote", "deactivate"}]
    BY <2>4 DEF AuthTypeOK
  <2> QED
    BY <2>3, <2>4, <2>5, <2>6, <2>7 DEF AuthTypeOK, Registrations
<1>5. ASSUME NEW q \in registering, ConsumeInvite(q) PROVE AuthTypeOK'
  <2>1. q \in Registrations /\ q.invite \in Invite
    BY DEF AuthTypeOK, Registrations
  <2>2. registering' \subseteq registering \cup {[q EXCEPT !.step = "roll_back"]}
    BY <1>5 DEF ConsumeInvite, MoveTo, Done
  <2>3. registering' \subseteq Registrations
    BY <2>1, <2>2, MovedRecord DEF AuthTypeOK, Registrations
  <2>6. invite' \in [Invite -> [state : {"none", "open", "used", "ended"}, grants : BOOLEAN]]
    <3>1. CASE invite' = [invite EXCEPT ![q.invite].state = "used"]
      BY <2>1, <3>1, InviteUpdates
    <3>2. CASE invite' = invite
      BY <3>2 DEF AuthTypeOK
    <3> QED
      BY <1>5, <3>1, <3>2 DEF ConsumeInvite
  <2> QED
    BY <1>5, <2>3, <2>6 DEF ConsumeInvite, AuthTypeOK, Registrations
<1>6. ASSUME NEW q \in registering, RollBack(q) PROVE AuthTypeOK'
  BY <1>6 DEF RollBack, Done, AuthTypeOK
<1>7. ASSUME NEW a \in users, NEW u \in users, NEW what \in {"demote", "deactivate"},
             CheckChange(a, u, what)
      PROVE  AuthTypeOK'
  <2>1. raced' \in BOOLEAN
    BY <1>7 DEF CheckChange
  <2> QED
    BY <1>7, <2>1 DEF CheckChange, AuthTypeOK
<1>8. ASSUME NEW d \in changing, WriteChange(d) PROVE AuthTypeOK'
  BY <1>8 DEF WriteChange, AuthTypeOK
<1>9. ASSUME NEW u \in users, Promote(u) PROVE AuthTypeOK'
  BY <1>9 DEF Promote, AuthTypeOK
<1>10. CASE AuthStop
  <2>1. InFlight \subseteq users
    BY DEF InFlight, NamesAreTaken, Created
  <2> QED
    BY <1>10, <2>1 DEF AuthStop, AuthTypeOK
<1>11. CASE UNCHANGED authVars
  BY <1>11 DEF authVars, AuthTypeOK
<1> QED
  BY <1>1, <1>2, <1>3, <1>4, <1>5, <1>6, <1>7, <1>8, <1>9, <1>10, <1>11 DEF AuthNext

\* A step that makes no account, lets nobody in and takes back no use.
LEMMA UsedFrame ==
  ASSUME AuthTypeOK, UsedOnce, madeWith' = madeWith, LetIn' \subseteq LetIn,
         \A r \in registering' :
            \E q \in registering : /\ r.invite = q.invite /\ r.name = q.name
                                   /\ r.step # "create" => q.step # "create",
         \A i \in Invite : /\ invite[i].state = "used" => invite'[i].state = "used"
                           /\ invite[i].state # "none" => invite'[i].state # "none"
  PROVE  UsedOnce'
<1>1. /\ \A p \in madeWith : p[1] \in Invite
      /\ \A q \in registering : q.invite \in Invite
  BY DEF AuthTypeOK
<1>2. OneJoinsPerInvite'
  BY DEF UsedOnce, OneJoinsPerInvite
<1>3. \A p \in madeWith : p[2] \in LetIn' => invite'[p[1]].state = "used"
  BY <1>1 DEF UsedOnce
<1>4. \A r \in registering' : /\ invite'[r.invite].state # "none"
                              /\ r.step # "create" => <<r.invite, r.name>> \in madeWith
  <2> SUFFICES ASSUME NEW r \in registering'
               PROVE  /\ invite'[r.invite].state # "none"
                      /\ r.step # "create" => <<r.invite, r.name>> \in madeWith
    OBVIOUS
  <2>1. PICK q \in registering : /\ r.invite = q.invite /\ r.name = q.name
                                 /\ r.step # "create" => q.step # "create"
    OBVIOUS
  <2> QED
    BY <1>1, <2>1 DEF UsedOnce, Created
<1> QED
  BY <1>2, <1>3, <1>4 DEF UsedOnce, Created

LEMMA AuthUsedOnce == AuthInv /\ [AuthNext]_authVars => UsedOnce'
<1> SUFFICES ASSUME AuthTypeOK, UsedOnce, NamesAreTaken, [AuthNext]_authVars PROVE UsedOnce'
  BY DEF AuthInv
<1>1. \A p \in madeWith : p[1] \in Invite /\ p[2] \in users
  BY DEF AuthTypeOK
<1>2. \A q \in registering : q \in Registrations /\ q.invite \in Invite
  BY DEF AuthTypeOK, Registrations
<1>3. ASSUME UNCHANGED <<invite, madeWith>>, LetIn' \subseteq LetIn, registering' \subseteq registering
      PROVE  UsedOnce'
  BY <1>3, UsedFrame
<1>4. ASSUME UNCHANGED <<active, apart, registering>> PROVE LetIn' = LetIn
  BY <1>4 DEF LetIn, InFlight
<1>5. ASSUME NEW i \in Invite, InviteEnds(i) PROVE UsedOnce'
  <2>1. /\ invite'[i].state = "ended" /\ \A j \in Invite \ {i} : invite'[j].state = invite[j].state
        /\ invite[i].state = "open" /\ UNCHANGED <<madeWith, registering, active, apart>>
    BY <1>5, InviteUpdates DEF InviteEnds
  <2>2. \A j \in Invite : /\ invite[j].state = "used" => invite'[j].state = "used"
                          /\ invite[j].state # "none" => invite'[j].state # "none"
    BY <2>1
  <2> QED
    BY <1>4, <2>1, <2>2, UsedFrame
<1>6. ASSUME NEW i \in Invite, NEW g \in BOOLEAN, CreateInvite(i, g) PROVE UsedOnce'
  <2>1. /\ invite[i].state = "none" /\ \A j \in Invite \ {i} : invite'[j] = invite[j]
        /\ invite'[i] = [state |-> "open", grants |-> g]
        /\ UNCHANGED <<madeWith, registering, active, apart>>
    BY <1>6 DEF CreateInvite, AuthTypeOK
  <2>2. \A j \in Invite : /\ invite[j].state = "used" => invite'[j].state = "used"
                          /\ invite[j].state # "none" => invite'[j].state # "none"
    BY <2>1
  <2> QED
    BY <1>4, <2>1, <2>2, UsedFrame
<1>7. ASSUME NEW i \in Invite, NEW n \in Name, Register(i, n) PROVE UsedOnce'
  <2> DEFINE r == [invite |-> i, name |-> n, step |-> "create"]
  <2>1. /\ registering' = registering \cup {r} /\ r.invite = i /\ r.step = "create"
        /\ invite[i].state = "open" /\ UNCHANGED <<invite, active, apart, madeWith>>
    BY <1>7 DEF Register
  <2> HIDE DEF r
  <2>2. LetIn' = LetIn
    BY <2>1 DEF LetIn, InFlight
  <2> QED
    BY <2>1, <2>2 DEF UsedOnce, OneJoinsPerInvite, Created
<1>8. ASSUME NEW q \in registering, CreateUser(q) PROVE UsedOnce'
  <2>1. q.step = "create" /\ UNCHANGED <<invite, apart>>
    BY <1>8 DEF CreateUser
  <2>2. CASE Done(q) /\ UNCHANGED <<active, madeWith>>
    <3>1. registering' = registering \ {q}
      BY <2>2 DEF Done
    <3>2. LetIn' = LetIn
      BY <2>1, <2>2, <3>1 DEF LetIn, InFlight
    <3> QED
      BY <1>3, <2>1, <2>2, <3>1, <3>2
  <2>3. CASE /\ q.name \notin users /\ MoveTo(q, "consume")
             /\ active' = active \cup {q.name} /\ madeWith' = madeWith \cup {<<q.invite, q.name>>}
    <3> DEFINE r == [q EXCEPT !.step = "consume"]
    <3>1. r.name = q.name /\ r.invite = q.invite /\ r.step = "consume"
      BY <1>2, MovedRecord
    <3> HIDE DEF r
    <3>2. registering' = (registering \ {q}) \cup {r}
      BY <2>3 DEF MoveTo, r
    <3>3. InFlight \subseteq InFlight' /\ q.name \in InFlight'
      BY <2>1, <3>1, <3>2 DEF InFlight
    <3>4. LetIn' \subseteq LetIn /\ q.name \notin LetIn'
      BY <2>1, <2>3, <3>3 DEF LetIn
    <3>5. \A p \in madeWith' : p \in madeWith \/ (p[1] = q.invite /\ p[2] = q.name)
      BY <2>3
    <3>6. OneJoinsPerInvite'
      BY <3>4, <3>5 DEF UsedOnce, OneJoinsPerInvite
    <3>7. \A p \in madeWith' : p[2] \in LetIn' => invite[p[1]].state = "used"
      BY <3>4, <3>5 DEF UsedOnce
    <3>8. \A p, s \in madeWith' : p[2] = s[2] => p = s
      BY <1>1, <2>3, <3>5 DEF UsedOnce
    <3>9. \A s \in registering' : /\ invite[s.invite].state # "none"
                                  /\ s.step # "create" => <<s.invite, s.name>> \in madeWith'
      BY <2>3, <3>1, <3>2 DEF UsedOnce, Created
    <3> QED
      BY <2>1, <3>6, <3>7, <3>8, <3>9 DEF UsedOnce, Created
  <2> QED
    BY <1>8, <2>2, <2>3 DEF CreateUser
<1>9. ASSUME NEW q \in registering, ConsumeInvite(q) PROVE UsedOnce'
  <2>1. /\ q.step = "consume" /\ UNCHANGED <<active, apart, madeWith>>
        /\ <<q.invite, q.name>> \in madeWith
    BY <1>9 DEF ConsumeInvite, UsedOnce, Created
  <2>2. CASE MoveTo(q, "roll_back") /\ UNCHANGED invite
    <3> DEFINE r == [q EXCEPT !.step = "roll_back"]
    <3>1. r.name = q.name /\ r.invite = q.invite /\ r.step = "roll_back"
      BY <1>2, MovedRecord
    <3> HIDE DEF r
    <3>2. registering' = (registering \ {q}) \cup {r}
      BY <2>2 DEF MoveTo, r
    <3>3. InFlight \subseteq InFlight'
      BY <3>1, <3>2 DEF InFlight
    <3>4. LetIn' \subseteq LetIn
      BY <2>1, <3>3 DEF LetIn
    <3>5. \A s \in registering' :
             \E t \in registering : /\ s.invite = t.invite /\ s.name = t.name
                                    /\ s.step # "create" => t.step # "create"
      BY <2>1, <3>1, <3>2
    <3> QED
      BY <2>1, <2>2, <3>4, <3>5, UsedFrame
  <2>3. CASE /\ invite[q.invite].state = "open"
             /\ invite' = [invite EXCEPT ![q.invite].state = "used"]
             /\ Done(q)
    <3>1. registering' = registering \ {q}
      BY <2>3 DEF Done
    <3>2. /\ invite'[q.invite].state = "used"
          /\ \A j \in Invite \ {q.invite} : invite'[j].state = invite[j].state
      BY <1>2, <2>3, InviteUpdates
    <3>3. LetIn' \subseteq LetIn \cup {q.name}
      BY <2>1, <3>1 DEF LetIn, InFlight
    <3>4. \A p \in madeWith : p[2] = q.name => p[1] = q.invite
      BY <2>1 DEF UsedOnce
    <3>5. \A p \in madeWith : p[2] \in LetIn => p[1] # q.invite
      BY <2>3 DEF UsedOnce
    <3>6. OneJoinsPerInvite'
      <4> SUFFICES ASSUME NEW p \in madeWith, NEW s \in madeWith, p[1] = s[1],
                          p[2] \in LetIn', s[2] \in LetIn'
                   PROVE  p = s
        BY <2>1 DEF OneJoinsPerInvite
      <4>1. CASE p[2] = q.name /\ s[2] = q.name
        BY <4>1 DEF UsedOnce
      <4>2. CASE p[2] # q.name \/ s[2] # q.name
        BY <3>3, <3>4, <3>5, <4>2 DEF UsedOnce, OneJoinsPerInvite
      <4> QED
        BY <4>1, <4>2
    <3>7. \A p \in madeWith : p[2] \in LetIn' => invite'[p[1]].state = "used"
      BY <1>1, <3>2, <3>3, <3>4 DEF UsedOnce
    <3>8. \A s \in registering' : /\ invite'[s.invite].state # "none"
                                  /\ s.step # "create" => <<s.invite, s.name>> \in madeWith
      BY <1>2, <3>1, <3>2 DEF UsedOnce, Created
    <3> QED
      BY <2>1, <3>6, <3>7, <3>8 DEF UsedOnce, Created
  <2> QED
    BY <1>9, <2>2, <2>3 DEF ConsumeInvite, Redeemable
<1>10. ASSUME NEW q \in registering, RollBack(q) PROVE UsedOnce'
  <2>1. /\ registering' = registering \ {q} /\ active' = active \ {q.name}
        /\ UNCHANGED <<invite, apart, madeWith>>
    BY <1>10 DEF RollBack, Done
  <2>2. LetIn' \subseteq LetIn
    BY <2>1 DEF LetIn, InFlight
  <2> QED
    BY <1>3, <2>1, <2>2
<1>11. ASSUME NEW a \in users, NEW u \in users, NEW what \in {"demote", "deactivate"},
              CheckChange(a, u, what)
       PROVE  UsedOnce'
  BY <1>3, <1>4, <1>11 DEF CheckChange
<1>12. ASSUME NEW d \in changing, WriteChange(d) PROVE UsedOnce'
  <2>1. /\ active' \subseteq active /\ UNCHANGED <<invite, apart, madeWith, registering>>
    BY <1>12 DEF WriteChange
  <2>2. LetIn' \subseteq LetIn
    BY <2>1 DEF LetIn, InFlight
  <2> QED
    BY <1>3, <2>1, <2>2
<1>13. ASSUME NEW u \in users, Promote(u) PROVE UsedOnce'
  <2>1. /\ \A n \in active' : n \in active \/ n \in apart'
        /\ apart \subseteq apart' /\ UNCHANGED <<invite, madeWith, registering>>
    BY <1>13 DEF Promote
  <2>2. LetIn' \subseteq LetIn
    BY <2>1 DEF LetIn, InFlight
  <2> QED
    BY <1>3, <2>1, <2>2
<1>14. CASE AuthStop
  <2>1. /\ registering' = {} /\ apart' = apart \cup InFlight
        /\ UNCHANGED <<invite, active, madeWith>>
    BY <1>14 DEF AuthStop
  <2>2. LetIn' \subseteq LetIn
    BY <2>1 DEF LetIn
  <2> QED
    BY <1>3, <2>1, <2>2
<1>15. CASE UNCHANGED authVars
  BY <1>3, <1>4, <1>15 DEF authVars
<1> QED
  BY <1>5, <1>6, <1>7, <1>8, <1>9, <1>10, <1>11, <1>12, <1>13, <1>14, <1>15 DEF AuthNext

LEMMA AuthNames == AuthInv /\ [AuthNext]_authVars => NamesAreTaken'
<1> SUFFICES ASSUME AuthTypeOK, NamesAreTaken, [AuthNext]_authVars PROVE NamesAreTaken'
  BY DEF AuthInv
<1> USE DEF NamesAreTaken, Created
<1>1. \A q \in registering : q \in Registrations
  BY DEF AuthTypeOK, Registrations
<1>2. CASE registering' \subseteq registering /\ users' = users
  BY <1>2
<1>3. ASSUME NEW i \in Invite, NEW n \in Name, Register(i, n) PROVE NamesAreTaken'
  <2>1. /\ \A q \in registering' : q \in registering \/ q.step = "create"
        /\ users' = users
    BY <1>3 DEF Register
  <2> QED
    BY <2>1
<1>4. ASSUME NEW q \in registering, CreateUser(q) PROVE NamesAreTaken'
  <2>1. CASE Done(q) /\ UNCHANGED users
    BY <1>2, <2>1 DEF Done
  <2>2. CASE /\ q.name \notin users /\ MoveTo(q, "consume") /\ users' = users \cup {q.name}
    <3>1. \A r \in registering' : r \in registering \/ (r.name = q.name /\ r = [q EXCEPT !.step = "consume"])
      BY <1>1, <2>2, MovedRecord DEF MoveTo
    <3>2. \A r \in registering : Created(r) => r.name # q.name
      BY <2>2
    <3> QED
      BY <2>2, <3>1, <3>2
  <2> QED
    BY <1>4, <2>1, <2>2 DEF CreateUser
<1>5. ASSUME NEW q \in registering, ConsumeInvite(q) PROVE NamesAreTaken'
  <2>1. q.step = "consume" /\ users' = users
    BY <1>5 DEF ConsumeInvite
  <2>2. CASE Done(q)
    BY <1>2, <2>1, <2>2 DEF Done
  <2>3. CASE MoveTo(q, "roll_back")
    <3>1. \A r \in registering' : \/ r \in registering /\ r # q
                                  \/ r.name = q.name /\ r = [q EXCEPT !.step = "roll_back"]
      BY <1>1, <2>3, MovedRecord DEF MoveTo
    <3>2. \A r \in registering : Created(r) /\ r # q => r.name # q.name
      BY <2>1
    <3>3. q.name \in users
      BY <2>1
    <3> QED
      BY <2>1, <3>1, <3>2, <3>3
  <2> QED
    BY <1>5, <2>2, <2>3 DEF ConsumeInvite
<1>6. ASSUME NEW q \in registering, RollBack(q) PROVE NamesAreTaken'
  BY <1>2, <1>6 DEF RollBack, Done
<1>7. CASE UNCHANGED <<registering, users>>
  BY <1>2, <1>7
<1>8. CASE AuthStop
  BY <1>8 DEF AuthStop
<1> QED
  BY <1>3, <1>4, <1>5, <1>6, <1>7, <1>8
     DEF AuthNext, authVars, InviteEnds, CreateInvite, CheckChange, WriteChange, Promote

LEMMA AuthGrants ==
  ASSUME AuthTypeOK, [AuthNext]_authVars
  PROVE  \A j \in Invite : invite[j].state # "none" => invite'[j].grants = invite[j].grants
<1>1. CASE UNCHANGED invite
  BY <1>1
<1>2. ASSUME NEW i \in Invite, NEW g \in BOOLEAN, CreateInvite(i, g)
      PROVE  \A j \in Invite : invite[j].state # "none" => invite'[j] = invite[j]
  BY <1>2 DEF CreateInvite, AuthTypeOK
<1>3. ASSUME NEW i \in Invite, InviteEnds(i)
      PROVE  \A j \in Invite : invite'[j].grants = invite[j].grants
  BY <1>3, InviteUpdates DEF InviteEnds
<1>4. ASSUME NEW q \in registering, ConsumeInvite(q)
      PROVE  \A j \in Invite : invite'[j].grants = invite[j].grants
  <2>1. q.invite \in Invite
    BY DEF AuthTypeOK
  <2>2. UNCHANGED invite \/ invite' = [invite EXCEPT ![q.invite].state = "used"]
    BY <1>4 DEF ConsumeInvite
  <2> QED
    BY <2>1, <2>2, InviteUpdates
<1> QED
  BY <1>1, <1>2, <1>3, <1>4
     DEF AuthNext, authVars, Register, CreateUser, RollBack, CheckChange, WriteChange, Promote,
         AuthStop

\* A step that uses no invitation keeps a settled administrator if it keeps each one.
LEMMA SettledFrame ==
  ASSUME AuthInv, [AuthNext]_authVars, raced => raced',
         \A i \in Invite : invite'[i].state = "used" => invite[i].state = "used",
         \A a \in Name : Settled(a) => Settled(a)'
  PROVE  SomeoneSettled'
<1>1. ASSUME HadAdmin' PROVE HadAdmin
  <2>1. PICK i \in Invite : invite'[i].state = "used" /\ invite'[i].grants
    BY <1>1 DEF HadAdmin
  <2>2. invite[i].state = "used" /\ invite'[i].grants = invite[i].grants
    BY <2>1, AuthGrants DEF AuthInv
  <2> QED
    BY <2>1, <2>2 DEF HadAdmin
<1> QED
  BY <1>1 DEF AuthInv, SomeoneSettled

\* The check that overlaps with nothing leaves another administrator behind.
LEMMA AnotherAdmin ==
  ASSUME NEW a \in Admins, NEW u, ~IsLastAdmin(u)
  PROVE  \E b \in Admins : b # u
<1> SUFFICES ASSUME \A b \in Admins : b = u PROVE FALSE
  OBVIOUS
<1>1. Admins = {u} /\ u \in admin
  BY DEF Admins
<1>2. Cardinality(Admins) = 1
  BY <1>1, FS_Singleton
<1> QED
  BY <1>1, <1>2 DEF IsLastAdmin

LEMMA AuthAdmins == AuthInv /\ [AuthNext]_authVars => SomeoneSettled' /\ ComingAdminsStay'
<1> SUFFICES ASSUME AuthInv, [AuthNext]_authVars PROVE SomeoneSettled' /\ ComingAdminsStay'
  OBVIOUS
<1>1. \A q \in registering : /\ q \in Registrations /\ q.invite \in Invite
                             /\ invite'[q.invite].grants = invite[q.invite].grants
  BY AuthGrants DEF AuthInv, AuthTypeOK, Registrations, UsedOnce
<1>2. ASSUME UNCHANGED <<admin, active, changing, raced>>,
             \A i \in Invite : invite'[i].state = "used" => invite[i].state = "used",
             \A r \in registering' : Created(r)' => Created(r)
      PROVE  SomeoneSettled' /\ ComingAdminsStay'
  <2>1. \A a \in Name : Settled(a) => Settled(a)'
    BY <1>2 DEF Settled, Admins, Created
  <2>2. ComingAdminsStay'
    BY <1>1, <1>2 DEF AuthInv, ComingAdminsStay, Admins, Created
  <2> QED
    BY <1>2, <2>1, <2>2, SettledFrame
<1>3. ASSUME NEW q \in registering, CreateUser(q) PROVE SomeoneSettled' /\ ComingAdminsStay'
  <2>1. UNCHANGED <<invite, changing, raced>>
    BY <1>3 DEF CreateUser
  <2>2. CASE Done(q) /\ UNCHANGED <<admin, active>>
    BY <1>2, <2>1, <2>2 DEF Done, Created
  <2>3. CASE /\ q.name \notin users /\ MoveTo(q, "consume")
             /\ active' = active \cup {q.name}
             /\ admin' = IF invite[q.invite].grants THEN admin \cup {q.name} ELSE admin
    <3>1. \A r \in registering' : \/ r \in registering
                                  \/ r.name = q.name /\ r.invite = q.invite
      BY <1>1, <2>3, MovedRecord DEF MoveTo
    <3>2. q.name \notin admin /\ \A d \in changing : d.user # q.name
      BY <2>3 DEF AuthInv, AuthTypeOK
    <3>3. Admins \subseteq Admins'
      BY <2>3 DEF Admins
    <3>4. \A a \in Name : Settled(a) => Settled(a)'
      BY <2>1, <3>1, <3>2, <3>3 DEF Settled, Created, Admins
    <3>5. SomeoneSettled'
      BY <2>1, <3>4, SettledFrame
    <3>6. ASSUME NEW r \in registering', ~raced, Created(r)', invite'[r.invite].grants
          PROVE  r.name \in Admins' /\ \A d \in changing : d.user # r.name
      <4>1. CASE r \in registering
        BY <1>1, <3>3, <3>6, <4>1 DEF AuthInv, ComingAdminsStay, Created
      <4>2. CASE r.name = q.name /\ r.invite = q.invite
        BY <2>1, <2>3, <3>2, <3>6, <4>2 DEF Admins
      <4> QED
        BY <3>1, <4>1, <4>2
    <3> QED
      BY <2>1, <3>5, <3>6 DEF ComingAdminsStay
  <2> QED
    BY <1>3, <2>2, <2>3 DEF CreateUser
<1>4. ASSUME NEW q \in registering, ConsumeInvite(q) PROVE SomeoneSettled' /\ ComingAdminsStay'
  <2>1. q.step = "consume" /\ UNCHANGED <<users, admin, active, changing, raced>>
    BY <1>4 DEF ConsumeInvite
  <2>2. CASE MoveTo(q, "roll_back") /\ UNCHANGED invite
    <3>1. \A r \in registering' : \/ r \in registering
                                  \/ r.name = q.name /\ r.invite = q.invite
      BY <1>1, <2>2, MovedRecord DEF MoveTo
    <3>2. \A a \in Name : Settled(a) => Settled(a)'
      BY <2>1, <3>1 DEF Settled, Created, Admins
    <3>3. ComingAdminsStay'
      BY <2>1, <2>2, <3>1 DEF AuthInv, ComingAdminsStay, Created, Admins
    <3> QED
      BY <2>1, <2>2, <3>2, <3>3, SettledFrame
  <2>3. CASE Done(q) /\ invite' = [invite EXCEPT ![q.invite].state = "used"]
    <3>1. registering' = registering \ {q}
      BY <2>3 DEF Done
    <3>2. \A a \in Name : Settled(a) => Settled(a)'
      BY <2>1, <3>1 DEF Settled, Created, Admins
    <3>3. ComingAdminsStay'
      BY <1>1, <2>1, <3>1 DEF AuthInv, ComingAdminsStay, Created, Admins
    <3>4. SomeoneSettled'
      <4> SUFFICES ASSUME HadAdmin', ~raced PROVE \E a \in Name : Settled(a)'
        BY <2>1 DEF SomeoneSettled
      <4>1. PICK i \in Invite : invite'[i].state = "used" /\ invite'[i].grants
        BY DEF HadAdmin
      <4>2. CASE i # q.invite
        <5>1. invite'[i].state = invite[i].state
          BY <1>1, <2>3, <4>2, InviteUpdates DEF AuthInv
        <5>2. invite'[i].grants = invite[i].grants
          BY <4>1, <5>1, AuthGrants DEF AuthInv
        <5>3. HadAdmin
          BY <4>1, <5>1, <5>2 DEF HadAdmin
        <5> QED
          BY <3>2, <5>3 DEF AuthInv, SomeoneSettled
      <4>3. CASE i = q.invite
        <5>1. invite[q.invite].grants
          BY <1>1, <4>1, <4>3
        <5>2. q.name \in Admins /\ \A d \in changing : d.user # q.name
          BY <2>1, <5>1 DEF AuthInv, ComingAdminsStay, Created
        <5>3. \A r \in registering \ {q} : Created(r) => r.name # q.name
          BY <2>1 DEF AuthInv, NamesAreTaken, Created
        <5>4. Settled(q.name)'
          BY <2>1, <3>1, <5>2, <5>3 DEF Settled, Created, Admins
        <5> QED
          BY <1>1, <5>4 DEF Registrations
      <4> QED
        BY <4>2, <4>3
    <3> QED
      BY <3>3, <3>4
  <2> QED
    BY <1>4, <2>2, <2>3 DEF ConsumeInvite
<1>5. ASSUME NEW q \in registering, RollBack(q) PROVE SomeoneSettled' /\ ComingAdminsStay'
  <2>1. /\ Created(q) /\ active' = active \ {q.name} /\ registering' = registering \ {q}
        /\ UNCHANGED <<invite, admin, changing, raced>>
    BY <1>5 DEF RollBack, Done, Created
  <2>2. \A r \in registering' : Created(r)' => Created(r) /\ r.name # q.name
    BY <2>1 DEF AuthInv, NamesAreTaken, Created
  <2>3. \A a \in Name : Settled(a) => Settled(a)'
    BY <2>1, <2>2 DEF Settled, Created, Admins
  <2>4. ComingAdminsStay'
    BY <2>1, <2>2 DEF AuthInv, ComingAdminsStay, Admins, Created
  <2> QED
    BY <2>1, <2>3, <2>4, SettledFrame
<1>6. ASSUME NEW a \in users, NEW u \in users, NEW what \in {"demote", "deactivate"},
             CheckChange(a, u, what)
      PROVE  SomeoneSettled' /\ ComingAdminsStay'
  <2> SUFFICES ASSUME ~raced' PROVE SomeoneSettled' /\ ComingAdminsStay'
    BY DEF SomeoneSettled, ComingAdminsStay
  <2>1. /\ a \in Admins /\ ~IsLastAdmin(u) /\ changing = {} /\ ~Unsettled /\ ~raced
        /\ changing' = {[user |-> u, what |-> what]}
        /\ UNCHANGED <<invite, users, admin, active, registering>>
    BY <1>6 DEF CheckChange
  <2>2. \A q \in registering : Created(q) => q.name \notin admin
    BY <2>1 DEF Unsettled, Created
  <2>3. PICK b \in Admins : b # u
    BY <2>1, AnotherAdmin
  <2>4. Settled(b)'
    BY <2>1, <2>2, <2>3 DEF Settled, Created, Admins
  <2>5. b \in Name
    BY <2>3 DEF Admins, AuthInv, AuthTypeOK
  <2>6. ComingAdminsStay'
    BY <2>1, <2>2 DEF AuthInv, ComingAdminsStay, Created, Admins
  <2> QED
    BY <2>4, <2>5, <2>6 DEF SomeoneSettled
<1>7. ASSUME NEW d \in changing, WriteChange(d) PROVE SomeoneSettled' /\ ComingAdminsStay'
  <2>1. /\ UNCHANGED <<invite, registering, raced>> /\ changing' \subseteq changing
        /\ \A a : a \in Admins /\ a # d.user => a \in Admins'
    BY <1>7 DEF WriteChange, Admins
  <2>2. \A a \in Name : Settled(a) => Settled(a)'
    BY <2>1 DEF Settled, Created
  <2>3. ComingAdminsStay'
    BY <2>1 DEF AuthInv, ComingAdminsStay, Created
  <2> QED
    BY <2>1, <2>2, <2>3, SettledFrame
<1>8. ASSUME NEW u \in users, Promote(u) PROVE SomeoneSettled' /\ ComingAdminsStay'
  <2>1. UNCHANGED <<invite, registering, changing, raced>> /\ Admins \subseteq Admins'
    BY <1>8 DEF Promote, Admins
  <2>2. \A a \in Name : Settled(a) => Settled(a)'
    BY <2>1 DEF Settled, Created
  <2>3. ComingAdminsStay'
    BY <2>1 DEF AuthInv, ComingAdminsStay, Created
  <2> QED
    BY <2>1, <2>2, <2>3, SettledFrame
<1>9. CASE AuthStop
  <2>1. UNCHANGED <<invite, admin, active, raced>> /\ changing' = {} /\ registering' = {}
    BY <1>9 DEF AuthStop
  <2>2. \A a \in Name : Settled(a) => Settled(a)'
    BY <2>1 DEF Settled, Created, Admins
  <2>3. ComingAdminsStay'
    BY <2>1 DEF ComingAdminsStay
  <2> QED
    BY <2>1, <2>2, <2>3, SettledFrame
<1>10. ASSUME NEW i \in Invite, NEW n \in Name, Register(i, n)
       PROVE  SomeoneSettled' /\ ComingAdminsStay'
  <2>1. \A r \in registering' : Created(r)' => Created(r)
    BY <1>10 DEF Register, Created
  <2> QED
    BY <1>2, <1>10, <2>1 DEF Register
<1>11. ASSUME UNCHANGED <<admin, active, registering, changing, raced>>,
              \A i \in Invite : invite'[i].state = "used" => invite[i].state = "used"
       PROVE  SomeoneSettled' /\ ComingAdminsStay'
  BY <1>2, <1>11 DEF Created
<1>12. ASSUME NEW i \in Invite, InviteEnds(i) PROVE SomeoneSettled' /\ ComingAdminsStay'
  <2>1. /\ invite'[i].state = "ended"
        /\ \A j \in Invite \ {i} : invite'[j].state = invite[j].state
    BY <1>12, InviteUpdates DEF InviteEnds, AuthInv
  <2>2. \A j \in Invite : invite'[j].state = "used" => invite[j].state = "used"
    BY <2>1
  <2> QED
    BY <1>11, <1>12, <2>2 DEF InviteEnds
<1>13. ASSUME NEW i \in Invite, NEW g \in BOOLEAN, CreateInvite(i, g)
       PROVE  SomeoneSettled' /\ ComingAdminsStay'
  <2>1. \A j \in Invite : invite'[j].state = "used" => invite[j].state = "used"
    BY <1>13 DEF CreateInvite, AuthInv, AuthTypeOK
  <2> QED
    BY <1>11, <1>13, <2>1 DEF CreateInvite
<1>14. CASE UNCHANGED authVars
  BY <1>11, <1>14 DEF authVars
<1> QED
  BY <1>3, <1>4, <1>5, <1>6, <1>7, <1>8, <1>9, <1>10, <1>12, <1>13, <1>14 DEF AuthNext

LEMMA AuthInvInductive == AuthInv /\ [AuthNext]_authVars => AuthInv'
  BY AuthTypes, AuthUsedOnce, AuthNames, AuthAdmins DEF AuthInv

LEMMA AuthAlways == AuthSpec => []AuthInv
  BY AuthInvInductive, AuthInitInv, PTL DEF AuthSpec

\* auth/api.register: of any number of accounts made with one link, at most one stays
\* active whose registration was neither cut off half-way nor overruled by hand.
THEOREM OneJoinsPerInviteCorrect == AuthSpec => []OneJoinsPerInvite
<1>1. AuthInv => OneJoinsPerInvite
  BY DEF AuthInv, UsedOnce
<1> QED
  BY <1>1, AuthAlways, PTL

\* auth/api.set_admin and set_active: as long as no two checks overlap, somebody
\* administers the application from the first administrator's registration on.
THEOREM AdminRemainsCorrect == AuthSpec => []AdminRemains
<1>1. AuthInv => AdminRemains
  BY DEF AuthInv, SomeoneSettled, Settled, AdminRemains
<1> QED
  BY <1>1, AuthAlways, PTL

-----------------------------------------------------------------------------
(***************************************************************************)
(* TraderAccounts.  What a fill needs is a row of its account in whichever *)
(* table the next statement of the rebuild does not touch; ids differ      *)
(* within a table, so without a staging table it is the only one.          *)
(***************************************************************************)
PlainRows(t) == {r \in t.rows : r = [id |-> r.id, wallet |-> r.wallet, owner |-> r.owner,
                                     deleted |-> r.deleted]}
Shaped(t) == t = [columns |-> t.columns, rows |-> PlainRows(t)]

Covers(t) == \A f \in fills : \E r \in t.rows : r.id = f.account /\ r.wallet = f.wallet

FillsHaveRows == \A f \in fills : \E r \in table.rows \cup staging.rows :
    r.id = f.account /\ r.wallet = f.wallet

SurvivalInv ==
    /\ Shaped(table) /\ Shaped(staging)
    /\ table = Absent \/ table.columns \in {"unowned", "owned"}
    /\ boot \in {"schema", "drop_staging", "create_staging", "copy", "drop", "rename", "serve"}
    /\ boot \in {"drop_staging", "create_staging", "copy", "drop"} => table.columns = "unowned"
    /\ boot = "serve" => table.columns = "owned"
    /\ boot = "copy" => staging = New({})
    /\ boot \in {"drop", "rename"} => Covers(staging) /\ staging.columns = "owned"
    /\ table.columns = "unowned" => Covers(table)
    /\ FillsHaveRows

LEMMA AccountRecord ==
  ASSUME NEW i, NEW w, NEW u, NEW r, r = Account(i, w, u)
  PROVE  r = [id |-> r.id, wallet |-> r.wallet, owner |-> r.owner, deleted |-> r.deleted]
  BY DEF Account

LEMMA SurvivalInit == AcctInit => SurvivalInv
<1> SUFFICES ASSUME AcctInit PROVE SurvivalInv
  OBVIOUS
<1>1. PICK old \in [1..Cardinality(Legacy) -> Legacy] :
         \/ table = Absent /\ fills = {}
         \/ /\ table = [columns |-> "unowned",
                        rows |-> {Account(i, old[i], Nobody) : i \in DOMAIN old}]
            /\ fills = {[account |-> i, wallet |-> old[i], n |-> 1] : i \in DOMAIN old}
  BY DEF AcctInit
<1>2. staging = Absent /\ boot = "schema" /\ Shaped(staging)
  BY DEF AcctInit, Absent, Shaped, PlainRows
<1>3. CASE table = Absent /\ fills = {}
  BY <1>2, <1>3 DEF SurvivalInv, Shaped, PlainRows, Absent, Covers, FillsHaveRows
<1>4. CASE /\ table = [columns |-> "unowned",
                       rows |-> {Account(i, old[i], Nobody) : i \in DOMAIN old}]
           /\ fills = {[account |-> i, wallet |-> old[i], n |-> 1] : i \in DOMAIN old}
  <2>1. Shaped(table)
    <3>1. \A r \in table.rows : \E i \in DOMAIN old : r = Account(i, old[i], Nobody)
      BY <1>4
    <3>2. PlainRows(table) = table.rows
      BY <3>1, AccountRecord DEF PlainRows
    <3> QED
      BY <1>4, <3>2 DEF Shaped
  <2>2. Covers(table)
    <3> SUFFICES ASSUME NEW f \in fills PROVE \E r \in table.rows : r.id = f.account /\ r.wallet = f.wallet
      BY DEF Covers
    <3>1. PICK i \in DOMAIN old : f = [account |-> i, wallet |-> old[i], n |-> 1]
      BY <1>4
    <3>2. Account(i, old[i], Nobody) \in table.rows /\ Account(i, old[i], Nobody).id = i
          /\ Account(i, old[i], Nobody).wallet = old[i]
      BY <1>4 DEF Account
    <3> QED
      BY <3>1, <3>2
  <2> QED
    BY <1>2, <1>4, <2>1, <2>2 DEF SurvivalInv, Covers, FillsHaveRows
<1> QED
  BY <1>1, <1>3, <1>4

\* A row that takes the place of one with the same id and wallet leaves every fill
\* covered.
LEMMA ReplaceKeeps ==
  ASSUME SurvivalInv, NEW r \in table.rows, NEW q, q.id = r.id, q.wallet = r.wallet,
         q = [id |-> q.id, wallet |-> q.wallet, owner |-> q.owner, deleted |-> q.deleted],
         boot = "serve", Replace(r, q), UNCHANGED <<staging, boot, fills>>
  PROVE  SurvivalInv'
<1>1. Shaped(table)
  BY DEF SurvivalInv
<1>2. table' = [columns |-> table.columns, rows |-> (table.rows \ {r}) \cup {q}]
  BY <1>1 DEF Replace, Shaped
<1>3. Shaped(table')
  BY <1>1, <1>2 DEF Shaped, PlainRows
<1>4. \A s \in table.rows : \E t \in table'.rows : t.id = s.id /\ t.wallet = s.wallet
  BY <1>2
<1>5. FillsHaveRows'
  BY <1>4 DEF SurvivalInv, FillsHaveRows
<1> QED
  BY <1>2, <1>3, <1>5 DEF SurvivalInv

LEMMA SurvivalStart == SurvivalInv /\ AcctStart => SurvivalInv'
<1> SUFFICES ASSUME SurvivalInv, AcctStart PROVE SurvivalInv'
  OBVIOUS
<1>1. CASE Schema
  <2>1. boot = "schema" /\ UNCHANGED <<staging, fills>>
    BY <1>1 DEF Schema
  <2>2. CASE table = Absent
    <3>1. table' = New({}) /\ boot' = "serve"
      BY <1>1, <2>2 DEF Schema, New
    <3>2. Shaped(table') /\ table'.columns = "owned" /\ table.rows = {}
      BY <2>2, <3>1 DEF Shaped, PlainRows, New, Absent
    <3> QED
      BY <2>1, <3>1, <3>2 DEF SurvivalInv, FillsHaveRows
  <2>3. CASE table # Absent
    <3>1. table' = table /\ boot' = IF table.columns = "unowned" THEN "drop_staging" ELSE "serve"
      BY <1>1, <2>3 DEF Schema
    <3> QED
      BY <2>1, <2>3, <3>1 DEF SurvivalInv, FillsHaveRows, Covers
  <2> QED
    BY <2>2, <2>3
<1>2. CASE DropStaging
  BY <1>2 DEF DropStaging, MigrateStep, SurvivalInv, FillsHaveRows, Covers, Shaped, PlainRows, Absent
<1>3. CASE CreateStaging
  BY <1>3 DEF CreateStaging, MigrateStep, SurvivalInv, FillsHaveRows, Covers, Shaped, PlainRows, New
<1>4. CASE Copy
  BY <1>4 DEF Copy, MigrateStep, SurvivalInv, FillsHaveRows, Covers, Shaped, PlainRows, New
<1>5. CASE DropOld
  BY <1>5 DEF DropOld, MigrateStep, SurvivalInv, FillsHaveRows, Covers, Shaped, PlainRows, Absent
<1>6. CASE Rename
  BY <1>6 DEF Rename, MigrateStep, SurvivalInv, FillsHaveRows, Covers, Shaped, PlainRows, Absent
<1>7. CASE Restart
  BY <1>7 DEF Restart, SurvivalInv, FillsHaveRows, Covers
<1> QED
  BY <1>1, <1>2, <1>3, <1>4, <1>5, <1>6, <1>7 DEF AcctStart

LEMMA SurvivalInductive == SurvivalInv /\ [AcctNext]_acctVars => SurvivalInv'
<1> SUFFICES ASSUME SurvivalInv, [AcctNext]_acctVars PROVE SurvivalInv'
  OBVIOUS
<1>1. \A r \in table.rows : r = [id |-> r.id, wallet |-> r.wallet, owner |-> r.owner,
                                 deleted |-> r.deleted]
  BY DEF SurvivalInv, Shaped, PlainRows
<1>2. ASSUME NEW u \in User, NEW w \in Wallet, AddAccount(u, w) PROVE SurvivalInv'
  <2>1. boot = "serve" /\ UNCHANGED <<staging, boot, fills>>
    BY <1>2 DEF AddAccount
  <2>2. CASE Claim(u, w)
    <3>1. PICK r \in table.rows : Replace(r, [r EXCEPT !.owner = u])
      BY <2>2 DEF Claim, Live
    <3> DEFINE q == [id |-> r.id, wallet |-> r.wallet, owner |-> u, deleted |-> r.deleted]
    <3>2. [r EXCEPT !.owner = u] = q
      BY <1>1
    <3> QED
      BY <2>1, <3>1, <3>2, ReplaceKeeps
  <2>3. CASE Resurrect(u, w)
    <3> DEFINE b == FALSE
    <3> HIDE DEF b
    <3>1. PICK r \in table.rows : Replace(r, [r EXCEPT !.owner = u, !.deleted = b])
      BY <2>3 DEF Resurrect, Richest, Dead, b
    <3> DEFINE q == [id |-> r.id, wallet |-> r.wallet, owner |-> u, deleted |-> b]
    <3>2. [r EXCEPT !.owner = u, !.deleted = b] = q
      <4>1. r = [id |-> r.id, wallet |-> r.wallet, owner |-> r.owner, deleted |-> r.deleted]
        BY <1>1
      <4> DEFINE s == [r EXCEPT !.owner = u]
      <4>2. s = [id |-> r.id, wallet |-> r.wallet, owner |-> u, deleted |-> r.deleted]
        BY <4>1
      <4>3. [r EXCEPT !.owner = u, !.deleted = b] = [s EXCEPT !.deleted = b]
        OBVIOUS
      <4>4. [s EXCEPT !.deleted = b] = q
        <5> HIDE DEF s
        <5> QED
          BY <4>2
      <4> QED
        BY <4>3, <4>4
    <3> QED
      BY <2>1, <3>1, <3>2, ReplaceKeeps
  <2>4. CASE Insert(u, w)
    <3>1. PICK id : table' = [columns |-> table.columns, rows |-> table.rows \cup {Account(id, w, u)}]
      BY <2>4 DEF Insert, SurvivalInv, Shaped
    <3>2. PlainRows(table') = table'.rows
      BY <1>1, <3>1, AccountRecord DEF PlainRows
    <3>3. Shaped(table') /\ table'.columns = table.columns /\ table.rows \subseteq table'.rows
      BY <3>1, <3>2 DEF Shaped
    <3> QED
      BY <2>1, <3>3 DEF SurvivalInv, FillsHaveRows
  <2> QED
    BY <1>2, <2>2, <2>3, <2>4 DEF AddAccount
<1>3. ASSUME NEW u \in User, NEW r \in table.rows, DeleteAccount(u, r) PROVE SurvivalInv'
  <2> DEFINE b == TRUE
             q == [id |-> r.id, wallet |-> r.wallet, owner |-> r.owner, deleted |-> b]
  <2> HIDE DEF b
  <2>1. [r EXCEPT !.deleted = b] = q
    <3>1. r = [id |-> r.id, wallet |-> r.wallet, owner |-> r.owner, deleted |-> r.deleted]
      BY <1>1
    <3> QED
      BY <3>1
  <2>2. boot = "serve" /\ UNCHANGED <<staging, boot, fills>> /\ Replace(r, q)
    BY <1>3, <2>1 DEF DeleteAccount, b
  <2> QED
    BY <2>2, ReplaceKeeps
<1>4. ASSUME NEW r \in table.rows, InsertFills(r) PROVE SurvivalInv'
  <2>1. boot = "serve" /\ UNCHANGED <<table, staging, boot>>
    BY <1>4 DEF InsertFills
  <2>2. \A f \in fills' : f \in fills \/ (f.account = r.id /\ f.wallet = r.wallet)
    BY <1>4 DEF InsertFills
  <2> QED
    BY <2>1, <2>2 DEF SurvivalInv, FillsHaveRows
<1>5. ASSUME NEW w \in Wallet, Trade(w) PROVE SurvivalInv'
  BY <1>5 DEF Trade, SurvivalInv, FillsHaveRows, Covers
<1>6. CASE UNCHANGED acctVars
  BY <1>6 DEF acctVars, SurvivalInv, FillsHaveRows, Covers
<1> QED
  BY <1>2, <1>3, <1>4, <1>5, <1>6, SurvivalStart DEF AcctNext

\* What keeps a wallet from appearing twice in somebody's list: no two rows of one
\* owner, and nothing beside an unclaimed row.
NoTwice(rows) ==
    /\ \A r, q \in rows : r.id = q.id => r = q
    /\ \A r, q \in rows : r.wallet = q.wallet /\ r.owner = q.owner => r = q
    /\ \A r, q \in rows :
          r.wallet = q.wallet /\ r.owner = Nobody /\ ~r.deleted /\ ~q.deleted => r = q

SeenInv == SurvivalInv /\ NoTwice(table.rows) /\ NoTwice(staging.rows)

LEMMA NoTwiceEmpty == NoTwice({})
  BY DEF NoTwice

LEMMA NoTwiceReplace ==
  ASSUME NEW rows, NoTwice(rows), NEW r \in rows, NEW q, q.id = r.id,
         \A x \in rows \ {r} : ~(x.wallet = q.wallet /\ x.owner = q.owner),
         \A x \in rows \ {r} : x.wallet = q.wallet /\ ~x.deleted /\ ~q.deleted
                                  => x.owner # Nobody /\ q.owner # Nobody
  PROVE  NoTwice((rows \ {r}) \cup {q})
  BY DEF NoTwice

LEMMA SeenInitInv == AcctInit => NoTwice(table.rows) /\ NoTwice(staging.rows)
<1> SUFFICES ASSUME AcctInit PROVE NoTwice(table.rows) /\ NoTwice(staging.rows)
  OBVIOUS
<1>0. PICK old \in [1..Cardinality(Legacy) -> Legacy] :
         /\ \A i, j \in DOMAIN old : i # j => old[i] # old[j]
         /\ \/ table = Absent /\ fills = {}
            \/ /\ table = [columns |-> "unowned",
                           rows |-> {Account(i, old[i], Nobody) : i \in DOMAIN old}]
               /\ fills = {[account |-> i, wallet |-> old[i], n |-> 1] : i \in DOMAIN old}
  BY DEF AcctInit
<1>1. /\ \A i, j \in DOMAIN old : i # j => old[i] # old[j]
      /\ table = Absent \/ table.rows = {Account(i, old[i], Nobody) : i \in DOMAIN old}
  BY <1>0
<1>2. NoTwice(staging.rows) /\ NoTwice(Absent.rows)
  BY NoTwiceEmpty DEF AcctInit, Absent
<1>3. CASE table.rows = {Account(i, old[i], Nobody) : i \in DOMAIN old}
  <2>1. \A i : Account(i, old[i], Nobody).id = i /\ Account(i, old[i], Nobody).wallet = old[i]
    BY DEF Account
  <2>2. \A r \in table.rows : r.id \in DOMAIN old /\ r = Account(r.id, old[r.id], Nobody)
                              /\ r.wallet = old[r.id]
    BY <1>3, <2>1
  <2>3. \A r, q \in table.rows : r.wallet = q.wallet => r.id = q.id
    BY <1>1, <2>2
  <2>4. \A r, q \in table.rows : r.id = q.id => r = q
    BY <2>2
  <2> QED
    BY <1>2, <2>3, <2>4 DEF NoTwice
<1> QED
  BY <1>1, <1>2, <1>3

LEMMA SeenInductive == SeenInv /\ [AcctNext]_acctVars => SeenInv'
<1> SUFFICES ASSUME SeenInv, [AcctNext]_acctVars PROVE SeenInv'
  OBVIOUS
<1>1. SurvivalInv'
  BY SurvivalInductive DEF SeenInv
<1>2. \A r \in table.rows : r = [id |-> r.id, wallet |-> r.wallet, owner |-> r.owner,
                                 deleted |-> r.deleted]
  BY DEF SeenInv, SurvivalInv, Shaped, PlainRows
<1> SUFFICES NoTwice(table'.rows) /\ NoTwice(staging'.rows)
  BY <1>1 DEF SeenInv
<1>3. CASE UNCHANGED <<table, staging>>
  BY <1>3 DEF SeenInv
<1>4. CASE AcctStart
  <2>1. CASE Schema
    BY <2>1, NoTwiceEmpty DEF Schema, New, SeenInv
  <2>2. CASE DropStaging \/ CreateStaging \/ DropOld
    BY <2>2, NoTwiceEmpty DEF DropStaging, CreateStaging, DropOld, Absent, New, SeenInv
  <2>3. CASE Copy
    BY <2>3 DEF Copy, New, SeenInv
  <2>4. CASE Rename
    BY <2>4, NoTwiceEmpty DEF Rename, Absent, SeenInv
  <2>5. CASE Restart
    BY <1>3, <2>5 DEF Restart
  <2> QED
    BY <1>4, <2>1, <2>2, <2>3, <2>4, <2>5 DEF AcctStart
<1>5. ASSUME NEW r \in table.rows, NEW q, Replace(r, q), UNCHANGED staging, q.id = r.id,
             \A x \in table.rows \ {r} : ~(x.wallet = q.wallet /\ x.owner = q.owner),
             \A x \in table.rows \ {r} : x.wallet = q.wallet /\ ~x.deleted /\ ~q.deleted
                                           => x.owner # Nobody /\ q.owner # Nobody
      PROVE  NoTwice(table'.rows) /\ NoTwice(staging'.rows)
  <2>1. table'.rows = (table.rows \ {r}) \cup {q}
    BY <1>5 DEF Replace, SeenInv, SurvivalInv, Shaped
  <2> QED
    BY <1>5, <2>1, NoTwiceReplace DEF SeenInv
<1>6. ASSUME NEW u \in User, NEW w \in Wallet, AddAccount(u, w)
      PROVE  NoTwice(table'.rows) /\ NoTwice(staging'.rows)
  <2>1. UNCHANGED staging /\ u # Nobody
    BY <1>6, NobodyAssumption DEF AddAccount
  <2>2. ASSUME NEW r \in table.rows, r.wallet = w, ~Clash(r, u),
               NEW x \in table.rows \ {r}
        PROVE  ~(x.wallet = w /\ x.owner = u)
    BY <2>2 DEF Clash, SeenInv, NoTwice
  <2>3. CASE Claim(u, w)
    <3>1. PICK r \in table.rows : /\ r.wallet = w /\ ~r.deleted /\ r.owner = Nobody /\ ~Clash(r, u)
                                  /\ Replace(r, [r EXCEPT !.owner = u])
      BY <2>3 DEF Claim, Live
    <3> DEFINE q == [id |-> r.id, wallet |-> r.wallet, owner |-> u, deleted |-> r.deleted]
    <3>2. [r EXCEPT !.owner = u] = q
      BY <1>2
    <3>3. q.id = r.id /\ q.wallet = w /\ q.owner = u
      BY <3>1
    <3>4. Replace(r, q)
      BY <3>1, <3>2
    <3> HIDE DEF q
    <3>5. \A x \in table.rows \ {r} : ~(x.wallet = w /\ x.owner = u)
      BY <2>2, <3>1
    <3>6. \A x \in table.rows \ {r} : x.wallet = w /\ ~x.deleted => x.owner # Nobody
      BY <3>1 DEF SeenInv, NoTwice
    <3> QED
      BY <1>5, <2>1, <3>3, <3>4, <3>5, <3>6
  <2>4. CASE Resurrect(u, w)
    <3> DEFINE b == FALSE
    <3> HIDE DEF b
    <3>1. PICK r \in table.rows : /\ r.wallet = w /\ r.deleted /\ ~Clash(r, u)
                                  /\ Replace(r, [r EXCEPT !.owner = u, !.deleted = b])
      BY <2>4 DEF Resurrect, Richest, Dead, b
    <3> DEFINE q == [id |-> r.id, wallet |-> r.wallet, owner |-> u, deleted |-> b]
    <3>2. [r EXCEPT !.owner = u, !.deleted = b] = q
      <4>1. r = [id |-> r.id, wallet |-> r.wallet, owner |-> r.owner, deleted |-> r.deleted]
        BY <1>2
      <4> DEFINE s == [r EXCEPT !.owner = u]
      <4>2. s = [id |-> r.id, wallet |-> r.wallet, owner |-> u, deleted |-> r.deleted]
        BY <4>1
      <4>3. [r EXCEPT !.owner = u, !.deleted = b] = [s EXCEPT !.deleted = b]
        OBVIOUS
      <4>4. [s EXCEPT !.deleted = b] = q
        <5> HIDE DEF s
        <5> QED
          BY <4>2
      <4> QED
        BY <4>3, <4>4
    <3>3. q.id = r.id /\ q.wallet = w /\ q.owner = u
      BY <3>1
    <3>4. Replace(r, q)
      BY <3>1, <3>2
    <3> HIDE DEF q
    <3>5. \A x \in table.rows \ {r} : ~(x.wallet = w /\ x.owner = u)
      BY <2>2, <3>1
    <3>6. \A x \in table.rows : x.wallet = w /\ ~x.deleted => x.owner # Nobody
      BY <2>4 DEF Resurrect, Live
    <3> QED
      BY <1>5, <2>1, <3>3, <3>4, <3>5, <3>6
  <2>5. CASE Insert(u, w)
    <3>1. PICK id \in 1..MaxRows :
             NextId(id) /\ table' = [table EXCEPT !.rows = @ \cup {Account(id, w, u)}]
      BY <2>5 DEF Insert
    <3> DEFINE q == Account(id, w, u)
    <3>2. q.id = id /\ q.wallet = w /\ q.owner = u
      BY DEF Account
    <3>3. table'.rows = table.rows \cup {q}
      BY <3>1 DEF SeenInv, SurvivalInv, Shaped
    <3> HIDE DEF q
    <3>4. \A x \in table.rows : x.id # id
      BY <3>1 DEF NextId
    <3>5. \A x \in table.rows : x.wallet = w => x.owner # u /\ x.owner # Nobody
      BY <2>5 DEF Insert, Live, Dead
    <3> QED
      BY <2>1, <3>2, <3>3, <3>4, <3>5 DEF SeenInv, NoTwice
  <2> QED
    BY <1>6, <2>3, <2>4, <2>5 DEF AddAccount
<1>7. ASSUME NEW u \in User, NEW r \in table.rows, DeleteAccount(u, r)
      PROVE  NoTwice(table'.rows) /\ NoTwice(staging'.rows)
  <2> DEFINE b == TRUE
             q == [id |-> r.id, wallet |-> r.wallet, owner |-> r.owner, deleted |-> b]
  <2>1. q.deleted
    OBVIOUS
  <2> HIDE DEF b
  <2>2. [r EXCEPT !.deleted = b] = q
    <3>1. r = [id |-> r.id, wallet |-> r.wallet, owner |-> r.owner, deleted |-> r.deleted]
      BY <1>2
    <3> QED
      BY <3>1
  <2>3. UNCHANGED staging /\ Replace(r, q)
    BY <1>7, <2>2 DEF DeleteAccount, b
  <2>4. q.id = r.id /\ q.wallet = r.wallet /\ q.owner = r.owner
    OBVIOUS
  <2> HIDE DEF q
  <2>5. \A x \in table.rows \ {r} : ~(x.wallet = q.wallet /\ x.owner = q.owner)
    BY <2>4 DEF SeenInv, NoTwice
  <2> QED
    BY <1>5, <2>1, <2>3, <2>4, <2>5
<1>8. ASSUME NEW r \in table.rows, InsertFills(r)
      PROVE  NoTwice(table'.rows) /\ NoTwice(staging'.rows)
  BY <1>3, <1>8 DEF InsertFills
<1>9. ASSUME NEW w \in Wallet, Trade(w) PROVE NoTwice(table'.rows) /\ NoTwice(staging'.rows)
  BY <1>3, <1>9 DEF Trade
<1> QED
  BY <1>3, <1>4, <1>6, <1>7, <1>8, <1>9 DEF AcctNext, acctVars

\* traders/api.list_accounts: however several users claim, delete and bring back a
\* wallet, nobody finds it twice among the rows he sees.
THEOREM SeenOnceCorrect == AcctSpec => []SeenOnce
<1>1. SeenInv => SeenOnce
  <2> SUFFICES ASSUME SeenInv, NEW u \in User, NEW w \in Wallet
               PROVE  Cardinality({r \in Live(w) : r.owner \in {u, Nobody}}) <= 1
    BY DEF SeenOnce
  <2> DEFINE seen == {r \in Live(w) : r.owner \in {u, Nobody}}
  <2>1. \A r, q \in seen : r = q
    BY DEF SeenInv, NoTwice, Live
  <2> HIDE DEF seen
  <2>3. ASSUME NEW r \in seen PROVE Cardinality(seen) <= 1
    <3>1. seen = {r}
      BY <2>1, <2>3
    <3>2. Cardinality(seen) = 1
      BY <3>1, FS_Singleton
    <3> QED
      BY <3>2
  <2>4. Cardinality(seen) <= 1
    <3>1. CASE seen = {}
      <4>1. Cardinality(seen) = 0
        BY <3>1, FS_EmptySet
      <4> QED
        BY <4>1
    <3> QED
      BY <2>3, <3>1
  <2> QED
    BY <2>4 DEF seen
<1>2. AcctInit => SeenInv
  BY SurvivalInit, SeenInitInv DEF SeenInv
<1> QED
  BY <1>1, <1>2, SeenInductive, PTL DEF AcctSpec

\* traders/store._migrate_owner_column: wherever starts are cut off, and whatever is
\* claimed, deleted and brought back later, every stored fill has a row of its account
\* and its wallet, and refers to no other wallet's unless a start was cut off between
\* DROP and RENAME.
THEOREM AccountsSurviveCorrect == AcctSpec => []AccountsSurvive
<1>1. SeenInv => AccountsSurvive
  <2> SUFFICES ASSUME SeenInv PROVE AccountsSurvive
    OBVIOUS
  <2>1. FillsHaveRows /\ \A r, q \in table.rows : r.id = q.id => r = q
    BY DEF SeenInv, SurvivalInv, NoTwice
  <2>2. staging = Absent => staging.rows = {}
    BY DEF Absent
  <2> QED
    BY <2>1, <2>2 DEF FillsHaveRows, AccountsSurvive
<1>2. AcctInit => SeenInv
  BY SurvivalInit, SeenInitInv DEF SeenInv
<1> QED
  BY <1>1, <1>2, SeenInductive, PTL DEF AcctSpec

\* The rows of both tables keep their types through every rebuild.
LEMMA AcctTypesInit == AcctInit => AcctTypeOK
<1> SUFFICES ASSUME AcctInit PROVE AcctTypeOK
  OBVIOUS
<1>1. PICK old \in [1..Cardinality(Legacy) -> Legacy] :
         \/ table = Absent /\ fills = {}
         \/ /\ table = [columns |-> "unowned",
                        rows |-> {Account(i, old[i], Nobody) : i \in DOMAIN old}]
            /\ fills = {[account |-> i, wallet |-> old[i], n |-> 1] : i \in DOMAIN old}
  BY DEF AcctInit
<1>2. /\ staging = Absent /\ boot = "schema" /\ traded \in [Wallet -> Nat]
      /\ Absent.columns = "none" /\ Absent.rows = {}
  BY DEF AcctInit, Absent
<1>3. \A i \in DOMAIN old : i \in Nat \ {0} /\ old[i] \in Wallet
  <2>1. Cardinality(Legacy) \in Nat
    BY LegacyAssumption, FS_CardinalityType
  <2> QED
    BY <2>1, LegacyAssumption
<1>4. CASE table = Absent /\ fills = {}
  BY <1>2, <1>4 DEF AcctTypeOK
<1>5. CASE /\ table = [columns |-> "unowned",
                       rows |-> {Account(i, old[i], Nobody) : i \in DOMAIN old}]
           /\ fills = {[account |-> i, wallet |-> old[i], n |-> 1] : i \in DOMAIN old}
  <2>1. table.rows \subseteq AccountRow
    <3>1. \A i \in DOMAIN old : Account(i, old[i], Nobody) \in AccountRow
      BY <1>3 DEF Account, AccountRow
    <3>2. \A r \in table.rows : \E i \in DOMAIN old : r = Account(i, old[i], Nobody)
      BY <1>5
    <3> QED
      BY <3>1, <3>2
  <2>2. fills \subseteq [account : Nat \ {0}, wallet : Wallet, n : Nat]
    BY <1>3, <1>5
  <2> QED
    BY <1>2, <1>5, <2>1, <2>2 DEF AcctTypeOK
<1> QED
  BY <1>1, <1>4, <1>5

AcctShapeInv == AcctTypeOK /\ SurvivalInv

LEMMA AcctTypes == AcctShapeInv /\ [AcctNext]_acctVars => AcctTypeOK'
<1> SUFFICES ASSUME AcctTypeOK, SurvivalInv, [AcctNext]_acctVars PROVE AcctTypeOK'
  BY DEF AcctShapeInv
<1>0. /\ table = [columns |-> table.columns, rows |-> table.rows]
      /\ Absent.columns = "none" /\ Absent.rows = {}
      /\ \A s : New(s).columns = "owned" /\ New(s).rows = s
  BY DEF SurvivalInv, Shaped, PlainRows, Absent, New
<1>1. ASSUME NEW r \in table.rows, NEW q \in AccountRow, Replace(r, q),
             UNCHANGED <<staging, boot, fills, traded>>
      PROVE  AcctTypeOK'
  <2>1. table' = [columns |-> table.columns, rows |-> (table.rows \ {r}) \cup {q}]
    BY <1>0, <1>1 DEF Replace
  <2>2. table'.columns = table.columns /\ table'.rows \subseteq AccountRow
    BY <1>1, <2>1 DEF AcctTypeOK
  <2> QED
    BY <1>1, <2>2 DEF AcctTypeOK
<1>2. ASSUME NEW u \in User, NEW w \in Wallet, AddAccount(u, w) PROVE AcctTypeOK'
  <2>1. UNCHANGED <<staging, boot, fills, traded>>
    BY <1>2 DEF AddAccount
  <2>2. CASE Claim(u, w)
    <3>1. PICK r \in table.rows : Replace(r, [r EXCEPT !.owner = u])
      BY <2>2 DEF Claim, Live
    <3>2. [r EXCEPT !.owner = u] \in AccountRow
      BY DEF AcctTypeOK, AccountRow
    <3> QED
      BY <1>1, <2>1, <3>1, <3>2
  <2>3. CASE Resurrect(u, w)
    <3>1. PICK r \in table.rows : Replace(r, [r EXCEPT !.owner = u, !.deleted = FALSE])
      BY <2>3 DEF Resurrect, Richest, Dead
    <3>2. [r EXCEPT !.owner = u, !.deleted = FALSE] \in AccountRow
      BY DEF AcctTypeOK, AccountRow
    <3> QED
      BY <1>1, <2>1, <3>1, <3>2
  <2>4. CASE Insert(u, w)
    <3>1. PICK id \in 1..MaxRows :
             table' = [columns |-> table.columns, rows |-> table.rows \cup {Account(id, w, u)}]
      BY <1>0, <2>4 DEF Insert
    <3>2. id \in Nat \ {0}
      OBVIOUS
    <3>3. Account(id, w, u) \in AccountRow
      BY <3>2 DEF Account, AccountRow
    <3>4. table'.columns = table.columns /\ table'.rows = table.rows \cup {Account(id, w, u)}
      BY <3>1
    <3> QED
      BY <2>1, <3>3, <3>4 DEF AcctTypeOK
  <2> QED
    BY <1>2, <2>2, <2>3, <2>4 DEF AddAccount
<1>3. ASSUME NEW u \in User, NEW r \in table.rows, DeleteAccount(u, r) PROVE AcctTypeOK'
  <2>1. UNCHANGED <<staging, boot, fills, traded>> /\ Replace(r, [r EXCEPT !.deleted = TRUE])
    BY <1>3 DEF DeleteAccount
  <2>2. [r EXCEPT !.deleted = TRUE] \in AccountRow
    BY DEF AcctTypeOK, AccountRow
  <2> QED
    BY <1>1, <2>1, <2>2
<1>4. ASSUME NEW r \in table.rows, InsertFills(r) PROVE AcctTypeOK'
  <2>1. r.id \in Nat \ {0} /\ r.wallet \in Wallet
    BY DEF AcctTypeOK, AccountRow
  <2>2. UNCHANGED <<table, staging, boot, traded>>
    BY <1>4 DEF InsertFills
  <2> DEFINE seen == (traded[r.wallet] - Window + 1)..traded[r.wallet]
  <2>3. fills' = fills \cup {[account |-> r.id, wallet |-> r.wallet, n |-> i] :
                              i \in {i \in seen : i > 0}}
    BY <1>4 DEF InsertFills
  <2>4. \A i \in {i \in seen : i > 0} : i \in Nat
    OBVIOUS
  <2> HIDE DEF seen
  <2>5. fills' \subseteq [account : Nat \ {0}, wallet : Wallet, n : Nat]
    BY <2>1, <2>3, <2>4 DEF AcctTypeOK
  <2> QED
    BY <2>2, <2>5 DEF AcctTypeOK
<1>5. ASSUME NEW w \in Wallet, Trade(w) PROVE AcctTypeOK'
  BY <1>5 DEF Trade, AcctTypeOK
<1>6. CASE UNCHANGED acctVars
  BY <1>6 DEF acctVars, AcctTypeOK
<1>7. CASE Schema
  <2>1. /\ table' = IF table = Absent THEN New({}) ELSE table
        /\ boot' \in {"drop_staging", "serve"} /\ UNCHANGED <<staging, fills, traded>>
    BY <1>7 DEF Schema
  <2> QED
    BY <1>0, <2>1 DEF AcctTypeOK
<1>8. CASE DropStaging
  BY <1>0, <1>8 DEF DropStaging, MigrateStep, AcctTypeOK
<1>9. CASE CreateStaging
  BY <1>0, <1>9 DEF CreateStaging, MigrateStep, AcctTypeOK
<1>10. CASE Copy
  BY <1>0, <1>10 DEF Copy, MigrateStep, AcctTypeOK
<1>11. CASE DropOld
  BY <1>0, <1>11 DEF DropOld, MigrateStep, AcctTypeOK
<1>12. CASE Rename
  BY <1>0, <1>12 DEF Rename, MigrateStep, AcctTypeOK
<1>13. CASE Restart
  BY <1>13 DEF Restart, AcctTypeOK
<1> QED
  BY <1>2, <1>3, <1>4, <1>5, <1>6, <1>7, <1>8, <1>9, <1>10, <1>11, <1>12, <1>13
     DEF AcctNext, AcctStart

-----------------------------------------------------------------------------
(***************************************************************************)
(* TraderSync.  A fill that a match has not seen was stored after the      *)
(* match began, and a match ends within Latency.                           *)
(***************************************************************************)
ClockInv ==
    /\ clock \in Nat /\ cache.since \in Nat /\ match.since \in Nat
    /\ match = [step |-> match.step, since |-> match.since, fills |-> match.fills]
    /\ cache = [step |-> cache.step, since |-> cache.since, fills |-> cache.fills]
    /\ \A f \in DOMAIN kept : /\ DOMAIN kept[f] = {"role", "fee", "at"}
                              /\ kept[f].at \in Nat /\ kept[f].at <= clock

MatchIsShort ==
    match # NoMatch => match.since <= clock /\ clock <= match.since + Latency

MatchLacksNew == match.step = "resolve" =>
    \A f \in DOMAIN kept \ match.fills : kept[f].at >= match.since

CacheLacksNew == cache # NoMatch =>
    /\ cache.since <= clock
    /\ \A f \in DOMAIN kept \ cache.fills : kept[f].at >= cache.since - Latency

RecentInv == ClockInv /\ MatchIsShort /\ MatchLacksNew /\ CacheLacksNew

LEMMA RecentInit == SyncInit => RecentInv
  BY DEF SyncInit, RecentInv, ClockInv, MatchIsShort, MatchLacksNew, CacheLacksNew, NoMatch

\* What a sync stores is as old as the clock; what was stored keeps its moment.
LEMMA SavedMoments ==
  ASSUME ClockInv, NEW s, NEW answered, SaveFills(s, answered)
  PROVE  \A f \in DOMAIN kept' :
            /\ DOMAIN kept'[f] = {"role", "fee", "at"}
            /\ kept'[f].at = IF f \in DOMAIN kept THEN kept[f].at ELSE clock
<1> SUFFICES ASSUME NEW f \in DOMAIN kept'
             PROVE  /\ DOMAIN kept'[f] = {"role", "fee", "at"}
                    /\ kept'[f].at = IF f \in DOMAIN kept THEN kept[f].at ELSE clock
  OBVIOUS
<1>1. CASE f \notin DOMAIN kept
  <2>1. kept'[f] = [role |-> Role(s, f), fee |-> Fee(s, f, answered), at |-> clock]
    BY <1>1 DEF SaveFills
  <2> QED
    BY <1>1, <2>1
<1>2. CASE f \in DOMAIN kept
  <2>1. \/ kept'[f] = [kept[f] EXCEPT !.fee = Fee(s, f, answered)]
        \/ kept'[f] = kept[f]
    BY <1>2 DEF SaveFills
  <2> QED
    BY <1>2, <2>1 DEF ClockInv
<1> QED
  BY <1>1, <1>2

LEMMA RecentInductive == RecentInv /\ [SyncNext]_syncVars => RecentInv'
<1> SUFFICES ASSUME RecentInv, [SyncNext]_syncVars PROVE RecentInv'
  OBVIOUS
<1> USE SyncTimeAssumption DEF RecentInv
<1>1. CASE UNCHANGED <<clock, kept, cache, match>>
  BY <1>1 DEF ClockInv, MatchIsShort, MatchLacksNew, CacheLacksNew
<1>2. ASSUME NEW s \in Syncer, SyncEnd(s) PROVE RecentInv'
  <2>1. cache' = NoMatch /\ UNCHANGED clock /\ UNCHANGED match
    BY <1>2 DEF SyncEnd
  <2>2. \A f \in DOMAIN kept' :
            /\ DOMAIN kept'[f] = {"role", "fee", "at"}
            /\ kept'[f].at = IF f \in DOMAIN kept THEN kept[f].at ELSE clock
    BY <1>2, SavedMoments DEF SyncEnd
  <2>3. ClockInv'
    <3>1. \A f \in DOMAIN kept' : kept'[f].at \in Nat /\ kept'[f].at <= clock
      BY <2>2 DEF ClockInv
    <3> QED
      BY <2>1, <2>2, <3>1 DEF ClockInv, NoMatch
  <2>4. MatchIsShort' /\ CacheLacksNew'
    BY <2>1 DEF MatchIsShort, CacheLacksNew
  <2>5. MatchLacksNew'
    <3> SUFFICES ASSUME match.step = "resolve", NEW f \in DOMAIN kept' \ match.fills
                 PROVE  kept'[f].at >= match.since
      BY <2>1 DEF MatchLacksNew
    <3>1. match # NoMatch
      BY DEF NoMatch
    <3>2. CASE f \in DOMAIN kept
      BY <2>2, <3>2 DEF MatchLacksNew
    <3>3. CASE f \notin DOMAIN kept
      BY <2>2, <3>1, <3>3 DEF MatchIsShort, ClockInv
    <3> QED
      BY <3>2, <3>3
  <2> QED
    BY <2>3, <2>4, <2>5
<1>3. CASE MatchBegin
  <2>1. match' = [step |-> "positions", since |-> clock, fills |-> {}]
        /\ UNCHANGED <<clock, kept, cache>>
    BY <1>3 DEF MatchBegin, NoMatch
  <2> QED
    BY <2>1 DEF ClockInv, MatchIsShort, MatchLacksNew, CacheLacksNew
<1>4. CASE FillsFor
  <2>1. /\ match' = [step |-> "resolve", since |-> match.since, fills |-> DOMAIN kept]
        /\ match.step = "positions" /\ UNCHANGED <<clock, kept, cache>>
    BY <1>4 DEF FillsFor, ClockInv
  <2>2. match # NoMatch
    BY <2>1 DEF NoMatch
  <2> QED
    BY <2>1, <2>2 DEF ClockInv, MatchIsShort, MatchLacksNew, CacheLacksNew
<1>5. CASE MatchEnd
  <2>1. /\ cache' = [step |-> match.step, since |-> clock, fills |-> match.fills]
        /\ match.step = "resolve" /\ match' = NoMatch /\ UNCHANGED <<clock, kept>>
    BY <1>5 DEF MatchEnd, ClockInv
  <2>2. match # NoMatch
    BY <2>1 DEF NoMatch
  <2>3. CacheLacksNew'
    <3>1. \A f \in DOMAIN kept \ match.fills : kept[f].at >= clock - Latency
      BY <2>1, <2>2 DEF MatchLacksNew, MatchIsShort, ClockInv
    <3> QED
      BY <2>1, <3>1 DEF CacheLacksNew, ClockInv
  <2> QED
    BY <2>1, <2>3 DEF ClockInv, MatchIsShort, MatchLacksNew, NoMatch
<1>6. CASE MatchFails
  BY <1>6 DEF MatchFails, ClockInv, MatchIsShort, MatchLacksNew, CacheLacksNew, NoMatch
<1>7. CASE Second
  <2>1. clock' = clock + 1 /\ UNCHANGED <<kept, cache, match>>
        /\ (match # NoMatch => clock - match.since < Latency)
    BY <1>7 DEF Second
  <2>2. ClockInv'
    BY <2>1 DEF ClockInv
  <2>3. MatchIsShort' /\ MatchLacksNew' /\ CacheLacksNew'
    BY <2>1 DEF ClockInv, MatchIsShort, MatchLacksNew, CacheLacksNew
  <2> QED
    BY <2>2, <2>3
<1> QED
  BY <1>1, <1>2, <1>3, <1>4, <1>5, <1>6, <1>7
     DEF SyncNext, syncVars, MatchStep, SyncBegin, ReadTaker, ReadEvery, SyncFails, View,
         ServedByOther, NewFill

\* traders/service.matched: whatever syncs empty the cache while a match runs, a
\* result in use lacks no fill older than one match and one lifetime of the cache.
THEOREM MatchIsRecentCorrect == SyncSpec => []MatchIsRecent
<1>1. RecentInv => MatchIsRecent
  <2> SUFFICES ASSUME RecentInv, Usable, NEW f \in DOMAIN kept \ cache.fills
               PROVE  clock - kept[f].at <= MatchTtl + Latency
    BY DEF MatchIsRecent
  <2>1. cache # NoMatch /\ clock - cache.since < MatchTtl
    BY DEF Usable
  <2>2. kept[f].at >= cache.since - Latency /\ kept[f].at \in Nat
    BY <2>1 DEF RecentInv, CacheLacksNew, ClockInv
  <2> QED
    BY <2>1, <2>2, SyncTimeAssumption DEF RecentInv, ClockInv
<1> QED
  BY <1>1, RecentInit, RecentInductive, PTL DEF SyncSpec

\* A match has its caller at the head of the queue.
HeldInv == SyncTypeOK /\ (match # NoMatch => queue # <<>>)

KeptRow == [role : {"maker", "taker"}, fee : {"exact", "schedule", "zero"}, at : Nat]

LEMMA HeldInit == SyncInit => HeldInv
  BY SyncTimeAssumption DEF SyncInit, HeldInv, SyncTypeOK, NoSync, NoMatch, Matching

LEMMA SavedRows ==
  ASSUME SyncTypeOK, NEW s \in Syncer, NEW answered \in BOOLEAN, SaveFills(s, answered)
  PROVE  DOMAIN kept' \subseteq Fill /\ \A f \in DOMAIN kept' : kept'[f] \in KeptRow
<1>1. sync[s].every \subseteq Fill
  BY DEF SyncTypeOK
<1>2. DOMAIN kept' = DOMAIN kept \cup sync[s].every
  BY DEF SaveFills
<1>3. ASSUME NEW f \in DOMAIN kept' PROVE kept'[f] \in KeptRow
  <2>1. Fee(s, f, answered) \in {"exact", "schedule", "zero"} /\ Role(s, f) \in {"maker", "taker"}
    BY DEF Fee, Role
  <2>2. CASE f \notin DOMAIN kept
    <3>1. kept'[f] = [role |-> Role(s, f), fee |-> Fee(s, f, answered), at |-> clock]
      BY <2>2 DEF SaveFills
    <3> QED
      BY <2>1, <3>1 DEF KeptRow, SyncTypeOK
  <2>3. CASE f \in DOMAIN kept
    <3>1. kept[f] \in KeptRow
      BY <2>3 DEF SyncTypeOK, KeptRow
    <3>2. \/ kept'[f] = [kept[f] EXCEPT !.fee = Fee(s, f, answered)]
          \/ kept'[f] = kept[f]
      BY <2>3 DEF SaveFills
    <3> QED
      BY <2>1, <3>1, <3>2 DEF KeptRow
  <2> QED
    BY <2>2, <2>3
<1> QED
  BY <1>1, <1>2, <1>3 DEF SyncTypeOK

LEMMA HeldInductive == HeldInv /\ [SyncNext]_syncVars => HeldInv'
<1> SUFFICES ASSUME HeldInv, [SyncNext]_syncVars PROVE HeldInv'
  OBVIOUS
<1> USE SyncTimeAssumption DEF HeldInv
<1>1. ASSUME NEW s \in Syncer, SyncBegin(s) PROVE HeldInv'
  BY <1>1 DEF SyncBegin, SyncTypeOK
<1>2. ASSUME NEW s \in Syncer, ReadTaker(s) PROVE HeldInv'
  <2>1. Taker \cap 1..made \in SUBSET Fill
    BY DEF Fill
  <2> QED
    BY <1>2, <2>1 DEF ReadTaker, SyncTypeOK
<1>3. ASSUME NEW s \in Syncer, ReadEvery(s) PROVE HeldInv'
  <2>1. 1..made \in SUBSET Fill
    BY DEF Fill, SyncTypeOK
  <2> QED
    BY <1>3, <2>1 DEF ReadEvery, SyncTypeOK
<1>4. ASSUME NEW s \in Syncer, SyncEnd(s) PROVE HeldInv'
  <2>1. DOMAIN kept' \subseteq Fill /\ \A f \in DOMAIN kept' : kept'[f] \in KeptRow
    BY <1>4, SavedRows DEF SyncEnd
  <2>2. cache' \in Matching
    BY <1>4 DEF SyncEnd, NoMatch, Matching
  <2>3. UNCHANGED <<clock, made, queue, match>>
    BY <1>4 DEF SyncEnd
  <2>4. sync' \in [Syncer -> [step : {"none", "taker", "every", "fees"},
                              taker : SUBSET Fill, every : SUBSET Fill]]
    BY <1>4 DEF SyncEnd, NoSync, SyncTypeOK
  <2> QED
    BY <2>1, <2>2, <2>3, <2>4 DEF SyncTypeOK, KeptRow, Matching
<1>5. ASSUME NEW s \in Syncer, SyncFails(s) PROVE HeldInv'
  BY <1>5 DEF SyncFails, SyncTypeOK, NoSync
<1>6. ASSUME NEW v \in Viewer, View(v) PROVE HeldInv'
  BY <1>6 DEF View, SyncTypeOK
<1>7. CASE ServedByOther
  BY <1>7 DEF ServedByOther, SyncTypeOK
<1>8. CASE MatchBegin
  BY <1>8 DEF MatchBegin, SyncTypeOK, NoMatch, Matching
<1>9. CASE FillsFor
  <2>1. match # NoMatch
    BY <1>9 DEF FillsFor, NoMatch
  <2>2. match' \in Matching
    BY <1>9 DEF FillsFor, SyncTypeOK, Matching
  <2> QED
    BY <1>9, <2>1, <2>2 DEF FillsFor, SyncTypeOK
<1>10. CASE MatchEnd
  <2>1. match # NoMatch /\ NoMatch \in Matching
    BY <1>10 DEF MatchEnd, NoMatch, Matching
  <2>2. cache' \in Matching
    BY <1>10 DEF MatchEnd, SyncTypeOK, Matching
  <2> QED
    BY <1>10, <2>1, <2>2 DEF MatchEnd, SyncTypeOK
<1>11. CASE MatchFails
  <2>1. match # NoMatch /\ NoMatch \in Matching
    BY <1>11 DEF MatchFails, NoMatch, Matching
  <2> QED
    BY <1>11, <2>1 DEF MatchFails, SyncTypeOK
<1>12. CASE NewFill
  BY <1>12 DEF NewFill, SyncTypeOK
<1>13. CASE Second
  BY <1>13 DEF Second, SyncTypeOK
<1>14. CASE UNCHANGED syncVars
  BY <1>14 DEF syncVars, SyncTypeOK
<1> QED
  BY <1>1, <1>2, <1>3, <1>4, <1>5, <1>6, <1>7, <1>8, <1>9, <1>10, <1>11, <1>12, <1>13, <1>14
     DEF SyncNext, MatchStep

-----------------------------------------------------------------------------
(***************************************************************************)
(* Sums.  The folds of the community modules are recursive functions on    *)
(* the subsets of a set; the sum of the values of a function is defined    *)
(* here without recursion, by counting units, and every such function is   *)
(* shown to compute it, in whatever order it takes the elements.           *)
(***************************************************************************)

\* Induction over the subsets of a finite set, as the choice of a smallest one.
LEMMA SmallestSubset ==
  ASSUME NEW S, IsFiniteSet(S), NEW B \in SUBSET (SUBSET S), B # {}
  PROVE  \E T \in B : \A U \in B : U \subseteq T => U = T
<1>1. IsWellFoundedOn(StrictSubsetOrdering(S), FiniteSubsetsOf(S))
  BY FS_StrictSubsetOrderingWellFounded
<1>2. FiniteSubsetsOf(S) = SUBSET S
  BY FS_FiniteSubsetsOfFinite
<1>3. \E T \in B : \A U \in B : ~ (<<U, T>> \in StrictSubsetOrdering(S))
  BY <1>1, <1>2, WFMin, Zenon
<1>4. PICK T \in B : \A U \in B : ~ (<<U, T>> \in StrictSubsetOrdering(S))
  BY <1>3
<1>5. ASSUME NEW U \in B, U \subseteq T PROVE U = T
  BY <1>4, <1>5 DEF StrictSubsetOrdering
<1> QED
  BY <1>5

UnitsOf(v, s) == UNION {{x} \X (1..v[x]) : x \in s}
DebtsOf(v, s) == UNION {{x} \X (1..(-v[x])) : x \in s}
SumUp(v, s) == Cardinality(UnitsOf(v, s)) - Cardinality(DebtsOf(v, s))

LEMMA RowCount ==
  ASSUME NEW x, NEW n \in Int
  PROVE  /\ IsFiniteSet({x} \X (1..n))
         /\ Cardinality({x} \X (1..n)) = IF n > 0 THEN n ELSE 0
<1>1. IsFiniteSet(1..n) /\ Cardinality(1..n) = IF n > 0 THEN n ELSE 0
  BY FS_Interval
<1>2. IsFiniteSet({x}) /\ Cardinality({x}) = 1
  BY FS_Singleton
<1>3. Cardinality({x} \X (1..n)) = Cardinality({x}) * Cardinality(1..n)
      /\ IsFiniteSet({x} \X (1..n))
  BY <1>1, <1>2, FS_Product
<1> QED
  BY <1>1, <1>2, <1>3

LEMMA UnitsFinite ==
  ASSUME NEW S, IsFiniteSet(S), NEW v \in [S -> Int]
  PROVE  \A s \in SUBSET S : IsFiniteSet(UnitsOf(v, s))
<1> DEFINE B == {s \in SUBSET S : ~ IsFiniteSet(UnitsOf(v, s))}
<1> SUFFICES ASSUME B # {} PROVE FALSE
  OBVIOUS
<1>1. PICK T \in B : \A U \in B : U \subseteq T => U = T
  <2> HIDE DEF B
  <2>1. B \in SUBSET (SUBSET S)
    BY DEF B
  <2> QED
    BY <2>1, SmallestSubset
<1>2. T # {}
  <2>1. UnitsOf(v, {}) = {}
    BY DEF UnitsOf
  <2> QED
    BY <2>1, FS_EmptySet
<1>3. PICK x \in T : TRUE
  BY <1>2
<1>4. IsFiniteSet(UnitsOf(v, T \ {x}))
  BY <1>1, <1>3
<1>5. UnitsOf(v, T) = UnitsOf(v, T \ {x}) \cup ({x} \X (1..v[x]))
  BY <1>3 DEF UnitsOf
<1>6. IsFiniteSet({x} \X (1..v[x]))
  BY <1>1, <1>3, RowCount
<1>7. IsFiniteSet(UnitsOf(v, T))
  <2>1. IsFiniteSet(UnitsOf(v, T \ {x}) \cup ({x} \X (1..v[x])))
    BY ONLY <1>4, <1>6, FS_Union
  <2> QED
    BY <1>5, <2>1
<1> QED
  BY <1>1, <1>7

LEMMA UnitsStep ==
  ASSUME NEW S, IsFiniteSet(S), NEW v \in [S -> Int], NEW s \in SUBSET S, NEW x \in s
  PROVE  Cardinality(UnitsOf(v, s))
            = (IF v[x] > 0 THEN v[x] ELSE 0) + Cardinality(UnitsOf(v, s \ {x}))
<1> DEFINE A == UnitsOf(v, s \ {x})
           R == {x} \X (1..v[x])
<1>1. UnitsOf(v, s) = A \cup R /\ A \cap R = {}
  BY DEF UnitsOf
<1>2. IsFiniteSet(A)
  BY UnitsFinite
<1>3. IsFiniteSet(R) /\ Cardinality(R) = IF v[x] > 0 THEN v[x] ELSE 0
  BY RowCount
<1>4. Cardinality(A) \in Nat /\ Cardinality({}) = 0
  BY <1>2, FS_CardinalityType, FS_EmptySet
<1>5. Cardinality(A \cup R) = Cardinality(A) + Cardinality(R) - Cardinality(A \cap R)
  <2> HIDE DEF A, R
  <2> QED
    BY <1>2, <1>3, FS_Union
<1>6. Cardinality(A \cap R) = 0
  <2> HIDE DEF A, R
  <2> QED
    BY <1>1, <1>4
<1>7. Cardinality(UnitsOf(v, s)) = Cardinality(A) + (IF v[x] > 0 THEN v[x] ELSE 0)
  <2> HIDE DEF A, R
  <2> QED
    BY <1>1, <1>3, <1>4, <1>5, <1>6
<1>8. v[x] \in Int
  OBVIOUS
<1> QED
  <2> HIDE DEF R
  <2> QED
    BY <1>4, <1>7, <1>8

LEMMA SumOfNone == \A v : SumUp(v, {}) = 0
<1>1. \A v : UnitsOf(v, {}) = {} /\ DebtsOf(v, {}) = {}
  BY DEF UnitsOf, DebtsOf
<1> QED
  BY <1>1, FS_EmptySet DEF SumUp

LEMMA DebtsAreUnits ==
  ASSUME NEW S, NEW v \in [S -> Int], NEW s \in SUBSET S
  PROVE  DebtsOf(v, s) = UnitsOf([x \in S |-> -v[x]], s)
<1>1. \A x \in s : [y \in S |-> -v[y]][x] = -v[x]
  OBVIOUS
<1> QED
  BY <1>1 DEF DebtsOf, UnitsOf

\* Any element can be taken first.
LEMMA SumStep ==
  ASSUME NEW S, IsFiniteSet(S), NEW v \in [S -> Int], NEW s \in SUBSET S
  PROVE  /\ SumUp(v, s) \in Int
         /\ \A x \in s : SumUp(v, s) = v[x] + SumUp(v, s \ {x})
<1> DEFINE w == [x \in S |-> -v[x]]
<1>1. w \in [S -> Int]
  OBVIOUS
<1>2. \A t \in SUBSET S : DebtsOf(v, t) = UnitsOf(w, t)
  BY DebtsAreUnits
<1>3. \A x \in S : w[x] = -v[x]
  OBVIOUS
<1> HIDE DEF w
<1>4. \A t \in SUBSET S : Cardinality(UnitsOf(v, t)) \in Nat /\ Cardinality(UnitsOf(w, t)) \in Nat
  <2>1. \A t \in SUBSET S : IsFiniteSet(UnitsOf(v, t))
    BY UnitsFinite
  <2>2. \A t \in SUBSET S : IsFiniteSet(UnitsOf(w, t))
    BY <1>1, UnitsFinite
  <2> QED
    BY <2>1, <2>2, FS_CardinalityType
<1>5. SumUp(v, s) \in Int
  BY <1>2, <1>4 DEF SumUp
<1>6. ASSUME NEW x \in s PROVE SumUp(v, s) = v[x] + SumUp(v, s \ {x})
  <2>1. Cardinality(UnitsOf(v, s))
           = (IF v[x] > 0 THEN v[x] ELSE 0) + Cardinality(UnitsOf(v, s \ {x}))
    BY UnitsStep
  <2>2. Cardinality(UnitsOf(w, s))
           = (IF w[x] > 0 THEN w[x] ELSE 0) + Cardinality(UnitsOf(w, s \ {x}))
    BY <1>1, UnitsStep
  <2>3. w[x] = -v[x] /\ v[x] \in Int
    BY <1>3
  <2>4. s \ {x} \in SUBSET S
    OBVIOUS
  <2> QED
    BY <1>2, <1>4, <2>1, <2>2, <2>3, <2>4 DEF SumUp
<1> QED
  BY <1>5, <1>6

LEMMA SumAgrees ==
  ASSUME NEW s, NEW v, NEW w, \A x \in s : v[x] = w[x]
  PROVE  SumUp(v, s) = SumUp(w, s)
<1>1. UnitsOf(v, s) = UnitsOf(w, s) /\ DebtsOf(v, s) = DebtsOf(w, s)
  BY DEF UnitsOf, DebtsOf
<1> QED
  BY <1>1 DEF SumUp

\* A recursive function that takes the elements in some order computes the sum.
Iterates(g, first, v, S) ==
    /\ \A s \in SUBSET S : s # {} => first[s] \in s
    /\ \A s \in SUBSET S : g[s] = IF s = {} THEN 0 ELSE v[first[s]] + g[s \ {first[s]}]

LEMMA IterationSums ==
  ASSUME NEW S, IsFiniteSet(S), NEW v \in [S -> Int], NEW g, NEW first, Iterates(g, first, v, S)
  PROVE  \A s \in SUBSET S : g[s] = SumUp(v, s)
<1> DEFINE B == {s \in SUBSET S : g[s] # SumUp(v, s)}
<1> SUFFICES ASSUME B # {} PROVE FALSE
  OBVIOUS
<1>1. PICK T \in B : \A U \in B : U \subseteq T => U = T
  <2> HIDE DEF B
  <2>1. B \in SUBSET (SUBSET S)
    BY DEF B
  <2> QED
    BY <2>1, SmallestSubset
<1>2. T # {} /\ T \in SUBSET S
  BY SumOfNone DEF Iterates
<1> DEFINE x == first[T]
<1>3. x \in T
  BY <1>2 DEF Iterates
<1>4. g[T \ {x}] = SumUp(v, T \ {x})
  BY <1>1, <1>3
<1>5. g[T] = v[x] + g[T \ {x}]
  BY <1>2 DEF Iterates
<1>6. SumUp(v, T) = v[x] + SumUp(v, T \ {x})
  BY <1>2, <1>3, SumStep
<1> QED
  BY <1>1, <1>4, <1>5, <1>6

LEMMA OfSubset ==
  ASSUME NEW S, NEW B \in SUBSET (SUBSET S), IsFiniteSet(S),
         {} \notin B, \A T \in B : \E x \in T : T \ {x} \in B
  PROVE  B = {}
<1>1. ASSUME B # {} PROVE FALSE
  <2>1. PICK T \in B : \A U \in B : U \subseteq T => U = T
    BY <1>1, SmallestSubset
  <2>2. PICK x \in T : T \ {x} \in B
    OBVIOUS
  <2>3. T \ {x} = T
    BY <2>1, <2>2
  <2> QED
    BY <2>2, <2>3
<1> QED
  BY <1>1

LEMMA ImageIsFinite ==
  ASSUME NEW A, IsFiniteSet(A), NEW f
  PROVE  IsFiniteSet({f[x] : x \in A})
<1> DEFINE g == [x \in A |-> f[x]]  Im == {f[x] : x \in A}
<1>1. g \in Surjection(A, Im)
  BY DEF Surjection
<1> HIDE DEF g, Im
<1>2. IsFiniteSet(Im)
  BY <1>1, FS_Surjection
<1> QED
  BY <1>2 DEF Im

\* The values of a one-to-one image are summed in its index.
LEMMA SumReindexed ==
  ASSUME NEW A, IsFiniteSet(A), NEW f, NEW w,
         \A x, y \in A : f[x] = f[y] => x = y,
         \A x \in A : w[f[x]] \in Int
  PROVE  SumUp(w, {f[x] : x \in A}) = SumUp([x \in A |-> w[f[x]]], A)
<1> DEFINE v == [x \in A |-> w[f[x]]]
           Im(s) == {f[x] : x \in s}
           u == [y \in Im(A) |-> w[y]]
           B == {s \in SUBSET A : SumUp(u, Im(s)) # SumUp(v, s)}
<1>1. B = {}
  <2>1. {} \notin B
    <3>1. Im({}) = {}
      OBVIOUS
    <3> QED
      BY <3>1, SumOfNone
  <2>2. ASSUME NEW s \in B PROVE \E x \in s : s \ {x} \in B
    <3>1. PICK x \in s : TRUE
      BY <2>1, <2>2
    <3>2. s \in SUBSET A /\ v \in [A -> Int] /\ u \in [Im(A) -> Int] /\ Im(s) \in SUBSET Im(A)
      OBVIOUS
    <3>3. SumUp(v, s) = v[x] + SumUp(v, s \ {x}) /\ v[x] \in Int /\ SumUp(v, s \ {x}) \in Int
      <4> HIDE DEF v, u, B, Im
      <4>1. s \ {x} \in SUBSET A
        BY <3>2
      <4> QED
        BY <3>1, <3>2, <4>1, SumStep
    <3>4. IsFiniteSet(Im(A))
      BY ImageIsFinite
    <3>5. SumUp(u, Im(s)) = u[f[x]] + SumUp(u, Im(s) \ {f[x]})
      <4>1. f[x] \in Im(s)
        BY <3>1
      <4> HIDE DEF v, u, B, Im
      <4> QED
        BY <3>2, <3>4, <4>1, SumStep
    <3>6. Im(s) \ {f[x]} = Im(s \ {x}) /\ u[f[x]] = v[x]
      BY <3>1, <3>2
    <3> QED
      BY <3>3, <3>5, <3>6
  <2>3. B \in SUBSET (SUBSET A)
    OBVIOUS
  <2> HIDE DEF B
  <2> QED
    BY <2>1, <2>2, <2>3, OfSubset
<1>2. SumUp(u, Im(A)) = SumUp(v, A)
  BY <1>1
<1>3. SumUp(w, Im(A)) = SumUp(u, Im(A))
  <2>1. \A y \in Im(A) : w[y] = u[y]
    OBVIOUS
  <2> HIDE DEF u, Im
  <2> QED
    BY <2>1, SumAgrees
<1> QED
  BY <1>2, <1>3

LEMMA SumAdds ==
  ASSUME NEW A, IsFiniteSet(A), NEW v \in [A -> Int], NEW w \in [A -> Int]
  PROVE  SumUp(v, A) + SumUp(w, A) = SumUp([x \in A |-> v[x] + w[x]], A)
<1> DEFINE u == [x \in A |-> v[x] + w[x]]
           B == {s \in SUBSET A : SumUp(v, s) + SumUp(w, s) # SumUp(u, s)}
<1>1. {} \notin B
  BY SumOfNone
<1>2. ASSUME NEW s \in B PROVE \E x \in s : s \ {x} \in B
  <2>1. PICK x \in s : TRUE
    BY <1>1, <1>2
  <2>2. s \in SUBSET A /\ u \in [A -> Int] /\ u[x] = v[x] + w[x] /\ v[x] \in Int /\ w[x] \in Int
    OBVIOUS
  <2>3. s \ {x} \in SUBSET A
    OBVIOUS
  <2> HIDE DEF u
  <2>4. SumUp(v, s) = v[x] + SumUp(v, s \ {x}) /\ SumUp(v, s \ {x}) \in Int
    BY <2>1, <2>2, <2>3, SumStep
  <2>5. SumUp(w, s) = w[x] + SumUp(w, s \ {x}) /\ SumUp(w, s \ {x}) \in Int
    BY <2>1, <2>2, <2>3, SumStep
  <2>6. SumUp(u, s) = u[x] + SumUp(u, s \ {x}) /\ SumUp(u, s \ {x}) \in Int
    BY <2>1, <2>2, <2>3, SumStep
  <2>7. SumUp(v, s \ {x}) + SumUp(w, s \ {x}) # SumUp(u, s \ {x})
    BY <2>2, <2>4, <2>5, <2>6
  <2> QED
    BY <2>1, <2>3, <2>7
<1>3. B = {}
  <2>1. B \in SUBSET (SUBSET A)
    OBVIOUS
  <2> HIDE DEF B
  <2> QED
    BY <1>1, <1>2, <2>1, OfSubset
<1> QED
  BY <1>3

LEMMA SumBetween ==
  ASSUME NEW A, IsFiniteSet(A), NEW v \in [A -> Int], NEW lo \in Int, NEW hi \in Int,
         \A x \in A : lo <= v[x] /\ v[x] <= hi
  PROVE  Cardinality(A) * lo <= SumUp(v, A) /\ SumUp(v, A) <= Cardinality(A) * hi
<1> DEFINE Good(s) == Cardinality(s) * lo <= SumUp(v, s) /\ SumUp(v, s) <= Cardinality(s) * hi
           B == {s \in SUBSET A : ~ Good(s)}
<1>1. {} \notin B
  BY SumOfNone, FS_EmptySet
<1>2. ASSUME NEW s \in B PROVE \E x \in s : s \ {x} \in B
  <2>1. PICK x \in s : TRUE
    BY <1>1, <1>2
  <2>2. s \in SUBSET A /\ s \ {x} \in SUBSET A /\ ~ Good(s)
    OBVIOUS
  <2>3. IsFiniteSet(s) /\ IsFiniteSet(s \ {x})
    BY <2>2, FS_Subset
  <2>4. Cardinality(s \ {x}) \in Int /\ Cardinality(s) = Cardinality(s \ {x}) + 1
    <3>1. Cardinality(s) \in Int /\ Cardinality(s \ {x}) \in Int
      BY <2>3, FS_CardinalityType
    <3>2. Cardinality(s \ {x}) = Cardinality(s) - 1
      BY <2>1, <2>3, FS_RemoveElement
    <3> QED
      BY <3>1, <3>2
  <2>5. SumUp(v, s) = v[x] + SumUp(v, s \ {x}) /\ SumUp(v, s \ {x}) \in Int
    BY <2>1, <2>2, SumStep
  <2>6. /\ Cardinality(s) * lo = Cardinality(s \ {x}) * lo + lo
        /\ Cardinality(s) * hi = Cardinality(s \ {x}) * hi + hi
        /\ Cardinality(s \ {x}) * lo \in Int /\ Cardinality(s \ {x}) * hi \in Int
    <3>1. \A n, k \in Int : (n + 1) * k = n * k + k /\ n * k \in Int
      OBVIOUS
    <3> QED
      BY <2>4, <3>1
  <2>7. v[x] \in Int /\ lo <= v[x] /\ v[x] <= hi
    BY <2>1, <2>2
  <2>8. ~ Good(s \ {x})
    BY <2>2, <2>4, <2>5, <2>6, <2>7
  <2> QED
    BY <2>1, <2>2, <2>8
<1>3. B = {}
  <2>1. B \in SUBSET (SUBSET A)
    OBVIOUS
  <2> HIDE DEF B
  <2> QED
    BY <1>1, <1>2, <2>1, OfSubset
<1> QED
  BY <1>3

\* What the sum of the community modules is.
LEMMA MapThenSumSetIsSum ==
  ASSUME NEW S, IsFiniteSet(S), NEW v \in [S -> Int]
  PROVE  MapThenSumSet(LAMBDA r : v[r], S) = SumUp(v, S)
<1> DEFINE first == [s \in SUBSET S |-> CHOOSE x \in s : TRUE]
           h == [s \in SUBSET S |-> SumUp(v, s)]
           F(g) == [s \in SUBSET S |-> IF s = {} THEN 0
                      ELSE v[CHOOSE x \in s : TRUE] + g[s \ {CHOOSE x \in s : TRUE}]]
           it == CHOOSE g : g = F(g)
<1>1. MapThenSumSet(LAMBDA r : v[r], S) = it[S]
  BY DEF MapThenSumSet, MapThenFoldSet
<1>2. h = F(h)
  <2> SUFFICES ASSUME NEW s \in SUBSET S, s # {}
               PROVE  SumUp(v, s) = v[CHOOSE x \in s : TRUE] + h[s \ {CHOOSE x \in s : TRUE}]
    BY SumOfNone
  <2> DEFINE c == CHOOSE x \in s : TRUE
  <2>1. c \in s
    OBVIOUS
  <2>2. h[s \ {c}] = SumUp(v, s \ {c})
    OBVIOUS
  <2> HIDE DEF c, h
  <2>3. SumUp(v, s) = v[c] + SumUp(v, s \ {c})
    BY <2>1, SumStep
  <2>4. SumUp(v, s) = v[c] + h[s \ {c}]
    BY <2>2, <2>3
  <2> QED
    BY <2>4 DEF c
<1>3. it = F(it)
  BY <1>2
<1>4. Iterates(it, first, v, S)
  <2>1. \A s \in SUBSET S : s # {} => first[s] \in s /\ first[s] = (CHOOSE x \in s : TRUE)
    OBVIOUS
  <2>2. \A s \in SUBSET S : it[s] = F(it)[s]
    <3> HIDE DEF it, F
    <3> QED
      BY <1>3
  <2> HIDE DEF it, first
  <2> QED
    BY <2>1, <2>2 DEF Iterates
<1>5. it[S] = SumUp(v, S)
  <2> HIDE DEF it, first
  <2> QED
    BY <1>4, IterationSums
<1> QED
  BY <1>1, <1>5

LEMMA HasBounds ==
  ASSUME NEW S, IsFiniteSet(S), S # {}, S \subseteq Int
  PROVE  /\ Min(S) \in S /\ \A x \in S : Min(S) <= x
         /\ Max(S) \in S /\ \A x \in S : x <= Max(S)
<1> DEFINE Bounded(s) == /\ \E m \in s : \A x \in s : m <= x
                         /\ \E m \in s : \A x \in s : x <= m
           B == {s \in SUBSET S : s # {} /\ ~ Bounded(s)}
<1>1. ASSUME NEW s \in B PROVE \E x \in s : s \ {x} \in B
  <2>1. PICK x \in s : TRUE
    OBVIOUS
  <2>2. x \in Int /\ s \ {x} \in SUBSET S
    OBVIOUS
  <2>3. CASE s \ {x} = {}
    <3>1. s = {x}
      BY <2>3
    <3>2. Bounded(s)
      BY <2>2, <3>1
    <3> QED
      BY <3>2
  <2>4. CASE Bounded(s \ {x})
    <3>1. PICK m \in s \ {x} : \A y \in s \ {x} : m <= y
      BY <2>4
    <3>2. PICK n \in s \ {x} : \A y \in s \ {x} : y <= n
      BY <2>4
    <3>3. \E k \in s : \A y \in s : k <= y
      <4>1. CASE m <= x
        BY <3>1, <4>1
      <4>2. CASE ~ (m <= x)
        BY <2>2, <3>1, <4>2
      <4> QED
        BY <4>1, <4>2
    <3>4. \E k \in s : \A y \in s : y <= k
      <4>1. CASE x <= n
        BY <3>2, <4>1
      <4>2. CASE ~ (x <= n)
        BY <2>2, <3>2, <4>2
      <4> QED
        BY <4>1, <4>2
    <3> QED
      BY <3>3, <3>4
  <2> QED
    BY <2>1, <2>2, <2>3, <2>4
<1>2. B = {}
  <2>1. B \in SUBSET (SUBSET S) /\ {} \notin B
    OBVIOUS
  <2> HIDE DEF B
  <2> QED
    BY <1>1, <2>1, OfSubset
<1>3. Bounded(S)
  BY <1>2
<1>4. PICK m \in S : \A x \in S : m <= x
  BY <1>3
<1>5. PICK n \in S : \A x \in S : x <= n
  BY <1>3
<1>6. Min(S) \in S /\ \A x \in S : Min(S) <= x
  BY <1>4 DEF Min
<1>7. Max(S) \in S /\ \A x \in S : x <= Max(S)
  <2>1. \A x \in S : n >= x
    BY <1>5
  <2>2. Max(S) \in S /\ \A x \in S : Max(S) >= x
    BY <2>1 DEF Max
  <2> QED
    BY <2>2
<1> QED
  BY <1>6, <1>7

LEMMA SumFunctionIsSum ==
  ASSUME NEW S, IsFiniteSet(S), NEW v \in [S -> Int]
  PROVE  SumFunction(v) = SumUp(v, S)
<1>1. DOMAIN v = S
  OBVIOUS
<1>2. SumFunction(v) = MapThenSumSet(LAMBDA r : v[r], S)
  BY <1>1 DEF SumFunction, SumFunctionOnSet, FoldFunctionOnSet, MapThenSumSet, MapThenFoldSet
<1> QED
  BY <1>2, MapThenSumSetIsSum

\* Induction over the naturals, as the choice of a smallest counterexample.
LEMMA NoLeast ==
  ASSUME NEW B \in SUBSET Nat, 0 \notin B, \A n \in B : n - 1 \in B
  PROVE  B = {}
<1>1. ASSUME B # {} PROVE FALSE
  <2>1. IsWellFoundedOn(OpToRel(<, Nat), Nat)
    BY NatLessThanWellFounded
  <2>2. PICK n \in B : \A m \in B : ~ (<<m, n>> \in OpToRel(<, Nat))
    BY <1>1, <2>1, WFMin, Zenon
  <2>3. n \in Nat /\ n # 0 /\ n - 1 \in B
    OBVIOUS
  <2>4. n - 1 \in Nat /\ n - 1 < n
    BY <2>3
  <2>5. <<n - 1, n>> \in OpToRel(<, Nat)
    BY <2>3, <2>4 DEF OpToRel
  <2> QED
    BY <2>2, <2>3, <2>5
<1> QED
  BY <1>1

LEMMA LastIndex ==
  ASSUME NEW n \in Nat, NEW s \in SUBSET (1..n), s # {}
  PROVE  /\ Max(s) \in s /\ Max(s) \in 1..n
         /\ \A k \in s : k <= Max(s)
         /\ \A k \in s : (\A j \in s : j <= k) => k = Max(s)
<1>0. s \subseteq Int
  OBVIOUS
<1>1. IsFiniteSet(s) /\ s \subseteq Int
  <2>1. IsFiniteSet(1..n)
    BY FS_Interval
  <2> QED
    BY <1>0, <2>1, FS_Subset
<1>2. Max(s) \in s /\ \A k \in s : k <= Max(s)
  <2> HIDE DEF Max
  <2>1. s # {}
    OBVIOUS
  <2> QED
    BY ONLY <1>1, <2>1, HasBounds
<1>3. ASSUME NEW k \in s, \A j \in s : j <= k PROVE k = Max(s)
  <2> HIDE DEF Max
  <2>1. k \in Int /\ Max(s) \in Int
    BY <1>0, <1>2
  <2>2. Max(s) <= k /\ k <= Max(s)
    BY <1>2, <1>3
  <2> QED
    BY <2>1, <2>2
<1> HIDE DEF Max
<1> QED
  BY <1>2, <1>3

-----------------------------------------------------------------------------
(***************************************************************************)
(* TripMatch.  The fold over a tape takes its last fill last, so what the  *)
(* trips are after i fills is what the i-th did to those before it.        *)
(***************************************************************************)
TripsFold(q, n, g) ==
    [s \in SUBSET (1..n) |-> IF s = {} THEN NoTrips ELSE Take(g[s \ {Max(s)}], q[Max(s)])]

LEMMA FoldExists ==
  ASSUME NEW q, NEW N \in Nat
  PROVE  \E g : g = TripsFold(q, N, g)
<1> DEFINE B == {n \in 0..N : ~ \E g : g = TripsFold(q, n, g)}
<1>1. 0 \notin B
  <2> DEFINE g == [s \in SUBSET (1..0) |-> NoTrips]
  <2>1. \A s \in SUBSET (1..0) : s = {}
    OBVIOUS
  <2>2. g = TripsFold(q, 0, g)
    BY <2>1 DEF TripsFold
  <2> QED
    BY <2>2
<1>2. ASSUME NEW n \in B PROVE n - 1 \in B
  <2>1. n \in Nat /\ n # 0 /\ n - 1 \in 0..N /\ n \in 1..n
    BY <1>1
  <2>2. ASSUME NEW g, g = TripsFold(q, n - 1, g) PROVE FALSE
    <3> DEFINE h == [s \in SUBSET (1..n) |->
                        IF n \in s THEN Take(g[s \ {n}], q[n]) ELSE g[s]]
    <3>1. \A s \in SUBSET (1..(n - 1)) : s \in SUBSET (1..n) /\ n \notin s
      BY <2>1
    <3>2. ASSUME NEW s \in SUBSET (1..n), s # {}
          PROVE  h[s] = Take(h[s \ {Max(s)}], q[Max(s)])
      <4>1. CASE n \in s
        <5>1. \A k \in s : k <= n
          BY <2>1
        <5>2. Max(s) = n
          BY <2>1, <3>2, <4>1, <5>1, LastIndex
        <5>3. s \ {n} \in SUBSET (1..n) /\ n \notin s \ {n}
          OBVIOUS
        <5>4. h[s \ {n}] = g[s \ {n}]
          BY <5>3
        <5>5. h[s] = Take(g[s \ {n}], q[n])
          BY <4>1
        <5> QED
          BY <5>2, <5>4, <5>5
      <4>2. CASE n \notin s
        <5>1. s \in SUBSET (1..(n - 1)) /\ Max(s) \in s
          BY <2>1, <3>2, <4>2, LastIndex
        <5>2. g[s] = Take(g[s \ {Max(s)}], q[Max(s)])
          <6>1. g[s] = TripsFold(q, n - 1, g)[s]
            BY <2>2
          <6> QED
            BY <3>2, <5>1, <6>1 DEF TripsFold
        <5>3. s \ {Max(s)} \in SUBSET (1..n) /\ n \notin s \ {Max(s)}
          BY <4>2
        <5>4. h[s] = g[s] /\ h[s \ {Max(s)}] = g[s \ {Max(s)}]
          BY <4>2, <5>3
        <5> QED
          BY <5>2, <5>4
      <4> QED
        BY <4>1, <4>2
    <3>3. h[{}] = NoTrips
      <4>1. {} \in SUBSET (1..n) /\ {} \in SUBSET (1..(n - 1)) /\ n \notin {}
        OBVIOUS
      <4>2. g[{}] = TripsFold(q, n - 1, g)[{}]
        BY <2>2
      <4> QED
        BY <4>1, <4>2 DEF TripsFold
    <3>4. h = TripsFold(q, n, h)
      <4>1. h = [s \in SUBSET (1..n) |-> h[s]]
        OBVIOUS
      <4> HIDE DEF h
      <4> QED
        BY <3>2, <3>3, <4>1 DEF TripsFold
    <3> HIDE DEF h
    <3>5. \E f : f = TripsFold(q, n, f)
      BY <3>4
    <3> QED
      BY <3>5
  <2> QED
    BY <2>1, <2>2
<1>3. B = {}
  <2>1. B \in SUBSET Nat
    OBVIOUS
  <2> HIDE DEF B
  <2> QED
    BY <1>1, <1>2, <2>1, NoLeast
<1> QED
  BY <1>3

\* The trips after the first i fills.
TripsAt(q, i) == (CHOOSE g : g = TripsFold(q, Len(q), g))[1..i]

LEMMA TripsFollow ==
  ASSUME NEW X, NEW q \in Seq(X)
  PROVE  /\ TripsAt(q, 0) = NoTrips
         /\ \A i \in 1..Len(q) : TripsAt(q, i) = Take(TripsAt(q, i - 1), q[i])
         /\ Trips(q) = TripsAt(q, Len(q))
<1> DEFINE N == Len(q)
           it == CHOOSE g : g = TripsFold(q, N, g)
<1>1. N \in Nat /\ DOMAIN q = 1..N
  OBVIOUS
<1>2. it = TripsFold(q, N, it)
  BY <1>1, FoldExists
<1>3. ASSUME NEW s \in SUBSET (1..N)
      PROVE  it[s] = IF s = {} THEN NoTrips ELSE Take(it[s \ {Max(s)}], q[Max(s)])
  <2> HIDE DEF it, N
  <2>1. it[s] = TripsFold(q, N, it)[s]
    BY <1>2
  <2> QED
    BY <2>1 DEF TripsFold
<1> HIDE DEF it, N
<1>4. it[1..0] = NoTrips
  <2>1. 1..0 = {} /\ {} \in SUBSET (1..N)
    OBVIOUS
  <2> QED
    BY <1>3, <2>1
<1>5. ASSUME NEW i \in 1..N PROVE it[1..i] = Take(it[1..(i - 1)], q[i])
  <2>0. i \in Nat /\ i <= N /\ 1 <= i /\ N \in Nat
    BY <1>1
  <2>1. i \in 1..i /\ 1..i \in SUBSET (1..N) /\ (1..i) \ {i} = 1..(i - 1)
    BY <2>0
  <2>2. \A j \in 1..i : j <= i
    OBVIOUS
  <2>3. 1..i \in SUBSET (1..i)
    OBVIOUS
  <2>4. Max(1..i) = i
    BY <2>0, <2>1, <2>2, <2>3, LastIndex
  <2> QED
    BY <1>3, <2>1, <2>4
<1>6. Trips(q) = it[1..N]
  BY <1>1 DEF Trips, FoldLeft, MapThenFoldSet, it, TripsFold
<1> QED
  BY <1>4, <1>5, <1>6 DEF TripsAt, it, N

LEMMA PrefixTrips ==
  ASSUME NEW X, NEW q \in Seq(X), NEW i \in 0..Len(q)
  PROVE  Trips(SubSeq(q, 1, i)) = TripsAt(q, i)
<1> DEFINE p == SubSeq(q, 1, i)
           B == {k \in 0..i : TripsAt(p, k) # TripsAt(q, k)}
<1>1. p \in Seq(X) /\ Len(p) = i /\ \A k \in 1..i : p[k] = q[k]
  OBVIOUS
<1> HIDE DEF p
<1>2. /\ TripsAt(p, 0) = NoTrips /\ Trips(p) = TripsAt(p, i)
      /\ \A k \in 1..i : TripsAt(p, k) = Take(TripsAt(p, k - 1), p[k])
  BY <1>1, TripsFollow
<1>3. /\ TripsAt(q, 0) = NoTrips
      /\ \A k \in 1..i : TripsAt(q, k) = Take(TripsAt(q, k - 1), q[k])
  BY TripsFollow
<1>4. ASSUME NEW k \in B PROVE k - 1 \in B
  <2>1. k \in 1..i /\ k - 1 \in 0..i
    BY <1>2, <1>3
  <2> QED
    BY <1>1, <1>2, <1>3, <2>1
<1>5. B \in SUBSET Nat /\ 0 \notin B
  BY <1>2, <1>3
<1> HIDE DEF B
<1>6. B = {}
  BY <1>4, <1>5, NoLeast
<1>7. TripsAt(p, i) = TripsAt(q, i)
  BY <1>6 DEF B
<1> QED
  BY <1>2, <1>7 DEF p

TripRecord == [asset : Asset, bought : Int, cost : Int, sold : Int, proceeds : Int,
               fees : Int, fills : Int]

TripState(m) ==
    /\ m = [open |-> m.open, closed |-> m.closed]
    /\ m.closed \in Seq(TripRecord)
    /\ IsFiniteSet(DOMAIN m.open) /\ m.open \in [DOMAIN m.open -> TripRecord]
    /\ \A a \in DOMAIN m.open : m.open[a].asset = a

SeqSum(v, c) == SumUp([i \in DOMAIN c |-> v[c[i]]], DOMAIN c)
ClosedSum(v, m) == SeqSum(v, m.closed)
OpenSum(v, m) == SumUp([a \in DOMAIN m.open |-> v[m.open[a]]], DOMAIN m.open)
TripSum(v, m) == ClosedSum(v, m) + OpenSum(v, m)

LEMMA SumDrop ==
  ASSUME NEW S, IsFiniteSet(S), NEW v \in [S -> Int], NEW x \in S,
         NEW w, \A y \in S \ {x} : v[y] = w[y]
  PROVE  SumUp(v, S) = v[x] + SumUp(w, S \ {x}) /\ SumUp(w, S \ {x}) \in Int
<1>1. SumUp(v, S) = v[x] + SumUp(v, S \ {x}) /\ SumUp(v, S \ {x}) \in Int
  <2>1. S \in SUBSET S /\ S \ {x} \in SUBSET S
    OBVIOUS
  <2> QED
    BY <2>1, SumStep
<1>2. SumUp(v, S \ {x}) = SumUp(w, S \ {x})
  BY SumAgrees
<1> QED
  BY <1>1, <1>2

LEMMA SumsAreInts ==
  ASSUME NEW m, TripState(m), NEW v \in [TripRecord -> Int]
  PROVE  /\ ClosedSum(v, m) \in Int /\ OpenSum(v, m) \in Int /\ IsFiniteSet(DOMAIN m.closed)
         /\ [i \in DOMAIN m.closed |-> v[m.closed[i]]] \in [DOMAIN m.closed -> Int]
         /\ [a \in DOMAIN m.open |-> v[m.open[a]]] \in [DOMAIN m.open -> Int]
<1> DEFINE c == [i \in DOMAIN m.closed |-> v[m.closed[i]]]
           o == [a \in DOMAIN m.open |-> v[m.open[a]]]
<1>1. DOMAIN m.closed = 1..Len(m.closed) /\ Len(m.closed) \in Nat
  BY DEF TripState
<1>2. IsFiniteSet(DOMAIN m.closed) /\ IsFiniteSet(DOMAIN m.open)
  <2>1. \A n \in Nat : IsFiniteSet(1..n)
    BY FS_Interval
  <2> QED
    BY <1>1, <2>1 DEF TripState
<1>3. \A i \in DOMAIN m.closed : m.closed[i] \in TripRecord
  BY DEF TripState
<1>4. \A a \in DOMAIN m.open : m.open[a] \in TripRecord
  BY DEF TripState
<1>5. c \in [DOMAIN m.closed -> Int] /\ o \in [DOMAIN m.open -> Int]
  BY <1>3, <1>4
<1> HIDE DEF c, o
<1>6. SumUp(c, DOMAIN m.closed) \in Int /\ SumUp(o, DOMAIN m.open) \in Int
  BY <1>2, <1>5, SumStep
<1> QED
  BY <1>2, <1>5, <1>6 DEF c, o, ClosedSum, SeqSum, OpenSum

LEMMA PutState ==
  ASSUME NEW m, TripState(m), NEW t \in TripRecord
  PROVE  /\ TripState(Put(m, t))
         /\ Put(m, t).closed = m.closed
         /\ Put(m, t).open = [a \in DOMAIN m.open \cup {t.asset} |->
                                 IF a = t.asset THEN t ELSE m.open[a]]
<1> DEFINE n == Put(m, t)
           D == DOMAIN m.open \cup {t.asset}
           o == [a \in D |-> IF a = t.asset THEN t ELSE m.open[a]]
<1>1. n = [open |-> o, closed |-> m.closed]
  BY DEF Put, TripState
<1>2. IsFiniteSet(D)
  BY FS_AddElement DEF TripState
<1>3. o \in [D -> TripRecord] /\ \A a \in D : o[a].asset = a
  BY DEF TripState
<1>4. DOMAIN o = D
  OBVIOUS
<1> HIDE DEF n, o
<1>5. n.open = o /\ n.closed = m.closed
  BY <1>1
<1>6. TripState(n)
  BY <1>1, <1>2, <1>3, <1>4, <1>5 DEF TripState
<1> QED
  BY <1>5, <1>6 DEF n, o

LEMMA PutSum ==
  ASSUME NEW m, TripState(m), NEW t \in TripRecord, NEW v \in [TripRecord -> Int]
  PROVE  TripSum(v, Put(m, t))
            = TripSum(v, m) + v[t] - (IF IsOpen(m, t.asset) THEN v[m.open[t.asset]] ELSE 0)
<1> DEFINE n == Put(m, t)
           a == t.asset
           D == DOMAIN m.open \cup {a}
           o == [b \in DOMAIN m.open |-> v[m.open[b]]]
           p == [b \in DOMAIN n.open |-> v[n.open[b]]]
<1>1. /\ TripState(n) /\ n.closed = m.closed /\ DOMAIN n.open = D /\ n.open[a] = t
      /\ \A b \in DOMAIN m.open \ {a} : n.open[b] = m.open[b]
  <2>1. /\ TripState(n) /\ n.closed = m.closed
        /\ n.open = [b \in D |-> IF b = a THEN t ELSE m.open[b]]
    BY PutState
  <2> HIDE DEF n
  <2> QED
    BY <2>1
<1>2. p \in [D -> Int] /\ p[a] = v[t] /\ v[t] \in Int
  BY <1>1, SumsAreInts
<1>3. o \in [DOMAIN m.open -> Int] /\ OpenSum(v, m) \in Int /\ ClosedSum(v, m) \in Int
  BY SumsAreInts
<1>4. \A b \in D \ {a} : p[b] = o[b]
  BY <1>1
<1>5. IsFiniteSet(D) /\ a \in D /\ IsFiniteSet(DOMAIN m.open)
  BY <1>1 DEF TripState
<1>6. OpenSum(v, m) = SumUp(o, DOMAIN m.open) /\ OpenSum(v, n) = SumUp(p, D)
  BY <1>1 DEF OpenSum
<1>7. ClosedSum(v, n) = ClosedSum(v, m)
  BY <1>1 DEF ClosedSum
<1>8. a \in DOMAIN m.open => o[a] = v[m.open[a]] /\ v[m.open[a]] \in Int
  BY <1>3
<1> HIDE DEF n, o, p
<1>9. SumUp(p, D) = v[t] + SumUp(o, D \ {a}) /\ SumUp(o, D \ {a}) \in Int
  <2> HIDE DEF D, a
  <2> QED
    BY <1>2, <1>4, <1>5, SumDrop
<1>10. CASE a \in DOMAIN m.open
  <2>1. D = DOMAIN m.open
    BY <1>10
  <2>2. SumUp(o, D) = o[a] + SumUp(o, D \ {a})
    <3> HIDE DEF a, D
    <3> QED
      BY <1>3, <1>5, <1>10, <2>1, SumDrop
  <2>3. OpenSum(v, n) = OpenSum(v, m) + v[t] - v[m.open[a]]
    <3> HIDE DEF a, D
    <3> QED
      BY <1>2, <1>3, <1>6, <1>8, <1>9, <1>10, <2>1, <2>2
  <2> QED
    <3> HIDE DEF a, D
    <3>1. IsOpen(m, a)
      BY <1>10 DEF IsOpen
    <3>2. TripSum(v, n) = TripSum(v, m) + v[t] - v[m.open[a]]
      BY <1>2, <1>3, <1>7, <1>8, <1>10, <2>3 DEF TripSum
    <3> QED
      BY <3>1, <3>2 DEF a, n
<1>11. CASE a \notin DOMAIN m.open
  <2>1. D \ {a} = DOMAIN m.open
    BY <1>11
  <2>2. OpenSum(v, n) = OpenSum(v, m) + v[t]
    <3> HIDE DEF a, D
    <3> QED
      BY <1>2, <1>3, <1>6, <1>9, <2>1
  <2>3. ~ IsOpen(m, a)
    BY <1>11 DEF IsOpen
  <2>4. TripSum(v, n) = TripSum(v, m) + v[t]
    <3> HIDE DEF a, D
    <3> QED
      BY <1>2, <1>3, <1>7, <2>2 DEF TripSum
  <2> QED
    <3> HIDE DEF D
    <3> QED
      BY <1>2, <1>3, <2>3, <2>4 DEF n, TripSum
<1> QED
  BY <1>10, <1>11

LEMMA CloseState ==
  ASSUME NEW m, TripState(m), NEW t \in TripRecord
  PROVE  /\ TripState(Close(m, t))
         /\ Close(m, t).closed = Append(m.closed, t)
         /\ Close(m, t).open = [a \in DOMAIN m.open \ {t.asset} |-> m.open[a]]
<1> DEFINE n == Close(m, t)
           D == DOMAIN m.open \ {t.asset}
           o == [a \in D |-> m.open[a]]
<1>1. n = [open |-> o, closed |-> Append(m.closed, t)]
  BY DEF Close
<1>2. IsFiniteSet(D)
  BY FS_RemoveElement DEF TripState
<1>3. o \in [D -> TripRecord] /\ \A a \in D : o[a].asset = a
  BY DEF TripState
<1>4. DOMAIN o = D /\ Append(m.closed, t) \in Seq(TripRecord)
  BY DEF TripState
<1> HIDE DEF n, o
<1>5. n.open = o /\ n.closed = Append(m.closed, t)
  BY <1>1
<1>6. TripState(n)
  BY <1>1, <1>2, <1>3, <1>4, <1>5 DEF TripState
<1> QED
  BY <1>5, <1>6 DEF n, o

LEMMA AppendSum ==
  ASSUME NEW T, NEW c \in Seq(T), NEW t \in T, NEW v \in [T -> Int]
  PROVE  SeqSum(v, Append(c, t)) = SeqSum(v, c) + v[t]
<1> DEFINE n == Len(c)
           w == [i \in DOMAIN c |-> v[c[i]]]
           e == Append(c, t)
           u == [i \in DOMAIN e |-> v[e[i]]]
<1>1. /\ n \in Nat /\ DOMAIN c = 1..n /\ DOMAIN e = 1..(n + 1)
      /\ e[n + 1] = t /\ \A i \in 1..n : e[i] = c[i]
  OBVIOUS
<1> DEFINE D == 1..(n + 1)
           E == 1..n
<1>2. n + 1 \in D /\ D \ {n + 1} = E
  BY <1>1
<1>3. \A i \in DOMAIN e : e[i] \in T
  OBVIOUS
<1>4. u \in [D -> Int] /\ u[n + 1] = v[t]
  BY <1>1, <1>2, <1>3
<1>5. \A i \in E : u[i] = w[i]
  <2>1. \A i \in E : i \in D
    BY <1>1
  <2> QED
    BY <1>1, <2>1
<1>6. IsFiniteSet(D)
  BY <1>1, FS_Interval
<1>7. DOMAIN e = D /\ DOMAIN c = E /\ v[t] \in Int
  BY <1>1
<1> HIDE DEF n, w, e, u, D, E
<1>8. SumUp(u, D) = u[n + 1] + SumUp(w, D \ {n + 1})
      /\ SumUp(w, D \ {n + 1}) \in Int
  BY <1>2, <1>4, <1>5, <1>6, SumDrop
<1>9. SumUp(u, DOMAIN e) = SumUp(w, DOMAIN c) + v[t]
  <2>1. SumUp(u, D) = v[t] + SumUp(w, E) /\ SumUp(w, E) \in Int
    BY ONLY <1>2, <1>4, <1>8
  <2> QED
    BY ONLY <1>7, <2>1
<1> QED
  BY <1>9 DEF w, e, u, SeqSum

LEMMA CloseSum ==
  ASSUME NEW m, TripState(m), NEW t \in TripRecord, NEW v \in [TripRecord -> Int],
         IsOpen(m, t.asset)
  PROVE  TripSum(v, Close(m, t)) = TripSum(v, m) + v[t] - v[m.open[t.asset]]
<1> DEFINE n == Close(m, t)
           a == t.asset
           o == [b \in DOMAIN m.open |-> v[m.open[b]]]
           p == [b \in DOMAIN n.open |-> v[n.open[b]]]
<1>1. /\ n.closed = Append(m.closed, t) /\ DOMAIN n.open = DOMAIN m.open \ {a}
      /\ \A b \in DOMAIN m.open \ {a} : n.open[b] = m.open[b]
  <2>1. /\ n.closed = Append(m.closed, t)
        /\ n.open = [b \in DOMAIN m.open \ {a} |-> m.open[b]]
    BY CloseState
  <2> HIDE DEF n
  <2> QED
    BY <2>1
<1>2. o \in [DOMAIN m.open -> Int] /\ OpenSum(v, m) \in Int /\ ClosedSum(v, m) \in Int
  BY SumsAreInts
<1>3. a \in DOMAIN m.open /\ IsFiniteSet(DOMAIN m.open) /\ m.closed \in Seq(TripRecord)
  BY DEF IsOpen, TripState
<1>4. \A b \in DOMAIN m.open \ {a} : o[b] = p[b]
  BY <1>1
<1>5. OpenSum(v, m) = SumUp(o, DOMAIN m.open) /\ OpenSum(v, n) = SumUp(p, DOMAIN m.open \ {a})
  BY <1>1 DEF OpenSum
<1>6. ClosedSum(v, n) = ClosedSum(v, m) + v[t]
  <2> HIDE DEF n, a, o, p
  <2>1. SeqSum(v, Append(m.closed, t)) = SeqSum(v, m.closed) + v[t]
    BY <1>3, AppendSum
  <2> QED
    BY <1>1, <2>1 DEF ClosedSum
<1>7. o[a] = v[m.open[a]] /\ v[m.open[a]] \in Int /\ v[t] \in Int
  BY <1>2, <1>3
<1> HIDE DEF n, o, p, a
<1>8. SumUp(o, DOMAIN m.open) = o[a] + SumUp(p, DOMAIN m.open \ {a})
      /\ SumUp(p, DOMAIN m.open \ {a}) \in Int
  BY <1>2, <1>3, <1>4, SumDrop
<1>9. TripSum(v, n) = TripSum(v, m) + v[t] - v[m.open[a]]
  BY <1>2, <1>5, <1>6, <1>7, <1>8 DEF TripSum
<1> QED
  BY <1>9 DEF n, a

\* A purchase adds to the trip of its asset.
BoughtMore(t, f) == [t EXCEPT !.bought = @ + f.size, !.cost = @ + f.size * f.price,
                              !.fees = @ + f.fee, !.fills = @ + 1]

\* What a fill is worth to the trip it becomes part of.
Worth(v, gain) ==
    /\ v \in [TripRecord -> Int] /\ gain \in [Tape -> Int]
    /\ \A a \in Asset : v[NewTrip(a)] = 0
    /\ \A t \in TripRecord : \A f \in Tape :
          v[IF f.side = "BUY" THEN BoughtMore(t, f) ELSE Sold(t, f)] = v[t] + gain[f]

LEMMA BookedFill ==
  ASSUME NEW t \in TripRecord, NEW f
  PROVE  /\ BoughtMore(t, f) = [t EXCEPT !.bought = t.bought + f.size,
                                     !.cost = t.cost + f.size * f.price,
                                     !.fees = t.fees + f.fee, !.fills = t.fills + 1]
         /\ Sold(t, f) = [t EXCEPT !.sold = t.sold + f.size,
                                   !.proceeds = t.proceeds + f.size * f.price,
                                   !.fees = t.fees + f.fee, !.fills = t.fills + 1]
  BY DEF TripRecord, BoughtMore, Sold

LEMMA FillTypes ==
  ASSUME NEW f \in Tape
  PROVE  /\ f.asset \in Asset /\ f.side \in {"BUY", "SELL"}
         /\ f.size \in Int /\ f.price \in Int /\ f.fee \in Int /\ f.size * f.price \in Int
<1>1. /\ f.asset \in Asset /\ f.side \in {"BUY", "SELL"}
      /\ f.size \in Size /\ f.price \in Price /\ f.fee \in FillFee
  BY DEF Tape
<1>2. Size \subseteq Int /\ Price \subseteq Int /\ FillFee \subseteq Int
  BY TapeAssumption
<1>3. f.size \in Int /\ f.price \in Int /\ f.fee \in Int
  BY ONLY <1>1, <1>2
<1>4. f.size * f.price \in Int
  BY ONLY <1>3
<1> QED
  BY ONLY <1>1, <1>3, <1>4

LEMMA FillBooked ==
  ASSUME NEW t \in TripRecord, NEW f \in Tape
  PROVE  /\ BoughtMore(t, f) \in TripRecord /\ Sold(t, f) \in TripRecord
         /\ LET r == BoughtMore(t, f)
            IN  /\ r.asset = t.asset /\ r.bought = t.bought + f.size /\ r.sold = t.sold
                /\ r.cost = t.cost + f.size * f.price /\ r.proceeds = t.proceeds
                /\ r.fees = t.fees + f.fee /\ r.fills = t.fills + 1
         /\ LET r == Sold(t, f)
            IN  /\ r.asset = t.asset /\ r.bought = t.bought /\ r.sold = t.sold + f.size
                /\ r.cost = t.cost /\ r.proceeds = t.proceeds + f.size * f.price
                /\ r.fees = t.fees + f.fee /\ r.fills = t.fills + 1
<1> DEFINE x == t.bought + f.size
           y == t.cost + f.size * f.price
           c == t.sold + f.size
           p == t.proceeds + f.size * f.price
           z == t.fees + f.fee
           w == t.fills + 1
<1>1. /\ BoughtMore(t, f) = [t EXCEPT !.bought = x, !.cost = y, !.fees = z, !.fills = w]
      /\ Sold(t, f) = [t EXCEPT !.sold = c, !.proceeds = p, !.fees = z, !.fills = w]
  BY BookedFill
<1>2. /\ t.bought \in Int /\ t.cost \in Int /\ t.sold \in Int
      /\ t.proceeds \in Int /\ t.fees \in Int /\ t.fills \in Int
  BY DEF TripRecord
<1>3. x \in Int /\ y \in Int /\ c \in Int /\ p \in Int /\ z \in Int /\ w \in Int
  BY ONLY <1>2, FillTypes, f \in Tape
<1> HIDE DEF x, y, c, p, z, w
<1>4. ASSUME NEW r, r = [t EXCEPT !.bought = x, !.cost = y, !.fees = z, !.fills = w]
      PROVE  /\ r \in TripRecord
             /\ r.asset = t.asset /\ r.bought = x /\ r.cost = y /\ r.sold = t.sold
             /\ r.proceeds = t.proceeds /\ r.fees = z /\ r.fills = w
  BY <1>3, <1>4 DEF TripRecord
<1>5. ASSUME NEW r, r = [t EXCEPT !.sold = c, !.proceeds = p, !.fees = z, !.fills = w]
      PROVE  /\ r \in TripRecord
             /\ r.asset = t.asset /\ r.bought = t.bought /\ r.cost = t.cost /\ r.sold = c
             /\ r.proceeds = p /\ r.fees = z /\ r.fills = w
  BY <1>3, <1>5 DEF TripRecord
<1>6. /\ BoughtMore(t, f) \in TripRecord
      /\ LET r == BoughtMore(t, f)
         IN  /\ r.asset = t.asset /\ r.bought = x /\ r.cost = y /\ r.sold = t.sold
             /\ r.proceeds = t.proceeds /\ r.fees = z /\ r.fills = w
  BY ONLY <1>1, <1>4, Zenon
<1>7. /\ Sold(t, f) \in TripRecord
      /\ LET r == Sold(t, f)
         IN  /\ r.asset = t.asset /\ r.bought = t.bought /\ r.cost = t.cost /\ r.sold = c
             /\ r.proceeds = p /\ r.fees = z /\ r.fills = w
  BY ONLY <1>1, <1>5, Zenon
<1> QED
  BY ONLY <1>6, <1>7 DEF x, y, c, p, z, w

LEMMA NewTripRecord ==
  \A a \in Asset : NewTrip(a) \in TripRecord /\ NewTrip(a).asset = a
  BY DEF NewTrip, TripRecord

\* A fill counts when it is a purchase or finds a position.
Finds(m, f) == f.side = "BUY" \/ IsOpen(m, f.asset)

LEMMA TakeSum ==
  ASSUME NEW m, TripState(m), NEW f \in Tape, NEW v, NEW gain, Worth(v, gain)
  PROVE  /\ TripState(Take(m, f))
         /\ TripSum(v, m) \in Int
         /\ TripSum(v, Take(m, f)) = TripSum(v, m) + (IF Finds(m, f) THEN gain[f] ELSE 0)
<1> DEFINE a == f.asset
           old == m.open[a]
<1>0. a \in Asset /\ f.side \in {"BUY", "SELL"}
  BY DEF Tape
<1>1. v \in [TripRecord -> Int] /\ gain[f] \in Int
  BY DEF Worth
<1>2. TripSum(v, m) \in Int
  BY <1>1, SumsAreInts DEF TripSum
<1>3. IsOpen(m, a) => old \in TripRecord /\ old.asset = a /\ v[old] \in Int
  BY <1>1 DEF IsOpen, TripState
<1>4. NewTrip(a) \in TripRecord /\ NewTrip(a).asset = a /\ v[NewTrip(a)] = 0
  BY <1>0, NewTripRecord DEF Worth
<1> DEFINE t == IF IsOpen(m, a) THEN old ELSE NewTrip(a)
<1>5. /\ t \in TripRecord /\ t.asset = a
      /\ v[t] = IF IsOpen(m, a) THEN v[old] ELSE 0
  BY <1>3, <1>4
<1>6. CASE f.side = "BUY"
  <2>1. Take(m, f) = Put(m, BoughtMore(t, f))
    BY <1>6 DEF Take, Buy, BoughtMore
  <2> HIDE DEF t, old, a
  <2>2. /\ BoughtMore(t, f) \in TripRecord /\ BoughtMore(t, f).asset = a
        /\ v[BoughtMore(t, f)] = v[t] + gain[f]
    BY <1>5, <1>6, FillBooked DEF Worth
  <2>3. TripState(Put(m, BoughtMore(t, f)))
    BY <2>2, PutState
  <2>4. TripSum(v, Put(m, BoughtMore(t, f)))
           = TripSum(v, m) + v[BoughtMore(t, f)] - (IF IsOpen(m, a) THEN v[old] ELSE 0)
    BY <1>1, <2>2, PutSum DEF old
  <2>5. v[t] \in Int
    BY <1>1, <1>5
  <2> QED
    BY <1>1, <1>2, <1>5, <1>6, <2>1, <2>2, <2>3, <2>4, <2>5 DEF Finds
<1>7. CASE f.side # "BUY" /\ ~ IsOpen(m, a)
  <2>1. Take(m, f) = m /\ ~ Finds(m, f)
    BY <1>7 DEF Take, Sell, Finds
  <2> QED
    BY <1>2, <2>1
<1>8. CASE f.side # "BUY" /\ IsOpen(m, a)
  <2> DEFINE s == Sold(old, f)
  <2>1. Take(m, f) = IF Left(s) <= Eps THEN Close(m, s) ELSE Put(m, s)
    BY <1>8 DEF Take, Sell
  <2>2. Finds(m, f)
    BY <1>8 DEF Finds
  <2> HIDE DEF old, a
  <2>3. s \in TripRecord /\ s.asset = a /\ v[s] = v[old] + gain[f]
    BY <1>3, <1>8, FillBooked DEF Worth
  <2> HIDE DEF s
  <2>4. TripState(Close(m, s)) /\ TripSum(v, Close(m, s)) = TripSum(v, m) + v[s] - v[old]
    BY <1>1, <1>8, <2>3, CloseState, CloseSum DEF old
  <2>5. TripState(Put(m, s)) /\ TripSum(v, Put(m, s)) = TripSum(v, m) + v[s] - v[old]
    BY <1>1, <1>8, <2>3, PutState, PutSum DEF old
  <2>6. TripSum(v, m) + v[s] - v[old] = TripSum(v, m) + gain[f]
    BY <1>1, <1>2, <1>3, <1>8, <2>3
  <2> QED
    BY <1>2, <2>1, <2>2, <2>4, <2>5, <2>6
<1> QED
  BY <1>6, <1>7, <1>8

Found(q) == {i \in 1..Len(q) : Finds(TripsAt(q, i - 1), q[i])}

LEMMA NoTripsState ==
  TripState(NoTrips) /\ \A v \in [TripRecord -> Int] : TripSum(v, NoTrips) = 0
<1> DEFINE none == [a \in {} |-> NewTrip(a)]
<1>1. NoTrips.open = none /\ NoTrips.closed = <<>> /\ NoTrips = [open |-> none, closed |-> <<>>]
  BY DEF NoTrips
<1>2. DOMAIN none = {} /\ IsFiniteSet({}) /\ <<>> \in Seq(TripRecord) /\ DOMAIN <<>> = {}
  BY FS_EmptySet
<1> HIDE DEF none
<1>3. TripState(NoTrips)
  <2>1. none \in [DOMAIN none -> TripRecord]
    BY <1>2 DEF none
  <2> QED
    BY <1>1, <1>2, <2>1 DEF TripState
<1>4. ASSUME NEW v \in [TripRecord -> Int] PROVE TripSum(v, NoTrips) = 0
  <2>1. ClosedSum(v, NoTrips) = 0
    BY <1>1, <1>2, SumOfNone DEF ClosedSum, SeqSum
  <2>2. OpenSum(v, NoTrips) = 0
    BY <1>1, <1>2, SumOfNone DEF OpenSum
  <2> QED
    BY <2>1, <2>2 DEF TripSum
<1> QED
  BY <1>3, <1>4

LEMMA TapeSum ==
  ASSUME NEW q \in Seq(Tape), NEW v, NEW gain, Worth(v, gain)
  PROVE  /\ TripState(Trips(q))
         /\ TripSum(v, Trips(q)) = SumUp([i \in 1..Len(q) |-> gain[q[i]]], Found(q))
<1> DEFINE N == Len(q)
           g == [i \in 1..N |-> gain[q[i]]]
           Upon(i) == Found(q) \cap (1..i)
           Good(i) == TripState(TripsAt(q, i)) /\ TripSum(v, TripsAt(q, i)) = SumUp(g, Upon(i))
           B == {i \in 0..N : ~ Good(i)}
<1>1. N \in Nat /\ \A i \in 1..N : q[i] \in Tape
  OBVIOUS
<1>2. /\ TripsAt(q, 0) = NoTrips /\ Trips(q) = TripsAt(q, N)
      /\ \A i \in 1..N : TripsAt(q, i) = Take(TripsAt(q, i - 1), q[i])
  BY TripsFollow
<1>3. g \in [1..N -> Int] /\ IsFiniteSet(1..N) /\ v \in [TripRecord -> Int]
  <2>1. \A i \in 1..N : gain[q[i]] \in Int
    BY <1>1 DEF Worth
  <2>2. g \in [1..N -> Int]
    BY <2>1
  <2>3. IsFiniteSet(1..N)
    BY <1>1, FS_Interval
  <2> QED
    BY <2>2, <2>3 DEF Worth
<1>4. Good(0)
  <2>1. Upon(0) = {}
    OBVIOUS
  <2> HIDE DEF Upon
  <2> QED
    BY <1>2, <1>3, <2>1, NoTripsState, SumOfNone
<1>5. ASSUME NEW i \in 1..N, Good(i - 1) PROVE Good(i)
  <2> DEFINE m == TripsAt(q, i - 1)
  <2>1. TripsAt(q, i) = Take(m, q[i]) /\ q[i] \in Tape /\ g[i] = gain[q[i]] /\ g[i] \in Int
    BY <1>1, <1>2, <1>3
  <2>2. TripState(m) /\ TripSum(v, m) = SumUp(g, Upon(i - 1))
    BY <1>5
  <2> HIDE DEF m
  <2>3. /\ TripState(Take(m, q[i])) /\ TripSum(v, m) \in Int
        /\ TripSum(v, Take(m, q[i])) = TripSum(v, m) + (IF Finds(m, q[i]) THEN g[i] ELSE 0)
    BY <2>1, <2>2, TakeSum
  <2>4. SumUp(g, Upon(i)) = SumUp(g, Upon(i - 1)) + (IF Finds(m, q[i]) THEN g[i] ELSE 0)
    <3>1. i \in 1..i /\ i \notin 1..(i - 1) /\ 1..i = (1..(i - 1)) \cup {i}
      BY <1>1
    <3>2. CASE Finds(m, q[i])
      <4>1. i \in Upon(i) /\ Upon(i) \ {i} = Upon(i - 1) /\ Upon(i) \in SUBSET (1..N)
        <5>1. i \in Found(q) /\ Found(q) \subseteq 1..N
          BY <3>2 DEF Found, m
        <5> QED
          BY <3>1, <5>1
      <4> DEFINE D == 1..N
                 U == Upon(i)
      <4>2. IsFiniteSet(D) /\ g \in [D -> Int] /\ U \in SUBSET D /\ i \in U
        BY <1>3, <4>1
      <4> HIDE DEF D, U, Upon, g, N
      <4>3. SumUp(g, U) = g[i] + SumUp(g, U \ {i})
        <5>1. IsFiniteSet(D)
          BY <4>2
        <5>2. g \in [D -> Int]
          BY <4>2
        <5>3. U \in SUBSET D
          BY <4>2
        <5>4. i \in U
          BY <4>2
        <5>5. \A x \in U : SumUp(g, U) = g[x] + SumUp(g, U \ {x})
          BY ONLY <5>1, <5>2, <5>3, SumStep
        <5> QED
          BY <5>4, <5>5
      <4>4. SumUp(g, U) = g[i] + SumUp(g, Upon(i - 1))
        BY <4>1, <4>3 DEF U
      <4>5. SumUp(g, Upon(i - 1)) \in Int /\ g[i] \in Int
        BY <2>1, <2>2, <2>3
      <4> QED
        BY <3>2, <4>4, <4>5 DEF U
    <3>3. CASE ~ Finds(m, q[i])
      <4>1. Upon(i) = Upon(i - 1)
        BY <3>1, <3>3 DEF Found, m
      <4> HIDE DEF Upon, g
      <4> QED
        BY <2>2, <2>3, <3>3, <4>1
    <3> QED
      BY <3>2, <3>3
  <2> HIDE DEF Upon, g
  <2> QED
    BY <2>1, <2>2, <2>3, <2>4
<1>6. B = {}
  <2>1. 0 \notin B /\ B \in SUBSET Nat
    BY <1>4
  <2>2. ASSUME NEW i \in B PROVE i - 1 \in B
    <3>0. i \in 0..N /\ i # 0 /\ ~ Good(i)
      BY <1>4
    <3>1. i \in 1..N /\ i - 1 \in 0..N
      BY <1>1, <3>0
    <3> HIDE DEF Good
    <3> QED
      BY <1>5, <3>0, <3>1
  <2> HIDE DEF B
  <2> QED
    BY <2>1, <2>2, NoLeast
<1>7. Good(N)
  <2>1. N \in 0..N
    BY <1>1
  <2> HIDE DEF Good
  <2> QED
    BY <1>6, <2>1
<1>8. Upon(N) = Found(q)
  BY DEF Found
<1> QED
  BY <1>2, <1>7, <1>8

LEMMA SumSplit ==
  ASSUME NEW S, IsFiniteSet(S), NEW v \in [S -> Int], NEW C \in SUBSET S
  PROVE  SumUp(v, S) = SumUp(v, S \ C) + SumUp(v, C)
<1> DEFINE B == {s \in SUBSET C : SumUp(v, S) # SumUp(v, S \ s) + SumUp(v, s)}
<1>0. IsFiniteSet(C) /\ \A s \in SUBSET S : SumUp(v, s) \in Int
  <2>1. IsFiniteSet(C)
    BY FS_Subset
  <2>2. \A s \in SUBSET S : SumUp(v, s) \in Int
    BY SumStep
  <2> QED
    BY <2>1, <2>2
<1>1. {} \notin B
  <2>1. S \ {} = S /\ S \in SUBSET S
    OBVIOUS
  <2> QED
    BY <1>0, <2>1, SumOfNone
<1>2. ASSUME NEW s \in B PROVE \E x \in s : s \ {x} \in B
  <2>1. PICK x \in s : TRUE
    BY <1>1, <1>2
  <2> DEFINE r == s \ {x}
             U == S \ r
  <2>2. /\ s \in SUBSET C /\ r \in SUBSET C /\ SumUp(v, S) # SumUp(v, S \ s) + SumUp(v, s)
        /\ s \in SUBSET S /\ r \in SUBSET S /\ S \ s \in SUBSET S
        /\ U \in SUBSET S /\ x \in U /\ U \ {x} = S \ s
    OBVIOUS
  <2>3. r = s \ {x} /\ U = S \ r
    OBVIOUS
  <2> HIDE DEF B, r, U
  <2>4. SumUp(v, U) = v[x] + SumUp(v, S \ s)
    BY <2>2, SumStep
  <2>5. SumUp(v, s) = v[x] + SumUp(v, r)
    BY <2>1, <2>2, <2>3, SumStep
  <2>6. v[x] \in Int
    BY <2>2
  <2>7. SumUp(v, S \ s) \in Int /\ SumUp(v, r) \in Int /\ SumUp(v, S) \in Int
    <3>1. S \in SUBSET S
      OBVIOUS
    <3> QED
      BY <1>0, <2>2, <3>1
  <2>8. SumUp(v, S) # SumUp(v, S \ r) + SumUp(v, r)
    BY ONLY <2>2, <2>3, <2>4, <2>5, <2>6, <2>7
  <2> QED
    BY <2>1, <2>2, <2>3, <2>8 DEF B
<1>3. B = {}
  <2>1. B \in SUBSET (SUBSET C)
    OBVIOUS
  <2> HIDE DEF B
  <2> QED
    BY <1>0, <1>1, <1>2, <2>1, OfSubset
<1>4. C \in SUBSET C
  OBVIOUS
<1> QED
  BY <1>3, <1>4

LEMMA SumOfOnes ==
  ASSUME NEW A, IsFiniteSet(A), NEW v \in [A -> Int], \A x \in A : v[x] = 1
  PROVE  SumUp(v, A) = Cardinality(A)
<1>1. \A x \in A : 1 <= v[x] /\ v[x] <= 1
  OBVIOUS
<1>2. Cardinality(A) * 1 <= SumUp(v, A) /\ SumUp(v, A) <= Cardinality(A) * 1
  BY <1>1, SumBetween
<1>3. SumUp(v, A) \in Int
  <2>1. A \in SUBSET A
    OBVIOUS
  <2> QED
    BY <2>1, SumStep
<1>4. Cardinality(A) \in Nat
  BY FS_CardinalityType
<1> QED
  BY <1>2, <1>3, <1>4

LEMMA ConcatSum ==
  ASSUME NEW T, NEW c \in Seq(T), NEW d \in Seq(T), NEW v \in [T -> Int]
  PROVE  SeqSum(v, c \o d) = SeqSum(v, c) + SeqSum(v, d)
<1> DEFINE n == Len(c)
           k == Len(d)
           e == c \o d
           D == 1..(n + k)
           L == 1..n
           R == 1..k
           w == [i \in DOMAIN e |-> v[e[i]]]
           f == [i \in R |-> n + i]
           H == {f[i] : i \in R}
           wc == [i \in DOMAIN c |-> v[c[i]]]
           wd == [i \in DOMAIN d |-> v[d[i]]]
<1>1. /\ n \in Nat /\ k \in Nat /\ DOMAIN c = L /\ DOMAIN d = R /\ DOMAIN e = D
      /\ \A i \in L : e[i] = c[i]
      /\ \A i \in R : e[n + i] = d[i]
  OBVIOUS
<1>2. /\ \A i \in L : c[i] \in T
      /\ \A i \in R : d[i] \in T
      /\ \A i \in D : e[i] \in T
  <2>1. e \in Seq(T)
    OBVIOUS
  <2> QED
    BY <1>1, <2>1
<1>3. w \in [D -> Int]
  BY <1>1, <1>2
<1>4. H \subseteq D /\ D \ H = L
  <2>1. \A i \in R : f[i] \in D /\ f[i] \notin L
    BY <1>1
  <2>2. \A j \in D : j \notin L => j - n \in R /\ f[j - n] = j
    BY <1>1
  <2>3. \A j \in L : j \in D
    BY <1>1
  <2> HIDE DEF f, D, L, R
  <2> QED
    BY <2>1, <2>2, <2>3
<1>5. \A i \in R : w[f[i]] = wd[i] /\ wd[i] \in Int
  <2>1. \A i \in R : f[i] = n + i /\ n + i \in D
    BY <1>1
  <2>2. \A i \in R : w[n + i] = v[d[i]] /\ v[d[i]] \in Int
    BY <1>1, <1>2, <2>1
  <2> HIDE DEF f, w
  <2> QED
    BY <1>1, <2>1, <2>2
<1>6. \A i \in L : w[i] = wc[i]
  <2>1. \A i \in L : i \in D
    BY <1>1
  <2> QED
    BY <1>1, <2>1
<1>7. IsFiniteSet(D) /\ IsFiniteSet(R) /\ IsFiniteSet(L)
  <2>1. \A j \in Nat : IsFiniteSet(1..j)
    BY FS_Interval
  <2>2. n \in Nat /\ k \in Nat /\ n + k \in Nat
    BY <1>1
  <2> HIDE DEF n, k
  <2> QED
    BY <2>1, <2>2
<1>8. \A i, j \in R : f[i] = f[j] => i = j
  BY <1>1
<1> HIDE DEF e, D, L, R, f, H, w, wc, wd, n, k
<1>9. SumUp(w, D) = SumUp(w, L) + SumUp(w, H)
  <2>1. H \in SUBSET D
    BY <1>4
  <2>2. SumUp(w, D) = SumUp(w, D \ H) + SumUp(w, H)
    BY ONLY <2>1, <1>3, <1>7, SumSplit
  <2> QED
    BY <1>4, <2>2
<1>10. SumUp(w, L) = SumUp(wc, L)
  BY <1>6, SumAgrees
<1>11. SumUp(w, H) = SumUp(wd, R)
  <2>1. SumUp(w, {f[i] : i \in R}) = SumUp([i \in R |-> w[f[i]]], R)
    <3>1. \A i \in R : w[f[i]] \in Int
      BY <1>5
    <3> QED
      BY ONLY <1>7, <1>8, <3>1, SumReindexed
  <2>2. SumUp([i \in R |-> w[f[i]]], R) = SumUp(wd, R)
    <3>1. \A i \in R : [j \in R |-> w[f[j]]][i] = wd[i]
      BY <1>5
    <3> QED
      BY ONLY <3>1, SumAgrees
  <2> QED
    BY <2>1, <2>2 DEF H
<1>12. SumUp(w, DOMAIN e) = SumUp(wc, DOMAIN c) + SumUp(wd, DOMAIN d)
  BY <1>1, <1>9, <1>10, <1>11
<1> QED
  BY <1>12 DEF SeqSum, w, wc, wd, e

\* A finite set is listed once each.
LEMMA Listing ==
  ASSUME NEW R, IsFiniteSet(R)
  PROVE  /\ Cardinality(R) \in Nat /\ IsFiniteSet(1..Cardinality(R))
         /\ SetToSeq(R) \in [1..Cardinality(R) -> R]
         /\ \A i, j \in 1..Cardinality(R) : SetToSeq(R)[i] = SetToSeq(R)[j] => i = j
         /\ {SetToSeq(R)[i] : i \in 1..Cardinality(R)} = R
<1> DEFINE k == Cardinality(R)
           K == 1..k
           s == SetToSeq(R)
<1>1. k \in Nat /\ ExistsBijection(K, R)
  BY FS_CardinalityType
<1>2. IsFiniteSet(K) /\ Cardinality(K) = k
  BY <1>1, FS_Interval
<1>3. \E f \in [K -> R] : IsInjective(f)
  <2>1. PICK f \in Bijection(K, R) : TRUE
    BY <1>1 DEF ExistsBijection
  <2>2. f \in [K -> R] /\ IsInjective(f)
    BY DEF Bijection, Injection
  <2> QED
    BY <2>2
<1>4. s \in [K -> R] /\ IsInjective(s)
  BY <1>3 DEF SetToSeq
<1> HIDE DEF s, K, k
<1>5. \A i, j \in K : s[i] = s[j] => i = j
  BY <1>4 DEF IsInjective
<1> DEFINE H == {s[i] : i \in K}
<1>6. H \subseteq R
  BY <1>4
<1>7. H = R
  <2>1. s \in Injection(K, H)
    <3>1. s \in [K -> H]
      BY <1>4
    <3> HIDE DEF H
    <3> QED
      BY <1>4, <3>1 DEF Injection
  <2>2. IsFiniteSet(H)
    BY <1>2, ImageIsFinite
  <2>3. Cardinality(K) <= Cardinality(H)
    <3> HIDE DEF H
    <3> QED
      BY <2>1, <2>2, FS_Injection
  <2>4. Cardinality(H) \in Nat /\ Cardinality(R) \in Nat
    BY <2>2, FS_CardinalityType
  <2>5. H # R => Cardinality(H) < Cardinality(R)
    <3> HIDE DEF H
    <3> QED
      BY <1>6, FS_Subset, FS_CardinalityType
  <2> QED
    <3> HIDE DEF H
    <3> QED
      BY <1>2, <2>3, <2>4, <2>5 DEF k
<1> QED
  BY <1>1, <1>2, <1>4, <1>5, <1>7 DEF s, K, k, H

LEMMA SettledTrip ==
  ASSUME NEW t \in TripRecord, NEW x \in Int
  PROVE  /\ Settle(t, x) \in TripRecord /\ Settle(t, x).asset = t.asset
         /\ Net(Settle(t, x)) = Net(t) + Positive(Left(t)) * x
         /\ Settle(t, x).fills = t.fills
         /\ Positive(Left(t)) * x \in Int /\ Net(t) \in Int /\ t.fills \in Int
<1>1. /\ t.bought \in Int /\ t.cost \in Int /\ t.sold \in Int /\ t.proceeds \in Int
      /\ t.fees \in Int /\ t.fills \in Int
  BY DEF TripRecord
<1>2. Left(t) \in Int /\ Left(t) * x \in Int /\ Net(t) \in Int /\ 0 * x = 0
  BY <1>1 DEF Left, Net
<1>3. CASE Left(t) > 0
  <2> DEFINE p == t.proceeds + Left(t) * x
             c == t.sold + Left(t)
             s == Settle(t, x)
  <2>1. s = [t EXCEPT !.proceeds = p, !.sold = c]
    BY <1>3 DEF Settle
  <2>2. p \in Int /\ c \in Int
    BY <1>1, <1>2
  <2> HIDE DEF p, c, s
  <2>3. /\ s \in TripRecord /\ s.asset = t.asset /\ s.proceeds = p /\ s.sold = c
        /\ s.bought = t.bought /\ s.cost = t.cost /\ s.fees = t.fees /\ s.fills = t.fills
    BY <2>1, <2>2 DEF TripRecord
  <2>4. Net(s) = Net(t) + Left(t) * x
    BY <1>1, <1>2, <2>3 DEF Net, p
  <2>5. Positive(Left(t)) = Left(t)
    BY <1>3 DEF Positive
  <2> QED
    BY <1>1, <1>2, <2>3, <2>4, <2>5 DEF s
<1>4. CASE ~ (Left(t) > 0)
  <2>1. Settle(t, x) = t /\ Positive(Left(t)) = 0
    BY <1>4 DEF Settle, Positive
  <2> QED
    BY <1>1, <1>2, <2>1
<1> QED
  BY <1>3, <1>4

LEMMA MatchSum ==
  ASSUME NEW q, TripState(Trips(q)), NEW final, NEW v \in [TripRecord -> Int], NEW R,
         R = DOMAIN Trips(q).open \cap DOMAIN final,
         NEW u \in [R -> Int],
         \A a \in R : /\ Settle(Trips(q).open[a], final[a]) \in TripRecord
                      /\ v[Settle(Trips(q).open[a], final[a])] = v[Trips(q).open[a]] + u[a]
  PROVE  /\ TripState(Match(q, final))
         /\ TripSum(v, Match(q, final)) = TripSum(v, Trips(q)) + SumUp(u, R)
<1> DEFINE m == Trips(q)
           n == Match(q, final)
           D == DOMAIN m.open
           s == SetToSeq(R)
           K == 1..Cardinality(R)
           d == [i \in K |-> Settle(m.open[s[i]], final[s[i]])]
           o == [a \in D |-> v[m.open[a]]]
           wr == [a \in R |-> v[Settle(m.open[a], final[a])]]
           E == D \ R
           p == [a \in E |-> m.open[a]]
<1>1. /\ TripState(m) /\ R \subseteq D /\ IsFiniteSet(D) /\ D \ DOMAIN final = E
      /\ m.closed \in Seq(TripRecord) /\ \A a \in D : m.open[a] \in TripRecord /\ m.open[a].asset = a
  BY DEF TripState
<1>2. IsFiniteSet(R) /\ IsFiniteSet(E)
  BY <1>1, FS_Subset
<1>3. /\ Cardinality(R) \in Nat /\ IsFiniteSet(K) /\ s \in [K -> R]
      /\ \A i, j \in K : s[i] = s[j] => i = j
      /\ {s[i] : i \in K} = R
  BY ONLY <1>2, Listing
<1>4. n = [open |-> p, closed |-> m.closed \o d]
  <2>1. DOMAIN s = K
    BY <1>3
  <2>2. n = [open |-> [a \in D \ DOMAIN final |-> m.open[a]],
             closed |-> m.closed \o
                [i \in DOMAIN s |-> Settle(m.open[s[i]], final[s[i]])]]
    BY DEF Match
  <2> HIDE DEF n, s, D, K, E
  <2> QED
    BY <1>1, <2>1, <2>2
<1>5. \A a \in R : Settle(m.open[a], final[a]) \in TripRecord /\ wr[a] = o[a] + u[a]
                   /\ wr[a] = v[Settle(m.open[a], final[a])] /\ o[a] \in Int
  BY <1>1
<1>6. d \in Seq(TripRecord) /\ DOMAIN d = K
  <2>1. d \in [K -> TripRecord]
    BY <1>3, <1>5
  <2> DEFINE k == Cardinality(R)
  <2>2. k \in Nat /\ d \in [1..k -> TripRecord]
    BY <1>3, <2>1
  <2> HIDE DEF d, k
  <2>3. d \in Seq(TripRecord)
    BY ONLY <2>2
  <2> QED
    BY <2>1, <2>3
<1>7. \A i \in K : v[d[i]] = wr[s[i]] /\ wr[s[i]] \in Int
  <2>1. \A i \in K : s[i] \in R
    BY <1>3
  <2>2. \A i \in K : d[i] = Settle(m.open[s[i]], final[s[i]])
    OBVIOUS
  <2> HIDE DEF d, s, K, wr, o
  <2> QED
    BY <1>5, <2>1, <2>2
<1>8. o \in [D -> Int] /\ DOMAIN p = E /\ p \in [E -> TripRecord]
      /\ \A a \in E : p[a].asset = a /\ v[p[a]] = o[a]
  BY <1>1
<1> HIDE DEF m, n, D, s, K, d, o, wr, E, p
<1>9. n.open = p /\ n.closed = m.closed \o d
  BY <1>4
<1>10. TripState(n)
  <2>1. m.closed \o d \in Seq(TripRecord)
    BY <1>1, <1>6
  <2> QED
    BY <1>2, <1>4, <1>8, <1>9, <2>1 DEF TripState
<1>11. ClosedSum(v, n) = ClosedSum(v, m) + SeqSum(v, d)
  BY <1>1, <1>6, <1>9, ConcatSum DEF ClosedSum
<1>12. SeqSum(v, d) = SumUp(wr, R)
  <2>1. SumUp(wr, {s[i] : i \in K}) = SumUp([i \in K |-> wr[s[i]]], K)
    <3>1. \A i \in K : wr[s[i]] \in Int
      BY <1>7
    <3>2. \A i, j \in K : s[i] = s[j] => i = j
      BY <1>3
    <3>3. IsFiniteSet(K)
      BY <1>3
    <3> QED
      BY ONLY <3>1, <3>2, <3>3, SumReindexed
  <2>2. [i \in K |-> wr[s[i]]] = [i \in DOMAIN d |-> v[d[i]]]
    BY <1>6, <1>7
  <2> QED
    BY <1>3, <1>6, <2>1, <2>2 DEF SeqSum
<1>13. SumUp(wr, R) = SumUp(o, R) + SumUp(u, R)
  <2> DEFINE h == [a \in R |-> o[a]]
  <2>1. h \in [R -> Int] /\ \A a \in R : h[a] = o[a]
    BY <1>5
  <2> HIDE DEF h
  <2>2. SumUp(h, R) + SumUp(u, R) = SumUp([a \in R |-> h[a] + u[a]], R)
    BY <1>2, <2>1, SumAdds
  <2>3. SumUp([a \in R |-> h[a] + u[a]], R) = SumUp(wr, R)
    <3>1. \A a \in R : [b \in R |-> h[b] + u[b]][a] = wr[a]
      BY <1>5, <2>1
    <3> QED
      BY ONLY <3>1, SumAgrees
  <2>4. SumUp(h, R) = SumUp(o, R)
    BY <2>1, SumAgrees
  <2> QED
    BY <2>2, <2>3, <2>4
<1>14. OpenSum(v, m) = SumUp(o, D) /\ OpenSum(v, n) = SumUp(o, E)
  <2>1. OpenSum(v, m) = SumUp(o, D)
    BY DEF OpenSum, o, D
  <2>2. OpenSum(v, n) = SumUp([a \in E |-> v[p[a]]], E)
    BY <1>8, <1>9 DEF OpenSum
  <2>3. \A a \in E : [b \in E |-> v[p[b]]][a] = o[a]
    BY <1>8
  <2>4. SumUp([a \in E |-> v[p[a]]], E) = SumUp(o, E)
    BY ONLY <2>3, SumAgrees
  <2> QED
    BY <2>1, <2>2, <2>4
<1>15. SumUp(o, D) = SumUp(o, E) + SumUp(o, R)
  <2>1. R \in SUBSET D
    BY <1>1
  <2> QED
    BY ONLY <1>1, <1>8, <2>1, SumSplit DEF E
<1>16. /\ ClosedSum(v, m) \in Int /\ SumUp(o, E) \in Int /\ SumUp(o, R) \in Int /\ SumUp(u, R) \in Int
  <2>1. R \in SUBSET D /\ E \in SUBSET D
    BY <1>1 DEF E
  <2>2. SumUp(o, E) \in Int /\ SumUp(o, R) \in Int
    BY <1>1, <1>8, <2>1, SumStep
  <2>3. R \in SUBSET R
    OBVIOUS
  <2>4. SumUp(u, R) \in Int
    BY <1>2, <2>3, SumStep
  <2> QED
    BY <1>1, <2>2, <2>4, SumsAreInts
<1>17. TripSum(v, n) = TripSum(v, m) + SumUp(u, R)
  BY <1>11, <1>12, <1>13, <1>14, <1>15, <1>16 DEF TripSum
<1> QED
  BY <1>10, <1>17 DEF m, n

NetResult == [t \in TripRecord |-> Net(t)]
FillCount == [t \in TripRecord |-> t.fills]

LEMMA NetIsWorthTheCash == Worth(NetResult, [f \in Tape |-> Cash(f)])
<1>1. \A t \in TripRecord : Net(t) \in Int
  BY DEF TripRecord, Net
<1>2. \A f \in Tape : Cash(f) \in Int
  <2> SUFFICES ASSUME NEW f \in Tape PROVE Cash(f) \in Int
    OBVIOUS
  <2>1. f.size \in Int /\ f.price \in Int /\ f.fee \in Int
    BY FillTypes
  <2>2. f.size * f.price \in Int /\ (-f.size) * f.price \in Int
    BY ONLY <2>1
  <2> QED
    BY <2>1, <2>2 DEF Cash
<1>3. \A a \in Asset : Net(NewTrip(a)) = 0
  BY DEF NewTrip, Net
<1>4. ASSUME NEW t \in TripRecord, NEW f \in Tape
      PROVE  Net(IF f.side = "BUY" THEN BoughtMore(t, f) ELSE Sold(t, f)) = Net(t) + Cash(f)
  <2>1. f.size \in Int /\ f.price \in Int /\ f.fee \in Int /\ f.size * f.price \in Int
    BY FillTypes
  <2>2. t.cost \in Int /\ t.proceeds \in Int /\ t.fees \in Int
    BY DEF TripRecord
  <2>3. (-f.size) * f.price = -(f.size * f.price)
    BY ONLY <2>1
  <2>4. CASE f.side = "BUY"
    <3>1. Net(BoughtMore(t, f)) = t.proceeds - (t.cost + f.size * f.price) - (t.fees + f.fee)
      BY FillBooked DEF Net
    <3>2. Cash(f) = -(f.size * f.price) - f.fee
      BY <2>3, <2>4 DEF Cash
    <3>3. Net(BoughtMore(t, f)) = Net(t) + Cash(f)
      BY <2>1, <2>2, <3>1, <3>2 DEF Net
    <3> QED
      BY <2>4, <3>3
  <2>5. CASE f.side # "BUY"
    <3>1. Net(Sold(t, f)) = (t.proceeds + f.size * f.price) - t.cost - (t.fees + f.fee)
      BY FillBooked DEF Net
    <3>2. Cash(f) = f.size * f.price - f.fee
      BY <2>5 DEF Cash
    <3>3. Net(Sold(t, f)) = Net(t) + Cash(f)
      BY <2>1, <2>2, <3>1, <3>2 DEF Net
    <3> QED
      BY <2>5, <3>3
  <2> QED
    BY <2>4, <2>5
<1>5. \A t \in TripRecord : \A f \in Tape :
        (IF f.side = "BUY" THEN BoughtMore(t, f) ELSE Sold(t, f)) \in TripRecord
  BY FillBooked
<1> HIDE DEF NetResult
<1>6. /\ NetResult \in [TripRecord -> Int] /\ \A t \in TripRecord : NetResult[t] = Net(t)
  BY <1>1 DEF NetResult
<1> DEFINE gain == [f \in Tape |-> Cash(f)]
<1>7. gain \in [Tape -> Int] /\ \A f \in Tape : gain[f] = Cash(f)
  BY <1>2
<1> HIDE DEF gain
<1>8. Worth(NetResult, gain)
  BY <1>3, <1>4, <1>5, <1>6, <1>7, NewTripRecord DEF Worth
<1> QED
  BY <1>8 DEF gain

LEMMA FillsAreWorthOne == Worth(FillCount, [f \in Tape |-> 1])
<1>1. /\ FillCount \in [TripRecord -> Int] /\ \A t \in TripRecord : FillCount[t] = t.fills
  BY DEF FillCount, TripRecord
<1> DEFINE gain == [f \in Tape |-> 1]
<1>2. gain \in [Tape -> Int] /\ \A f \in Tape : gain[f] = 1
  OBVIOUS
<1>3. \A a \in Asset : NewTrip(a).fills = 0
  BY DEF NewTrip
<1>4. \A t \in TripRecord : \A f \in Tape :
         /\ (IF f.side = "BUY" THEN BoughtMore(t, f) ELSE Sold(t, f)) \in TripRecord
         /\ (IF f.side = "BUY" THEN BoughtMore(t, f) ELSE Sold(t, f)).fills = t.fills + 1
  BY FillBooked
<1> HIDE DEF FillCount, gain
<1>5. Worth(FillCount, gain)
  BY <1>1, <1>2, <1>3, <1>4, NewTripRecord DEF Worth
<1> QED
  BY <1>5 DEF gain

LEMMA CountedIsFound ==
  ASSUME tape \in Seq(Tape)
  PROVE  Counted = Found(tape)
<1>1. ASSUME NEW i \in 1..Len(tape) PROVE Trips(Upto(i - 1)) = TripsAt(tape, i - 1)
  <2>1. i - 1 \in 0..Len(tape)
    OBVIOUS
  <2> QED
    BY <2>1, PrefixTrips DEF Upto
<1> QED
  BY <1>1 DEF Counted, Found, Finds

LEMMA ShownSums ==
  ASSUME NEW m, TripState(m), NEW v \in [TripRecord -> Int]
  PROVE  SumFunction([i \in DOMAIN m.closed |-> v[m.closed[i]]])
            + SumFunction([a \in DOMAIN m.open |-> v[m.open[a]]]) = TripSum(v, m)
<1> DEFINE c == [i \in DOMAIN m.closed |-> v[m.closed[i]]]
           o == [a \in DOMAIN m.open |-> v[m.open[a]]]
<1>1. /\ c \in [DOMAIN m.closed -> Int] /\ o \in [DOMAIN m.open -> Int]
      /\ IsFiniteSet(DOMAIN m.closed) /\ IsFiniteSet(DOMAIN m.open)
  BY SumsAreInts DEF TripState
<1>2. TripSum(v, m) = SumUp(c, DOMAIN m.closed) + SumUp(o, DOMAIN m.open)
  BY DEF TripSum, ClosedSum, OpenSum, SeqSum
<1> HIDE DEF c, o
<1>3. SumFunction(c) = SumUp(c, DOMAIN m.closed)
  BY <1>1, SumFunctionIsSum
<1>4. SumFunction(o) = SumUp(o, DOMAIN m.open)
  BY <1>1, SumFunctionIsSum
<1> QED
  BY <1>2, <1>3, <1>4 DEF c, o

LEMMA TripsOfTheCash ==
  ASSUME MatchTypeOK
  PROVE  CashAddsUp
<1>1. tape \in Seq(Tape) /\ Counted = Found(tape)
  BY CountedIsFound DEF MatchTypeOK
<1> DEFINE N == 1..Len(tape)
           C == Counted
           cash == [f \in Tape |-> Cash(f)]
           one == [f \in Tape |-> 1]
           g == [i \in N |-> cash[tape[i]]]
           h == [i \in N |-> one[tape[i]]]
<1>2. IsFiniteSet(N) /\ C \subseteq N /\ \A i \in N : tape[i] \in Tape
  <2>1. Len(tape) \in Nat
    BY <1>1
  <2>2. IsFiniteSet(N)
    BY <2>1, FS_Interval
  <2>3. C \subseteq N
    BY DEF Counted
  <2> QED
    BY <1>1, <2>2, <2>3
<1>3. IsFiniteSet(C)
  BY <1>2, FS_Subset
<1>4. Worth(NetResult, cash) /\ Worth(FillCount, one)
  BY NetIsWorthTheCash, FillsAreWorthOne
<1>5. /\ g \in [N -> Int] /\ h \in [N -> Int]
      /\ \A i \in N : g[i] = Cash(tape[i]) /\ h[i] = 1
  <2>1. \A f \in Tape : cash[f] \in Int /\ one[f] \in Int /\ cash[f] = Cash(f) /\ one[f] = 1
    BY <1>4 DEF Worth
  <2> HIDE DEF cash, one, N
  <2> QED
    BY <1>2, <2>1
<1> HIDE DEF cash, one
<1>6. /\ TripState(Trips(tape))
      /\ TripSum(NetResult, Trips(tape)) = SumUp(g, C)
      /\ TripSum(FillCount, Trips(tape)) = SumUp(h, C)
  BY <1>1, <1>4, TapeSum
<1> HIDE DEF N, C, g, h
<1>7. SumUp(g, C) = SumFunction([i \in C |-> Cash(tape[i])])
  <2> DEFINE k == [i \in C |-> Cash(tape[i])]
  <2>1. k \in [C -> Int] /\ \A i \in C : g[i] = k[i]
    BY <1>2, <1>5
  <2> HIDE DEF k
  <2>2. SumUp(g, C) = SumUp(k, C)
    BY <2>1, SumAgrees
  <2>3. SumFunction(k) = SumUp(k, C)
    BY <1>3, <2>1, SumFunctionIsSum
  <2> QED
    BY <2>2, <2>3 DEF k
<1>8. SumUp(h, C) = Cardinality(C)
  <2> DEFINE k == [i \in C |-> 1]
  <2>1. k \in [C -> Int] /\ \A i \in C : h[i] = k[i] /\ k[i] = 1
    BY <1>2, <1>5
  <2> HIDE DEF k
  <2>2. SumUp(h, C) = SumUp(k, C)
    BY <2>1, SumAgrees
  <2>3. SumUp(k, C) = Cardinality(C)
    BY <1>3, <2>1, SumOfOnes
  <2> QED
    BY <2>2, <2>3
<1> SUFFICES ASSUME NEW final \in Finals
             PROVE  LET m == Match(tape, final)
                        held == Trips(tape).open
                    IN /\ SumFunction([i \in DOMAIN m.closed |-> Net(m.closed[i])])
                             + SumFunction([a \in DOMAIN m.open |-> Net(m.open[a])])
                            = SumFunction([i \in Counted |-> Cash(tape[i])])
                              + SumFunction([a \in DOMAIN held \cap DOMAIN final |->
                                                Positive(Left(held[a])) * final[a]])
                       /\ SumFunction([i \in DOMAIN m.closed |-> m.closed[i].fills])
                             + SumFunction([a \in DOMAIN m.open |-> m.open[a].fills])
                            = Cardinality(Counted)
  BY DEF CashAddsUp
<1> DEFINE held == Trips(tape).open
           m == Match(tape, final)
           R == DOMAIN held \cap DOMAIN final
           u == [a \in R |-> Positive(Left(held[a])) * final[a]]
           z == [a \in R |-> 0]
<1>9. \A a \in DOMAIN final : final[a] \in Int
  BY DEF Finals
<1>10. IsFiniteSet(R) /\ \A a \in R : held[a] \in TripRecord /\ final[a] \in Int
  <2>1. R \in SUBSET DOMAIN held /\ IsFiniteSet(DOMAIN held)
    BY <1>6 DEF TripState
  <2>2. IsFiniteSet(R)
    BY ONLY <2>1, FS_Subset
  <2> QED
    BY <1>6, <1>9, <2>2 DEF TripState
<1>11. ASSUME NEW a \in R
       PROVE  /\ Settle(held[a], final[a]) \in TripRecord
              /\ NetResult[Settle(held[a], final[a])] = NetResult[held[a]] + u[a]
              /\ FillCount[Settle(held[a], final[a])] = FillCount[held[a]] + z[a]
              /\ u[a] \in Int
  <2>1. held[a] \in TripRecord /\ final[a] \in Int
    BY <1>10
  <2>2. u[a] = Positive(Left(held[a])) * final[a] /\ z[a] = 0
    OBVIOUS
  <2> HIDE DEF held, R, u, z
  <2>3. /\ Settle(held[a], final[a]) \in TripRecord
        /\ Net(Settle(held[a], final[a])) = Net(held[a]) + u[a]
        /\ Settle(held[a], final[a]).fills = held[a].fills
        /\ u[a] \in Int /\ held[a].fills \in Int
    BY <2>1, <2>2, SettledTrip
  <2>4. \A t \in TripRecord : NetResult[t] = Net(t) /\ FillCount[t] = t.fills
    BY DEF NetResult, FillCount
  <2> QED
    BY <2>1, <2>2, <2>3, <2>4
<1>12. u \in [R -> Int] /\ z \in [R -> Int] /\ \A a \in R : z[a] = 0
  <2>1. \A a \in R : u[a] \in Int
    BY <1>11
  <2> HIDE DEF R
  <2>2. u = [a \in R |-> u[a]]
    OBVIOUS
  <2>3. u \in [R -> Int]
    <3> HIDE DEF u
    <3> QED
      BY <2>1, <2>2
  <2> QED
    BY <2>3
<1>13. NetResult \in [TripRecord -> Int] /\ FillCount \in [TripRecord -> Int]
  BY <1>4 DEF Worth
<1>14. R = DOMAIN Trips(tape).open \cap DOMAIN final
  OBVIOUS
<1> HIDE DEF R, u, z
<1>15. TripState(m) /\ TripSum(NetResult, m) = SumUp(g, C) + SumUp(u, R)
  <2>1. \A a \in R : /\ Settle(Trips(tape).open[a], final[a]) \in TripRecord
                    /\ NetResult[Settle(Trips(tape).open[a], final[a])]
                          = NetResult[Trips(tape).open[a]] + u[a]
    BY <1>11
  <2>2. TripState(Trips(tape)) /\ u \in [R -> Int] /\ NetResult \in [TripRecord -> Int]
    BY <1>6, <1>12, <1>13
  <2>3. TripSum(NetResult, Match(tape, final)) = TripSum(NetResult, Trips(tape)) + SumUp(u, R)
    BY ONLY <1>14, <2>1, <2>2, MatchSum
  <2>4. TripState(Match(tape, final))
    BY ONLY <1>14, <2>1, <2>2, <2>3, MatchSum
  <2> QED
    BY <1>6, <2>3, <2>4
<1>16. TripSum(FillCount, m) = SumUp(h, C) + SumUp(z, R)
  BY <1>6, <1>11, <1>12, <1>13, <1>14, MatchSum
<1>17. SumFunction(u) = SumUp(u, R)
  BY <1>10, <1>12, SumFunctionIsSum
<1>18. SumUp(z, R) = 0
  <2>1. \A a \in R : 0 <= z[a] /\ z[a] <= 0
    BY <1>12
  <2>2. Cardinality(R) * 0 <= SumUp(z, R) /\ SumUp(z, R) <= Cardinality(R) * 0
    BY <1>10, <1>12, <2>1, SumBetween
  <2>3. SumUp(z, R) \in Int
    <3>1. R \in SUBSET R
      OBVIOUS
    <3> QED
      BY <1>10, <1>12, <3>1, SumStep
  <2>4. Cardinality(R) \in Nat
    BY <1>10, FS_CardinalityType
  <2> QED
    BY <2>2, <2>3, <2>4
<1> HIDE DEF m, held
<1>19. \A i \in DOMAIN m.closed : m.closed[i] \in TripRecord
  BY <1>15 DEF TripState
<1>20. \A a \in DOMAIN m.open : m.open[a] \in TripRecord
  BY <1>15 DEF TripState
<1>21. SumFunction([i \in DOMAIN m.closed |-> Net(m.closed[i])])
          + SumFunction([a \in DOMAIN m.open |-> Net(m.open[a])]) = TripSum(NetResult, m)
  <2>1. /\ [i \in DOMAIN m.closed |-> Net(m.closed[i])] = [i \in DOMAIN m.closed |-> NetResult[m.closed[i]]]
        /\ [a \in DOMAIN m.open |-> Net(m.open[a])] = [a \in DOMAIN m.open |-> NetResult[m.open[a]]]
    BY <1>19, <1>20 DEF NetResult
  <2>2. SumFunction([i \in DOMAIN m.closed |-> NetResult[m.closed[i]]])
            + SumFunction([a \in DOMAIN m.open |-> NetResult[m.open[a]]]) = TripSum(NetResult, m)
    BY <1>13, <1>15, ShownSums
  <2> QED
    BY ONLY <2>1, <2>2, Zenon
<1>22. SumFunction([i \in DOMAIN m.closed |-> m.closed[i].fills])
          + SumFunction([a \in DOMAIN m.open |-> m.open[a].fills]) = TripSum(FillCount, m)
  <2>1. /\ [i \in DOMAIN m.closed |-> m.closed[i].fills] = [i \in DOMAIN m.closed |-> FillCount[m.closed[i]]]
        /\ [a \in DOMAIN m.open |-> m.open[a].fills] = [a \in DOMAIN m.open |-> FillCount[m.open[a]]]
    BY <1>19, <1>20 DEF FillCount
  <2>2. SumFunction([i \in DOMAIN m.closed |-> FillCount[m.closed[i]]])
            + SumFunction([a \in DOMAIN m.open |-> FillCount[m.open[a]]]) = TripSum(FillCount, m)
    BY <1>13, <1>15, ShownSums
  <2> QED
    BY ONLY <2>1, <2>2, Zenon
<1>23. TripSum(NetResult, m) = SumFunction([i \in C |-> Cash(tape[i])]) + SumFunction(u)
  BY <1>7, <1>15, <1>17
<1>24. TripSum(FillCount, m) = Cardinality(C)
  <2>1. Cardinality(C) \in Nat
    BY <1>3, FS_CardinalityType
  <2> QED
    BY <1>8, <1>16, <1>18, <2>1
<1>25. /\ SumFunction([i \in DOMAIN m.closed |-> Net(m.closed[i])])
             + SumFunction([a \in DOMAIN m.open |-> Net(m.open[a])])
            = SumFunction([i \in C |-> Cash(tape[i])]) + SumFunction(u)
       /\ SumFunction([i \in DOMAIN m.closed |-> m.closed[i].fills])
             + SumFunction([a \in DOMAIN m.open |-> m.open[a].fills])
            = Cardinality(C)
  BY ONLY <1>21, <1>22, <1>23, <1>24, Zenon
<1> QED
  BY <1>25 DEF m, C, u, R, held

LEMMA SumIsPositive ==
  ASSUME NEW S, IsFiniteSet(S), NEW v \in [S -> Int], \A x \in S : v[x] >= 0,
         NEW C \in SUBSET S
  PROVE  /\ SumUp(v, C) \in Nat /\ SumUp(v, S) \in Nat
         /\ SumUp(v, C) <= SumUp(v, S)
         /\ \A x \in S : v[x] <= SumUp(v, S)
<1>1. ASSUME NEW s \in SUBSET S PROVE SumUp(v, s) \in Nat
  <2>1. \A x \in s : 1..(-v[x]) = {}
    OBVIOUS
  <2>2. DebtsOf(v, s) = {}
    BY <2>1 DEF DebtsOf
  <2>3. Cardinality(DebtsOf(v, s)) = 0
    BY <2>2, FS_EmptySet
  <2>4. IsFiniteSet(UnitsOf(v, s))
    BY UnitsFinite
  <2>5. Cardinality(UnitsOf(v, s)) \in Nat
    BY <2>4, FS_CardinalityType
  <2> QED
    BY <2>3, <2>5 DEF SumUp
<1>2. SumUp(v, C) <= SumUp(v, S)
  <2>1. SumUp(v, S) = SumUp(v, S \ C) + SumUp(v, C)
    BY SumSplit
  <2>2. SumUp(v, S \ C) \in Nat /\ SumUp(v, C) \in Nat
    <3>1. S \ C \in SUBSET S
      OBVIOUS
    <3> QED
      BY <1>1, <3>1
  <2> QED
    BY <2>1, <2>2
<1>3. ASSUME NEW x \in S PROVE v[x] <= SumUp(v, S)
  <2>1. S \in SUBSET S /\ S \ {x} \in SUBSET S
    OBVIOUS
  <2>2. SumUp(v, S) = v[x] + SumUp(v, S \ {x})
    BY <2>1, SumStep
  <2>3. SumUp(v, S \ {x}) \in Nat /\ v[x] \in Int
    BY <1>1, <2>1
  <2> QED
    BY <2>2, <2>3
<1>4. SumUp(v, S) \in Nat
  <2>1. S \in SUBSET S
    OBVIOUS
  <2> QED
    BY <1>1, <2>1
<1> QED
  BY <1>1, <1>2, <1>3, <1>4

LEMMA SumIsLinear ==
  ASSUME NEW A, IsFiniteSet(A), NEW v \in [A -> Int], NEW w \in [A -> Int],
         NEW a \in Int, NEW b \in Int
  PROVE  SumUp([x \in A |-> a * v[x] - b * w[x]], A) = a * SumUp(v, A) - b * SumUp(w, A)
<1> DEFINE u == [x \in A |-> a * v[x] - b * w[x]]
           B == {s \in SUBSET A : SumUp(u, s) # a * SumUp(v, s) - b * SumUp(w, s)}
<1>1. {} \notin B
  <2>1. a * 0 - b * 0 = 0
    OBVIOUS
  <2> QED
    BY <2>1, SumOfNone
<1>2. ASSUME NEW s \in B PROVE \E x \in s : s \ {x} \in B
  <2>1. PICK x \in s : TRUE
    BY <1>1, <1>2
  <2>2. /\ s \in SUBSET A /\ u[x] = a * v[x] - b * w[x] /\ v[x] \in Int /\ w[x] \in Int
        /\ SumUp(u, s) # a * SumUp(v, s) - b * SumUp(w, s)
    OBVIOUS
  <2>3. s \ {x} \in SUBSET A
    OBVIOUS
  <2>4. u \in [A -> Int]
    <3>1. \A y \in A : v[y] \in Int /\ w[y] \in Int
      OBVIOUS
    <3>2. \A y \in A : a * v[y] - b * w[y] \in Int
      BY <3>1
    <3> QED
      BY <3>2
  <2> HIDE DEF u
  <2> DEFINE p == SumUp(v, s \ {x})
             q == SumUp(w, s \ {x})
  <2>5. SumUp(v, s) = v[x] + p /\ p \in Int
    BY <2>1, <2>2, <2>3, SumStep
  <2>6. SumUp(w, s) = w[x] + q /\ q \in Int
    BY <2>1, <2>2, <2>3, SumStep
  <2>7. SumUp(u, s) = u[x] + SumUp(u, s \ {x}) /\ SumUp(u, s \ {x}) \in Int
    BY <2>1, <2>2, <2>3, <2>4, SumStep
  <2> HIDE DEF p, q
  <2>8. /\ a * (v[x] + p) = a * v[x] + a * p /\ b * (w[x] + q) = b * w[x] + b * q
        /\ a * v[x] \in Int /\ a * p \in Int /\ b * w[x] \in Int /\ b * q \in Int
    <3>1. \A i, j, k \in Int : i * (j + k) = i * j + i * k /\ i * j \in Int
      OBVIOUS
    <3> QED
      BY <2>2, <2>5, <2>6, <3>1
  <2>9. SumUp(u, s \ {x}) # a * p - b * q
    BY ONLY <2>2, <2>5, <2>6, <2>7, <2>8
  <2> QED
    BY <2>1, <2>3, <2>9 DEF p, q
<1>3. B = {}
  <2>1. B \in SUBSET (SUBSET A)
    OBVIOUS
  <2> HIDE DEF B
  <2> QED
    BY <1>1, <1>2, <2>1, OfSubset
<1> QED
  BY <1>3

LEMMA Quotient ==
  ASSUME NEW p \in Nat, NEW c \in Nat \ {0}
  PROVE  p \div c \in Nat /\ c * (p \div c) <= p /\ p < c * (p \div c) + c
<1>1. p \div c \in Int
  OBVIOUS
<1>2. p \div c >= 0
  OBVIOUS
<1>3. c * (p \div c) <= p
  OBVIOUS
<1>4. p < c * (p \div c) + c
  OBVIOUS
<1> QED
  BY ONLY <1>1, <1>2, <1>3, <1>4

LEMMA Rounding ==
  ASSUME NEW n \in Nat, NEW d \in Nat \ {0}
  PROVE  /\ Rounded(n, d) \in Nat
         /\ 2 * d * Rounded(n, d) - 2 * n <= d
         /\ -d <= 2 * d * Rounded(n, d) - 2 * n
<1> DEFINE c == 2 * d
           p == 2 * n + d
           r == p \div c
<1>1. c \in Nat \ {0} /\ p \in Nat
  OBVIOUS
<1>2. /\ r \in Nat /\ c * r <= p /\ p < c * r + c
  <2> HIDE DEF c, p
  <2> QED
    BY ONLY <1>1, Quotient
<1>3. c * r \in Int
  BY <1>1, <1>2
<1>4. c * r - 2 * n <= d /\ -d <= c * r - 2 * n
  <2> HIDE DEF r
  <2> QED
    BY <1>2, <1>3
<1> QED
  BY <1>2, <1>4 DEF Rounded

LEMMA Cancel ==
  ASSUME NEW d \in Nat \ {0}, NEW x \in Int, NEW y \in Int, d * x <= d * y
  PROVE  x <= y
<1>1. ASSUME x > y PROVE FALSE
  <2>1. PICK k \in Nat : x = y + 1 + k
    <3>1. x - y - 1 \in Nat /\ x = y + 1 + (x - y - 1)
      BY <1>1
    <3> QED
      BY <3>1
  <2>2. d * x = d * y + d + d * k
    BY <2>1
  <2>3. d * k >= 0 /\ d * y \in Int /\ d * k \in Int
    BY <2>1
  <2> QED
    BY <2>2, <2>3
<1> QED
  BY <1>1

\* What is left of the cash is shared by weight, each share rounded.
LEMMA Shares ==
  ASSUME NEW G, IsFiniteSet(G), NEW w \in [G -> Int], \A i \in G : w[i] >= 1,
         NEW rest \in Nat, NEW W, W = SumUp(w, G),
         NEW f \in [G -> Int], \A i \in G : f[i] = Rounded(rest * w[i], W),
         NEW J \in SUBSET G
  PROVE  /\ SumUp(f, J) \in Nat
         /\ SumUp(f, J) <= rest + Cardinality(G)
         /\ G # {} => rest - Cardinality(G) <= SumUp(f, G)
<1>0. Cardinality(G) \in Nat /\ G \in SUBSET G
  BY FS_CardinalityType
<1>1. CASE G = {}
  <2>1. J = {}
    BY <1>1
  <2>2. SumUp(f, J) = 0
    BY <2>1, SumOfNone
  <2> QED
    BY <1>0, <1>1, <2>2
<1>2. CASE G # {}
  <2>1. /\ W \in Nat /\ \A i \in G : w[i] <= W
    <3>1. \A i \in G : w[i] >= 0
      OBVIOUS
    <3> QED
      BY <1>0, <3>1, SumIsPositive
  <2>2. W \in Nat \ {0}
    <3>1. PICK i \in G : TRUE
      BY <1>2
    <3>2. w[i] >= 1 /\ w[i] <= W /\ w[i] \in Int
      BY <2>1
    <3> QED
      BY <2>1, <3>2
  <2>3. ASSUME NEW i \in G
        PROVE  /\ f[i] \in Nat
               /\ 2 * W * f[i] - 2 * rest * w[i] <= W
               /\ -W <= 2 * W * f[i] - 2 * rest * w[i]
    <3>1. w[i] \in Nat
      <4>1. w[i] \in Int /\ w[i] >= 1
        OBVIOUS
      <4> QED
        BY <4>1
    <3>2. rest * w[i] \in Nat /\ 2 * (rest * w[i]) = 2 * rest * w[i]
      BY ONLY <3>1, rest \in Nat
    <3>3. f[i] = Rounded(rest * w[i], W)
      OBVIOUS
    <3> DEFINE n == rest * w[i]
    <3>4. n \in Nat /\ 2 * n = 2 * rest * w[i] /\ f[i] = Rounded(n, W)
      BY <3>2, <3>3
    <3> HIDE DEF n
    <3>5. /\ Rounded(n, W) \in Nat
          /\ 2 * W * Rounded(n, W) - 2 * n <= W
          /\ -W <= 2 * W * Rounded(n, W) - 2 * n
      BY ONLY <2>2, <3>4, Rounding
    <3> QED
      BY ONLY <3>4, <3>5
  <2>4. \A i \in G : f[i] >= 0
    BY <2>3
  <2> DEFINE a == 2 * W
             b == 2 * rest
             u == [i \in G |-> a * f[i] - b * w[i]]
  <2>5. a \in Int /\ b \in Int /\ -W \in Int /\ W \in Int
    BY <2>2
  <2>6. u \in [G -> Int] /\ \A i \in G : -W <= u[i] /\ u[i] <= W
    <3>1. \A i \in G : f[i] \in Int /\ w[i] \in Int
      OBVIOUS
    <3>2. \A i \in G : a * f[i] - b * w[i] \in Int
      <4> HIDE DEF a, b
      <4> QED
        BY ONLY <2>5, <3>1
    <3>3. \A i \in G : u[i] = 2 * W * f[i] - 2 * rest * w[i]
      OBVIOUS
    <3>4. u \in [G -> Int]
      BY <3>2
    <3> HIDE DEF u
    <3> QED
      BY <2>3, <3>3, <3>4
  <2>7. ASSUME NEW S \in SUBSET G
        PROVE  /\ a * SumUp(f, S) - b * SumUp(w, S) <= Cardinality(S) * W
               /\ Cardinality(S) * (-W) <= a * SumUp(f, S) - b * SumUp(w, S)
               /\ SumUp(f, S) \in Int /\ SumUp(w, S) \in Int /\ Cardinality(S) \in Nat
               /\ SumUp(w, S) <= W /\ Cardinality(S) <= Cardinality(G) /\ SumUp(f, S) >= 0
    <3> DEFINE fs == [i \in S |-> f[i]]
               ws == [i \in S |-> w[i]]
               us == [i \in S |-> a * fs[i] - b * ws[i]]
    <3>1. IsFiniteSet(S) /\ Cardinality(S) \in Nat /\ Cardinality(S) <= Cardinality(G)
      BY FS_Subset, FS_CardinalityType
    <3>2. fs \in [S -> Int] /\ ws \in [S -> Int] /\ \A i \in S : fs[i] = f[i] /\ ws[i] = w[i]
      OBVIOUS
    <3>3. us \in [S -> Int] /\ \A i \in S : us[i] = u[i]
      <4>1. \A i \in S : us[i] = u[i] /\ u[i] \in Int
        BY <2>6
      <4> HIDE DEF u
      <4>2. us = [i \in S |-> us[i]]
        OBVIOUS
      <4> HIDE DEF us
      <4> QED
        BY <4>1, <4>2
    <3>4. SumUp(us, S) = a * SumUp(fs, S) - b * SumUp(ws, S)
      <4> HIDE DEF fs, ws, a, b
      <4> QED
        BY ONLY <2>5, <3>1, <3>2, SumIsLinear
    <3>5. \A i \in S : -W <= us[i] /\ us[i] <= W
      <4> HIDE DEF u, us
      <4> QED
        BY <2>6, <3>3
    <3> HIDE DEF fs, ws, us, a, b, u
    <3>6. /\ Cardinality(S) * (-W) <= SumUp(us, S)
          /\ SumUp(us, S) <= Cardinality(S) * W
      BY ONLY <2>5, <3>1, <3>3, <3>5, SumBetween
    <3>7. SumUp(fs, S) = SumUp(f, S) /\ SumUp(ws, S) = SumUp(w, S)
      BY <3>2, SumAgrees
    <3>8. SumUp(f, S) \in Nat
      BY <2>4, SumIsPositive
    <3>9. SumUp(w, S) \in Nat /\ SumUp(w, S) <= W
      <4>1. \A i \in G : w[i] >= 0
        OBVIOUS
      <4> QED
        BY <4>1, SumIsPositive
    <3> QED
      BY <3>1, <3>4, <3>6, <3>7, <3>8, <3>9
  <2> DEFINE F == SumUp(f, J)
             H == SumUp(f, G)
             V == SumUp(w, J)
             c == Cardinality(J)
             k == Cardinality(G)
  <2>8. /\ a * F - b * V <= c * W /\ F \in Int /\ F >= 0 /\ V \in Int /\ V <= W
        /\ c \in Nat /\ c <= k /\ k \in Nat
    BY <1>0, <2>7
  <2>9. k * (-W) <= a * H - b * W /\ H \in Int
    BY <1>0, <2>7
  <2>10. rest \in Nat /\ W \in Nat \ {0} /\ a = 2 * W /\ b = 2 * rest
    BY <2>2
  <2> HIDE DEF F, H, V, c, k, a, b
  <2>11. F <= rest + k
    <3>1. b * V <= b * W
      <4>1. \E e \in Nat : W = V + e
        <5>1. W - V \in Nat /\ W = V + (W - V)
          BY ONLY <2>8, <2>10
        <5> QED
          BY <5>1
      <4>2. PICK e \in Nat : W = V + e
        BY <4>1
      <4>3. b * W = b * V + b * e /\ b * V \in Int /\ b * e \in Nat
        BY ONLY <2>8, <2>10, <4>2
      <4> QED
        BY ONLY <4>3, b * W \in Int
    <3>2. c * W <= k * W
      <4>1. \E e \in Nat : k = c + e
        <5>1. k - c \in Nat /\ k = c + (k - c)
          BY ONLY <2>8
        <5> QED
          BY <5>1
      <4>2. PICK e \in Nat : k = c + e
        BY <4>1
      <4>3. k * W = c * W + e * W /\ c * W \in Int /\ e * W \in Nat
        BY ONLY <2>8, <2>10, <4>2
      <4> QED
        BY ONLY <4>3
    <3>3. a * F <= b * W + k * W
      <4>1. a * F \in Int /\ b * V \in Int /\ b * W \in Int /\ c * W \in Int /\ k * W \in Int
        BY ONLY <2>8, <2>10
      <4> QED
        BY ONLY <2>8, <3>1, <3>2, <4>1
    <3>4. a * F = W * (2 * F) /\ b * W + k * W = W * (2 * rest + k)
      BY ONLY <2>8, <2>10
    <3>5. 2 * F <= 2 * rest + k
      <4>1. 2 * F \in Int /\ 2 * rest + k \in Int
        BY ONLY <2>8, <2>10
      <4> QED
        BY ONLY <2>10, <3>3, <3>4, <4>1, Cancel
    <3> QED
      BY ONLY <2>8, <2>10, <3>5
  <2>12. rest - k <= H
    <3>1. k * (-W) = W * (-k) /\ a * H - b * W = W * (2 * H - 2 * rest)
      BY ONLY <2>8, <2>9, <2>10
    <3>2. -k <= 2 * H - 2 * rest
      <4>1. -k \in Int /\ 2 * H - 2 * rest \in Int
        BY ONLY <2>8, <2>9, <2>10
      <4> QED
        BY ONLY <2>9, <2>10, <3>1, <4>1, Cancel
    <3> QED
      BY ONLY <2>8, <2>9, <2>10, <3>2
  <2>13. F \in Nat
    BY ONLY <2>8
  <2> QED
    BY <2>11, <2>12, <2>13 DEF F, H, k
<1> QED
  BY <1>1, <1>2

LEMMA SumSplitIn ==
  ASSUME NEW S, IsFiniteSet(S), NEW v \in [S -> Int], NEW s \in SUBSET S, NEW C \in SUBSET s
  PROVE  SumUp(v, s) = SumUp(v, s \ C) + SumUp(v, C)
<1> DEFINE vs == [x \in s |-> v[x]]
<1>1. vs \in [s -> Int] /\ \A x \in s : vs[x] = v[x]
  OBVIOUS
<1>2. IsFiniteSet(s)
  BY FS_Subset
<1> HIDE DEF vs
<1>3. SumUp(vs, s) = SumUp(vs, s \ C) + SumUp(vs, C)
  BY ONLY <1>1, <1>2, C \in SUBSET s, SumSplit
<1>4. SumUp(vs, s) = SumUp(v, s)
  BY <1>1, SumAgrees
<1>5. SumUp(vs, s \ C) = SumUp(v, s \ C)
  BY <1>1, SumAgrees
<1>6. SumUp(vs, C) = SumUp(v, C)
  BY <1>1, SumAgrees
<1> QED
  BY <1>3, <1>4, <1>5, <1>6

LEMMA LegFacts ==
  ASSUME NEW l \in Leg
  PROVE  /\ Weight(l) \in Int /\ Weight(l) >= 1
         /\ \A k \in Leg : Key(l) = Key(k) => l = k
<1>1. l.size \in Size /\ l.price \in 1..3 /\ l = [size |-> l.size, price |-> l.price]
  BY DEF Leg
<1>2. Size \subseteq Nat \ {0}
  BY TapeAssumption
<1>3. l.size \in Nat /\ l.size >= 1
  BY ONLY <1>1, <1>2
<1>4. Weight(l) \in Int /\ Weight(l) >= 1
  <2>1. l.price = 1 \/ l.price = 2 \/ l.price = 3
    BY <1>1
  <2>2. Weight(l) = l.size * 3 \/ Weight(l) = l.size * 4
    BY <1>3, <2>1 DEF Weight
  <2> QED
    BY ONLY <1>3, <2>2
<1>5. ASSUME NEW k \in Leg, Key(l) = Key(k) PROVE l = k
  <2>1. l.price = k.price /\ l.size = k.size
    BY <1>5 DEF Key
  <2>2. k = [size |-> k.size, price |-> k.price]
    BY DEF Leg
  <2> QED
    BY <1>1, <2>1, <2>2
<1> QED
  BY <1>4, <1>5

\* Each fill of the transaction has one row, however often the feed lists it.
LEMMA Representatives ==
  ASSUME NEW T, NEW q \in Seq(T)
  PROVE  \E I \in SUBSET DOMAIN q :
            /\ ToSet(q) = {q[i] : i \in I}
            /\ \A i, j \in I : q[i] = q[j] => i = j
            /\ IsInjective(q) => I = DOMAIN q
<1> DEFINE D == DOMAIN q
           rep(l) == CHOOSE i \in D : q[i] = l
           I == {rep(q[i]) : i \in D}
<1>1. \A i \in D : rep(q[i]) \in D /\ q[rep(q[i])] = q[i]
  OBVIOUS
<1>2. I \in SUBSET D
  BY <1>1
<1>3. \A i \in I : q[i] \in {q[j] : j \in D} /\ rep(q[i]) = i
  <2> SUFFICES ASSUME NEW j \in D PROVE rep(q[rep(q[j])]) = rep(q[j]) /\ rep(q[j]) \in D
    OBVIOUS
  <2>1. q[rep(q[j])] = q[j]
    BY <1>1
  <2> QED
    BY <1>1, <2>1
<1>4. \A i, j \in I : q[i] = q[j] => i = j
  <2> SUFFICES ASSUME NEW i \in I, NEW j \in I, q[i] = q[j] PROVE i = j
    OBVIOUS
  <2>1. rep(q[i]) = i /\ rep(q[j]) = j
    BY <1>3
  <2> QED
    BY <2>1
<1>5. ToSet(q) = {q[i] : i \in I}
  <2>1. ToSet(q) = {q[i] : i \in D}
    BY DEF ToSet
  <2>2. \A i \in D : rep(q[i]) \in I /\ q[rep(q[i])] = q[i]
    BY <1>1
  <2> HIDE DEF rep, I
  <2> QED
    BY <1>2, <2>1, <2>2
<1>6. ASSUME IsInjective(q) PROVE I = D
  <2>1. \A i, j \in D : q[i] = q[j] => i = j
    BY <1>6 DEF IsInjective
  <2>2. \A i \in D : rep(q[i]) = i
    BY <1>1, <2>1
  <2> QED
    BY <2>2
<1> HIDE DEF I
<1> QED
  BY <1>2, <1>4, <1>5, <1>6

LEMMA FeesOfTheCash ==
  ASSUME MatchTypeOK
  PROVE  FeesMeetTheCash
<1> SUFFICES ASSUME NEW exact \in ActivityRows, exact # <<>>
             PROVE  LET paid == SumFunction([l \in ToSet(legs) |-> AssignFee(l, exact)])
                        slack == Cardinality(Aggregated(exact))
                    IN /\ paid <= Total(exact) + slack
                       /\ (IsInjective(legs) /\ Aggregated(exact) # {}) => paid >= Total(exact) - slack
  BY DEF FeesMeetTheCash
<1> DEFINE D == DOMAIN legs
           K == DOMAIN exact
           M == Listed(exact)
           G == Aggregated(exact)
           rest == Leftover(exact)
           e == [i \in M |-> exact[Key(legs[i])]]
           w == [i \in G |-> Weight(legs[i])]
           W == SumFunction(w)
           f == [i \in D |-> AssignFee(legs[i], exact)]
           g == [i \in G |-> f[i]]
<1>1. /\ IsFiniteSet(D) /\ \A i \in D : legs[i] \in Leg
  <2>1. legs \in Seq(Leg)
    BY DEF MatchTypeOK
  <2>2. Len(legs) \in Nat /\ D = 1..Len(legs)
    BY <2>1
  <2>3. IsFiniteSet(1..Len(legs))
    BY <2>2, FS_Interval
  <2> QED
    BY <2>1, <2>2, <2>3
<1>2. IsFiniteSet(K) /\ exact \in [K -> Int] /\ \A k \in K : exact[k] >= 0
  <2>1. PICK A \in {A \in SUBSET ((1..3) \X Size) : IsFiniteSet(A)} : exact \in [A -> CashFee]
    BY DEF ActivityRows
  <2>2. CashFee \subseteq Nat
    BY LegsAssumption
  <2>3. A = K /\ IsFiniteSet(A)
    BY <2>1
  <2>4. \A k \in K : exact[k] \in Nat
    BY <2>1, <2>2, <2>3
  <2> QED
    BY <2>1, <2>3, <2>4
<1>3. /\ M \in SUBSET D /\ G \in SUBSET D /\ D \ M = G /\ D \ G = M
      /\ \A i \in D : i \in M <=> Key(legs[i]) \in K
  BY DEF Listed, Aggregated
<1>4. IsFiniteSet(M) /\ IsFiniteSet(G)
  BY ONLY <1>1, <1>3, FS_Subset
<1>5. e \in [M -> Int] /\ \A i \in M : e[i] >= 0 /\ e[i] = exact[Key(legs[i])]
  BY <1>2, <1>3
<1>6. w \in [G -> Int] /\ \A i \in G : w[i] >= 1 /\ w[i] = Weight(legs[i])
  <2>1. \A i \in G : legs[i] \in Leg
    BY <1>1, <1>3
  <2>2. \A i \in G : Weight(legs[i]) \in Int /\ Weight(legs[i]) >= 1
    BY <2>1, LegFacts
  <2> HIDE DEF G
  <2> QED
    BY <2>2
<1>7. /\ Total(exact) = SumUp(exact, K)
      /\ SumFunction(e) = SumUp(e, M)
      /\ W = SumUp(w, G)
  <2> HIDE DEF K, M, G, e, w
  <2>1. Total(exact) = SumUp(exact, K)
    BY <1>2, SumFunctionIsSum DEF Total
  <2>2. SumFunction(e) = SumUp(e, M)
    BY <1>4, <1>5, SumFunctionIsSum
  <2>3. W = SumUp(w, G)
    BY <1>4, <1>6, SumFunctionIsSum
  <2> QED
    BY <2>1, <2>2, <2>3
<1>8. rest = Positive(SumUp(exact, K) - SumUp(e, M))
  BY <1>7 DEF Leftover
<1>9. \A i \in D : f[i] = IF i \in M THEN e[i] ELSE Rounded(rest * w[i], W)
  BY <1>3 DEF AssignFee
<1>10. SumUp(exact, K) \in Nat /\ SumUp(e, M) \in Nat
  <2>1. {} \in SUBSET K /\ {} \in SUBSET M
    OBVIOUS
  <2> HIDE DEF K, M, e
  <2> QED
    BY <1>2, <1>4, <1>5, <2>1, SumIsPositive
<1> HIDE DEF D, K, M, G, rest, e, w, W, f, g
<1>11. rest \in Nat
  BY <1>8, <1>10 DEF Positive
<1>12. \A i \in D : f[i] \in Int
  <2>1. ASSUME NEW i \in G PROVE Rounded(rest * w[i], W) \in Nat
    <3>1. \A j \in G : w[j] >= 0
      BY <1>6
    <3>2. {} \in SUBSET G
      OBVIOUS
    <3>3. W \in Nat /\ w[i] <= W
      BY <1>4, <1>6, <1>7, <3>1, <3>2, SumIsPositive
    <3>4. w[i] \in Nat /\ W \in Nat \ {0}
      BY <1>6, <3>3
    <3>5. rest * w[i] \in Nat
      BY ONLY <1>11, <3>4
    <3> QED
      BY <3>4, <3>5, Rounding
  <2>2. \A i \in D : i \notin M => i \in G
    BY <1>3
  <2> QED
    BY <1>5, <1>9, <2>1, <2>2
<1>13. f \in [D -> Int]
  <2>1. f = [i \in D |-> f[i]]
    BY DEF f
  <2> QED
    BY <1>12, <2>1
<1>14. g \in [G -> Int] /\ \A i \in G : g[i] = f[i] /\ g[i] = Rounded(rest * w[i], W)
  <2>1. \A i \in G : i \in D /\ i \notin M
    BY <1>3
  <2> QED
    BY <1>9, <1>12, <2>1 DEF g
<1>15. PICK I \in SUBSET D :
          /\ ToSet(legs) = {legs[i] : i \in I}
          /\ \A i, j \in I : legs[i] = legs[j] => i = j
          /\ IsInjective(legs) => I = D
  <2>1. legs \in Seq(Leg)
    BY DEF MatchTypeOK
  <2> QED
    BY <2>1, Representatives DEF D
<1> DEFINE p == [l \in ToSet(legs) |-> AssignFee(l, exact)]
           X == I \cap M
           Y == I \cap G
<1>16. IsFiniteSet(I) /\ X \in SUBSET D /\ Y \in SUBSET D /\ X \in SUBSET M /\ Y \in SUBSET G
       /\ X \in SUBSET I /\ I \ X = Y
  <2>1. IsFiniteSet(I)
    BY <1>1, FS_Subset
  <2> QED
    BY <1>3, <2>1
<1>17. SumFunction(p) = SumUp(f, I)
  <2>1. \A i \in I : legs[i] \in ToSet(legs) /\ p[legs[i]] = f[i] /\ f[i] \in Int
    BY <1>12, <1>15 DEF f
  <2>2. p \in [ToSet(legs) -> Int]
    <3>1. p = [l \in ToSet(legs) |-> p[l]]
      OBVIOUS
    <3> HIDE DEF p
    <3>2. \A l \in ToSet(legs) : p[l] \in Int
      BY <1>15, <2>1
    <3> QED
      BY <3>1, <3>2
  <2> HIDE DEF p
  <2>3. IsFiniteSet(ToSet(legs))
    BY <1>15, <1>16, ImageIsFinite
  <2>4. SumFunction(p) = SumUp(p, ToSet(legs))
    BY <2>2, <2>3, SumFunctionIsSum
  <2>5. SumUp(p, {legs[i] : i \in I}) = SumUp([i \in I |-> p[legs[i]]], I)
    <3>1. \A i \in I : p[legs[i]] \in Int
      BY <2>1
    <3>2. \A i, j \in I : legs[i] = legs[j] => i = j
      BY <1>15
    <3> QED
      BY ONLY <1>16, <3>1, <3>2, SumReindexed
  <2>6. SumUp([i \in I |-> p[legs[i]]], I) = SumUp(f, I)
    <3>1. \A i \in I : [j \in I |-> p[legs[j]]][i] = f[i]
      BY <2>1
    <3> QED
      BY ONLY <3>1, SumAgrees
  <2> QED
    BY <1>15, <2>4, <2>5, <2>6
<1> HIDE DEF p, X, Y
<1>18. SumUp(f, I) = SumUp(f, Y) + SumUp(f, X)
  <2>1. SumUp(f, I) = SumUp(f, I \ X) + SumUp(f, X)
    BY ONLY <1>1, <1>13, <1>15, <1>16, SumSplitIn
  <2> QED
    BY <1>16, <2>1
<1>19. SumUp(f, X) = SumUp(e, X)
  <2>1. \A i \in X : f[i] = e[i]
    BY <1>9, <1>16
  <2> QED
    BY <2>1, SumAgrees
<1>20. SumUp(e, X) \in Nat /\ SumUp(e, X) <= SumUp(e, M)
  <2>1. \A i \in M : e[i] >= 0
    BY <1>5
  <2> QED
    BY <1>4, <1>5, <1>16, <2>1, SumIsPositive
<1>21. SumUp(e, X) <= SumUp(exact, K)
  <2> DEFINE q == [i \in X |-> Key(legs[i])]
             Q == {q[i] : i \in X}
  <2>1. \A i \in X : q[i] \in K /\ exact[q[i]] = e[i] /\ exact[q[i]] \in Int
    <3>1. \A i \in X : i \in M /\ i \in D
      BY <1>16
    <3>2. \A i \in X : Key(legs[i]) \in K /\ exact[Key(legs[i])] = e[i]
      BY <1>3, <1>5, <3>1
    <3> QED
      BY <1>2, <3>2
  <2>2. \A i, j \in X : q[i] = q[j] => i = j
    <3>0. \A i \in X : legs[i] \in Leg
      BY <1>1, <1>16
    <3>1. \A i, j \in X : Key(legs[i]) = Key(legs[j]) => legs[i] = legs[j]
      BY ONLY <3>0, LegFacts, Zenon
    <3> QED
      BY <1>15, <1>16, <3>1
  <2> HIDE DEF q
  <2>3. IsFiniteSet(X) /\ Q \in SUBSET K
    <3>1. IsFiniteSet(X)
      BY ONLY <1>16, FS_Subset
    <3> QED
      BY <2>1, <3>1
  <2>4. SumUp(exact, Q) = SumUp([i \in X |-> exact[q[i]]], X)
    <3>1. \A i \in X : exact[q[i]] \in Int
      BY <2>1
    <3> QED
      BY ONLY <2>2, <2>3, <3>1, SumReindexed
  <2>5. SumUp([i \in X |-> exact[q[i]]], X) = SumUp(e, X)
    <3>1. \A i \in X : [j \in X |-> exact[q[j]]][i] = e[i]
      BY <2>1
    <3> QED
      BY ONLY <3>1, SumAgrees
  <2> HIDE DEF Q
  <2>6. SumUp(exact, Q) <= SumUp(exact, K)
    BY <1>2, <2>3, SumIsPositive
  <2> QED
    BY <2>4, <2>5, <2>6
<1>22. SumUp(f, Y) = SumUp(g, Y)
  <2>1. \A i \in Y : f[i] = g[i]
    BY <1>14, <1>16
  <2> QED
    BY <2>1, SumAgrees
<1> DEFINE k == Cardinality(G)
<1>23. /\ SumUp(g, Y) \in Nat /\ SumUp(g, Y) <= rest + k
       /\ G # {} => rest - k <= SumUp(g, G)
  <2>1. \A i \in G : w[i] >= 1
    BY <1>6
  <2>2. \A i \in G : g[i] = Rounded(rest * w[i], W)
    BY <1>14
  <2>3. w \in [G -> Int] /\ g \in [G -> Int] /\ W = SumUp(w, G) /\ Y \in SUBSET G
    BY <1>6, <1>7, <1>14, <1>16
  <2> QED
    BY ONLY <1>4, <1>11, <2>1, <2>2, <2>3, Shares
<1>24. k \in Nat
  BY <1>4, FS_CardinalityType
<1> HIDE DEF k
<1>25. SumFunction(p) <= Total(exact) + k
  <2>1. SumFunction(p) = SumUp(g, Y) + SumUp(e, X)
    BY <1>17, <1>18, <1>19, <1>22
  <2>2. Total(exact) = SumUp(exact, K)
    BY <1>7
  <2> QED
    BY <1>8, <1>10, <1>11, <1>20, <1>21, <1>23, <1>24, <2>1, <2>2 DEF Positive
<1>26. IsInjective(legs) /\ G # {} => SumFunction(p) >= Total(exact) - k
  <2> SUFFICES ASSUME IsInjective(legs), G # {} PROVE SumFunction(p) >= Total(exact) - k
    OBVIOUS
  <2>1. X = M /\ Y = G
    <3>1. I = D
      BY <1>15
    <3> QED
      BY <1>3, <3>1 DEF X, Y
  <2>2. SumFunction(p) = SumUp(g, G) + SumUp(e, M) /\ SumUp(g, G) \in Nat
    BY <1>17, <1>18, <1>19, <1>22, <1>23, <2>1
  <2>3. SumUp(e, M) <= SumUp(exact, K) /\ rest - k <= SumUp(g, G)
    BY <1>21, <1>23, <2>1
  <2>4. Total(exact) = SumUp(exact, K)
    BY <1>7
  <2> QED
    BY <1>8, <1>10, <1>11, <1>24, <2>2, <2>3, <2>4 DEF Positive
<1> QED
  BY <1>25, <1>26 DEF p, k, G

LEMMA TripsOfAnAccount == MatchTypeOK => CashAddsUp /\ FeesMeetTheCash
  BY TripsOfTheCash, FeesOfTheCash

\* The inputs are fills.
LEMMA MatchTypes ==
  /\ MatchInit => MatchTypeOK
  /\ MatchTypeOK /\ [MatchNext]_matchVars => MatchTypeOK'
<1>1. MatchInit => MatchTypeOK
  BY DEF MatchInit, MatchTypeOK
<1>2. MatchTypeOK /\ [MatchNext]_matchVars => MatchTypeOK'
  <2> SUFFICES ASSUME MatchTypeOK, [MatchNext]_matchVars PROVE MatchTypeOK'
    OBVIOUS
  <2>1. CASE AddFill
    <3>1. PICK f \in Tape : tape' = Append(tape, f)
      BY <2>1 DEF AddFill
    <3> HIDE DEF Tape
    <3> QED
      BY <2>1, <3>1 DEF AddFill, MatchTypeOK
  <2>2. CASE AddLeg
    <3>1. PICK f \in Leg : legs' = Append(legs, f)
      BY <2>2 DEF AddLeg
    <3> HIDE DEF Leg
    <3> QED
      BY <2>2, <3>1 DEF AddLeg, MatchTypeOK
  <2>3. CASE UNCHANGED matchVars
    BY <2>3 DEF matchVars, MatchTypeOK
  <2> QED
    BY <2>1, <2>2, <2>3 DEF MatchNext
<1> QED
  BY <1>1, <1>2
=============================================================================
