---------------------------- MODULE FavoriteLock ----------------------------
(***************************************************************************)
(* favorite/lock.py: the verdict of a game is taken once, in the minutes   *)
(* before first pitch, and stored in favorite_verdicts for good.           *)
(*                                                                         *)
(* A pass notes the time, reads which games are near first pitch and not   *)
(* locked, and works through them, awaiting a price and a score for each;  *)
(* either may fail.  After a restart the pass of the old process may still *)
(* be running.  First pitch may be put off while it is not passed.  Time is*)
(* in minutes; ClearFavorite has the score, here a verdict is the moment   *)
(* its price was read.                                                     *)
(***************************************************************************)
EXTENDS Integers

CONSTANTS Match, Locker,
          LockMinutes, GraceMinutes,   \* LOCK_MINUTES, GRACE_MINUTES
          FirstPitch, Delay, LastMinute  \* bounds: kickoff, by how much it moves, the clock

ASSUME MinutesAssumption ==
    {LockMinutes, GraceMinutes, FirstPitch, Delay, LastMinute} \subseteq Nat

VARIABLES minute,    \* the wall clock
          kickoff,   \* of the screener's rows
          locks,     \* favorite_verdicts
          pass       \* each pass: when it began, the rows it read, what is due

lockVars == <<minute, kickoff, locks, pass>>

NoPass == [began |-> 0, rows |-> [g \in Match |-> FirstPitch], due |-> {}]

LockInit ==
    /\ minute = 0
    /\ kickoff = [g \in Match |-> FirstPitch]
    /\ locks = <<>>
    /\ pass = [p \in Locker |-> NoPass]

Near(g) == kickoff[g] > minute - GraceMinutes /\ kickoff[g] <= minute + LockMinutes

Due == {g \in Match : Near(g)} \ DOMAIN locks

LockBegin(p) ==
    /\ pass[p].due = {} /\ Due # {}
    /\ pass' = [pass EXCEPT ![p] = [began |-> minute, rows |-> kickoff, due |-> Due]]
    /\ UNCHANGED <<minute, kickoff, locks>>

\* Mutant of Put.
PutOrReplace(g, lock) ==
    locks' = [h \in DOMAIN locks \cup {g} |-> IF h = g THEN lock ELSE locks[h]]

\* INSERT OR IGNORE, never UPDATE
Put(g, lock) ==
    locks' = [h \in DOMAIN locks \cup {g} |-> IF h \in DOMAIN locks THEN locks[h] ELSE lock]

\* The price and the factors have been awaited.
LockGame(p, g) ==
    /\ g \in pass[p].due
    /\ pass' = [pass EXCEPT ![p].due = @ \ {g}]
    /\ Put(g, [lockedAt |-> pass[p].began, priced |-> minute, firstPitch |-> pass[p].rows[g]])
    /\ UNCHANGED <<minute, kickoff>>

SkipGame(p, g) ==
    /\ g \in pass[p].due
    /\ pass' = [pass EXCEPT ![p].due = @ \ {g}]
    /\ UNCHANGED <<minute, kickoff, locks>>

PutOff(g) ==
    /\ minute < kickoff[g] /\ kickoff[g] = FirstPitch
    /\ kickoff' = [kickoff EXCEPT ![g] = @ + Delay]
    /\ UNCHANGED <<minute, locks, pass>>

Minute ==
    /\ minute < LastMinute
    /\ minute' = minute + 1
    /\ UNCHANGED <<kickoff, locks, pass>>

LockNext ==
    \/ Minute
    \/ \E g \in Match : PutOff(g) \/ \E p \in Locker : LockGame(p, g) \/ SkipGame(p, g)
    \/ \E p \in Locker : LockBegin(p)

LockSpec == LockInit /\ [][LockNext]_lockVars

-----------------------------------------------------------------------------
Lock == [lockedAt : 0..LastMinute, priced : 0..LastMinute, firstPitch : Nat]

LockTypeOK ==
    /\ minute \in 0..LastMinute
    /\ kickoff \in [Match -> {FirstPitch, FirstPitch + Delay}]
    /\ \A g \in DOMAIN locks : g \in Match /\ locks[g] \in Lock
    /\ pass \in [Locker -> [began : 0..LastMinute, rows : [Match -> Nat],
                          due : SUBSET Match]]

\* store.put: "a lock is final, and a second writer (a restart racing the job)
\* must not overwrite the first".
LockIsFinal ==
    [][ \A g \in DOMAIN locks : g \in DOMAIN locks' /\ locks'[g] = locks[g] ]_lockVars

\* lock.py: "deliberately does NOT lock a game whose first pitch has passed".
NotAfterFirstPitch == \A g \in DOMAIN locks : locks[g].lockedAt <= locks[g].firstPitch
=============================================================================
