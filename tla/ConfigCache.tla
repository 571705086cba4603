----------------------------- MODULE ConfigCache -----------------------------
(***************************************************************************)
(* The alert configurations: config() and save_config() of football/store  *)
(* and comeback/store (the same code twice), one row in the database and a *)
(* copy of it kept for thirty seconds.                                     *)
(*                                                                         *)
(* The handlers run in worker threads beside the jobs on the loop, and     *)
(* nothing locks the copy: a thread takes the time, reads the row and      *)
(* writes the copy in steps of their own.  Refused keys change nothing and *)
(* are left out.                                                           *)
(***************************************************************************)
EXTENDS Integers

CONSTANTS Worker, Option, Choice, Default,   \* DEFAULTS: Default for every option
          CfgTtl,                            \* _CFG_TTL
          LastTick                           \* bound: the clock stops here

ASSUME ConfigAssumption ==
    /\ Default \in Choice
    /\ CfgTtl \in Nat \ {0} /\ LastTick \in Nat

VARIABLES tick,       \* time.monotonic()
          saved,      \* the row, over the defaults
          copy,       \* _cfg_cache
          worker,     \* what each thread is doing
          held        \* history: when each configuration was last the saved one

cfgVars == <<tick, saved, copy, worker, held>>

Config == [Option -> Choice]
NoCopy == [kind |-> "none"]
NoUpdate == [kind |-> "none"]
Update == [option : Option, choice : Choice]
Never == 0 - CfgTtl - 1

Idle == [at |-> "idle", since |-> 0, cfg |-> [o \in Option |-> Default], update |-> NoUpdate]

CfgInit ==
    /\ tick = 0
    /\ saved = [o \in Option |-> Default]
    /\ copy = NoCopy
    /\ worker = [w \in Worker |-> Idle]
    /\ held = [c \in Config |-> IF c = saved THEN 0 ELSE Never]

\* Mutant of IsFresh.
IsFreshForever(now) == copy # NoCopy

IsFresh(now) == copy # NoCopy /\ now - copy.at < CfgTtl

\* config(), by a reader or as the first thing save_config does
AskConfig(w) ==
    /\ worker[w].at = "idle"
    /\ \E update \in Update \cup {NoUpdate} :
          worker' = [worker EXCEPT ![w] =
             IF IsFresh(tick)
             THEN [at |-> "has", since |-> tick, cfg |-> copy.cfg, update |-> update]
             ELSE [at |-> "miss", since |-> tick, cfg |-> saved, update |-> update]]
    /\ UNCHANGED <<tick, saved, copy, held>>

ReadRow(w) ==
    /\ worker[w].at = "miss"
    /\ worker' = [worker EXCEPT ![w].at = "read", ![w].cfg = saved]
    /\ UNCHANGED <<tick, saved, copy, held>>

FillCopy(w) ==
    /\ worker[w].at = "read"
    /\ copy' = [at |-> worker[w].since, cfg |-> worker[w].cfg]
    /\ worker' = [worker EXCEPT ![w].at = "has"]
    /\ UNCHANGED <<tick, saved, held>>

Return(w) ==
    /\ worker[w].at = "has" /\ worker[w].update = NoUpdate
    /\ worker' = [worker EXCEPT ![w] = Idle]
    /\ UNCHANGED <<tick, saved, copy, held>>

Merged(w) == [worker[w].cfg EXCEPT ![worker[w].update.option] = worker[w].update.choice]

SaveRow(w) ==
    /\ worker[w].at = "has" /\ worker[w].update # NoUpdate
    /\ saved' = Merged(w)
    /\ held' = [held EXCEPT ![Merged(w)] = tick]
    /\ worker' = [worker EXCEPT ![w].at = "clear"]
    /\ UNCHANGED <<tick, copy>>

ClearCopy(w) ==
    /\ worker[w].at = "clear"
    /\ copy' = NoCopy
    /\ worker' = [worker EXCEPT ![w] = Idle]
    /\ UNCHANGED <<tick, saved, held>>

Tick ==
    /\ tick < LastTick
    /\ tick' = tick + 1
    /\ held' = [held EXCEPT ![saved] = tick + 1]
    /\ UNCHANGED <<saved, copy, worker>>

CfgNext ==
    \/ Tick
    \/ \E w \in Worker :
          AskConfig(w) \/ ReadRow(w) \/ FillCopy(w) \/ Return(w) \/ SaveRow(w) \/ ClearCopy(w)

CfgSpec == CfgInit /\ [][CfgNext]_cfgVars

-----------------------------------------------------------------------------
CfgTypeOK ==
    /\ tick \in 0..LastTick
    /\ saved \in Config
    /\ copy \in [at : 0..LastTick, cfg : Config] \cup {NoCopy}
    /\ worker \in [Worker -> [at : {"idle", "miss", "read", "has", "clear"}, since : 0..LastTick,
                              cfg : Config, update : Update \cup {NoUpdate}]]
    /\ held \in [Config -> {Never} \cup 0..LastTick]

\* Whatever threads overlap, the configuration a detector works with was the
\* saved one less than _CFG_TTL seconds before it asked: a switch thrown in the
\* page reaches the alerts in time.
ConfigIsRecent == \A w \in Worker :
    worker[w].at = "has" => held[worker[w].cfg] > worker[w].since - CfgTtl

\* save_config: "merge validated updates".  A save changes the option it was
\* asked to change and leaves the others as they were saved.
ConfigKeepsUpdates ==
    [][ \A w \in Worker : SaveRow(w) =>
           \A o \in Option \ {worker[w].update.option} : saved'[o] = saved[o] ]_cfgVars
=============================================================================
