-------------------------- MODULE TraderAccounts --------------------------
(***************************************************************************)
(* traders/store.py and the account endpoints of traders/api.py: who       *)
(* follows which wallet, and the fills kept under each account.            *)
(*                                                                         *)
(* A start rebuilds the table when it has no owner_id column; the five     *)
(* statements of the rebuild commit one by one, so a crash can fall        *)
(* between any two of them.  Afterwards users add, delete and re-add       *)
(* wallets while fills keep being stored.  Each store call is one          *)
(* transaction.  Polymarket only shows the last fills of a wallet, which   *)
(* is why the ones stored under a deleted account matter.                  *)
(*                                                                         *)
(* Labels, tags and last_sync are not modelled; the column `deleted' is    *)
(* added before requests are served and defaults to 0, so rows have it.    *)
(***************************************************************************)
EXTENDS Integers, FiniteSets

CONSTANTS Wallet, User,
          Legacy,     \* wallets of the table before accounts had owners
          Nobody,     \* owner_id NULL
          Window,     \* how many fills of a wallet the API reaches back
          MaxTrades,  \* bound on the fills of a wallet
          MaxRows     \* bound on the rows of the table

ASSUME LegacyAssumption == Legacy \subseteq Wallet /\ IsFiniteSet(Legacy)
ASSUME NobodyAssumption == Nobody \notin User

VARIABLES table,    \* trader_accounts: its columns and its rows
          staging,  \* trader_accounts_v2
          boot,     \* next statement of init, or "serve"
          fills,    \* trader_fills
          traded    \* fills every wallet has made so far

acctVars == <<table, staging, boot, fills, traded>>

Absent == [columns |-> "none", rows |-> {}]
New(rows) == [columns |-> "owned", rows |-> rows]
Account(id, w, u) == [id |-> id, wallet |-> w, owner |-> u, deleted |-> FALSE]

\* What was deployed before: no table yet, or one row per wallet and their fills.
AcctInit ==
    /\ \E old \in [1..Cardinality(Legacy) -> Legacy] :
          /\ \A i, j \in DOMAIN old : i # j => old[i] # old[j]
          /\ \/ table = Absent /\ fills = {}
             \/ /\ table = [columns |-> "unowned",
                            rows |-> {Account(i, old[i], Nobody) : i \in DOMAIN old}]
                /\ fills = {[account |-> i, wallet |-> old[i], n |-> 1] : i \in DOMAIN old}
    /\ traded = [w \in Wallet |-> 1]
    /\ staging = Absent
    /\ boot = "schema"

-----------------------------------------------------------------------------

\* Mutant of Schema.
SchemaDropsStaging ==
    /\ boot = "schema"
    /\ table' = IF table = Absent THEN New({}) ELSE table
    /\ staging' = Absent
    /\ boot' = IF table'.columns = "unowned" THEN "drop_staging" ELSE "serve"
    /\ UNCHANGED <<fills, traded>>

\* init: CREATE TABLE IF NOT EXISTS, then the rebuild if the column is missing.
Schema ==
    /\ boot = "schema"
    /\ table' = IF table = Absent THEN New({}) ELSE table
    /\ boot' = IF table'.columns = "unowned" THEN "drop_staging" ELSE "serve"
    /\ UNCHANGED <<staging, fills, traded>>

MigrateStep(from, to) == boot = from /\ boot' = to /\ UNCHANGED <<fills, traded>>

\* "a previous half-run may have left the staging table behind"
DropStaging ==
    /\ MigrateStep("drop_staging", "create_staging")
    /\ staging' = Absent
    /\ UNCHANGED table

CreateStaging ==
    /\ MigrateStep("create_staging", "copy")
    /\ staging' = New({})
    /\ UNCHANGED table

Copy ==
    /\ MigrateStep("copy", "drop")
    /\ staging' = New(table.rows)
    /\ UNCHANGED table

DropOld ==
    /\ MigrateStep("drop", "rename")
    /\ table' = Absent
    /\ UNCHANGED staging

Rename ==
    /\ MigrateStep("rename", "serve")
    /\ table' = staging
    /\ staging' = Absent

\* The process dies at any point and starts again.
Restart ==
    /\ boot # "schema"
    /\ boot' = "schema"
    /\ UNCHANGED <<table, staging, fills, traded>>

-----------------------------------------------------------------------------
Live(w) == {r \in table.rows : r.wallet = w /\ ~r.deleted}
Dead(w) == {r \in table.rows : r.wallet = w /\ r.deleted}
FillsOf(r) == Cardinality({f \in fills : f.account = r.id})
Richest(rows) == {r \in rows : \A q \in rows : FillsOf(q) <= FillsOf(r)}

\* Mutant of Clash.
ClashNot(r, u) == FALSE

\* UNIQUE(wallet, owner_id): rows of other owners, deleted or not, do not clash.
Clash(r, u) == \E q \in table.rows : q.id # r.id /\ q.wallet = r.wallet /\ q.owner = u

Replace(r, q) == table' = [table EXCEPT !.rows = (@ \ {r}) \cup {q}]

\* An update that clashes raises and changes nothing.
Claim(u, w) ==
    \E r \in {r \in Live(w) : r.owner = Nobody} : ~Clash(r, u) /\ Replace(r, [r EXCEPT !.owner = u])

Resurrect(u, w) ==
    /\ \A r \in Live(w) : r.owner # Nobody
    /\ \E r \in Richest(Dead(w)) :
          ~Clash(r, u) /\ Replace(r, [r EXCEPT !.owner = u, !.deleted = FALSE])

\* The rowid of a new row is one more than the largest.
NextId(id) ==
    /\ \A r \in table.rows : r.id < id
    /\ id = 1 \/ \E r \in table.rows : r.id = id - 1

\* INSERT OR IGNORE: adding an account one already has is answered with it.
Insert(u, w) ==
    /\ Dead(w) = {}
    /\ \A r \in Live(w) : r.owner \notin {u, Nobody}
    /\ \E id \in 1..MaxRows :
          NextId(id) /\ table' = [table EXCEPT !.rows = @ \cup {Account(id, w, u)}]

AddAccount(u, w) ==
    /\ boot = "serve"
    /\ Claim(u, w) \/ Resurrect(u, w) \/ Insert(u, w)
    /\ UNCHANGED <<staging, boot, fills, traded>>

\* The owner only; a row without one cannot be deleted.  The row stays.
DeleteAccount(u, r) ==
    /\ boot = "serve"
    /\ r.owner = u /\ ~r.deleted
    /\ Replace(r, [r EXCEPT !.deleted = TRUE])
    /\ UNCHANGED <<staging, boot, fills, traded>>

\* sync_account of an account that may since have been deleted or passed on.
InsertFills(r) ==
    /\ boot = "serve"
    /\ LET seen == (traded[r.wallet] - Window + 1)..traded[r.wallet]
       IN fills' = fills \cup {[account |-> r.id, wallet |-> r.wallet, n |-> i] :
                                i \in {i \in seen : i > 0}}
    /\ UNCHANGED <<table, staging, boot, traded>>

Trade(w) ==
    /\ traded[w] < MaxTrades
    /\ traded' = [traded EXCEPT ![w] = @ + 1]
    /\ UNCHANGED <<table, staging, boot, fills>>

AcctStart == Schema \/ DropStaging \/ CreateStaging \/ Copy \/ DropOld \/ Rename \/ Restart

AcctNext ==
    \/ AcctStart
    \/ \E u \in User, w \in Wallet : AddAccount(u, w)
    \/ \E u \in User, r \in table.rows : DeleteAccount(u, r)
    \/ \E r \in table.rows : InsertFills(r)
    \/ \E w \in Wallet : Trade(w)

AcctSpec == AcctInit /\ [][AcctNext]_acctVars

-----------------------------------------------------------------------------
AccountRow == [id : Nat \ {0}, wallet : Wallet, owner : User \cup {Nobody}, deleted : BOOLEAN]

AcctTypeOK ==
    /\ table.columns \in {"none", "unowned", "owned"} /\ table.rows \subseteq AccountRow
    /\ staging.columns \in {"none", "owned"} /\ staging.rows \subseteq AccountRow
    /\ boot \in {"schema", "drop_staging", "create_staging", "copy", "drop", "rename", "serve"}
    /\ fills \subseteq [account : Nat \ {0}, wallet : Wallet, n : Nat]
    /\ traded \in [Wallet -> Nat]

\* api.list_accounts: a user sees his own rows and the unclaimed ones, and never
\* the same wallet twice in that list: however accounts are claimed, deleted and
\* brought back by several users, none of them is alerted twice for one trade.
SeenOnce == \A u \in User, w \in Wallet :
    Cardinality({r \in Live(w) : r.owner \in {u, Nobody}}) <= 1

\* store._migrate_owner_column: "ids are preserved, so the references stay valid":
\* wherever starts are cut off, every account that has fills is in one of the two
\* tables, under its id and with its wallet; and unless a start was cut off between
\* DROP and RENAME (which leaves the rows in the staging table for good), the account
\* a fill refers to is one of its own wallet.
AccountsSurvive ==
    /\ \A f \in fills : \E r \in table.rows \cup staging.rows :
          r.id = f.account /\ r.wallet = f.wallet
    /\ boot = "serve" /\ staging = Absent =>
          \A f \in fills : \A r \in table.rows : r.id = f.account => r.wallet = f.wallet

\* store.py: "ids are preserved, so the references stay valid": the fills kept
\* under an account are fills of its wallet.  A start cut off between DROP and
\* RENAME leaves an empty table behind, and its first account takes an old id.
FillsAreOwn == boot = "serve" =>
    \A f \in fills : \A r \in table.rows : r.id = f.account => r.wallet = f.wallet

\* store.add_account: "re-adding a soft-deleted wallet RESURRECTS it".
ReaddingResurrects == boot = "serve" => \A u \in User, w \in Wallet :
    Dead(w) # {} /\ (\A r \in Live(w) : r.owner \notin {u, Nobody})
        => \E r \in Richest(Dead(w)) : ~Clash(r, u)
=============================================================================
