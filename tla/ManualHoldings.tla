----------------------------- MODULE ManualHoldings ----------------------------
(***************************************************************************)
(* Holdings kept outside the broker: a JSON file a person edits, and the   *)
(* table manual_external_positions made from it.  Every report and every   *)
(* refresh of prices starts by syncing the table with the file, in three   *)
(* steps that do not exclude each other: the rows are read from the file,  *)
(* merged with the prices the table has, and written; rows the file does   *)
(* not have are then marked inactive.                                      *)
(*                                                                         *)
(* A row stands for one environment.  Its price is the current price, or   *)
(* the cost where it has none; its cost columns, its multiplier and its    *)
(* timestamp are left out.                                                 *)
(***************************************************************************)
EXTENDS Integers, FiniteSets

CONSTANTS
  Positions,    \* position ids
  Foreign,      \* the positions not in the base currency
  Portfolios,   \* the texts that pass the editor's validation
  Reporters,    \* processes that report: the daily job, the dashboards
  Refreshers,   \* processes that refresh prices
  Quotes,       \* the prices a vendor may quote
  Rates,        \* the exchange rates a vendor may quote
  NoQuote,      \* the vendor does not answer
  Missing,      \* a column that is empty
  NoFile, TornFile,
  MaxEdits,     \* bound on how often the file is saved
  MaxRefreshes, \* bound on how often a refresh is started
  MaxKills      \* bound on how many processes are killed

Processes == Reporters \cup Refreshers

Placeholders == {"manual_cost", "manual_cost_fallback"}
Methods == Placeholders \cup {"yfinance"}

Optional == Nat \cup {Missing}

(* A row of the file or of the table.  local and base are the market value   *)
(* in the row's own currency and in the base currency; a row of the file may *)
(* state them itself.                                                        *)
Row == [quantity : Nat, price : Optional, rate : Optional, method : Methods,
        active : BOOLEAN, local : Optional, base : Optional]

ASSUME HoldingsAssumption ==
  /\ IsFiniteSet(Positions)
  /\ Foreign \subseteq Positions
  /\ Reporters \cap Refreshers = {}
  /\ \A portfolio \in Portfolios :
       /\ DOMAIN portfolio \subseteq Positions
       /\ DOMAIN portfolio # {}
       /\ \A p \in DOMAIN portfolio :
            /\ portfolio[p] \in Row
            /\ p \notin Foreign => portfolio[p].rate \in {Missing, 1}
  /\ NoFile \notin Portfolios /\ TornFile \notin Portfolios
  /\ NoFile # TornFile
  /\ Quotes \subseteq Nat /\ Rates \subseteq Nat
  /\ NoQuote \notin Quotes \cup Rates
  /\ Missing \notin Nat
  /\ MaxEdits \in Nat /\ MaxRefreshes \in Nat /\ MaxKills \in Nat

VARIABLES
  source,     \* manual_external_holdings.json
  backup,     \* manual_external_holdings.json.bak
  save,       \* the save under way in the editor
  holdings,   \* the table, a row for every position ever synced
  work,       \* what each process holds in memory
  edits, refreshes, kills

fileVars == <<source, backup, save, edits>>
holdingVars == <<source, backup, save, holdings, work, edits, refreshes, kills>>

NoRow == [quantity |-> 0, price |-> Missing, rate |-> Missing,
          method |-> "manual_cost", active |-> FALSE,
          local |-> Missing, base |-> Missing]

NoRows == [p \in {} |-> NoRow]

(* overtaken: another process has written the table since this one read it.  *)
AtRest == [pc |-> "idle", rows |-> NoRows, overtaken |-> FALSE]

NoSave == [pc |-> "idle", text |-> NoFile]

HoldingsInit ==
  /\ source = NoFile
  /\ backup = NoFile
  /\ save = NoSave
  /\ holdings = [p \in Positions |-> NoRow]
  /\ work = [r \in Processes |-> AtRest]
  /\ edits = 0
  /\ refreshes = 0
  /\ kills = 0

-----------------------------------------------------------------------------
(* The editor: write_manual_external_positions_file *)

BeginSave(text) ==
  /\ save.pc = "idle"
  /\ edits < MaxEdits
  /\ edits' = edits + 1
  /\ save' = [pc |-> IF source = NoFile THEN "replace" ELSE "back_up",
              text |-> text]
  /\ UNCHANGED <<source, backup, holdings, work, refreshes, kills>>

BackUp ==
  /\ save.pc = "back_up"
  /\ backup' = source
  /\ save' = [save EXCEPT !.pc = "replace"]
  /\ UNCHANGED <<source, holdings, work, edits, refreshes, kills>>

(* Defect: what is backed up is the text just saved. *)
ReplaceThenBackUp ==
  /\ save.pc = "replace"
  /\ source' = save.text
  /\ backup' = IF source = NoFile THEN backup ELSE save.text
  /\ save' = NoSave
  /\ UNCHANGED <<holdings, work, edits, refreshes, kills>>

(* The text is written to a file of its own first, so that the rename puts   *)
(* all of it in place.                                                       *)
Replace ==
  /\ save.pc = "replace"
  /\ source' = save.text
  /\ save' = NoSave
  /\ UNCHANGED <<backup, holdings, work, edits, refreshes, kills>>

(* A copy cut short leaves a torn backup. *)
KillSave ==
  /\ save.pc # "idle"
  /\ kills < MaxKills
  /\ kills' = kills + 1
  /\ backup' \in IF save.pc = "back_up" THEN {backup, TornFile} ELSE {backup}
  /\ save' = NoSave
  /\ UNCHANGED <<source, holdings, work, edits, refreshes>>

-----------------------------------------------------------------------------
(* sync_manual_external_positions_from_json *)

OrElse(value, other) == IF value = Missing THEN other ELSE value

Times(left, right) ==
  IF left = Missing \/ right = Missing THEN Missing ELSE left * right

(* normalize_manual_external_position: a value the row states is kept, and   *)
(* one it does not state follows from quantity, price and rate, if those are *)
(* there.                                                                    *)
Valued(p, row) ==
  LET local == OrElse(row.local, Times(row.quantity, row.price))
      rate == IF p \in Foreign THEN row.rate ELSE OrElse(row.rate, 1)
  IN [row EXCEPT !.rate = rate,
                 !.local = local,
                 !.base = OrElse(row.base, Times(local, rate))]

(* Defect: the file's cost replaces a quoted price. *)
PreserveNothing(row, existing) == row

(* Defect: a base value the row states outlives its price. *)
PreserveBaseValue(row, existing) ==
  IF row.method \in Placeholders /\ existing.method \notin Placeholders
  THEN [row EXCEPT !.price = OrElse(existing.price, @),
                   !.rate = OrElse(existing.rate, @),
                   !.method = existing.method,
                   !.local = Missing]
  ELSE [row EXCEPT !.rate = OrElse(@, existing.rate)]

(* Where the table has a quoted price and the file only the cost, price and  *)
(* rate are the table's, and no value the file states is kept.  Otherwise    *)
(* only a rate the file does not give is the table's.                        *)
PreserveRefreshedPricing(row, existing) ==
  IF row.method \in Placeholders /\ existing.method \notin Placeholders
  THEN [row EXCEPT !.price = OrElse(existing.price, @),
                   !.rate = OrElse(existing.rate, @),
                   !.method = existing.method,
                   !.local = Missing,
                   !.base = Missing]
  ELSE [row EXCEPT !.rate = OrElse(@, existing.rate)]

Advance(r, pc, rows) ==
  work' = [work EXCEPT ![r].pc = pc, ![r].rows = rows]

(* upsert_manual_external_positions normalizes what it is given once more.   *)
Upserted(rows) ==
  [p \in Positions |->
     IF p \in DOMAIN rows THEN Valued(p, rows[p]) ELSE holdings[p]]

(* One transaction on the table, and what its process goes on with. *)
Commit(r, table, next) ==
  /\ holdings' = table
  /\ work' = [q \in Processes |->
                IF q = r THEN next
                ELSE IF work[q].pc = "idle" THEN work[q]
                ELSE [work[q] EXCEPT !.overtaken = TRUE]]

AfterSync(r) == IF r \in Refreshers THEN "load" ELSE "synced"

(* Without a file there is nothing to sync. *)
ReadSource(r) ==
  /\ work[r].pc = "idle"
  /\ IF source = NoFile
     THEN Advance(r, AfterSync(r), NoRows)
     ELSE Advance(r, "merge", [p \in DOMAIN source |-> Valued(p, source[p])])
  /\ UNCHANGED <<source, backup, save, holdings, edits, kills>>

StartReport(r) ==
  /\ r \in Reporters
  /\ ReadSource(r)
  /\ UNCHANGED refreshes

StartRefresh(r) ==
  /\ r \in Refreshers
  /\ refreshes < MaxRefreshes
  /\ refreshes' = refreshes + 1
  /\ ReadSource(r)

MergeRows(r) ==
  LET rows == work[r].rows
  IN /\ work[r].pc = "merge"
     /\ work' = [work EXCEPT ![r] =
          [pc |-> "upsert", overtaken |-> FALSE,
           rows |-> [p \in DOMAIN rows |->
                       PreserveRefreshedPricing(rows[p], holdings[p])]]]
     /\ UNCHANGED <<source, backup, save, holdings, edits, refreshes, kills>>

Upsert(r) ==
  /\ work[r].pc = "upsert"
  /\ Commit(r, Upserted(work[r].rows), [work[r] EXCEPT !.pc = "deactivate"])
  /\ UNCHANGED <<source, backup, save, edits, refreshes, kills>>

(* Defect: IN for NOT IN, the rows that are in the file are put out. *)
DeactivateListed(r) ==
  /\ work[r].pc = "deactivate"
  /\ Commit(r, [p \in Positions |->
                  IF p \in DOMAIN work[r].rows
                  THEN [holdings[p] EXCEPT !.active = FALSE] ELSE holdings[p]],
            [work[r] EXCEPT !.pc = AfterSync(r), !.rows = NoRows])
  /\ UNCHANGED <<source, backup, save, edits, refreshes, kills>>

DeactivateMissing(r) ==
  /\ work[r].pc = "deactivate"
  /\ Commit(r, [p \in Positions |->
                  IF p \in DOMAIN work[r].rows THEN holdings[p]
                  ELSE [holdings[p] EXCEPT !.active = FALSE]],
            [work[r] EXCEPT !.pc = AfterSync(r), !.rows = NoRows])
  /\ UNCHANGED <<source, backup, save, edits, refreshes, kills>>

-----------------------------------------------------------------------------
(* refresh_manual_external_holdings.py *)

ActiveRows == {p \in Positions : holdings[p].active}

LoadRows(r) ==
  /\ work[r].pc = "load"
  /\ work' = [work EXCEPT ![r] =
       IF ActiveRows = {} THEN AtRest
       ELSE [pc |-> "quote", overtaken |-> FALSE,
             rows |-> [p \in ActiveRows |-> holdings[p]]]]
  /\ UNCHANGED <<source, backup, save, holdings, edits, refreshes, kills>>

(* Defect: the values stay those of the price before. *)
RefreshedKeepingValues(row, rate, quote) ==
  IF quote = NoQuote
  THEN [row EXCEPT !.rate = rate,
                   !.method = IF row.method = "manual_cost"
                              THEN "manual_cost_fallback" ELSE row.method]
  ELSE [row EXCEPT !.rate = rate, !.price = quote, !.method = "yfinance"]

(* With a price the values are to be computed anew; without one those that   *)
(* are there stay, also under a new rate.                                    *)
Refreshed(row, rate, quote) ==
  IF quote = NoQuote
  THEN [row EXCEPT !.rate = rate,
                   !.method = IF row.method = "manual_cost"
                              THEN "manual_cost_fallback" ELSE row.method]
  ELSE [row EXCEPT !.rate = rate, !.price = quote, !.method = "yfinance",
                   !.local = Missing, !.base = Missing]

(* The rows are written whole, as they were loaded but for price, rate and   *)
(* values.  All foreign positions share one currency and one quoted rate.    *)
WriteRefreshed(r) ==
  LET rows == work[r].rows
      Rate(p, rate) ==
        IF p \in Foreign /\ rate # NoQuote THEN rate ELSE rows[p].rate
  IN /\ work[r].pc = "quote"
     /\ \E rate \in Rates \cup {NoQuote},
          quote \in [DOMAIN rows -> Quotes \cup {NoQuote}] :
          Commit(r, Upserted([p \in DOMAIN rows |->
                                Refreshed(rows[p], Rate(p, rate), quote[p])]),
                 AtRest)
     /\ UNCHANGED <<source, backup, save, edits, refreshes, kills>>

-----------------------------------------------------------------------------
(* Properties *)

(* A function from some of S to T. *)
Partial(f, S, T) == DOMAIN f \subseteq S /\ f \in [DOMAIN f -> T]

(* The file and its backup, the table and what the processes hold; a report  *)
(* goes on when it has synced, and only a refresh loads rows.                *)
HoldingsTypeOK ==
  /\ source \in Portfolios \cup {NoFile}
  /\ backup \in Portfolios \cup {NoFile, TornFile}
  /\ save \in [pc : {"idle", "back_up", "replace"},
               text : Portfolios \cup {NoFile}]
  /\ holdings \in [Positions -> Row]
  /\ DOMAIN work = Processes
  /\ \A r \in Processes :
       /\ work[r] \in [pc : {"idle", "merge", "upsert", "deactivate"}
                           \cup IF r \in Refreshers THEN {"load", "quote"}
                                ELSE {"synced"},
                      rows : {work[r].rows}, overtaken : BOOLEAN]
       /\ Partial(work[r].rows, Positions, Row)
  /\ edits \in 0 .. MaxEdits /\ refreshes \in 0 .. MaxRefreshes
  /\ kills \in 0 .. MaxKills

(* Some text states the value a row has in a column, for the quantity and    *)
(* the price the row has.                                                    *)
Stated(p, row, column) ==
  \E text \in Portfolios :
    /\ p \in DOMAIN text
    /\ text[p][column] = row[column]
    /\ text[p].quantity = row.quantity
    /\ text[p].price = row.price

(* The values reports add up belong to the quantity and the price beside     *)
(* them, however syncs and refreshes followed each other: they are computed  *)
(* from these, or a text states them together with these.  (The base value   *)
(* of a foreign position depends on its rate as well: see below.)            *)
ValuesFollow ==
  \A p \in Positions :
    LET row == holdings[p]
    IN /\ \/ row.local = Times(row.quantity, row.price)
          \/ Stated(p, row, "local")
       /\ p \notin Foreign =>
            row.base = row.local \/ Stated(p, row, "base")

(* A refresh that gets a rate and no price leaves a base value at the old    *)
(* rate.  The next sync mends it: what a sync writes has its base value at   *)
(* the rate beside it, or one a text states for its quantity and price.      *)
SyncsRevalue ==
  [][\A r \in Processes :
       work[r].pc = "upsert" /\ work'[r].pc = "deactivate" =>
         \A p \in DOMAIN work[r].rows :
           LET row == holdings'[p]
           IN \/ row.base = Times(row.local, row.rate)
              \/ Stated(p, row, "base")]_holdingVars

(* The version of the file that a save replaces is the one in the backup.    *)
ReplacedIsBackedUp ==
  [][source' # source /\ source # NoFile => backup' = source]_holdingVars

Wrote(r, pc) == work[r].pc = pc /\ work'[r].pc # pc

TakesNothingBack ==
  /\ \A p \in Positions :
       /\ holdings[p].method \notin Placeholders
       /\ holdings'[p].method \in Placeholders
       => \E r \in Processes : /\ Wrote(r, "upsert") \/ Wrote(r, "quote")
                              /\ work[r].overtaken
  /\ \A r \in Refreshers :
       holdings' # holdings /\ Wrote(r, "quote") /\ ~work[r].overtaken
       => \A p \in Positions :
            /\ holdings'[p].quantity = holdings[p].quantity
            /\ holdings'[p].active = holdings[p].active

(* A write takes nothing back unless another process wrote the table since   *)
(* the writer read it: syncs and refreshes leave quoted prices, and a        *)
(* refresh leaves quantities and sold positions as they are.                 *)
NothingTakenBack == [][TakesNothingBack]_holdingVars

(* The table has the active rows of the text, with its quantities, and no    *)
(* active row besides.                                                       *)
Shows(table, text) ==
  \A p \in Positions :
    /\ table[p].active <=> p \in DOMAIN text /\ text[p].active
    /\ table[p].active => table[p].quantity = text[p].quantity

(* A sync is not one transaction, and the file may be saved meanwhile.  Yet  *)
(* one that no other process overtook ends with one version of the file in   *)
(* the table, not with parts of two.                                         *)
SyncsAreWhole ==
  [][\A r \in Processes :
       Wrote(r, "deactivate") /\ work'[r].pc # "idle" /\ ~work[r].overtaken
       => \E text \in Portfolios : Shows(holdings', text)]_holdingVars
================================================================================
