------------------------------ MODULE AccountLedger ----------------------------
(***************************************************************************)
(* The account ledger: snapshots of accounts, and one NAV row per account  *)
(* and date with the day's profit, which is the difference to the latest   *)
(* earlier date.  A snapshot is written in one transaction, but the        *)
(* earlier NAV is read before it.                                          *)
(*                                                                         *)
(* The unified account is made from the ledger itself: the broker's latest *)
(* NAV row, the positions of its latest snapshot and the manual holdings,  *)
(* read one after the other.                                               *)
(***************************************************************************)
EXTENDS Integers, FiniteSets

CONSTANTS
  Writers,      \* processes that write snapshots
  MaxSecond,    \* bound on the clock
  Dates,        \* the dates, as numbers
  DateOf,       \* [1 .. MaxSecond -> Dates], the date of each second
  BooksAt,      \* [Seconds -> SUBSET Book], what the broker may report
  MaxCaptures   \* bound on how often the broker is asked

Accounts == {"broker", "unified"}
Seconds == 1 .. MaxSecond

(* held names the broker's positions, as far as they can differ. *)
Book == [nav : Nat, held : Nat]

Books == UNION {BooksAt[s] : s \in Seconds}

ASSUME LedgerAssumption ==
  /\ MaxSecond \in Nat \ {0}
  /\ Dates \subseteq Nat
  /\ DateOf \in [Seconds -> Dates]
  /\ \A s, t \in Seconds : s <= t => DateOf[s] <= DateOf[t]
  /\ BooksAt \in [Seconds -> SUBSET Book]
  /\ MaxCaptures \in Nat

VARIABLES
  second,     \* the clock
  snapshots,  \* account_snapshots and account_positions, by account and second
  navs,       \* account_nav, by account and date
  draft,      \* the snapshot each writer is making
  captures,
  restated,   \* ghost: dates whose row an earlier date's write has overtaken
  raced       \* ghost: a broker snapshot was committed in the middle of another
              \* capture, between the two reads of a report, or twice in a second

ledgerVars == <<second, snapshots, navs, draft, captures, restated, raced>>

Snapshot == [nav : Nat, held : Nat, manual : Nat]
NavRow == [as_of : Nat, nav : Nat, daily_pnl : Int]

Empty == [x \in {} |-> 0]
NoSnapshot == [nav |-> 0, held |-> 0, manual |-> 0]

NoDraft == [pc |-> "idle", account |-> "unified", as_of |-> 0, date |-> 0,
            snapshot |-> NoSnapshot, pnl |-> 0, overtaken |-> FALSE]

LedgerInit ==
  /\ second = 1
  /\ snapshots = [a \in Accounts |-> Empty]
  /\ navs = [a \in Accounts |-> Empty]
  /\ draft = [w \in Writers |-> NoDraft]
  /\ captures = 0
  /\ restated = [a \in Accounts |-> {}]
  /\ raced = FALSE

Tick ==
  /\ second < MaxSecond
  /\ second' = second + 1
  /\ UNCHANGED <<snapshots, navs, draft, captures, restated, raced>>

-----------------------------------------------------------------------------
(* The readers *)

Taken(a) == DOMAIN snapshots[a]
Recorded(a) == DOMAIN navs[a]

(* Defect: the latest NAV of any account. *)
LatestNavsOfAll(a) ==
  {navs[row[1]][row[2]].nav :
     row \in {row \in Accounts \X Dates :
               row[2] \in Recorded(row[1])
               /\ \A b \in Accounts : \A e \in Recorded(b) :
                    navs[b][e].as_of <= navs[row[1]][row[2]].as_of}}

(* load_latest_account_nav: by the time of the snapshot, not by the date.    *)
LatestNavs(a) ==
  {navs[a][d].nav : d \in {d \in Recorded(a) :
     \A e \in Recorded(a) : navs[a][e].as_of <= navs[a][d].as_of}}

(* load_latest_account_positions *)
LatestPositions(a) ==
  {snapshots[a][s].held : s \in {s \in Taken(a) : \A t \in Taken(a) : t <= s}}

OrNone(found) == IF found = {} THEN {0} ELSE found

(* Defect: a row of the same date counts as earlier. *)
DailyPnlFromSameDate(a, date, nav) ==
  LET earlier == {d \in Recorded(a) : d <= date}
  IN IF earlier = {} THEN 0
     ELSE nav - navs[a][CHOOSE d \in earlier : \A e \in earlier : e <= d].nav

DailyPnlFromPreviousNav(a, date, nav) ==
  LET earlier == {d \in Recorded(a) : d < date}
  IN IF earlier = {} THEN 0
     ELSE nav - navs[a][CHOOSE d \in earlier : \A e \in earlier : e <= d].nav

-----------------------------------------------------------------------------
(* write_account_snapshot *)

SelectPrevious(w) ==
  LET mine == draft[w]
  IN /\ mine.pc = "select"
     /\ draft' = [draft EXCEPT ![w].pc = "write",
          ![w].pnl = DailyPnlFromPreviousNav(mine.account, mine.date,
                                             mine.snapshot.nav),
          ![w].overtaken = FALSE]
     /\ UNCHANGED <<second, snapshots, navs, captures, restated, raced>>

With(f, x, value) ==
  [y \in DOMAIN f \cup {x} |-> IF y = x THEN value ELSE f[y]]

(* Snapshot ids are made of account and second, so that a second snapshot in *)
(* one second replaces the first.                                            *)
CommitSnapshot(w) ==
  LET mine == draft[w]
      a == mine.account
      later == {d \in Recorded(a) : d > mine.date}
      between == {v \in Writers \ {w} :
                    \/ draft[v].pc = "positions"
                    \/ /\ draft[v].pc # "idle"
                       /\ draft[v].account = "broker"}
  IN /\ mine.pc = "write"
     /\ snapshots' = [snapshots EXCEPT ![a] =
                        With(snapshots[a], mine.as_of, mine.snapshot)]
     /\ navs' = [navs EXCEPT ![a] =
                   With(navs[a], mine.date,
                        [as_of |-> mine.as_of, nav |-> mine.snapshot.nav,
                         daily_pnl |-> mine.pnl])]
     /\ restated' = [restated EXCEPT ![a] =
                       (restated[a] \ {mine.date}) \cup later
                         \cup IF mine.overtaken THEN {mine.date} ELSE {}]
     /\ raced' = (raced \/ (a = "broker"
                            /\ (between # {} \/ mine.as_of \in Taken(a))))
     /\ draft' = [v \in Writers |->
                    IF v = w THEN NoDraft
                    ELSE IF draft[v].pc = "write" /\ draft[v].account = a
                            /\ mine.date < draft[v].date
                    THEN [draft[v] EXCEPT !.overtaken = TRUE]
                    ELSE draft[v]]
     /\ UNCHANGED <<second, captures>>

-----------------------------------------------------------------------------
(* run_portfolio_ingestion, as far as it writes the account ledger.  Its     *)
(* date is the day it was started, or one given by hand.                     *)
Capture(w) ==
  /\ draft[w].pc = "idle"
  /\ captures < MaxCaptures
  /\ captures' = captures + 1
  /\ \E book \in BooksAt[second], date \in {d \in Dates : d <= DateOf[second]} :
       draft' = [draft EXCEPT ![w] =
         [NoDraft EXCEPT !.pc = "select", !.account = "broker",
                         !.as_of = second, !.date = date,
                         !.snapshot = [nav |-> book.nav, held |-> book.held,
                                       manual |-> 0]]]
  /\ UNCHANGED <<second, snapshots, navs, restated, raced>>

(* materialize_unified_live_account_snapshot *)

ReadLatestNav(w) ==
  /\ draft[w].pc = "idle"
  /\ \E nav \in OrNone(LatestNavs("broker")) :
       draft' = [draft EXCEPT ![w].pc = "positions", ![w].snapshot.nav = nav]
  /\ UNCHANGED <<second, snapshots, navs, captures, restated, raced>>

ReadLatestPositions(w) ==
  /\ draft[w].pc = "positions"
  /\ \E held \in OrNone(LatestPositions("broker")) :
       draft' = [draft EXCEPT ![w].pc = "manual", ![w].snapshot.held = held]
  /\ UNCHANGED <<second, snapshots, navs, captures, restated, raced>>

(* The holdings' value is added, and the snapshot is of this second and of   *)
(* its date.                                                                 *)
AddManual(w, value) ==
  LET mine == draft[w]
  IN /\ mine.pc = "manual"
     /\ draft' = [draft EXCEPT ![w] =
          [mine EXCEPT !.pc = "select",
                       !.as_of = second, !.date = DateOf[second],
                       !.snapshot = [nav |-> mine.snapshot.nav + value,
                                     held |-> mine.snapshot.held,
                                     manual |-> value]]]
     /\ UNCHANGED <<second, snapshots, navs, captures, restated, raced>>

-----------------------------------------------------------------------------
(* Properties *)

Draft == [pc : {"idle", "positions", "manual", "select", "write"},
          account : Accounts, as_of : Nat, date : Nat, snapshot : Snapshot,
          pnl : Int, overtaken : BOOLEAN]

(* The tables, with a snapshot behind every NAV row, and the drafts: what is *)
(* about to be written has its time and date.                                *)
LedgerTypeOK ==
  /\ second \in Seconds
  /\ DOMAIN snapshots = Accounts /\ DOMAIN navs = Accounts
  /\ \A a \in Accounts :
       /\ Taken(a) \subseteq Seconds
       /\ snapshots[a] \in [Taken(a) -> Snapshot]
       /\ Recorded(a) \subseteq Dates
       /\ navs[a] \in [Recorded(a) -> NavRow]
       /\ \A d \in Recorded(a) : navs[a][d].as_of \in Taken(a)
  /\ draft \in [Writers -> Draft]
  /\ \A w \in Writers :
       draft[w].pc \in {"select", "write"} =>
         draft[w].as_of \in 1 .. second /\ draft[w].date \in Dates
  /\ captures \in 0 .. MaxCaptures
  /\ restated \in [Accounts -> SUBSET Dates]
  /\ raced \in BOOLEAN

(* A day's profit is the difference of its NAV to that of the latest earlier *)
(* date in the table, unless an earlier date was written after it.           *)
DailyPnlIsTheDifference ==
  \A a \in Accounts : \A d \in Recorded(a) \ restated[a] :
    LET earlier == {e \in Recorded(a) : e < d}
        row == navs[a][d]
    IN IF earlier = {} THEN row.daily_pnl = 0
       ELSE \E e \in earlier :
              /\ \A f \in earlier : f <= e
              /\ row.daily_pnl = row.nav - navs[a][e].nav

(* A unified snapshot adds the manual holdings to the NAV and the positions  *)
(* of one and the same broker snapshot, unless captures overlapped.          *)
UnifiedIsOneCut ==
  raced \/ \A s \in Taken("unified") :
    LET unified == snapshots["unified"][s]
    IN \E book \in Books \cup {[nav |-> 0, held |-> 0]} :
         /\ unified.nav = book.nav + unified.manual
         /\ unified.held = book.held
================================================================================
