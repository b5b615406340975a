------------------------------- MODULE LiveAccounts ----------------------------
(***************************************************************************)
(* Live accounts end to end: the broker is captured, a person edits the    *)
(* manual holdings, prices are refreshed, and every report, the daily      *)
(* job's or a dashboard's, syncs the holdings and then writes a snapshot   *)
(* of broker and holdings together.                                        *)
(***************************************************************************)
EXTENDS ManualHoldings, AccountLedger, Functions

CONSTANTS
  Captures,  \* processes that capture the broker
  MaxEvents  \* bound on edits, refreshes, captures and kills together

ASSUME LiveAssumption ==
  /\ Writers = Reporters \cup Captures
  /\ Captures \cap Processes = {}
  /\ MaxEvents \in Nat

vars == <<holdingVars, ledgerVars>>

Init == HoldingsInit /\ LedgerInit

MoreEvents == edits + refreshes + captures + kills < MaxEvents

Holdings(action) == action /\ UNCHANGED ledgerVars
Ledger(action) == action /\ UNCHANGED holdingVars

(* A row without a base value is converted at the rate of some row of its    *)
(* currency, active or not, and left out if there is none.                   *)
ConversionRates ==
  LET rates == {holdings[p].rate : p \in Foreign} \ {Missing, 0}
  IN IF rates = {} THEN {Missing} ELSE rates

(* What load_manual_external_positions_as_account_positions adds up to in    *)
(* the base currency.                                                        *)
ManualValue(rate) ==
  FoldFunctionOnSet(
    LAMBDA row, sum : OrElse(row.base, OrElse(Times(row.local, rate), 0)) + sum,
    0, holdings, ActiveRows)

AddManualRows(r) ==
  \E rate \in ConversionRates : AddManual(r, ManualValue(rate))

ReportNav(r) ==
  /\ work[r].pc = "synced"
  /\ ReadLatestNav(r)
  /\ UNCHANGED holdingVars

FinishReport(r) ==
  /\ CommitSnapshot(r)
  /\ work' = [work EXCEPT ![r] = AtRest]
  /\ UNCHANGED <<fileVars, holdings, refreshes, kills>>

Kill(r) ==
  /\ kills < MaxKills /\ MoreEvents
  /\ work[r].pc # "idle"
  /\ kills' = kills + 1
  /\ work' = [work EXCEPT ![r] = AtRest]
  /\ draft' = [w \in Writers |-> IF w = r THEN NoDraft ELSE draft[w]]
  /\ UNCHANGED <<fileVars, holdings, refreshes, second, snapshots, navs,
                 captures, restated, raced>>

EditStep ==
  \/ MoreEvents /\ \E text \in Portfolios : BeginSave(text)
  \/ BackUp
  \/ Replace
  \/ MoreEvents /\ KillSave

SyncStep(r) ==
  \/ StartReport(r)
  \/ MoreEvents /\ StartRefresh(r)
  \/ MergeRows(r)
  \/ Upsert(r)
  \/ DeactivateMissing(r)
  \/ LoadRows(r)
  \/ WriteRefreshed(r)

ReportStep(r) ==
  \/ ReportNav(r)
  \/ Ledger(ReadLatestPositions(r))
  \/ Ledger(AddManualRows(r))
  \/ Ledger(SelectPrevious(r))
  \/ FinishReport(r)

CaptureStep(c) ==
  \/ MoreEvents /\ Ledger(Capture(c))
  \/ Ledger(SelectPrevious(c))
  \/ Ledger(CommitSnapshot(c))

Next ==
  \/ Holdings(EditStep)
  \/ Ledger(Tick)
  \/ \E r \in Processes : Holdings(SyncStep(r)) \/ Kill(r)
  \/ \E r \in Reporters : ReportStep(r)
  \/ \E c \in Captures : CaptureStep(c)

Spec == Init /\ [][Next]_vars

(* Reports are started again and again, by a timer or a dashboard that is    *)
(* open, and go on.  A refresh may be left halfway for good.                 *)
FairSpec ==
  Spec /\ \A r \in Reporters : WF_vars(Holdings(SyncStep(r)) \/ ReportStep(r))

-----------------------------------------------------------------------------
(* Properties *)

(* Holdings and ledger are in states they can be in, and a report has a      *)
(* draft only after its sync.                                                *)
TypeOK ==
  /\ HoldingsTypeOK
  /\ LedgerTypeOK
  /\ \A r \in Reporters : draft[r].pc # "idle" => work[r].pc = "synced"

(* Once nobody edits the file any more, the active rows of the table become  *)
(* and stay the file's, whatever syncs and refreshes were under way.         *)
TableFollowsFile ==
  <>[](source # NoFile => Shows(holdings, source))
================================================================================
