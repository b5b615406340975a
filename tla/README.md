# TLA+ models of alpha-factory

Alpha Factory researches strategies, turns their output into trade proposals,
takes proposals through dry-run tickets and a human approval to a paper broker,
and keeps the books of paper and live accounts. This directory holds TLA+
models of the parts that keep state, TLC configurations that check them on
small instances, and TLAPS proofs of the results that matter most for every
size of instance. Source paths are relative to the repository; `oqp/` is short
for `src/oqp/`.

- [1. The system](#1-the-system)
- [2. The modules and the code](#2-the-modules-and-the-code)
- [3. The runs](#3-the-runs)
- [4. Fairness](#4-fairness)
- [5. The proofs](#5-the-proofs)
- [6. Where code and documents disagree](#6-where-code-and-documents-disagree)
- [7. What is only checked, and what is not modelled](#7-what-is-only-checked-and-what-is-not-modelled)
- [8. Plan](#8-plan)

## 1. The system

There is no server in the middle. Every part is a command or a dashboard,
started by a systemd timer or by a person, that reads some files, writes some
files and ends. Commands meet in SQLite databases and in directories of JSON
artifacts. No transaction spans two databases, and no command holds a lock
longer than one statement block, so what one command reads may be old by the
time it writes. The exception is the QMT connector, a threaded HTTP server.

| Part | State | Operations | Meets the others through |
| --- | --- | --- | --- |
| Execution artifacts (`oqp/execution/artifacts.py`) | one JSON file per proposal | write, load the newest N | read by the runner and the review command |
| Strategy registry (`oqp/paper_trading/strategy_registry.py`) | `paper_strategies`: one row per strategy and vertical: status and kill switch | upsert from a candidate, change the status | read by runner, review, submission runner |
| Strategy runner (`strategy_runner.py`) | nothing of its own; the notional used today is a local variable | load proposals, gate, review, write tickets | timer, every 15 minutes |
| Proposal review command (`proposal_review_command.py`) | same | review proposals, with `--create-dry-run-tickets` also ticket them | person |
| Execution safety (`execution_safety.py`) | none | pure review: gates, limits, daily cap | called by runner and review command |
| Paper ledger (`paper_trading/ledger.py`) | `paper_execution_reviews`, `paper_orders` | insert or replace, update a status, latest N, notional of the day | every command of the lane |
| Ticket desk (`order_router.py`, `ticket_approval_command.py`) | ticket status in `paper_orders` | create, approve, reject | person |
| Submitter (`submitter.py`, `submission_runner_command.py`) | a loaded ticket, a broker connection | preflight, connect, place, mark, log | person or timer; the IBKR paper gateway |
| QMT adapter (`oqp/brokers/qmt.py`) | client audit log | place, cancel, read | HTTP to the connector |
| QMT connector stub (`oqp/qmt_connector/stub_server.py`) | book of orders, next order id, seen nonces, audit log | submit, cancel, read; one thread per connection | HTTP |
| Account ledger (`oqp/accounts/ledger.py`) | `account_trade_events`, `account_snapshots`, `account_positions`, `account_nav` | append events; write a snapshot with its positions and its NAV row | the lane's events; ingestion job, dashboards |
| Manual holdings (`oqp/accounts/manual_external.py`, `scripts/data/refresh_manual_external_holdings.py`) | a JSON file with its backup; `manual_external_positions` | save the file, sync the table with it, refresh prices and rates | every report syncs first |
| Unified account (`oqp/accounts/unified_snapshot.py`) | none of its own | latest broker NAV and positions plus manual holdings, written back as a snapshot | account ledger |
| Optimization studies (`oqp/optimization`) | registry rows, Optuna's database, two JSON files per study | register, run trials, publish, complete; run again after a crash | research commands, Phase 8 |
| Phase 8 (`oqp/research/optional_optimization`) | an output directory with search, frozen candidate, holdout access, result | build folds, search, freeze, open the holdout once | study runner |
| Trial ledger (`oqp/research/trials.py`, `multiple_testing.py`, `backtesting/evaluator.py`) | `research_trials`: one row per trial of a family with its corrected p-values | record, log a backtest, block a preflight, refresh the family's corrections | backtests, research commands |
| Research, factors, market data, options, risk, investing, journal, ops health, UI | files and caches of their own | mostly pure computation and reporting | artifacts; dashboards |

### What is hard, and what must hold

- **Two databases and four commits per proposal.** A run writes a review, its
  event, tickets and their events in that order (`strategy_runner.py:151-199`)
  and may be killed between any two. What rests on something must not be there
  before it: no ticket without its passed review, no event without its row.
- **Retry by forgetting.** The runner remembers nothing; it skips what has a
  review. A proposal must be reviewed once, a skipped proposal taken up later,
  and nothing skipped for ever.
- **A daily cap kept by a local variable.** Read once at the start of a run,
  added to by hand.
- **`INSERT OR REPLACE` under ids that do not depend on the run.** A second
  review rewrites tickets that were approved or submitted in the meantime.
- **A person in the middle.** Approval and submission are separate processes;
  status, registry row and metadata are read, and used after other steps.
- **A broker that cannot be rolled back.** `place_order` and the ledger update
  are two steps; the process can die between them.
- **A threaded HTTP server without a lock.** Idempotency, nonces and order ids
  of the QMT connector rest on read-then-write sequences of each thread.
- **A study spread over four stores.** Registry row, Optuna's database and two
  files that are never rewritten are committed one by one. A killed study is
  run again over what is left; it must not exceed its budget, mix protocols or
  call itself complete before its files are.
- **A holdout that opens once.** Nothing but a file in a directory remembers
  that it was opened, also when its evaluation failed or died.
- **A table that follows a file by merging.** Manual holdings are synced by
  every report, each in three steps, while prices are refreshed by rows loaded
  before the vendor was asked. Neither may take back what the other wrote.
- **Snapshots made of snapshots.** The unified account is read in two reads
  from the ledger it is written to; a day's profit uses a row read before the
  transaction that depends on it.
- **A correction that depends on everybody's trials.** Each new trial changes
  the corrected p-value of every other trial of its family, and of the three
  writers only one corrects in the transaction that adds the row.

The full list, with the line where each bites and the property aimed at it, is
`hazards` in PROJECT.json.

## 2. The modules and the code

| Module | What it is |
| --- | --- |
| `PaperLedger` | the shared state of the lane: `reviews`, `orders` (tickets), `events`, `registry` and the clock `now`; one operator per ledger function |
| `ProposalPipeline` | the runner and the review command as processes, one action per commit |
| `TicketDesk` | approval and submission commands as processes, and the broker as far as the submitter knows it |
| `PaperTrading` | pipeline and desk over one ledger, the operator and the properties of the whole lane |
| `TicketHistory` | `PaperTrading` with a history variable, for what may become of the document beside a ticket |
| `OrderAuthority` | abstract specification of the desk: a ticket is granted authority by an approval, loses it by rejection or use, and an order is sent only with it; with its theorem |
| `OrderBook` | abstract specification of the order channel: what is asked for is entered once, with its own terms, and an entry is only ever cancelled or forgotten with the whole book |
| `QMTConnector` | callers of the QMT adapter, the network, and the threaded connector stub |
| `StudyRunner` | registry, Optuna's database and files of a study and its random baseline, one action per commit of the runner |
| `Phase8Folds` | `build_phase8_folds` as operators over numbered dates |
| `Phase8Search` | a Phase 8 experiment: searches, the output directory, the frozen candidate and the holdout |
| `SealedHoldout` | abstract specification of the experiment: results are published once, a candidate is frozen from them and stays, the holdout opens for it, and once; freezing and opening are a look and a write, and the last two hold unless two processes are between theirs together |
| `ManualHoldings` | the holdings file and its editor, the table, syncs and price refreshes |
| `AccountLedger` | snapshots and NAV rows of the broker and the unified account, captures and reports |
| `LiveAccounts` | holdings and ledger together: a report syncs, adds up the holdings and writes a snapshot |
| `MultipleTesting` | the corrections of p-values, and the step-down and step-up procedures they stand for |
| `TrialLedger` | the trials of one family and their three writers |
| `...Proofs` | theorems, section 5 |
| `MC...` | instances for TLC |

`PaperTrading` EXTENDS `ProposalPipeline` and `TicketDesk`, which both EXTEND
`PaperLedger`; its next-state relation is a step of one with the other's own
variables unchanged. `LiveAccounts` composes `ManualHoldings` and
`AccountLedger` in the same way, except that a report is one process in both.
`Phase8Search` EXTENDS `StudyRunner` and `Phase8Folds`: the calls a search makes
of the study runner are the runner's own actions. `TrialLedger` EXTENDS
`MultipleTesting`. `Authority` and `Pipeline` in `PaperTrading`, `Book` in
`QMTConnector` and `Sealed` in `Phase8Search` are the refinement mappings.
`QMTConnector` stands alone: the
submitter builds only IBKR brokers, so nothing in the lane calls the QMT
adapter today.

### PaperLedger and ProposalPipeline

A row of `reviews` is keyed by proposal and second, as the review id is
(`ledger.py:520-527`). A ticket row keeps what later code reads of it: the
status, the second of the review that wrote it, and the metadata document with
the marks each status change leaves. The registry tells of each strategy
that it is missing, running or halted, which is all the gates learn from its
status and kill switch.
An event is keyed by its kind and the intent it is about: a review writes one
for each intent of its proposal (`converters.py:245`), so that the review of a
proposal without intents, which is always blocked, is a row without an event.
`Estimated` and `Counted` are the notional of a set of proposals as the review
computes it and as `paper_order_notional_today` sums it.

A process goes through the stages of `run_paper_strategy_runner`: `Begin`
(load artifacts, registry, reviewed ids), `ReadDailyUsed`, then for each
proposal `SkipOrTake`, `WriteReview`, `WriteReviewEvents`, `WriteTickets`,
`WriteTicketEvents`. Between any two other processes may move. `Kill` ends a
process anywhere and leaves what it committed.

### TicketDesk and PaperTrading

Approval is SELECT, UPDATE, event (`order_router.py:217-273`). Submission is
scan, load the strategy record, load the ticket and run the preflight,
connect, place, SELECT, mark, event (`submitter.py:269-371`). The connection
may fail and the broker may refuse; `ibkr.py:340-347` raises only when nothing
was sent, so an exception of `place_order` leaves no order. A submitter not in
`SubmitsApproved` is one started without `--submit-approved`: it records what
would block.

`TicketHistory` adds `overtaken`: the desk commands whose ticket's row was
changed by anyone between their SELECT and their UPDATE
(`ledger.py:688`, `:729`). Their UPDATE puts the old document beside the new row;
`NothingForgotten` says that this, and a review that makes the ticket afresh,
are the only ways a document loses anything.

The desk and the pipeline share the rows of `paper_orders`. `Pipeline` is the
pipeline seen through what it can tell of such a row: that it is there and
which review wrote it, but neither status nor document. `PipelineUndisturbed`
says that seen like this the desk does nothing at all, which is why
everything the pipeline promises on its own it keeps in the company of the
desk.

### QMTConnector

A request is sent with a fresh nonce, which is its index in `requests`, and is
delivered never, once or again. Each delivery gets a thread, which runs
`do_POST` in the steps where CPython can switch threads, namely at calls:
signature, timestamp and nonce, lookup by `client_order_id`, reading `next_order_id`,
incrementing it, appending the order, auditing, answering. Tests of membership
followed at once by `add`, and `+= 1`, have no call in between and are one
step. `raced` is a history variable: it names the client ids two threads were
creating together and the order ids two threads drew together, so that the
invariants can say exactly how much depends on threads not overlapping.
A restart empties the book and the nonces, which are in memory, and keeps the
audit log, which is a file. `Book` maps all of it to `OrderBook`, in which there
are no threads: the requests asked for, those whose orders are being placed
(`Placing`), the client ids placed together (what `raced` remembers of them) and
the book without its order ids (`Entries`).

### StudyRunner, Phase8Search and SealedHoldout

A protocol stands for everything a study freezes by fingerprint. A study is the
pair that `run_with_random_baseline` makes of one study id: the random baseline
runs first, with the same actions, and then the challenger. `OptimizationStudyRunner.run`
is `RegisterStart`, `OpenStudy` (which reads once how many trials are left),
`AskTrial` and `TrialEvaluated` or `TrialRaised` for each trial, `StopTrials`,
`WriteResultFile`, `WriteTrialsFile`, `RegisterComplete`, and the refusals of
each. The evaluator is a choice from a set of outcomes. A file is absent, torn
or whole, and a whole one remembers the history its text was made from:
`SaysTheSame` compares texts by `Result`, which keeps of the result document
what can differ.

`Phase8Search` adds the gates that depend on state (the others raise before
anything is written), the search files, the freeze and the holdout. Protocol,
manifest and the two candidate files are written one after the other with the
same text by every search of an experiment, and are one file. Every write of
`_write_immutable_json` is two steps, the look for the file and the write
(`CheckSearch` and `WriteSearch`, `CheckFrozen` and `WriteFrozen`, `CheckHoldout`
and `OpenHoldout`), between which other processes move. The time on a
frozen candidate is one the caller declares (0) or the time of the call, which
the number of the search stands for. The two looks at the access file
(`runner.py:286` and the writer's own) have one outcome and are one action;
`raced` and `overlapped` are history variables: two processes were
between look and write at the holdout, or at the frozen candidate. The files
the holdout leaves behind (`result`, `failure`) are written in one action with
either outcome of its look where two processes raced (`Leaves`). `Kill`, `KillWritingStudy` and `KillWritingDir` end a process
anywhere and may tear the file it was writing.

`Phase8Folds` numbers the distinct dates from 0. The slices of a Python list
are the sets `Positions`, which is right only when no bound is negative;
`SlicesInRange` is that condition, and it is proved.

### ManualHoldings, AccountLedger and LiveAccounts

The editor saves by backup and rename (`BeginSave`, `BackUp`, `Replace`); its
validation is in `Portfolios`, the set of texts it accepts. A sync is
`ReadSource`, `MergeRows` (which reads the table's prices), `Upsert`,
`DeactivateMissing`, each with the transaction the code has. A refresh syncs,
loads the active rows, asks the vendor for a rate and a price each, and writes
the rows whole. `overtaken` remembers that another process wrote the table
since this one read it.

A row has its market value twice, in its own currency and in the base currency,
and either column, like price and rate, may be `Missing`. `Valued` is the part of
`normalize_manual_external_position` that fills these columns: a value the row
states is kept, a missing one is computed, and without a rate the base value
stays empty. `PreserveRefreshedPricing` takes over a refreshed price and rate
and empties the values so that they are computed anew, as does `Refreshed` where
the vendor gave a price; where it gave only a rate, the old values stay.

One environment is modelled, whose name is the default of every caller. Cost
columns, multipliers and timestamps are left out, and all foreign positions are
of one currency. A domestic row has rate 1. A report converts a row without a
base value at the rate of some row of its currency (`ConversionRates`). The
editor of one dashboard session is one process, so one save is under way at a
time.

A snapshot is made in a `draft`: `SelectPrevious` reads the earlier NAV,
`CommitSnapshot` is the transaction with snapshot, positions and NAV row. The
ingestion job starts it by `Capture`, on its own date or one given by hand. A
report starts it by `ReadLatestNav` and `ReadLatestPositions` and adds
`ManualValue` in `AddManualRows`. `restated` and `raced` are history variables: dates whose row an
earlier date's later write has made outdated, and broker captures that
overlapped with each other or fell between the two reads of a report.

### MultipleTesting and TrialLedger

P-values are multiples of 1/`Unit`, such that the divisions of Benjamini and
Hochberg come out even (`EvenDivisions`); every comparison of the code is then
a comparison of integers. `Holm` and `BenjaminiHochberg` are the running maximum
and minimum of the code's loops written as a maximum and a minimum over a set;
`StepDownRejects` and `StepUpRejects` are the procedures of the textbooks.

A trial's row keeps signature, p-value, who wrote it and the correction.
`record_research_trial` looks for its row and counts (`ReadExisting`,
`CountFamily`), and replaces and corrects in one transaction (`Record`). The
evaluator commits its row (`InsertTrial`), reads the family (`ReadFamily`) and
writes the corrections (`WriteCorrections`) in three. A blocked preflight adds
a row and corrects nothing. `behind` is a history variable: the family has
trials that no correction has counted, or was last corrected from an older
reading. The row ids of the three writers never meet: a recorder has one row
per signature, a backtest a fresh one, a preflight one per plan item.

## 3. The runs

TLC's deadlock check is on, except for `qmt`, `qmt_two_threads`,
`research_study` and `trial_ledger`, where everyone may have nothing more to do
under the bounds and is then rightly at rest.

| Run | Question | Bounds |
| --- | --- | --- |
| `pipeline_runner` | One runner, started again and again: daily cap, one review per proposal, each ready review behind its tickets | 3 proposals of 2 strategies, one with two intents, a cap that holds any two of them but not all; 2 seconds, one kill |
| `pipeline_mixed` | A runner and a ticket-creating review command commit by commit: no ticket names a second without a review, neither database runs ahead of what it rests on, and both agree at rest | 3 proposals of one strategy, with two intents, one and none, one not eligible; one kill; 2 seconds, so that both commands may write within one; only the newest artifact is loaded (1.29 million states) |
| `pipeline_fair` | A proposal whose strategy comes to stay running is reviewed in the end; a passed review is ticketed unless a command was killed | 3 proposals, one artifact malformed, only the 2 newest files loaded |
| `trading` | One ticket from proposal to broker among a runner, an approver, two submission runners and an operator: what reaches the broker is approved, paid for by an approval or a death, and logged; the pipeline notices nothing of the desk | one proposal, two approvals, one death at the desk, 5 broker orders, which is what two approvals, two submitters and a death can cost; the submitters are symmetric (746 thousand states) |
| `trading_reviewed_again` | A review command resets the ticket under an approver, a placing and a recording submitter: the lane implements `OrderAuthority`, and the ticket's document loses nothing but to such a review and to an overtaken update | one proposal, two approvals, one broker order (`trading` places five), 2 seconds, so that a review takes the row and the document of an earlier one in its second or in a later (1.5 million states) |
| `qmt` | Timeouts, retries with equal and other terms, cancels, a duplicated delivery and a restart over two handler threads: receipts, audit and cancels hold, and the channel implements `OrderBook` | 3 requests of one caller for one client id, three terms of which one is refused; the symmetry is of threads and of equal terms (1.95 million states) |
| `research_study` | Budget, publication, one protocol, the best candidate and the holdout through failures, early stops, a kill, torn files and a rerun; the experiment implements `SealedHoldout`; a study run again completes | 2 processes, 2 searches, 2 protocols for one study id (a trade-off of two objectives, and one objective with a timeout and random sampling), 2 trials each, 2 outcomes of a trial, one kill (424 thousand states) |
| `live_accounts` | Rows, NAV and unified snapshots under edits, syncs, refreshes, captures and reports interleaved commit by commit: values belong to quantity and price, a sync mends what a refresh left at an old rate; in the end the table is the file | 2 positions, one foreign; 2 texts, one of which gives the foreign position no rate and states values of the domestic one, while the other sells that and has more of the first; 2 days, with other broker books on each; 2 edits, one refresh, 2 captures, one kill, of which 3 may happen in one behaviour |
| `trial_ledger` | The corrections are those of Holm and of Benjamini and Hochberg, up to date unless the family is known to be behind, and a backtest that is not killed does not stay uncorrected | 3 signatures, 3 rows, 2 records, 2 backtests at once, one kill; p-values that pass, fail, tie, change in a rerun or are missing (in a blocked preflight's row); 9 levels around every threshold they reach |
| `placed_after_kill_switch` (violation) | Does a kill switch stop the order? | section 6 |
| `placed_twice` (violation) | One order per approval, through deaths? | section 6 |
| `qmt_two_threads` (violation) | One order per client id? | section 6 |

Why these bounds are enough. Three proposals are the least for which a cap can
admit two and refuse the third, and for which skipping one and taking the next
matters. Two values of the clock let a review fall in the second of another or
in a later one, the only relations `INSERT OR REPLACE` tells apart. The limit
under which reviewed ids are read is as large as the number of reviews the
runner can write, as 500 is meant to be; with a smaller one the runner reviews
proposals again, which is a listed hazard without a property. A second kill adds nothing that a first kill followed by a fresh
run does not: a killed process leaves only its commits. Two approvals are the
least that let a stale or repeated use of the first be told from the second,
and one ticket suffices, as no desk action touches two. Deaths of the runner are
left to the pipeline's runs: the desk cannot tell a dead runner from one that
has nothing to do. On the QMT side, three
requests give submit, cancel, submit again; two threads are the least that
race, and every race here is between two.

Two searches are a first and a rerun, or two protocols asking for one id; two
trials let one fail and one complete, or two tie or trade off. Two processes are
the least that overlap at the frozen candidate or at the holdout. Two days are the least with an earlier
date, and a capture by hand can write the earlier one later. A refresh, an edit
and a report are one each of the three kinds of writers of the table; what a
second refresh could do to the first is covered by the report, which writes the
same rows. The texts differ in what a row may leave out or state, the cases
`Valued` tells apart. Three p-values are the least for which the running maximum and
minimum of the corrections reach over a neighbour.

Each property has a mutant in PROJECT.json: a definition of the model changed
as a plausible bug in that code would change it, under which TLC finds the
property violated in the same configuration.

## 4. Fairness

Weak fairness is assumed only of programs that were started, and of what timers
start again.

- `ProposalPipeline`: weak fairness on the steps of the runners. The timer unit
  (`departments/platform/deployment/systemd`) starts the runner every fifteen
  minutes, and a started command runs on unless it is killed, so a runner that
  can step does. The liveness properties speak of proposals whose strategy comes
  to stay running and that stay among the newest artifacts; the code promises
  nothing for the others.
- `Phase8Search`: weak fairness on the study steps of a process that runs one.
  Nobody has to start a search, to freeze or to open the holdout.
  `ResumedStudyCompletes` begins where somebody did run the study again.
- `LiveAccounts`: weak fairness on syncs and reports, which a daily timer and
  every open dashboard start again. Edits, captures and refreshes have none.
- `TrialLedger`: weak fairness on a backtest that has committed its trial.

People, operators, the clock, kills and the writing of artifacts have no
fairness. Kills are bounded, which stands for a command that is not killed every
time.

## 5. The proofs

All theorems hold for every value of the constants that satisfies the named
assumptions of the modules (`LedgerAssumption`, `PipelineAssumption`,
`StudyAssumption`, `Phase8Assumption`, `HoldingsAssumption`, ...), in particular for any number of
processes, proposals, tickets, trials, positions and deaths.

| Theorem | Statement | Argument |
| --- | --- | --- |
| `PipelineTypeCorrect` | `Spec => []TypeOK` | inductive as it stands |
| `RowsBehindTicketsAndEvents` | `Spec => [](ReviewBehindTicket /\ NoEventWithoutRow)` | a process between two of its commits relies on the earlier one, which nobody deletes; `FilesInv` says, stage by stage, what each process knows to be in the files |
| `QuietLedgersAgree` | `Spec => []LedgersAgree` | `ReportInv`: a row without the events of its intents belongs to a process that is about to write them, or to one that was killed |
| `RunnerReviewsOnce`, `RunnerTicketsReady` | one command, which skips what has a review, and a read of reviewed ids that is not cut short: `[]ReviewedOnce` and `[]ReadyReviewBehindTicket` | `OnceInv`: no proposal comes twice in what the runner has yet to look at, and what it holds had no review when it was loaded; nobody else writes any |
| `RunnerKeepsDailyCap` | one runner, no reviewer, tickets counted at what they were estimated: the cap is kept | the local `dailyUsed` never falls behind the rows of the day, except for tickets written and not yet added, which the review compared with the cap; `CapInv` is that accounting. Needs the assumptions that the estimate is additive over sets of proposals and never negative |
| `PassedReviewsGetTickets` | for reviewers that create tickets: `Spec`, its gate open and nobody killed imply `[]PassedIsTicketedOrUnderWay` | the property is inductive under these hypotheses, with the fact that a passed proposal has intents: a command between a passed review and its tickets never turns aside, and no step of another command takes a ticket away |
| `RunsPassOverNothingElse` | `Spec => NothingElsePassedOver` | `IdsAreReviewed`: a run knows the id of no proposal without a review, because rows stay |
| `TradingTypeCorrect` | `TradingSpec => []TradingTypeOK` | inductive |
| `OnlyApprovedTicketsPlaced` | `TradingSpec => []OnlyApprovedReachBroker` | `ApprovalInv`: a ticket shown as approved, or in the hands of a submitter past its preflight, was approved once; pipeline steps write only `dry_run` rows |
| `SubmittedTicketsPlaced` | `TradingSpec => []SubmittedReachedBroker` | a submitter at its mark has placed; the status is written nowhere else |
| `PlacedOrdersLogged` | `TradingSpec => []BrokerOrdersAreLogged` | `LogInv`: an order that is not in the log is in the hands of a submitter on its way there, or of one that died |
| `DocumentsLoseNothing` | `HistorySpec => NothingForgotten`, for any reviewers, desk commands and deaths | `HeldIsCurrent`: a command that was not overtaken since its SELECT holds the document that is still beside the ticket, so its UPDATE only adds to it |
| `PlacedIsPaidFor` | `TradingSpec => []PlacedWithinApprovals` | `Spending`: orders at the broker plus the `Chances` of one to come stay within what was approved and what deaths have cost. A chance is a submitter on its way to the broker, or one that does not hold the ticket while its row is approved; the mark of a ticket ends the chances of all that have not passed their preflight |
| `DecidedTicketsStay` | one command that skips what has a review: `DecisionsStand` | `OnceInv`: tickets are written only where there are none, and the desk's UPDATEs never write `dry_run` |
| `LaneImplementsPipeline` | `TradingSpec => PipelineUndisturbed` | refinement: a pipeline step is itself under the mapping, a desk step is `Unseen`, a stutter |
| `LaneRowsBehind`, `LaneLedgersAgree`, `LaneReviewsOnce`, `LaneKeepsDailyCap` | what the pipeline keeps on its own, under the same assumptions, for `TradingSpec` | the pipeline's inductive invariants speak only of what a desk step leaves as it is (`UnseenRows`), so its step lemmas carry over |
| `LaneImplementsAuthority` | with one placing submitter and no deaths, `TradingSpec => AuthorityKept` | refinement: every step maps to a step of `OrderAuthority` or a stutter, under the invariant `PlacersOnly` |
| `AuthorityNeverOverspent` | `AuthoritySpec => []SentWithinGrants`, ticket by ticket | the inductive invariant counts authority in hand as one unspent grant |
| `OneApprovalOneOrder` | under the assumptions of the refinement, one approval buys at most one order | the abstract theorem, carried over by the refinement |
| `QMTTypeCorrect` | `Spec => []QMTTypeOK` of `QMTConnector` | inductive together with `SubmitsNameOrders` and `CreatorsSubmit`: what a thread books comes from a submit request, which names an order |
| `RequestsAreOrderedOnce` | `Spec => []RequestOrderedOnce` | `NonceInv`: every nonce in the book or under work was seen, a request under work has no order yet, and no two threads work on one |
| `SecondOrdersAreRaced` | `Spec => []OneOrderUnlessRaced` | `RaceInv`: two threads creating an order for one client id, or one creating an order the book has by now, were recorded in `raced` when the later of them finished its lookup |
| `ReceiptsTellTheTruth` | `Spec => []ReceiptsAreTruthful` | what a thread answers it has booked or found, and what is in the book keeps its terms |
| `AuditMissesNothing` | `Spec => []AuditIsComplete` | a thread past its audit has its line in the log, and one before it has answered nobody |
| `ChannelImplementsOrderBook` | `Spec => BookKept` | refinement to `OrderBook` under `QInv`, `NonceInv` and `RaceInv`: a lookup that misses is `Start`, an append is `Place`, and all other steps of threads and network stutter |
| `CancelsHold` | `Spec => []AcknowledgedCancelsHold` | an order id is drawn once unless `raced` names it; a cancelled order is never written again and a restart brings none back |
| `FoldSlicesInRange`, `FoldGapsKept`, `FoldsExcludeHoldout`, `FoldValidationsDisjoint`, `FoldValidationsTile`, `FoldGeometryValid` | for every configuration with sufficient history: slices in range, gap kept, holdout left out, validation blocks disjoint and without holes, and the function's own validation passes | arithmetic on the bounds of the slices; a product `index * validation_periods` is bounded by lemmas of its own |
| `SearchTypeCorrect`, `SearchFoldsSound` | `Spec => []TypeOK`, `Spec => []FoldsAreSound` of `Phase8Search` | `WellFormed`: a process that searches was let in by the gates |
| `SearchKeepsBudget`, `SearchKeepsProtocol` | `[]BudgetKept`, `[]OneProtocolPerStudy` | `Accounted`: completed trials and the attempts a process has left never exceed the budget together; one process searches at a time |
| `SearchPublishesComplete` | `[]CompleteIsPublished` | `Recorded`: what a process has written of a study is in its files, as whole files are never rewritten |
| `SearchResumes` | `Spec => ResumedStudyGoesOn` | one search at a time and one protocol per study: nobody else touches the study, and with the budget spent the trials the run reads are those its files were compared with |
| `SearchOpensOnce` | `[]OpenedOnceUnlessRaced` | `SealKept`: an opening is either recorded in a file, or about to be by the one process past the check |
| `SearchImplementsSeal` | `Spec => HoldoutSealed` | refinement to `SealedHoldout`, look and write apart, through kills and torn files: the candidate stays and the holdout opens once unless two processes overlapped. `FreezerSaw` says what a process about to write its candidate knows, and with `Unoverlapped` that nobody wrote one since it looked; `Settled` ties it to what is published |
| `SearchFreezesBest` | `Spec => []FrozenIsBest` | `Measured` and `FrozenSelected`; that an undominated trial exists above any other follows from the strict subset order being well-founded |
| `HolmIsStepDown`, `BenjaminiHochbergIsStepUp` | for every family: the adjusted value is at most a level just when the textbook procedure rejects at that level | the maximum and minimum of the terms against the quantifier of the procedure; the second needs `EvenDivisions` |
| `CorrectionsAreOrdered` | for every family and trial: p-value, q-value, Holm's value and Bonferroni's ascend in this order | each trial's terms are in this order, and a minimum of terms is at most any of them, a maximum at least |
| `MoreTrialsNeverHelp` | for every family that grows: Bonferroni's and Holm's values of its trials do not fall | the ranks counted from the end only grow. It is not so of Benjamini and Hochberg, whose value is a share of what is rejected |
| `TrialsTypeCorrect` | `Spec => []TypeOK` of `TrialLedger` | inductive with the rows of a recorder told apart by signature |
| `TrialsCorrected` | `Spec => []CorrectedUnlessBehind` | a refresh writes every row of a signature in the family it read; what it may have missed sets `behind` |
| `CorrectionsAreRight` | `Spec => []CorrectionsAreTheProcedures` | the two algorithm theorems, for the family of any reachable table |
| `BacktestsLeaveNothing` | `Spec => []UncorrectedAreUnderWay`: rows without a correction are at most the kills and the backtests under way | `CountInv`. A backtest does not remember its row and any other may correct it, so rows cannot be paired with backtests; inductive is that whichever of those at their write go next, what they miss is at most the kills and those under way besides them |
| `LiveTypeCorrect` | `Spec => []TypeOK` of `LiveAccounts` | `LiveInv`: the types, and no draft of a report without its sync; that the fold `ManualValue` is a number needs the positions to be finite |
| `ValuesAlwaysFollow`, `SavesBackUp` | `Spec => []ValuesFollow`, `Spec => ReplacedIsBackedUp` | `HoldingsInv`: every row of the table is `Sound`, and every row in the memory of a process is `Held`, which lets values be still to be computed; a save about to replace the file has it in the backup |
| `SyncsComputeBaseValues` | `Spec => SyncsRevalue` | `Revalued`, of the rows a sync carries: what it reads was valued at its own rate, and what it merges has no base value until it is valued at the rate merged |
| `WritesTakeNothingBack` | `Spec => NothingTakenBack` | `Current`, the part of `HoldingsInv` that is about what a process knows: until it is overtaken, what it read is what the table has |
| `SyncsLeaveOneVersion` | `Spec => SyncsAreWhole` | `WholeInv`: what a sync carries was read from one version of the file, and what it has upserted is in the table until another process writes |
| `PnlIsTheDifference` | `Spec => []DailyPnlIsTheDifference` | `PnlInv`: the profit a draft is about to write is right for the table as it is now, or the draft is marked as overtaken |
| `UnifiedIsAlwaysOneCut` | `Spec => []UnifiedIsOneCut` | `CutInv`: without a race the latest NAV and the latest positions are of one snapshot, and a broker draft is newer than every snapshot taken |

Why `OnlyApprovedReachBroker` is not inductive: a submitter past its preflight
no longer looks at the row, so the invariant must follow the ticket in its
hand. Why the refinement needs its two assumptions: with a death between place
and mark, or with two placing submitters, the code itself sends twice on one
approval (section 6).

The mapping of `Authority` is not the identity on the status column. A ticket has authority
while a submitter is about to place it, whatever the row says by then, and has
none while its order waits to be marked, because the mark will overwrite the
row; otherwise the row tells. A rejection in between therefore maps to a
stutter, which is how the refinement holds although the rejection is lost.

Without the two assumptions there is still a bound, and `PlacedIsPaidFor` is it:
for n submission runners an approval costs n orders at most, and each death one
more. It is not inductive in the number of orders alone, as a submitter that has
connected places whatever happens to the row. Counting who may still place
makes it so: an approval adds at most n chances, placing turns a chance into an
order, and a death may give one back, because the ticket its victim would have
marked still looks approved.

The four theorems about the whole lane are stated for `TradingSpec` although
`LaneImplementsPipeline` exists: the pipeline's properties read status and
document of a ticket only as far as the mapping keeps them, but a proof through
the mapping would have to say so for each. It is shorter to reuse the step
lemmas. `LaneCases` splits a step of the lane into one of the pipeline and one
that is `Unseen`.

`OrderBook` says `Place` of a client id that has an entry only if it is in
`doubled`, which is set when two orders were being placed at once. Timeouts,
lost answers and retries are all stutters or new requests, so they make no
second entry; that a duplicated delivery makes none is the guard that no entry
is from the same request, and it is `NonceInv` that meets it.

`SecondOrdersAreRaced` says what the lock the connector lacks would be worth:
timeouts, lost answers, retries and cancels never make a second order by
themselves. The proofs of `QMTConnectorProofs` first separate the four steps
that touch the book or start work on a request from the rest
(`QuietHandler`, `QuietAdapter`), so that each invariant needs a step only for
the four and for a restart.

`FrozenIsBest` speaks of all feasible trials of the published history, while
the code compares only the candidates it selected. The step between the two is
the finiteness argument: whatever dominates or precedes the frozen trial would
have a candidate above it.

`CorrectionsAreTheProcedures` is a statement about algorithms, and its proof
needs no invariant but the type of the table; the run is where TLC evaluates
both sides on every reachable family.

`UnifiedIsOneCut` does not follow from what a report reads alone. The two reads
find the latest row in two orders, NAV rows by `as_of` and snapshots by time,
and agree only because a broker snapshot that is committed is newer than all
before it: captures whose drafts do not overlap commit in the order they were
taken. `CutInv` states that, and `raced` is what it costs when they do overlap.

`ManualValue` is a fold, and the fold is a recursive function over sets. That it
exists and what it yields is proved by a smallest counterexample under strict
inclusion instead of by induction (`SumExists`, `SumsAgree`,
`ManualValueNatural`).

## 6. Where code and documents disagree

Shown by a run, each with the line it contradicts in PROJECT.json:

- `placed_after_kill_switch`: the registry record is read before the ticket is
  loaded and the broker connected; a kill switch in between stops nothing.
- `placed_twice`: a submitter that dies after `place_order` and before the mark
  leaves an approved ticket, and the next run places it again.
- `qmt_two_threads`: an order sent again while the first request is being
  handled becomes a second order.

Met while modelling, without a run of their own.

In the trading lane:

- A runner killed between review and tickets never tickets the proposal, as its
  review makes every later run skip it. `PassedReviewsAreTicketedUnlessKilled`
  excludes the case.
- The review command does not add what it ticketed to the notional it read
  (`proposal_review_command.py:107`), so proposals that each fit exceed the cap
  together. `DailyCapKept` is checked and proved for the runner.
- Tickets are counted per share (`ledger.py:754`) and admitted with the
  contract multiplier.
- A second review in the same second replaces the passed review its tickets
  name (`ledger.py:522`, `:527`).
- A rejection after the preflight does not stop the order (`submitter.py:284`);
  approval looks at no status, so a submitted ticket can be approved again
  (`order_router.py:229`); two submission runners both place one approved
  ticket (`submitter.py:288`, `:338`).
- The docstring of `submitter.py:3` says it deliberately places no broker
  orders, and `:323` places them.

In the research part:

- The guide to Phase 8
  (`research_pipeline_phase_8_optional_optimisation.md:109`) says of the holdout
  "A second attempt is rejected."; two processes that overlap between
  `runner.py:286` and `:294` both open it. `OpenedOnceUnlessRaced` names the
  condition.
- The same guide (`:104`) has the runner "write an immutable
  `frozen_candidate.json`"; two processes that freeze at their own times both
  find no file (`runner.py:428`), and the second overwrites the first (`:432`).
  `SealedHoldout` names the condition (`overlapped`).
- A study whose first run stopped early or had failing trials cannot complete
  by being run again: it runs more trials, its result says something else, the
  file is never rewritten, and the row stays `running`.
  `ResumedStudyCompletes` excludes these.
- Of two backtests of one family, the one that read first may write last
  (`evaluator.py:2388`): all trials but its own stay corrected for fewer trials
  than there are, until the next trial.
- A refresh of the family also corrects blocked rows, whose label `blocked` is
  lost; and an older row of a signature carries the correction of the last one,
  which may lie below its own p-value.

In the accounts:

- A refresh of prices writes whole rows it loaded before asking the vendor
  (`refresh_manual_external_holdings.py:111`): an edit synced meanwhile is
  reverted until the next sync.
- `manual_adjustments.md:38` says that "editing the file does not refresh the
  market timestamp"; a row without `updated_at` gets the time of the sync
  (`manual_external.py:374`), which is reported as the position's `as_of`.
- The docstring of the sync (`manual_external.py:208`) says that active rows
  missing from the file are marked inactive; those of an environment the file no
  longer names, or of a file left without rows, stay active.
- A market value the file states is kept beside a quantity and price that say
  otherwise (`manual_external.py:301`, `:315`); `ValuesFollow` says so, and that it
  does not outlive a refreshed price.
- A position bought again under an id it had before takes over the old quote.
- A broker snapshot without net liquidation enters the NAV as 0
  (`ledger.py:209`).

## 7. What is only checked, and what is not modelled

Only model-checked: the liveness properties `RunningProposalsAreReviewed`,
`PassedReviewsAreTicketedUnlessKilled`, `ResumedStudyCompletes`,
`TableFollowsFile` and `BacktestsAreCorrected`, as fairness and ENABLED are
beyond the prover. Every other property of a passing run is proved, some under
the assumptions section 5 names with them. The other way round,
`OneApprovalOneOrder`, `RequestsAreOrderedOnce`, `DecidedTicketsStay` and the
type invariants `PipelineTypeCorrect`, `TradingTypeCorrect`, `QMTTypeCorrect` and
`LiveTypeCorrect` are proved and no run checks them; the first two follow from properties that runs do check,
`AuthorityKept` and `BookKept`. So are the safety halves of the liveness
properties, which say that nothing is lost on the way where liveness says that
the way is gone to its end:

| Liveness, model-checked | Safety half, proved |
| --- | --- |
| `RunningProposalsAreReviewed` | `RunsPassOverNothingElse`: a run does not pass over a proposal that should be reviewed |
| `PassedReviewsAreTicketedUnlessKilled` | `PassedReviewsGetTickets`: tickets that are due and not there are on some command's way |
| `ResumedStudyCompletes` | `SearchResumes`: a resumed run stays on its way until the study is complete |
| `TableFollowsFile` | `SyncsLeaveOneVersion`: a sync ends with the table at one version of the file |
| `BacktestsAreCorrected` | `BacktestsLeaveNothing`: once no backtest is under way, only kills leave rows uncorrected |

No module with theorems has a
RECURSIVE operator.

Left out of the modelled parts:

- Lane: the calendar (one day; the local date against UTC timestamps around
  midnight is a listed hazard without a property), the characters of ids
  (`_safe_id`), prices and quantities beyond their notional, strategies
  registered in two market verticals (the record loaded is the running one,
  also when its kill switch is on and another vertical's is meant), the LIMIT of
  500 reviewed ids, SQLite's own locking of the SELECT and UPDATE of one status change.
- QMT: the read-only endpoints, which change no state. Signature arithmetic is
  external: a request that the adapter signed verifies.
- Studies: two searches of one study at once. The runner has no lock; searches
  are started by hand on one workstation, and the model lets one search at a
  time. Samplers are a choice of outcomes.
- Accounts: environments other than the default, cost columns and timestamps,
  the import script, which upserts a file without deactivating what it lacks,
  reconciliation and converters.
- Trials: evidence tickets, the backtest arithmetic, and p-values whose
  corrections need rounding.

Not modelled, with the reason, are the remaining components of PROJECT.json.
Research statistics, factors, options, risk, portfolio valuation and market
statistics are numerical code over data frames: their state is their input.
Data vendors, heartbeats, notifications and dashboards are input and output,
and most of the repository's lines are these and notebooks. That is why the
modelled share of its lines is small: the parts with state of their own, which
other parts read and change, are few.

## 8. Plan

1. Lane core: `PaperLedger`, `ProposalPipeline`, `TicketDesk`, `PaperTrading`,
   `OrderAuthority` with all safety properties proved, for the pipeline alone
   and in the company of the desk. Done.
2. `QMTConnector` with its runs, `OrderBook`, all safety properties and the
   refinement proved. Done.
3. `StudyRunner`, `Phase8Folds`, `Phase8Search`, `SealedHoldout`, all safety
   properties and the refinement proved. Done.
4. `TrialLedger` and `MultipleTesting`, all safety properties and both
   algorithms proved. Done.
5. `ManualHoldings`, `AccountLedger`, `LiveAccounts`, all safety properties
   proved. Done.
6. `StrategyRegistry`: promotion from candidates, two market verticals, status
   commands; the lane's `StrategyRunning` then becomes an operator over it.
7. Evidence tickets, the legacy portfolio ledger and its NAV job, the import
   script, and a calendar with two time zones for the notional of the day.
