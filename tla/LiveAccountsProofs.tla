-------------------------- MODULE LiveAccountsProofs ---------------------------
(***************************************************************************)
(* Proofs about LiveAccounts, for any positions, processes, captures and   *)
(* dates, and any number of edits, refreshes and kills.                    *)
(***************************************************************************)
EXTENDS LiveAccounts, FiniteSetTheorems, TLAPS

LEMMA TimesTyped ==
  ASSUME NEW left \in Optional, NEW right \in Optional
  PROVE  Times(left, right) \in Optional
<1>1. CASE left = Missing \/ right = Missing
  BY <1>1 DEF Times, Optional
<1>2. CASE left \in Nat /\ right \in Nat
  <2>1. left * right \in Nat
    BY <1>2, SMT
  <2> QED BY <1>2, <2>1, HoldingsAssumption DEF Times, Optional
<1> QED BY <1>1, <1>2 DEF Optional

-----------------------------------------------------------------------------
(* What the fold ManualValue adds up to is a number *)

LEMMA LeastSubset ==
  ASSUME NEW S, IsFiniteSet(S), NEW T \in SUBSET SUBSET S, T # {}
  PROVE  \E x \in T : \A y \in T : ~(y \subseteq x /\ y # x)
<1>1. T \subseteq FiniteSubsetsOf(S)
  BY FS_FiniteSubsetsOfFinite
<1>2. PICK x \in T : \A y \in T : ~(<<y, x>> \in StrictSubsetOrdering(S))
  BY <1>1, FS_StrictSubsetOrderingWellFounded, WFMin
<1> QED BY <1>2 DEF StrictSubsetOrdering

First(s) == CHOOSE x \in s : TRUE
Others(s) == s \ {First(s)}

LEMMA OthersAreFewer ==
  ASSUME NEW s, s # {}
  PROVE  First(s) \in s /\ Others(s) \subseteq s /\ Others(s) # s
BY DEF First, Others

Worth(rate, p) ==
  OrElse(holdings[p].base, OrElse(Times(holdings[p].local, rate), 0))

IsSum(rate, f, S) ==
  f = [s \in SUBSET S |->
         IF s = {} THEN 0 ELSE Worth(rate, First(s)) + f[Others(s)]]

LEMMA SumOfSubset ==
  ASSUME NEW S, NEW rate, NEW f, IsSum(rate, f, S), NEW s \in SUBSET S
  PROVE  f[s] = IF s = {} THEN 0 ELSE Worth(rate, First(s)) + f[Others(s)]
BY DEF IsSum

LEMMA SumsAgree ==
  ASSUME NEW S, IsFiniteSet(S), NEW T \in SUBSET S,
         NEW rate, NEW f, IsSum(rate, f, S), NEW g, IsSum(rate, g, T)
  PROVE  \A s \in SUBSET T : f[s] = g[s]
<1> DEFINE apart == {s \in SUBSET T : f[s] # g[s]}
<1> SUFFICES ASSUME apart # {} PROVE FALSE
  OBVIOUS
<1>1. IsFiniteSet(T)
  BY FS_Subset
<1>0. apart \in SUBSET SUBSET T /\ apart # {}
  OBVIOUS
<1> HIDE DEF apart
<1>2. PICK s \in apart : \A t \in apart : ~(t \subseteq s /\ t # s)
  BY <1>1, <1>0, LeastSubset
<1> USE DEF apart
<1>3. s \in SUBSET S /\ s \in SUBSET T
  OBVIOUS
<1>4. s # {}
  BY <1>2, <1>3, SumOfSubset
<1>5. Others(s) \in SUBSET T /\ Others(s) \notin apart
  BY <1>2, <1>3, <1>4, OthersAreFewer
<1>6. f[Others(s)] = g[Others(s)]
  BY <1>5
<1>7. f[s] = Worth(rate, First(s)) + f[Others(s)]
  BY <1>3, <1>4, SumOfSubset
<1>8. g[s] = Worth(rate, First(s)) + g[Others(s)]
  BY <1>3, <1>4, SumOfSubset
<1> QED BY <1>2, <1>6, <1>7, <1>8

LEMMA SumExists ==
  ASSUME NEW S, IsFiniteSet(S), NEW rate
  PROVE  \E f : IsSum(rate, f, S)
<1> DEFINE without == {T \in SUBSET S : ~ \E f : IsSum(rate, f, T)}
<1> SUFFICES ASSUME without # {} PROVE FALSE
  OBVIOUS
<1>0. without \in SUBSET SUBSET S /\ without # {}
  OBVIOUS
<1> HIDE DEF without
<1>1. PICK T \in without : \A U \in without : ~(U \subseteq T /\ U # T)
  BY <1>0, LeastSubset
<1> USE DEF without
<1>2. T \in SUBSET S /\ ~ \E f : IsSum(rate, f, T)
  BY <1>1
<1> DEFINE sum(U) == CHOOSE f : IsSum(rate, f, U)
           g == [s \in SUBSET T |->
                   IF s = {} THEN 0
                   ELSE Worth(rate, First(s)) + sum(Others(s))[Others(s)]]
<1>3. ASSUME NEW U \in SUBSET T, U # T
      PROVE  IsSum(rate, sum(U), U)
  <2>1. \E f : IsSum(rate, f, U)
    BY <1>1, <1>2, <1>3
  <2> QED BY <2>1
<1> HIDE DEF sum
<1>4. ASSUME NEW U \in SUBSET T, U # T
      PROVE  g[U] = sum(U)[U]
  <2>1. IsSum(rate, sum(U), U) /\ U \in SUBSET U
    BY <1>3, <1>4
  <2>2. sum(U)[U] = IF U = {} THEN 0
                    ELSE Worth(rate, First(U)) + sum(U)[Others(U)]
    BY <2>1, SumOfSubset
  <2>3. CASE U = {}
    BY <2>2, <2>3
  <2>4. CASE U # {}
    <3>1. Others(U) \in SUBSET U /\ Others(U) \in SUBSET T /\ Others(U) # T
      BY <2>4, <1>4, OthersAreFewer
    <3>2. IsSum(rate, sum(Others(U)), Others(U))
      BY <3>1, <1>3
    <3>3. IsFiniteSet(U)
      BY <1>2, FS_Subset
    <3>4. sum(U)[Others(U)] = sum(Others(U))[Others(U)]
      BY <2>1, <3>1, <3>2, <3>3, SumsAgree
    <3> QED BY <2>2, <2>4, <3>4
  <2> QED BY <2>3, <2>4
<1>5. \A s \in SUBSET T : s # {} => g[Others(s)] = sum(Others(s))[Others(s)]
  <2> SUFFICES ASSUME NEW s \in SUBSET T, s # {}
               PROVE  g[Others(s)] = sum(Others(s))[Others(s)]
    OBVIOUS
  <2>1. Others(s) \in SUBSET T /\ Others(s) # T
    BY OthersAreFewer
  <2> QED BY <2>1, <1>4
<1>6. IsSum(rate, g, T)
  BY <1>5 DEF IsSum
<1> QED BY <1>2, <1>6

LEMMA WorthNatural ==
  ASSUME holdings \in [Positions -> Row], NEW rate \in Optional,
         NEW p \in Positions
  PROVE  Worth(rate, p) \in Nat
<1>1. holdings[p].base \in Optional /\ holdings[p].local \in Optional
  BY DEF Row
<1>2. Times(holdings[p].local, rate) \in Optional
  BY <1>1, TimesTyped
<1> QED BY <1>1, <1>2 DEF Worth, OrElse, Optional

LEMMA ManualValueNatural ==
  ASSUME holdings \in [Positions -> Row], NEW rate \in Optional
  PROVE  ManualValue(rate) \in Nat
<1> DEFINE f == CHOOSE f : IsSum(rate, f, ActiveRows)
<1>1. ActiveRows \subseteq Positions /\ IsFiniteSet(ActiveRows)
  BY HoldingsAssumption, FS_Subset DEF ActiveRows
<1>2. ManualValue(rate) = f[ActiveRows]
  BY DEF ManualValue, FoldFunctionOnSet, MapThenFoldSet, IsSum, First, Others, Worth
<1>3. IsSum(rate, f, ActiveRows)
  BY <1>1, SumExists
<1> HIDE DEF f
<1> DEFINE strange == {s \in SUBSET ActiveRows : f[s] \notin Nat}
<1> SUFFICES ASSUME strange # {} PROVE FALSE
  BY <1>2
<1>0. strange \in SUBSET SUBSET ActiveRows /\ strange # {}
  OBVIOUS
<1> HIDE DEF strange
<1>4. PICK s \in strange : \A t \in strange : ~(t \subseteq s /\ t # s)
  BY <1>1, <1>0, LeastSubset
<1> USE DEF strange
<1>5. s \in SUBSET ActiveRows /\ f[s] \notin Nat
  BY <1>4
<1>6. s # {}
  BY <1>3, <1>5, SumOfSubset
<1>7. f[s] = Worth(rate, First(s)) + f[Others(s)]
  BY <1>3, <1>5, <1>6, SumOfSubset
<1>8. First(s) \in Positions /\ Others(s) \in SUBSET ActiveRows
        /\ Others(s) \notin strange
  BY <1>1, <1>4, <1>5, <1>6, OthersAreFewer
<1>9. Worth(rate, First(s)) \in Nat /\ f[Others(s)] \in Nat
  BY <1>8, WorthNatural
<1> QED BY <1>5, <1>7, <1>9

LEMMA RatesOptional ==
  ASSUME holdings \in [Positions -> Row]
  PROVE  ConversionRates \subseteq Optional
BY HoldingsAssumption DEF ConversionRates, Row, Optional

-----------------------------------------------------------------------------
(* What a step is to the holdings and what it is to the ledger *)

Rest(r) ==
  /\ work' = [work EXCEPT ![r] = AtRest]
  /\ \/ kills' = kills
     \/ kills < MaxKills /\ kills' = kills + 1
  /\ UNCHANGED <<fileVars, holdings, refreshes>>

SyncAction(r) ==
  \/ StartReport(r) \/ StartRefresh(r) \/ MergeRows(r) \/ Upsert(r)
  \/ DeactivateMissing(r) \/ LoadRows(r) \/ WriteRefreshed(r)

LEMMA HoldingsStep ==
  ASSUME [Next]_vars
  PROVE  \/ (\E text \in Portfolios : BeginSave(text)) \/ BackUp \/ Replace \/ KillSave
         \/ \E r \in Processes : SyncAction(r)
         \/ \E r \in Processes : Rest(r)
         \/ UNCHANGED holdingVars
<1>1. CASE Holdings(EditStep)
  BY <1>1 DEF Holdings, EditStep
<1>2. ASSUME NEW r \in Processes, Holdings(SyncStep(r))
      PROVE  SyncAction(r)
  BY <1>2 DEF Holdings, SyncStep, SyncAction
<1>3. ASSUME NEW r \in Processes, Kill(r)
      PROVE  Rest(r)
  BY <1>3 DEF Kill, Rest
<1>4. ASSUME NEW r \in Reporters, ReportStep(r)
      PROVE  Rest(r) \/ UNCHANGED holdingVars
  <2>1. CASE FinishReport(r)
    BY <2>1 DEF FinishReport, Rest
  <2>2. CASE ReportNav(r) \/ Ledger(ReadLatestPositions(r))
             \/ Ledger(AddManualRows(r)) \/ Ledger(SelectPrevious(r))
    BY <2>2 DEF ReportNav, Ledger
  <2> QED BY <1>4, <2>1, <2>2 DEF ReportStep
<1>5. CASE Ledger(Tick) \/ \E c \in Captures : CaptureStep(c)
  BY <1>5 DEF Ledger, CaptureStep
<1>6. CASE UNCHANGED vars
  BY <1>6 DEF vars
<1> QED BY <1>1, <1>2, <1>3, <1>4, <1>5, <1>6 DEF Next, Processes

Drop(w) ==
  /\ draft' = [v \in Writers |-> IF v = w THEN NoDraft ELSE draft[v]]
  /\ UNCHANGED <<second, snapshots, navs, captures, restated, raced>>

DraftAction(w) ==
  \/ Capture(w) \/ ReadLatestNav(w) \/ ReadLatestPositions(w)
  \/ AddManualRows(w) \/ SelectPrevious(w) \/ CommitSnapshot(w)

LEMMA LedgerStep ==
  ASSUME [Next]_vars
  PROVE  \/ Tick
         \/ \E w \in Writers : DraftAction(w)
         \/ \E w : Drop(w)
         \/ UNCHANGED ledgerVars
<1>1. CASE Holdings(EditStep) \/ \E r \in Processes : Holdings(SyncStep(r))
  BY <1>1 DEF Holdings
<1>2. ASSUME NEW r \in Processes, Kill(r)
      PROVE  Drop(r)
  BY <1>2 DEF Kill, Drop
<1>3. ASSUME NEW r \in Reporters, ReportStep(r)
      PROVE  r \in Writers /\ DraftAction(r)
  BY <1>3, LiveAssumption
     DEF ReportStep, ReportNav, Ledger, FinishReport, DraftAction
<1>4. ASSUME NEW c \in Captures, CaptureStep(c)
      PROVE  c \in Writers /\ DraftAction(c)
  BY <1>4, LiveAssumption DEF CaptureStep, Ledger, DraftAction
<1>5. CASE Ledger(Tick)
  BY <1>5 DEF Ledger
<1>6. CASE UNCHANGED vars
  BY <1>6 DEF vars
<1> QED BY <1>1, <1>2, <1>3, <1>4, <1>5, <1>6 DEF Next

-----------------------------------------------------------------------------
(* The rows of the table and of the processes follow their quantities *)

(* Of rows in memory, values may be still to be computed. *)
Held(p, row) ==
  /\ row \in Row
  /\ p \notin Foreign => row.rate \in {Missing, 1}
  /\ \/ row.local \in {Missing, Times(row.quantity, row.price)}
     \/ Stated(p, row, "local")
  /\ p \notin Foreign =>
       row.base \in {Missing, row.local} \/ Stated(p, row, "base")

Sound(p, row) ==
  /\ Held(p, row)
  /\ \/ row.local = Times(row.quantity, row.price)
     \/ Stated(p, row, "local")
  /\ p \notin Foreign => row.base = row.local \/ Stated(p, row, "base")

(* The base value is at the rate beside it, or still to be computed. *)
Revalued(p, row) ==
  row.base \in {Missing, Times(row.local, row.rate)} \/ Stated(p, row, "base")

HeldRows(rows) ==
  /\ DOMAIN rows \subseteq Positions
  /\ rows \in [DOMAIN rows -> Row]
  /\ \A p \in DOMAIN rows : Held(p, rows[p])

LEMMA NoRowsHeld == HeldRows(NoRows)
BY DEF HeldRows, NoRows

LEMMA StatedSame ==
  ASSUME NEW p, NEW row, NEW other, NEW column, Stated(p, row, column),
         other[column] = row[column], other.quantity = row.quantity,
         other.price = row.price
  PROVE  Stated(p, other, column)
BY DEF Stated

LEMMA SourceHeld ==
  ASSUME NEW text \in Portfolios, NEW p \in DOMAIN text
  PROVE  p \in Positions /\ Held(p, text[p])
<1>1. p \in Positions /\ text[p] \in Row
        /\ (p \notin Foreign => text[p].rate \in {Missing, 1})
  BY HoldingsAssumption
<1>2. Stated(p, text[p], "local") /\ Stated(p, text[p], "base")
  BY DEF Stated
<1> QED BY <1>1, <1>2 DEF Held

LEMMA ValuedFields ==
  ASSUME NEW p, NEW row \in Row
  PROVE  /\ Valued(p, row) \in Row
         /\ Valued(p, row).quantity = row.quantity
         /\ Valued(p, row).price = row.price
         /\ Valued(p, row).method = row.method
         /\ Valued(p, row).active = row.active
         /\ Valued(p, row).rate
              = IF p \in Foreign THEN row.rate ELSE OrElse(row.rate, 1)
         /\ Valued(p, row).local
              = OrElse(row.local, Times(row.quantity, row.price))
         /\ Valued(p, row).base
              = OrElse(row.base,
                       Times(Valued(p, row).local, Valued(p, row).rate))
<1> DEFINE local == OrElse(row.local, Times(row.quantity, row.price))
           rate == IF p \in Foreign THEN row.rate ELSE OrElse(row.rate, 1)
           base == OrElse(row.base, Times(local, rate))
<1>1. /\ row.quantity \in Optional /\ row.price \in Optional
      /\ row.rate \in Optional /\ row.local \in Optional
      /\ row.base \in Optional /\ 1 \in Optional
  BY DEF Row, Optional
<1>2. local \in Optional
  BY <1>1, TimesTyped DEF OrElse
<1>3. rate \in Optional
  BY <1>1 DEF OrElse
<1> HIDE DEF local, rate
<1>4. base \in Optional
  BY <1>1, <1>2, <1>3, TimesTyped DEF OrElse
<1>5. Valued(p, row) = [row EXCEPT !.rate = rate, !.local = local, !.base = base]
  BY DEF Valued, local, rate
<1> HIDE DEF base
<1>6. Valued(p, row) = [quantity |-> row.quantity, price |-> row.price,
                        rate |-> rate, method |-> row.method,
                        active |-> row.active, local |-> local, base |-> base]
  BY <1>5 DEF Row
<1>7. Valued(p, row) \in Row
  BY <1>2, <1>3, <1>4, <1>6 DEF Row
<1> QED BY <1>6, <1>7 DEF local, rate, base

LEMMA TimesOne ==
  ASSUME NEW value \in Optional
  PROVE  Times(value, 1) = value
BY HoldingsAssumption DEF Times, Optional

(* What is valued follows its quantity and its price. *)
LEMMA ValuedSound ==
  ASSUME NEW p, NEW row, Held(p, row)
  PROVE  Sound(p, Valued(p, row))
<1> DEFINE new == Valued(p, row)
<1>1. /\ new \in Row /\ new.quantity = row.quantity /\ new.price = row.price
      /\ new.rate = IF p \in Foreign THEN row.rate ELSE OrElse(row.rate, 1)
      /\ new.local = OrElse(row.local, Times(row.quantity, row.price))
      /\ new.base = OrElse(row.base, Times(new.local, new.rate))
  BY ValuedFields DEF Held
<1> HIDE DEF new
<1>2. new.local = Times(new.quantity, new.price) \/ Stated(p, new, "local")
  <2>1. CASE row.local = Missing
    BY <1>1, <2>1 DEF OrElse
  <2>2. CASE row.local # Missing /\ row.local = Times(row.quantity, row.price)
    BY <1>1, <2>2 DEF OrElse
  <2>3. CASE row.local # Missing /\ Stated(p, row, "local")
    BY <1>1, <2>3, StatedSame DEF OrElse
  <2> QED BY <2>1, <2>2, <2>3 DEF Held
<1>3. ASSUME p \notin Foreign
      PROVE  new.base = new.local \/ Stated(p, new, "base")
  <2>1. new.rate = 1
    BY <1>1, <1>3 DEF Held, OrElse
  <2>2. Times(new.local, new.rate) = new.local
    BY <1>1, <2>1, TimesOne DEF Row
  <2>3. CASE row.base = Missing
    BY <1>1, <2>2, <2>3 DEF OrElse
  <2>4. CASE row.base # Missing /\ row.base = row.local
    BY <1>1, <2>4 DEF OrElse
  <2>5. CASE row.base # Missing /\ Stated(p, row, "base")
    BY <1>1, <2>5, StatedSame DEF OrElse
  <2> QED BY <1>3, <2>3, <2>4, <2>5 DEF Held
<1>4. p \notin Foreign => new.rate \in {Missing, 1}
  BY <1>1 DEF Held, OrElse
<1>5. Sound(p, new)
  BY <1>1, <1>2, <1>3, <1>4 DEF Sound, Held
<1> QED BY <1>5 DEF new

(* Where the base value was at the rate, or is computed, it is at the rate.  *)
LEMMA ValuedRevalued ==
  ASSUME NEW p, NEW row \in Row, Revalued(p, row)
  PROVE  \/ Valued(p, row).base = Times(Valued(p, row).local, Valued(p, row).rate)
         \/ Stated(p, Valued(p, row), "base")
<1> DEFINE new == Valued(p, row)
<1>1. /\ new.quantity = row.quantity /\ new.price = row.price
      /\ new.rate = IF p \in Foreign THEN row.rate ELSE OrElse(row.rate, 1)
      /\ new.local = OrElse(row.local, Times(row.quantity, row.price))
      /\ new.base = OrElse(row.base, Times(new.local, new.rate))
  BY ValuedFields
<1> HIDE DEF new
<1>2. CASE row.base = Missing
  <2>1. new.base = Times(new.local, new.rate)
    BY <1>1, <1>2 DEF OrElse
  <2> QED BY <2>1 DEF new
<1>3. CASE row.base # Missing /\ row.base = Times(row.local, row.rate)
  <2>1. row.local # Missing /\ row.rate # Missing
    BY <1>3 DEF Times
  <2>2. new.local = row.local /\ new.rate = row.rate /\ new.base = row.base
    BY <1>1, <1>3, <2>1 DEF OrElse
  <2> QED BY <1>3, <2>2 DEF new
<1>4. CASE row.base # Missing /\ Stated(p, row, "base")
  <2>1. Stated(p, new, "base")
    BY <1>1, <1>4, StatedSame DEF OrElse
  <2> QED BY <2>1 DEF new
<1>5. new.base = Times(new.local, new.rate) \/ Stated(p, new, "base")
  BY <1>2, <1>3, <1>4 DEF Revalued, new
<1> QED BY <1>5 DEF new

LEMMA PreservedHeld ==
  ASSUME NEW p, NEW row, NEW existing, Held(p, row), Held(p, existing)
  PROVE  /\ Held(p, PreserveRefreshedPricing(row, existing))
         /\ Revalued(p, row)
              => Revalued(p, PreserveRefreshedPricing(row, existing))
         /\ PreserveRefreshedPricing(row, existing).method \in Placeholders
              => existing.method \in Placeholders
         /\ PreserveRefreshedPricing(row, existing).quantity = row.quantity
         /\ PreserveRefreshedPricing(row, existing).active = row.active
<1> DEFINE new == PreserveRefreshedPricing(row, existing)
<1>1. CASE row.method \in Placeholders /\ existing.method \notin Placeholders
  <2>1. new = [row EXCEPT !.price = OrElse(existing.price, row.price),
                          !.rate = OrElse(existing.rate, row.rate),
                          !.method = existing.method,
                          !.local = Missing, !.base = Missing]
    BY <1>1 DEF PreserveRefreshedPricing
  <2>2. OrElse(existing.price, row.price) \in Optional
          /\ OrElse(existing.rate, row.rate) \in Optional
    BY DEF Held, Row, OrElse
  <2>3. /\ new \in Row /\ new.rate = OrElse(existing.rate, row.rate)
        /\ new.local = Missing /\ new.base = Missing
        /\ new.method = existing.method /\ new.quantity = row.quantity
        /\ new.active = row.active
    BY <2>1, <2>2 DEF Held, Row, Optional
  <2> HIDE DEF new
  <2>4. p \notin Foreign => new.rate \in {Missing, 1}
    BY <2>3 DEF Held, OrElse
  <2>5. Held(p, new) /\ Revalued(p, new)
    BY <2>3, <2>4 DEF Held, Revalued
  <2> QED BY <1>1, <2>3, <2>5 DEF new
<1>2. CASE ~(row.method \in Placeholders /\ existing.method \notin Placeholders)
  <2>1. new = [row EXCEPT !.rate = OrElse(row.rate, existing.rate)]
    BY <1>2 DEF PreserveRefreshedPricing
  <2>2. OrElse(row.rate, existing.rate) \in Optional
    BY DEF Held, Row, OrElse
  <2>3. /\ new \in Row /\ new.rate = OrElse(row.rate, existing.rate)
        /\ new.local = row.local /\ new.base = row.base
        /\ new.method = row.method /\ new.quantity = row.quantity
        /\ new.price = row.price /\ new.active = row.active
    BY <2>1, <2>2 DEF Held, Row
  <2> HIDE DEF new
  <2>4. /\ Stated(p, row, "local") => Stated(p, new, "local")
        /\ Stated(p, row, "base") => Stated(p, new, "base")
    BY <2>3, StatedSame
  <2>5. p \notin Foreign => new.rate \in {Missing, 1}
    BY <2>3 DEF Held, OrElse
  <2>6. Held(p, new)
    BY <2>3, <2>4, <2>5 DEF Held
  <2>7. Times(row.local, row.rate) \in {Missing, Times(new.local, new.rate)}
    BY <2>3 DEF Times, OrElse
  <2>8. Revalued(p, row) => Revalued(p, new)
    BY <2>3, <2>4, <2>7 DEF Revalued
  <2> QED BY <1>2, <2>3, <2>6, <2>8 DEF new
<1> QED BY <1>1, <1>2

LEMMA PreservedKeeps ==
  ASSUME NEW p, NEW row, NEW existing, Held(p, row), Held(p, existing)
  PROVE  /\ PreserveRefreshedPricing(row, existing).quantity = row.quantity
         /\ PreserveRefreshedPricing(row, existing).active = row.active
BY PreservedHeld

LEMMA RefreshedHeld ==
  ASSUME NEW p, NEW row, Held(p, row),
         NEW rate \in Optional, p \notin Foreign => rate \in {Missing, 1},
         NEW quote \in Quotes \cup {NoQuote}
  PROVE  /\ Held(p, Refreshed(row, rate, quote))
         /\ Refreshed(row, rate, quote).quantity = row.quantity
         /\ Refreshed(row, rate, quote).active = row.active
         /\ Refreshed(row, rate, quote).method \in Placeholders
              => row.method \in Placeholders
<1>1. CASE quote = NoQuote
  <2> DEFINE method == IF row.method = "manual_cost"
                       THEN "manual_cost_fallback" ELSE row.method
             kept == [row EXCEPT !.rate = rate, !.method = method]
  <2>1. Refreshed(row, rate, quote) = kept
    BY <1>1 DEF Refreshed
  <2>2. method \in Methods /\ (method \in Placeholders => row.method \in Placeholders)
    BY DEF Held, Row, Methods, Placeholders
  <2> HIDE DEF method
  <2>3. /\ kept \in Row /\ kept.quantity = row.quantity
        /\ kept.price = row.price /\ kept.rate = rate
        /\ kept.method = method /\ kept.active = row.active
        /\ kept.local = row.local /\ kept.base = row.base
    BY <2>2 DEF Held, Row
  <2> HIDE DEF kept
  <2>4. /\ Stated(p, row, "local") => Stated(p, kept, "local")
        /\ Stated(p, row, "base") => Stated(p, kept, "base")
    BY <2>3, StatedSame
  <2>5. Held(p, kept)
    BY <2>3, <2>4 DEF Held
  <2> QED BY <2>1, <2>2, <2>3, <2>5
<1>2. CASE quote # NoQuote
  <2> DEFINE quoted == [row EXCEPT !.rate = rate, !.price = quote,
                                   !.method = "yfinance",
                                   !.local = Missing, !.base = Missing]
  <2>1. Refreshed(row, rate, quote) = quoted
    BY <1>2 DEF Refreshed
  <2>2. quote \in Optional
    BY <1>2, HoldingsAssumption DEF Optional
  <2>3. "yfinance" \in Methods /\ "yfinance" \notin Placeholders
    BY DEF Methods, Placeholders
  <2>4. /\ quoted \in Row /\ quoted.rate = rate /\ quoted.method = "yfinance"
        /\ quoted.local = Missing /\ quoted.base = Missing
        /\ quoted.quantity = row.quantity /\ quoted.active = row.active
    BY <2>2, <2>3 DEF Held, Row, Optional
  <2> HIDE DEF quoted
  <2>5. Held(p, quoted)
    BY <2>4 DEF Held
  <2> QED BY <2>1, <2>3, <2>4, <2>5
<1> QED BY <1>1, <1>2

-----------------------------------------------------------------------------
(* The invariant of file, table and processes *)

Stages(r) == {"idle", "merge", "upsert", "deactivate"}
               \cup IF r \in Refreshers THEN {"load", "quote"} ELSE {"synced"}

WorkOK(r, w) ==
  /\ w \in [pc : Stages(r), rows : {w.rows}, overtaken : BOOLEAN]
  /\ HeldRows(w.rows)
  /\ w.pc \in {"merge", "upsert"} =>
       \A p \in DOMAIN w.rows : Revalued(p, w.rows[p])

WorkInv ==
  /\ DOMAIN work = Processes
  /\ \A r \in Processes : WorkOK(r, work[r])

TableSound ==
  /\ holdings \in [Positions -> Row]
  /\ \A p \in Positions : Sound(p, holdings[p])

(* What a save relies on: there is a file to back up, and the one it will    *)
(* replace is in the backup.                                                 *)
FileInv ==
  /\ source \in Portfolios \cup {NoFile}
  /\ backup \in Portfolios \cup {NoFile, TornFile}
  /\ save \in [pc : {"idle", "back_up", "replace"},
               text : Portfolios \cup {NoFile}]
  /\ save.pc = "back_up" => source # NoFile
  /\ save.pc = "replace" => source = NoFile \/ backup = source
  /\ edits \in 0 .. MaxEdits
  /\ refreshes \in 0 .. MaxRefreshes
  /\ kills \in 0 .. MaxKills

(* What a process that was not overtaken knows of the table it will write.   *)
Current(w) ==
  ~w.overtaken =>
    /\ w.pc = "upsert" =>
         \A p \in DOMAIN w.rows :
           w.rows[p].method \in Placeholders => holdings[p].method \in Placeholders
    /\ w.pc = "quote" => \A p \in DOMAIN w.rows : w.rows[p] = holdings[p]

CurrentInv == \A r \in Processes : Current(work[r])

HoldingsInv == FileInv /\ TableSound /\ WorkInv /\ CurrentInv

LEMMA HoldingsInvTyped == HoldingsInv => HoldingsTypeOK /\ ValuesFollow
<1> SUFFICES ASSUME HoldingsInv PROVE HoldingsTypeOK /\ ValuesFollow
  OBVIOUS
<1>1. ValuesFollow
  BY DEF HoldingsInv, TableSound, Sound, Held, ValuesFollow
<1>2. ASSUME NEW r \in Processes
      PROVE  /\ work[r] \in [pc : {"idle", "merge", "upsert", "deactivate"}
                                   \cup IF r \in Refreshers THEN {"load", "quote"}
                                        ELSE {"synced"},
                              rows : {work[r].rows}, overtaken : BOOLEAN]
             /\ Partial(work[r].rows, Positions, Row)
  BY DEF HoldingsInv, WorkInv, WorkOK, Stages, HeldRows, Partial
<1> QED BY <1>1, <1>2 DEF HoldingsInv, FileInv, TableSound, WorkInv, HoldingsTypeOK

LEMMA AtRestOK == \A r : WorkOK(r, AtRest) /\ AtRest.pc = "idle"
BY NoRowsHeld DEF WorkOK, AtRest, Stages

LEMMA HoldingsInitially == HoldingsInit => HoldingsInv
<1> SUFFICES ASSUME HoldingsInit PROVE HoldingsInv
  OBVIOUS
<1>1. FileInv
  BY HoldingsAssumption DEF HoldingsInit, FileInv, NoSave
<1>2. TableSound
  <2>1. NoRow \in Row /\ NoRow.local = Missing
          /\ NoRow.price = Missing /\ NoRow.rate = Missing /\ NoRow.base = Missing
    BY DEF NoRow, Row, Methods, Placeholders, Optional
  <2>2. \A p : Sound(p, NoRow)
    BY <2>1 DEF Sound, Held, Times
  <2> QED BY <2>1, <2>2 DEF HoldingsInit, TableSound
<1>3. WorkInv /\ CurrentInv
  BY AtRestOK DEF HoldingsInit, WorkInv, CurrentInv, Current
<1> QED BY <1>1, <1>2, <1>3 DEF HoldingsInv

LEMMA WorkKept ==
  ASSUME WorkInv, CurrentInv, holdings' = holdings,
         NEW r \in Processes, NEW w, WorkOK(r, w), Current(w),
         work' = [work EXCEPT ![r] = w]
  PROVE  WorkInv' /\ CurrentInv'
<1>1. /\ DOMAIN work' = Processes /\ work'[r] = w
      /\ \A q \in Processes \ {r} : work'[q] = work[q]
  BY DEF WorkInv
<1>2. WorkInv'
  BY <1>1 DEF WorkInv
<1>3. ASSUME NEW q \in Processes
      PROVE  Current(work[q])'
  <2>1. Current(work'[q])
    BY <1>1 DEF CurrentInv
  <2> QED BY <2>1 DEF Current
<1> QED BY <1>2, <1>3 DEF CurrentInv

LEMMA CommitKept ==
  ASSUME WorkInv, CurrentInv, NEW r \in Processes, NEW table, NEW next,
         WorkOK(r, next), next.pc \notin {"upsert", "quote"},
         Commit(r, table, next)
  PROVE  WorkInv' /\ CurrentInv'
<1>1. /\ DOMAIN work' = Processes /\ work'[r] = next
      /\ \A q \in Processes \ {r} :
           work'[q] = IF work[q].pc = "idle" THEN work[q]
                      ELSE [work[q] EXCEPT !.overtaken = TRUE]
  BY DEF Commit
<1>2. ASSUME NEW q \in Processes
      PROVE  WorkOK(q, work'[q]) /\ Current(work[q])'
  <2>1. WorkOK(q, work[q])
    BY DEF WorkInv
  <2>2. CASE q = r
    BY <2>2, <1>1 DEF Current
  <2>3. CASE q # r /\ work[q].pc = "idle"
    BY <2>1, <2>3, <1>1 DEF Current
  <2>4. CASE q # r /\ work[q].pc # "idle"
    <3> DEFINE late == [work[q] EXCEPT !.overtaken = TRUE]
    <3>1. late.overtaken = TRUE /\ late.rows = work[q].rows /\ late.pc = work[q].pc
            /\ late \in [pc : Stages(q), rows : {work[q].rows}, overtaken : BOOLEAN]
      BY <2>1 DEF WorkOK
    <3>2. work'[q] = late
      BY <2>4, <1>1
    <3> HIDE DEF late
    <3> QED BY <2>1, <3>1, <3>2 DEF WorkOK, Current
  <2> QED BY <2>2, <2>3, <2>4
<1> QED BY <1>1, <1>2 DEF WorkInv, CurrentInv

(* A sync reads the file or, without one, goes on at once. *)
LEMMA ReadSourceKept ==
  ASSUME HoldingsInv, NEW r \in Processes, ReadSource(r)
  PROVE  WorkInv' /\ CurrentInv'
<1>1. WorkOK(r, work[r]) /\ holdings' = holdings
  BY DEF HoldingsInv, WorkInv, ReadSource
<1>2. ASSUME NEW pc \in Stages(r) \ {"upsert", "quote"}, NEW rows,
             HeldRows(rows), Advance(r, pc, rows),
             pc = "merge" => \A p \in DOMAIN rows : Revalued(p, rows[p])
      PROVE  WorkInv' /\ CurrentInv'
  <2> DEFINE w == [work[r] EXCEPT !.pc = pc, !.rows = rows]
  <2>1. /\ w.pc = pc /\ w.rows = rows
        /\ w \in [pc : Stages(r), rows : {rows}, overtaken : BOOLEAN]
    BY <1>1 DEF WorkOK
  <2>2. work' = [work EXCEPT ![r] = w]
    BY <1>2 DEF Advance
  <2> HIDE DEF w
  <2>3. WorkOK(r, w) /\ Current(w)
    BY <1>2, <2>1 DEF WorkOK, Current
  <2> QED BY <1>1, <2>2, <2>3, WorkKept DEF HoldingsInv
<1>3. CASE source = NoFile
  <2>1. AfterSync(r) \in Stages(r) \ {"upsert", "quote"} /\ AfterSync(r) # "merge"
    BY DEF AfterSync, Stages
  <2> QED BY <1>2, <1>3, <2>1, NoRowsHeld DEF ReadSource
<1>4. CASE source # NoFile
  <2> DEFINE rows == [p \in DOMAIN source |-> Valued(p, source[p])]
  <2>1. source \in Portfolios
    BY <1>4 DEF HoldingsInv, FileInv
  <2>2. ASSUME NEW p \in DOMAIN source
        PROVE  /\ p \in Positions /\ Held(p, rows[p]) /\ rows[p] \in Row
               /\ Revalued(p, rows[p])
    <3>1. p \in Positions /\ Held(p, source[p]) /\ source[p] \in Row
      BY <2>1, <2>2, SourceHeld DEF Held
    <3>2. Stated(p, source[p], "base")
      BY <2>1, <2>2 DEF Stated
    <3>3. Held(p, Valued(p, source[p])) /\ Valued(p, source[p]) \in Row
      BY <3>1, ValuedSound, ValuedFields DEF Sound
    <3>4. Revalued(p, Valued(p, source[p]))
      BY <3>1, <3>2, ValuedRevalued DEF Revalued
    <3> QED BY <2>2, <3>1, <3>3, <3>4
  <2>3. HeldRows(rows) /\ \A p \in DOMAIN rows : Revalued(p, rows[p])
    BY <2>2 DEF HeldRows
  <2>4. "merge" \in Stages(r) \ {"upsert", "quote"}
    BY DEF Stages
  <2>5. Advance(r, "merge", rows)
    BY <1>4 DEF ReadSource
  <2> QED BY <1>2, <2>3, <2>4, <2>5
<1> QED BY <1>3, <1>4

LEMMA MergeKept ==
  ASSUME HoldingsInv, NEW r \in Processes, MergeRows(r)
  PROVE  WorkInv' /\ CurrentInv'
<1> DEFINE rows == work[r].rows
           merged == [p \in DOMAIN rows |->
                        PreserveRefreshedPricing(rows[p], holdings[p])]
           w == [pc |-> "upsert", overtaken |-> FALSE, rows |-> merged]
<1>1. /\ HeldRows(rows) /\ \A p \in Positions : Held(p, holdings[p])
      /\ \A p \in DOMAIN rows : Revalued(p, rows[p])
  BY DEF HoldingsInv, WorkInv, WorkOK, TableSound, Sound, MergeRows
<1>2. ASSUME NEW p \in DOMAIN rows
      PROVE  /\ p \in Positions
             /\ Held(p, merged[p]) /\ Revalued(p, merged[p])
             /\ merged[p].method \in Placeholders
                  => holdings[p].method \in Placeholders
  <2>1. p \in Positions /\ Held(p, rows[p]) /\ Held(p, holdings[p])
          /\ Revalued(p, rows[p])
    BY <1>1, <1>2 DEF HeldRows
  <2>2. merged[p] = PreserveRefreshedPricing(rows[p], holdings[p])
    BY <1>2
  <2> HIDE DEF merged, rows
  <2> QED BY <2>1, <2>2, PreservedHeld
<1>3. HeldRows(merged)
  BY <1>2 DEF HeldRows, Held
<1>4. WorkOK(r, w) /\ Current(w)
  BY <1>2, <1>3 DEF WorkOK, Current, Stages
<1> QED BY <1>4, WorkKept DEF HoldingsInv, MergeRows

(* Writing some rows, the others as they are. *)
LEMMA UpsertedSound ==
  ASSUME TableSound, NEW rows, HeldRows(rows), holdings' = Upserted(rows)
  PROVE  TableSound'
<1>1. ASSUME NEW p \in Positions
      PROVE  Sound(p, holdings'[p]) /\ holdings'[p] \in Row
  <2>1. CASE p \in DOMAIN rows
    <3>1. holdings'[p] = Valued(p, rows[p]) /\ Held(p, rows[p])
      BY <2>1 DEF Upserted, HeldRows
    <3> QED BY <3>1, ValuedSound DEF Sound, Held
  <2>2. CASE p \notin DOMAIN rows
    BY <2>2 DEF Upserted, TableSound
  <2> QED BY <2>1, <2>2
<1>2. holdings' \in [Positions -> Row]
  BY <1>1 DEF Upserted
<1> QED BY <1>1, <1>2 DEF TableSound

LEMMA UpsertKept ==
  ASSUME HoldingsInv, NEW r \in Processes, Upsert(r)
  PROVE  TableSound' /\ WorkInv' /\ CurrentInv'
<1> DEFINE w == [work[r] EXCEPT !.pc = "deactivate"]
<1>1. WorkOK(r, work[r])
  BY DEF HoldingsInv, WorkInv
<1>2. /\ w.pc = "deactivate" /\ w.rows = work[r].rows
      /\ w \in [pc : Stages(r), rows : {w.rows}, overtaken : BOOLEAN]
  BY <1>1 DEF WorkOK, Stages
<1>3. Commit(r, Upserted(work[r].rows), w)
  BY DEF Upsert
<1> HIDE DEF w
<1>4. WorkOK(r, w)
  BY <1>1, <1>2 DEF WorkOK
<1>5. holdings' = Upserted(work[r].rows)
  BY <1>3 DEF Commit
<1> QED BY <1>1, <1>2, <1>3, <1>4, <1>5, CommitKept, UpsertedSound
        DEF HoldingsInv, WorkOK

LEMMA DeactivateKept ==
  ASSUME HoldingsInv, NEW r \in Processes, DeactivateMissing(r)
  PROVE  TableSound' /\ WorkInv' /\ CurrentInv'
<1> DEFINE w == [work[r] EXCEPT !.pc = AfterSync(r), !.rows = NoRows]
           table == [p \in Positions |->
                       IF p \in DOMAIN work[r].rows THEN holdings[p]
                       ELSE [holdings[p] EXCEPT !.active = FALSE]]
<1>1. WorkOK(r, work[r])
  BY DEF HoldingsInv, WorkInv
<1>2. AfterSync(r) \in Stages(r) /\ AfterSync(r) \notin {"upsert", "quote"}
  BY DEF AfterSync, Stages
<1>3. /\ w.pc = AfterSync(r) /\ w.rows = NoRows
      /\ w \in [pc : Stages(r), rows : {w.rows}, overtaken : BOOLEAN]
  BY <1>1, <1>2 DEF WorkOK
<1>4. Commit(r, table, w)
  BY DEF DeactivateMissing
<1> HIDE DEF w
<1>5. WorkOK(r, w)
  BY <1>2, <1>3, NoRowsHeld DEF WorkOK, AfterSync
<1>6. ASSUME NEW p \in Positions
      PROVE  Sound(p, table[p])
  <2>1. Sound(p, holdings[p])
    BY DEF HoldingsInv, TableSound
  <2> DEFINE row == [holdings[p] EXCEPT !.active = FALSE]
  <2>2. /\ row \in Row /\ row.quantity = holdings[p].quantity
        /\ row.price = holdings[p].price /\ row.rate = holdings[p].rate
        /\ row.local = holdings[p].local /\ row.base = holdings[p].base
    BY <2>1 DEF Sound, Held, Row
  <2> HIDE DEF row
  <2>3. /\ Stated(p, holdings[p], "local") => Stated(p, row, "local")
        /\ Stated(p, holdings[p], "base") => Stated(p, row, "base")
    BY <2>2, StatedSame
  <2>4. Sound(p, row)
    BY <2>1, <2>2, <2>3 DEF Sound, Held
  <2> QED BY <2>1, <2>4 DEF row
<1>7. TableSound'
  BY <1>4, <1>6 DEF Commit, TableSound, Sound, Held
<1> QED BY <1>2, <1>3, <1>4, <1>5, <1>7, CommitKept DEF HoldingsInv

LEMMA LoadKept ==
  ASSUME HoldingsInv, NEW r \in Refreshers, r \in Processes, LoadRows(r)
  PROVE  WorkInv' /\ CurrentInv'
<1> DEFINE rows == [p \in ActiveRows |-> holdings[p]]
           w == [pc |-> "quote", overtaken |-> FALSE, rows |-> rows]
<1>1. HeldRows(rows)
  BY DEF HoldingsInv, TableSound, HeldRows, ActiveRows, Sound
<1>2. WorkOK(r, w) /\ Current(w)
  BY <1>1 DEF WorkOK, Current, Stages
<1>3. WorkOK(r, AtRest) /\ Current(AtRest)
  BY AtRestOK DEF Current
<1> QED BY <1>2, <1>3, WorkKept DEF HoldingsInv, LoadRows

(* What a refresh writes of rows that are sound. *)
LEMMA RefreshedRows ==
  ASSUME HoldingsInv, NEW r \in Processes, WriteRefreshed(r)
  PROVE  \E rows :
           /\ HeldRows(rows)
           /\ DOMAIN rows = DOMAIN work[r].rows
           /\ Commit(r, Upserted(rows), AtRest)
           /\ \A p \in DOMAIN rows :
                /\ rows[p].quantity = work[r].rows[p].quantity
                /\ rows[p].active = work[r].rows[p].active
                /\ rows[p].method \in Placeholders
                     => work[r].rows[p].method \in Placeholders
<1> DEFINE rows == work[r].rows
           Rate(p, rate) == IF p \in Foreign /\ rate # NoQuote
                            THEN rate ELSE rows[p].rate
<1>1. PICK rate \in Rates \cup {NoQuote},
           quote \in [DOMAIN rows -> Quotes \cup {NoQuote}] :
             Commit(r, Upserted([p \in DOMAIN rows |->
                       Refreshed(rows[p], Rate(p, rate), quote[p])]), AtRest)
  BY DEF WriteRefreshed
<1> DEFINE new == [p \in DOMAIN rows |->
                     Refreshed(rows[p], Rate(p, rate), quote[p])]
<1>2. HeldRows(rows)
  BY DEF HoldingsInv, WorkInv, WorkOK
<1>3. ASSUME NEW p \in DOMAIN rows
      PROVE  /\ p \in Positions
             /\ Held(p, new[p])
             /\ new[p].quantity = rows[p].quantity
             /\ new[p].active = rows[p].active
             /\ new[p].method \in Placeholders => rows[p].method \in Placeholders
  <2>1. p \in Positions /\ Held(p, rows[p]) /\ rows[p].rate \in Optional
    BY <1>2, <1>3 DEF HeldRows, Row
  <2>2. Rate(p, rate) \in Optional
    BY <2>1, HoldingsAssumption DEF Optional
  <2>3. p \notin Foreign => Rate(p, rate) \in {Missing, 1}
    BY <2>1 DEF Held
  <2>4. quote[p] \in Quotes \cup {NoQuote}
    BY <1>3
  <2> HIDE DEF Rate, rows
  <2> QED BY <1>3, <2>1, <2>2, <2>3, <2>4, RefreshedHeld
<1>4. HeldRows(new) /\ DOMAIN new = DOMAIN rows
  BY <1>3 DEF HeldRows, Held
<1> HIDE DEF new
<1>5. Commit(r, Upserted(new), AtRest)
  BY <1>1 DEF new
<1> QED BY <1>3, <1>4, <1>5

LEMMA WriteRefreshedKept ==
  ASSUME HoldingsInv, NEW r \in Processes, WriteRefreshed(r)
  PROVE  TableSound' /\ WorkInv' /\ CurrentInv'
<1>1. PICK rows : HeldRows(rows) /\ Commit(r, Upserted(rows), AtRest)
  BY RefreshedRows
<1>2. holdings' = Upserted(rows)
  BY <1>1 DEF Commit
<1> QED BY <1>1, <1>2, AtRestOK, CommitKept, UpsertedSound DEF HoldingsInv

LEMMA HoldingsKept == HoldingsInv /\ [Next]_vars => HoldingsInv'
<1> SUFFICES ASSUME HoldingsInv, [Next]_vars PROVE HoldingsInv'
  OBVIOUS
<1>1. ASSUME UNCHANGED <<holdings, work>>, FileInv'
      PROVE  HoldingsInv'
  BY <1>1 DEF HoldingsInv, TableSound, WorkInv, CurrentInv, Current
<1>2. ASSUME NEW text \in Portfolios, BeginSave(text)
      PROVE  HoldingsInv'
  <2>1. FileInv'
    BY <1>2, HoldingsAssumption DEF BeginSave, HoldingsInv, FileInv
  <2> QED BY <1>1, <1>2, <2>1 DEF BeginSave
<1>3. CASE BackUp
  <2>1. FileInv'
    BY <1>3 DEF BackUp, HoldingsInv, FileInv
  <2> QED BY <1>1, <1>3, <2>1 DEF BackUp
<1>4. CASE Replace
  <2>1. FileInv'
    BY <1>4 DEF Replace, HoldingsInv, FileInv, NoSave
  <2> QED BY <1>1, <1>4, <2>1 DEF Replace
<1>5. CASE KillSave
  <2>1. FileInv'
    BY <1>5, HoldingsAssumption DEF KillSave, HoldingsInv, FileInv, NoSave
  <2> QED BY <1>1, <1>5, <2>1 DEF KillSave
<1>6. ASSUME NEW r \in Processes, SyncAction(r)
      PROVE  HoldingsInv'
  <2>1. FileInv'
    <3>1. /\ UNCHANGED <<source, backup, save, edits, kills>>
          /\ refreshes' \in 0 .. MaxRefreshes
      BY <1>6, HoldingsAssumption
         DEF SyncAction, StartReport, StartRefresh, ReadSource, MergeRows, Upsert,
             DeactivateMissing, LoadRows, WriteRefreshed, HoldingsInv, FileInv
    <3> QED BY <3>1 DEF HoldingsInv, FileInv
  <2>2. CASE UNCHANGED holdings /\ WorkInv' /\ CurrentInv'
    BY <2>1, <2>2 DEF HoldingsInv, TableSound
  <2>3. CASE StartReport(r) \/ StartRefresh(r)
    BY <2>2, <2>3, ReadSourceKept DEF StartReport, StartRefresh, ReadSource
  <2>4. CASE MergeRows(r)
    BY <2>2, <2>4, MergeKept DEF MergeRows
  <2>5. CASE Upsert(r)
    BY <2>1, <2>5, UpsertKept DEF HoldingsInv
  <2>6. CASE DeactivateMissing(r)
    BY <2>1, <2>6, DeactivateKept DEF HoldingsInv
  <2>7. CASE LoadRows(r)
    <3>1. r \in Refreshers
      BY <2>7 DEF LoadRows, HoldingsInv, WorkInv, WorkOK, Stages
    <3> QED BY <2>2, <2>7, <3>1, LoadKept DEF LoadRows
  <2>8. CASE WriteRefreshed(r)
    BY <2>1, <2>8, WriteRefreshedKept DEF HoldingsInv
  <2> QED BY <1>6, <2>3, <2>4, <2>5, <2>6, <2>7, <2>8 DEF SyncAction
<1>7. ASSUME NEW r \in Processes, Rest(r)
      PROVE  HoldingsInv'
  <2>1. FileInv'
    BY <1>7, HoldingsAssumption DEF Rest, fileVars, HoldingsInv, FileInv
  <2>2. WorkOK(r, AtRest) /\ Current(AtRest)
    BY AtRestOK DEF Current
  <2>3. WorkInv' /\ CurrentInv'
    BY <1>7, <2>2, WorkKept DEF Rest, HoldingsInv
  <2> QED BY <1>7, <2>1, <2>3 DEF Rest, HoldingsInv, TableSound
<1>8. CASE UNCHANGED holdingVars
  <2>1. FileInv'
    BY <1>8 DEF holdingVars, HoldingsInv, FileInv
  <2> QED BY <1>1, <1>8, <2>1 DEF holdingVars
<1> QED BY <1>2, <1>3, <1>4, <1>5, <1>6, <1>7, <1>8, HoldingsStep

(* In every row the values belong to the quantity and the price beside them: *)
(* they are computed from these or stated together with them, for any syncs, *)
(* refreshes, edits and kills and whatever values the texts state.           *)
THEOREM ValuesAlwaysFollow == Spec => []ValuesFollow
<1> QED BY HoldingsInitially, HoldingsKept, HoldingsInvTyped, PTL DEF Spec, Init

(* Whenever a save replaces the file, the replaced version is in the backup. *)
THEOREM SavesBackUp == Spec => ReplacedIsBackedUp
<1>1. ASSUME HoldingsInv, [Next]_vars, source' # source, source # NoFile
      PROVE  backup' = source
  <2>1. CASE Replace
    BY <1>1, <2>1 DEF Replace, HoldingsInv, FileInv
  <2>2. CASE UNCHANGED source
    BY <1>1, <2>2
  <2>3. ASSUME NEW r \in Processes, SyncAction(r)
        PROVE  UNCHANGED source
    BY <2>3 DEF SyncAction, StartReport, StartRefresh, ReadSource, MergeRows,
                Upsert, DeactivateMissing, LoadRows, WriteRefreshed
  <2>4. ASSUME NEW r \in Processes, Rest(r)
        PROVE  UNCHANGED source
    BY <2>4 DEF Rest, fileVars
  <2>5. CASE \/ \E text \in Portfolios : BeginSave(text)
             \/ BackUp \/ KillSave \/ UNCHANGED holdingVars
    BY <2>2, <2>5 DEF BeginSave, BackUp, KillSave, holdingVars
  <2> QED BY <1>1, <2>1, <2>2, <2>3, <2>4, <2>5, HoldingsStep
<1> DEFINE A == source' # source /\ source # NoFile => backup' = source
<1>2. HoldingsInv /\ [Next]_vars => [A]_holdingVars
  BY <1>1
<1> HIDE DEF A
<1>3. Spec => [][A]_holdingVars
  BY <1>2, HoldingsInitially, HoldingsKept, PTL DEF Spec, Init
<1> QED BY <1>3 DEF A, ReplacedIsBackedUp

(* Who writes the table. *)
LEMMA TableWriters ==
  ASSUME HoldingsInv, [Next]_vars, holdings' # holdings
  PROVE  \E r \in Processes :
           /\ Upsert(r) \/ DeactivateMissing(r) \/ WriteRefreshed(r)
           /\ \A q \in Processes \ {r} : work'[q].pc = work[q].pc
<1>1. PICK r \in Processes : Upsert(r) \/ DeactivateMissing(r) \/ WriteRefreshed(r)
  <2>1. ASSUME NEW r \in Processes, SyncAction(r)
        PROVE  Upsert(r) \/ DeactivateMissing(r) \/ WriteRefreshed(r)
    BY <2>1 DEF SyncAction, StartReport, StartRefresh, ReadSource, MergeRows, LoadRows
  <2>2. ~ \E r \in Processes : Rest(r)
    BY DEF Rest
  <2>3. ~(\/ \E text \in Portfolios : BeginSave(text)
          \/ BackUp \/ Replace \/ KillSave \/ UNCHANGED holdingVars)
    BY DEF BeginSave, BackUp, Replace, KillSave, holdingVars
  <2> QED BY <2>1, <2>2, <2>3, HoldingsStep
<1>2. PICK table, next : Commit(r, table, next)
  BY <1>1 DEF Upsert, DeactivateMissing, WriteRefreshed
<1>3. ASSUME NEW q \in Processes \ {r}
      PROVE  work'[q].pc = work[q].pc
  <2>1. work[q] \in [pc : Stages(q), rows : {work[q].rows}, overtaken : BOOLEAN]
    BY DEF HoldingsInv, WorkInv, WorkOK
  <2>2. work'[q] = IF work[q].pc = "idle" THEN work[q]
                   ELSE [work[q] EXCEPT !.overtaken = TRUE]
    BY <1>2 DEF Commit
  <2> QED BY <2>1, <2>2
<1> QED BY <1>1, <1>3

(* A sync or refresh that nobody overtook leaves quoted prices, and such a   *)
(* refresh quantities and sold positions.                                    *)
THEOREM WritesTakeNothingBack == Spec => NothingTakenBack
<1> DEFINE Back(p) == /\ holdings[p].method \notin Placeholders
                      /\ holdings'[p].method \in Placeholders
           Late(r) == /\ Wrote(r, "upsert") \/ Wrote(r, "quote")
                      /\ work[r].overtaken
           Keeps == \A p \in Positions :
                      /\ holdings'[p].quantity = holdings[p].quantity
                      /\ holdings'[p].active = holdings[p].active
           A == /\ \A p \in Positions : Back(p) => \E r \in Processes : Late(r)
                /\ \A r \in Refreshers :
                     holdings' # holdings /\ Wrote(r, "quote") /\ ~work[r].overtaken
                     => Keeps
<1>1. ASSUME HoldingsInv, [Next]_vars
      PROVE  A
  <2>1. CASE holdings' = holdings
    BY <2>1
  <2>2. CASE holdings' # holdings
    <3>1. PICK w \in Processes :
             /\ Upsert(w) \/ DeactivateMissing(w) \/ WriteRefreshed(w)
             /\ \A q \in Processes \ {w} : work'[q].pc = work[q].pc
      BY <1>1, <2>2, TableWriters
    <3>2. WorkOK(w, work[w]) /\ Current(work[w]) /\ DOMAIN work = Processes
            /\ HeldRows(work[w].rows) /\ TableSound
      BY <1>1 DEF HoldingsInv, WorkInv, CurrentInv, WorkOK
    <3>3. CASE Upsert(w)
      <4>1. holdings' = Upserted(work[w].rows)
              /\ work'[w] = [work[w] EXCEPT !.pc = "deactivate"]
        BY <3>3 DEF Upsert, Commit
      <4>2. work[w].pc = "upsert" /\ work'[w].pc = "deactivate"
        BY <3>2, <3>3, <4>1 DEF Upsert, WorkOK
      <4>3. ASSUME NEW p \in Positions, Back(p)
            PROVE  Late(w)
        <5>1. /\ p \in DOMAIN work[w].rows
              /\ holdings'[p].method = work[w].rows[p].method
          BY <3>2, <4>1, <4>3, ValuedFields DEF Upserted, HeldRows
        <5>2. work[w].overtaken
          BY <3>2, <4>2, <4>3, <5>1 DEF Current, WorkOK
        <5> QED BY <4>2, <5>2 DEF Wrote
      <4>4. ~ \E r \in Refreshers : Wrote(r, "quote")
        BY <3>1, <4>2 DEF Wrote, Processes
      <4> HIDE DEF Back, Late, Keeps
      <4> QED BY <4>3, <4>4
    <3>4. CASE DeactivateMissing(w)
      <4>1. holdings' = [p \in Positions |->
                           IF p \in DOMAIN work[w].rows THEN holdings[p]
                           ELSE [holdings[p] EXCEPT !.active = FALSE]]
              /\ work[w].pc = "deactivate"
        BY <3>4 DEF DeactivateMissing, Commit
      <4>2. \A p \in Positions : holdings'[p].method = holdings[p].method
        BY <3>2, <4>1 DEF TableSound, Row
      <4>3. ~ \E r \in Refreshers : Wrote(r, "quote")
        BY <3>1, <4>1 DEF Wrote, Processes
      <4> QED BY <4>2, <4>3
    <3>5. CASE WriteRefreshed(w)
      <4>1. PICK rows :
               /\ HeldRows(rows)
               /\ DOMAIN rows = DOMAIN work[w].rows
               /\ Commit(w, Upserted(rows), AtRest)
               /\ \A p \in DOMAIN rows :
                    /\ rows[p].quantity = work[w].rows[p].quantity
                    /\ rows[p].active = work[w].rows[p].active
                    /\ rows[p].method \in Placeholders
                         => work[w].rows[p].method \in Placeholders
        BY <1>1, <3>5, RefreshedRows
      <4>2. /\ holdings' = Upserted(rows)
            /\ work[w].pc = "quote" /\ work'[w].pc = "idle"
        BY <3>5, <4>1 DEF Commit, WriteRefreshed, AtRest
      <4>3. \A p \in Positions :
              /\ p \notin DOMAIN rows => holdings'[p] = holdings[p]
              /\ p \in DOMAIN rows =>
                   /\ holdings'[p].quantity = rows[p].quantity
                   /\ holdings'[p].active = rows[p].active
                   /\ holdings'[p].method = rows[p].method
        BY <4>1, <4>2, ValuedFields DEF Upserted, HeldRows
      <4>4. ~work[w].overtaken =>
              \A p \in DOMAIN rows : work[w].rows[p] = holdings[p]
        BY <3>2, <4>1, <4>2 DEF Current
      <4>5. ASSUME NEW p \in Positions, Back(p)
            PROVE  Late(w)
        <5>1. work[w].overtaken
          BY <3>2, <4>1, <4>3, <4>4, <4>5 DEF WorkOK
        <5> QED BY <4>2, <5>1 DEF Wrote
      <4>6. ~work[w].overtaken => Keeps
        BY <4>1, <4>3, <4>4
      <4>7. \A r \in Refreshers : Wrote(r, "quote") => r = w
        BY <3>1 DEF Wrote, Processes
      <4> HIDE DEF Back, Late, Keeps
      <4> QED BY <4>5, <4>6, <4>7
    <3> QED BY <3>1, <3>3, <3>4, <3>5
  <2> QED BY <2>1, <2>2
<1>2. HoldingsInv /\ [Next]_vars => [TakesNothingBack]_holdingVars
  BY <1>1 DEF TakesNothingBack
<1> QED BY <1>2, HoldingsInitially, HoldingsKept, PTL
        DEF Spec, Init, NothingTakenBack

(* Whatever a refresh left behind: the rows a sync writes have their base    *)
(* value at the rate beside it, or one the file states for their quantity    *)
(* and price, for any rates, quotes and interleaving.                        *)
THEOREM SyncsComputeBaseValues == Spec => SyncsRevalue
<1> DEFINE A == \A r \in Processes :
                  work[r].pc = "upsert" /\ work'[r].pc = "deactivate" =>
                    \A p \in DOMAIN work[r].rows :
                      LET row == holdings'[p]
                      IN \/ row.base = Times(row.local, row.rate)
                         \/ Stated(p, row, "base")
<1>1. ASSUME HoldingsInv, [Next]_vars, NEW r \in Processes,
             work[r].pc = "upsert", work'[r].pc = "deactivate",
             NEW p \in DOMAIN work[r].rows
      PROVE  \/ holdings'[p].base = Times(holdings'[p].local, holdings'[p].rate)
             \/ Stated(p, holdings'[p], "base")
  <2>1. /\ DOMAIN work = Processes /\ \A q \in Processes : WorkOK(q, work[q])
        /\ p \in Positions /\ work[r].rows[p] \in Row
        /\ Revalued(p, work[r].rows[p])
    BY <1>1 DEF HoldingsInv, WorkInv, WorkOK, HeldRows
  <2>2. Upsert(r)
    <3>1. ASSUME NEW q \in Processes, SyncAction(q), q # r
          PROVE  work'[r].pc = work[r].pc
      <4>1. CASE StartReport(q) \/ StartRefresh(q) \/ MergeRows(q) \/ LoadRows(q)
        BY <2>1, <3>1, <4>1
           DEF StartReport, StartRefresh, ReadSource, Advance, MergeRows, LoadRows
      <4>2. CASE Upsert(q) \/ DeactivateMissing(q) \/ WriteRefreshed(q)
        <5>1. PICK table, next : Commit(q, table, next)
          BY <4>2 DEF Upsert, DeactivateMissing, WriteRefreshed
        <5>2. work'[r] = [work[r] EXCEPT !.overtaken = TRUE]
          BY <1>1, <2>1, <3>1, <5>1 DEF Commit
        <5> QED BY <2>1, <5>2 DEF WorkOK
      <4> QED BY <3>1, <4>1, <4>2 DEF SyncAction
    <3>2. SyncAction(r) => Upsert(r)
      BY <1>1 DEF SyncAction, StartReport, StartRefresh, ReadSource, MergeRows,
                  DeactivateMissing, LoadRows, WriteRefreshed
    <3>3. ASSUME NEW q \in Processes PROVE ~Rest(q)
      BY <1>1, <2>1, <3>3 DEF Rest, AtRest
    <3>4. ~(\/ \E text \in Portfolios : BeginSave(text)
            \/ BackUp \/ Replace \/ KillSave \/ UNCHANGED holdingVars)
      BY <1>1 DEF BeginSave, BackUp, Replace, KillSave, holdingVars
    <3> QED BY <1>1, <3>1, <3>2, <3>3, <3>4, HoldingsStep
  <2>3. holdings'[p] = Valued(p, work[r].rows[p])
    BY <2>1, <2>2 DEF Upsert, Commit, Upserted
  <2> QED BY <2>1, <2>3, ValuedRevalued
<1>2. HoldingsInv /\ [Next]_vars => [A]_holdingVars
  BY <1>1
<1> HIDE DEF A
<1>3. Spec => [][A]_holdingVars
  BY <1>2, HoldingsInitially, HoldingsKept, PTL DEF Spec, Init
<1> QED BY <1>3 DEF A, SyncsRevalue

-----------------------------------------------------------------------------
(* A sync ends with one version of the file *)

ReadFrom(rows, text) ==
  /\ DOMAIN rows = DOMAIN text
  /\ \A p \in DOMAIN rows :
       rows[p].quantity = text[p].quantity /\ rows[p].active = text[p].active

(* What a sync carries was read from one version, and what it has written is *)
(* in the table until another process writes.                                *)
Whole(w) ==
  /\ w.pc \in {"merge", "upsert", "deactivate"} =>
       \E text \in Portfolios : ReadFrom(w.rows, text)
  /\ w.pc = "deactivate" /\ ~w.overtaken =>
       \A p \in DOMAIN w.rows :
         /\ holdings[p].quantity = w.rows[p].quantity
         /\ holdings[p].active = w.rows[p].active

WholeInv == \A r \in Processes : Whole(work[r])

(* Processes that do nothing. *)
LEMMA OthersWhole ==
  ASSUME WorkInv, WholeInv, NEW q \in Processes,
         \/ work'[q] = work[q] /\ (holdings' = holdings \/ work[q].pc = "idle")
         \/ work'[q] = [work[q] EXCEPT !.overtaken = TRUE]
  PROVE  Whole(work[q])'
<1>1. Whole(work[q]) /\ WorkOK(q, work[q])
  BY DEF WorkInv, WholeInv
<1>2. CASE work'[q] = work[q] /\ (holdings' = holdings \/ work[q].pc = "idle")
  BY <1>1, <1>2 DEF Whole
<1>3. CASE work'[q] = [work[q] EXCEPT !.overtaken = TRUE]
  <2>1. /\ work'[q].overtaken = TRUE
        /\ work'[q].pc = work[q].pc /\ work'[q].rows = work[q].rows
    BY <1>1, <1>3 DEF WorkOK
  <2> QED BY <1>1, <2>1 DEF Whole
<1> QED BY <1>2, <1>3

LEMMA ReadIsWhole ==
  ASSUME HoldingsInv, NEW r \in Processes, ReadSource(r)
  PROVE  Whole(work[r])'
<1>1. WorkOK(r, work[r]) /\ DOMAIN work = Processes
  BY DEF HoldingsInv, WorkInv
<1>2. CASE source = NoFile
  <2>1. work'[r].pc \in {"load", "synced"}
    BY <1>1, <1>2 DEF ReadSource, Advance, AfterSync, WorkOK
  <2> QED BY <2>1 DEF Whole
<1>3. CASE source # NoFile
  <2>1. source \in Portfolios
    BY <1>3 DEF HoldingsInv, FileInv
  <2>2. /\ work'[r].pc = "merge"
        /\ work'[r].rows = [p \in DOMAIN source |-> Valued(p, source[p])]
    BY <1>1, <1>3 DEF ReadSource, Advance, WorkOK
  <2>3. ASSUME NEW p \in DOMAIN source
        PROVE  /\ Valued(p, source[p]).quantity = source[p].quantity
               /\ Valued(p, source[p]).active = source[p].active
    BY <2>1, <2>3, SourceHeld, ValuedFields DEF Held
  <2>4. ReadFrom(work'[r].rows, source)
    BY <2>2, <2>3 DEF ReadFrom
  <2> QED BY <2>1, <2>2, <2>4 DEF Whole
<1> QED BY <1>2, <1>3

LEMMA MergeIsWhole ==
  ASSUME HoldingsInv, WholeInv, NEW r \in Processes, MergeRows(r)
  PROVE  Whole(work[r])'
<1> DEFINE rows == work[r].rows
           merged == [p \in DOMAIN rows |->
                        PreserveRefreshedPricing(rows[p], holdings[p])]
<1>1. /\ HeldRows(rows) /\ DOMAIN work = Processes
      /\ \A p \in Positions : Held(p, holdings[p])
  BY DEF HoldingsInv, WorkInv, WorkOK, TableSound, Sound
<1>2. PICK text \in Portfolios : ReadFrom(rows, text)
  BY DEF WholeInv, Whole, MergeRows
<1>3. work'[r].pc = "upsert" /\ work'[r].rows = merged
  BY <1>1 DEF MergeRows
<1>4. ASSUME NEW p \in DOMAIN rows
      PROVE  merged[p].quantity = rows[p].quantity /\ merged[p].active = rows[p].active
  <2>1. Held(p, rows[p]) /\ Held(p, holdings[p])
    BY <1>1, <1>4 DEF HeldRows
  <2>2. merged[p] = PreserveRefreshedPricing(rows[p], holdings[p])
    BY <1>4
  <2> HIDE DEF merged, rows
  <2>3. /\ PreserveRefreshedPricing(rows[p], holdings[p]).quantity = rows[p].quantity
        /\ PreserveRefreshedPricing(rows[p], holdings[p]).active = rows[p].active
    BY <2>1, PreservedKeeps
  <2> QED BY <2>2, <2>3
<1>5. ReadFrom(merged, text)
  BY <1>2, <1>4 DEF ReadFrom
<1> HIDE DEF merged
<1> QED BY <1>3, <1>5 DEF Whole

LEMMA UpsertIsWhole ==
  ASSUME HoldingsInv, WholeInv, NEW r \in Processes, Upsert(r)
  PROVE  Whole(work[r])'
<1>1. WorkOK(r, work[r]) /\ work[r].pc = "upsert"
  BY DEF HoldingsInv, WorkInv, Upsert
<1>2. /\ holdings' = Upserted(work[r].rows)
      /\ work'[r] = [work[r] EXCEPT !.pc = "deactivate"]
  BY DEF Upsert, Commit
<1>3. work'[r].pc = "deactivate" /\ work'[r].rows = work[r].rows
  BY <1>1, <1>2 DEF WorkOK
<1>4. \A p \in DOMAIN work[r].rows :
        /\ holdings'[p].quantity = work[r].rows[p].quantity
        /\ holdings'[p].active = work[r].rows[p].active
  BY <1>1, <1>2, ValuedFields DEF Upserted, WorkOK, HeldRows
<1>5. \E text \in Portfolios : ReadFrom(work[r].rows, text)
  BY <1>1 DEF WholeInv, Whole
<1> QED BY <1>3, <1>4, <1>5 DEF Whole

LEMMA WholeKept == HoldingsInv /\ WholeInv /\ [Next]_vars => WholeInv'
<1> SUFFICES ASSUME HoldingsInv, WholeInv, [Next]_vars PROVE WholeInv'
  OBVIOUS
<1>1. WorkInv /\ DOMAIN work = Processes /\ \A r \in Processes : WorkOK(r, work[r])
  BY DEF HoldingsInv, WorkInv
<1>2. CASE UNCHANGED <<holdings, work>>
  BY <1>2 DEF WholeInv, Whole
<1>3. ASSUME NEW r \in Processes, Whole(work[r])', holdings' = holdings,
             \A q \in Processes \ {r} : work'[q] = work[q]
      PROVE  WholeInv'
  BY <1>1, <1>3, OthersWhole DEF WholeInv
<1>4. ASSUME NEW r \in Processes, Whole(work[r])', NEW table, NEW next,
             Commit(r, table, next)
      PROVE  WholeInv'
  <2>1. ASSUME NEW q \in Processes \ {r}
        PROVE  Whole(work[q])'
    BY <1>1, <1>4, OthersWhole DEF Commit
  <2> QED BY <1>4, <2>1 DEF WholeInv
<1>5. ASSUME NEW r \in Processes, SyncAction(r)
      PROVE  WholeInv'
  <2>1. CASE StartReport(r) \/ StartRefresh(r)
    <3>1. ReadSource(r)
      BY <2>1 DEF StartReport, StartRefresh
    <3>2. holdings' = holdings /\ \A q \in Processes \ {r} : work'[q] = work[q]
      BY <1>1, <3>1 DEF ReadSource, Advance
    <3> QED BY <1>3, <3>1, <3>2, ReadIsWhole
  <2>2. CASE MergeRows(r)
    <3>1. holdings' = holdings /\ \A q \in Processes \ {r} : work'[q] = work[q]
      BY <1>1, <2>2 DEF MergeRows
    <3> QED BY <1>3, <2>2, <3>1, MergeIsWhole
  <2>3. CASE Upsert(r)
    BY <1>4, <2>3, UpsertIsWhole DEF Upsert
  <2>4. CASE DeactivateMissing(r)
    <3>1. work'[r] = [work[r] EXCEPT !.pc = AfterSync(r), !.rows = NoRows]
      BY <2>4 DEF DeactivateMissing, Commit
    <3>2. work'[r].pc \in {"load", "synced"}
      BY <1>1, <3>1 DEF WorkOK, AfterSync
    <3>3. Whole(work[r])'
      BY <3>2 DEF Whole
    <3> QED BY <1>4, <2>4, <3>3 DEF DeactivateMissing
  <2>5. CASE LoadRows(r)
    <3>1. /\ holdings' = holdings /\ \A q \in Processes \ {r} : work'[q] = work[q]
          /\ work'[r].pc \in {"idle", "quote"}
      BY <1>1, <2>5 DEF LoadRows, AtRest
    <3>2. Whole(work[r])'
      BY <3>1 DEF Whole
    <3> QED BY <1>3, <3>1, <3>2
  <2>6. CASE WriteRefreshed(r)
    <3>1. PICK rows : Commit(r, Upserted(rows), AtRest)
      BY <2>6, RefreshedRows
    <3>2. work'[r].pc = "idle"
      BY <3>1 DEF Commit, AtRest
    <3>3. Whole(work[r])'
      BY <3>2 DEF Whole
    <3> QED BY <1>4, <3>1, <3>3
  <2> QED BY <1>5, <2>1, <2>2, <2>3, <2>4, <2>5, <2>6 DEF SyncAction
<1>6. ASSUME NEW r \in Processes, Rest(r)
      PROVE  WholeInv'
  <2>1. /\ holdings' = holdings /\ \A q \in Processes \ {r} : work'[q] = work[q]
        /\ work'[r].pc = "idle"
    BY <1>1, <1>6 DEF Rest, AtRest
  <2>2. Whole(work[r])'
    BY <2>1 DEF Whole
  <2> QED BY <1>3, <2>1, <2>2
<1>7. CASE \/ \E text \in Portfolios : BeginSave(text)
           \/ BackUp \/ Replace \/ KillSave \/ UNCHANGED holdingVars
  BY <1>2, <1>7 DEF BeginSave, BackUp, Replace, KillSave, holdingVars
<1> QED BY <1>5, <1>6, <1>7, HoldingsStep

(* However saves, syncs and refreshes interleave, a sync that no other       *)
(* process overtook leaves the active rows of one version of the file in the *)
(* table, with their quantities, and no active row besides.                  *)
THEOREM SyncsLeaveOneVersion == Spec => SyncsAreWhole
<1>1. ASSUME HoldingsInv, WholeInv, [Next]_vars, NEW r \in Processes,
             Wrote(r, "deactivate"), work'[r].pc # "idle", ~work[r].overtaken
      PROVE  \E text \in Portfolios : Shows(holdings', text)
  <2>1. /\ work[r].pc = "deactivate" /\ work'[r].pc \notin {"deactivate", "idle"}
        /\ DOMAIN work = Processes /\ WorkInv
        /\ \A q \in Processes : WorkOK(q, work[q])
    BY <1>1 DEF Wrote, HoldingsInv, WorkInv
  <2>2. DeactivateMissing(r)
    <3>1. ASSUME NEW q \in Processes, SyncAction(q), q # r
          PROVE  work'[r].pc = work[r].pc
      <4>1. CASE StartReport(q) \/ StartRefresh(q) \/ MergeRows(q) \/ LoadRows(q)
        BY <2>1, <3>1, <4>1
           DEF StartReport, StartRefresh, ReadSource, Advance, MergeRows, LoadRows
      <4>2. CASE Upsert(q) \/ DeactivateMissing(q) \/ WriteRefreshed(q)
        <5>1. PICK table, next : Commit(q, table, next)
          BY <4>2 DEF Upsert, DeactivateMissing, WriteRefreshed
        <5>2. work'[r] = [work[r] EXCEPT !.overtaken = TRUE]
          BY <2>1, <3>1, <5>1 DEF Commit
        <5> QED BY <2>1, <5>2 DEF WorkOK
      <4> QED BY <3>1, <4>1, <4>2 DEF SyncAction
    <3>2. SyncAction(r) => DeactivateMissing(r)
      BY <2>1 DEF SyncAction, StartReport, StartRefresh, ReadSource, MergeRows, Upsert,
                  LoadRows, WriteRefreshed
    <3>3. ASSUME NEW q \in Processes PROVE ~Rest(q)
      BY <2>1, <3>3 DEF Rest, AtRest
    <3>4. ~(\/ \E text \in Portfolios : BeginSave(text)
            \/ BackUp \/ Replace \/ KillSave \/ UNCHANGED holdingVars)
      BY <2>1 DEF BeginSave, BackUp, Replace, KillSave, holdingVars
    <3> QED BY <1>1, <2>1, <3>1, <3>2, <3>3, <3>4, HoldingsStep
  <2>3. PICK text \in Portfolios : ReadFrom(work[r].rows, text)
    BY <1>1, <2>1 DEF WholeInv, Whole
  <2>4. \A p \in DOMAIN work[r].rows :
          /\ holdings[p].quantity = work[r].rows[p].quantity
          /\ holdings[p].active = work[r].rows[p].active
    BY <1>1, <2>1 DEF WholeInv, Whole
  <2>5. \A p \in Positions :
          holdings'[p] = IF p \in DOMAIN work[r].rows THEN holdings[p]
                         ELSE [holdings[p] EXCEPT !.active = FALSE]
    BY <2>2 DEF DeactivateMissing, Commit
  <2>6. ASSUME NEW p \in Positions \ DOMAIN work[r].rows
        PROVE  holdings'[p].active = FALSE
    <3>1. holdings[p] \in Row
      BY <1>1 DEF HoldingsInv, TableSound
    <3> QED BY <2>5, <3>1 DEF Row
  <2>7. ASSUME NEW p \in Positions
        PROVE  /\ holdings'[p].active <=> p \in DOMAIN text /\ text[p].active
               /\ holdings'[p].active => holdings'[p].quantity = text[p].quantity
    <3>1. CASE p \in DOMAIN work[r].rows
      <4>1. /\ holdings'[p].quantity = work[r].rows[p].quantity
            /\ holdings'[p].active = work[r].rows[p].active /\ p \in DOMAIN text
            /\ work[r].rows[p].quantity = text[p].quantity
            /\ work[r].rows[p].active = text[p].active
        BY <2>3, <2>4, <2>5, <3>1 DEF ReadFrom
      <4> QED BY <4>1
    <3>2. CASE p \notin DOMAIN work[r].rows
      BY <2>3, <2>6, <3>2 DEF ReadFrom
    <3> QED BY <3>1, <3>2
  <2> QED BY <2>7 DEF Shows
<1> DEFINE A == \A r \in Processes :
                  Wrote(r, "deactivate") /\ work'[r].pc # "idle" /\ ~work[r].overtaken
                  => \E text \in Portfolios : Shows(holdings', text)
<1>2. HoldingsInv /\ WholeInv /\ [Next]_vars => [A]_holdingVars
  BY <1>1
<1>3. Init => WholeInv
  BY DEF Init, HoldingsInit, WholeInv, Whole, AtRest
<1> HIDE DEF A
<1>4. Spec => [][A]_holdingVars
  BY <1>2, <1>3, HoldingsInitially, HoldingsKept, WholeKept, PTL DEF Spec, Init
<1> QED BY <1>4 DEF A, SyncsAreWhole

-----------------------------------------------------------------------------
(* The ledger is well-formed *)

LEMMA GreatestExists ==
  ASSUME NEW n \in Nat, NEW T \in SUBSET (0 .. n), T # {}
  PROVE  \E x \in T : \A y \in T : y <= x
<1> DEFINE Above(x) == {y \in T : y > x}
           F == {Above(x) : x \in T}
           S == 0 .. n
<1>1. IsFiniteSet(S)
  BY FS_Interval
<1>2. F \in SUBSET SUBSET S /\ F # {}
  OBVIOUS
<1>3. PICK u \in F : \A v \in F : ~(v \subseteq u /\ v # u)
  <2> HIDE DEF F, S
  <2> QED BY <1>1, <1>2, LeastSubset
<1>4. PICK x \in T : u = Above(x)
  BY <1>3
<1>5. ASSUME NEW y \in T, ~(y <= x)
      PROVE  FALSE
  <2>1. x \in Nat /\ y \in Nat /\ y > x /\ T \subseteq Nat
    BY <1>5
  <2>2. y \in Above(x) /\ y \notin Above(y)
    BY <2>1
  <2>3. Above(y) \subseteq Above(x)
    <3>1. \A z \in T : z > y => z > x
      BY <2>1
    <3> QED BY <3>1
  <2>4. Above(y) \in F
    OBVIOUS
  <2> QED BY <1>3, <1>4, <2>2, <2>3, <2>4
<1> QED BY <1>5

(* The profit of a day is the difference to the latest earlier one, in a     *)
(* table of NAV rows by date.                                                *)
PnlRight(table, date, nav, pnl) ==
  LET earlier == {e \in DOMAIN table : e < date}
  IN IF earlier = {} THEN pnl = 0
     ELSE \E e \in earlier :
            (\A f \in earlier : f <= e) /\ pnl = nav - table[e].nav

LEMMA DailyPnlRight ==
  ASSUME LedgerTypeOK, NEW a \in Accounts, NEW date \in Nat, NEW nav \in Nat
  PROVE  /\ DailyPnlFromPreviousNav(a, date, nav) \in Int
         /\ PnlRight(navs[a], date, nav, DailyPnlFromPreviousNav(a, date, nav))
<1> DEFINE earlier == {d \in Recorded(a) : d < date}
<1>1. /\ earlier \in SUBSET (0 .. date)
      /\ \A d \in earlier : navs[a][d].nav \in Nat
  <2>1. /\ Recorded(a) \subseteq Nat
        /\ navs[a] \in [Recorded(a) -> NavRow]
    BY LedgerAssumption DEF LedgerTypeOK
  <2>2. \A d \in Recorded(a) : navs[a][d].nav \in Nat
    BY <2>1 DEF NavRow
  <2> QED BY <2>1, <2>2
<1>2. CASE earlier = {}
  BY <1>2 DEF DailyPnlFromPreviousNav, PnlRight, Recorded
<1>3. CASE earlier # {}
  <2> DEFINE last == CHOOSE d \in earlier : \A e \in earlier : e <= d
  <2>1. \E d \in earlier : \A e \in earlier : e <= d
    <3> HIDE DEF earlier
    <3> QED BY <1>1, <1>3, GreatestExists
  <2>2. last \in earlier /\ \A e \in earlier : e <= last
    BY <2>1
  <2>3. DailyPnlFromPreviousNav(a, date, nav) = nav - navs[a][last].nav
    BY <1>3 DEF DailyPnlFromPreviousNav
  <2> HIDE DEF last
  <2>4. navs[a][last].nav \in Nat
    BY <1>1, <2>2
  <2> QED BY <1>3, <2>2, <2>3, <2>4 DEF PnlRight, Recorded
<1> QED BY <1>2, <1>3

Dated(d) ==
  d.pc \in {"select", "write"} => d.as_of \in 1 .. second /\ d.date \in Dates

DraftsTyped ==
  /\ draft \in [Writers -> Draft]
  /\ \A w \in Writers : Dated(draft[w])

LEMMA NoDraftTyped == NoDraft \in Draft /\ NoDraft.pc = "idle"
BY DEF NoDraft, Draft, Accounts, Snapshot, NoSnapshot

LEMMA LedgerInitially == LedgerInit => LedgerTypeOK
<1> SUFFICES ASSUME LedgerInit PROVE LedgerTypeOK
  OBVIOUS
<1>1. second \in Seconds
  BY LedgerAssumption DEF LedgerInit, Seconds
<1>2. \A a \in Accounts : Taken(a) = {} /\ Recorded(a) = {}
  BY DEF LedgerInit, Taken, Recorded, Empty
<1>3. \A a \in Accounts : snapshots[a] \in [Taken(a) -> Snapshot]
                          /\ navs[a] \in [Recorded(a) -> NavRow]
  BY <1>2 DEF LedgerInit, Empty
<1>4. draft \in [Writers -> Draft] /\ \A w \in Writers : draft[w].pc = "idle"
  BY NoDraftTyped DEF LedgerInit
<1>5. captures \in 0 .. MaxCaptures
  BY LedgerAssumption DEF LedgerInit
<1> QED BY <1>1, <1>2, <1>3, <1>4, <1>5 DEF LedgerInit, LedgerTypeOK

LEMMA DraftKept ==
  ASSUME LedgerTypeOK, second' = second, NEW w \in Writers,
         NEW d \in Draft, Dated(d), draft' = [draft EXCEPT ![w] = d]
  PROVE  DraftsTyped'
BY DEF LedgerTypeOK, DraftsTyped, Dated

LEMMA LatestTyped ==
  ASSUME LedgerTypeOK, NEW a \in Accounts
  PROVE  OrNone(LatestNavs(a)) \subseteq Nat /\ OrNone(LatestPositions(a)) \subseteq Nat
<1>1. LatestNavs(a) \subseteq Nat /\ LatestPositions(a) \subseteq Nat
  BY DEF LatestNavs, LatestPositions, LedgerTypeOK, NavRow, Snapshot
<1> QED BY <1>1 DEF OrNone

(* Every step of a draft but the last, which writes it. *)
LEMMA DraftActionTyped ==
  ASSUME LedgerTypeOK, TableSound, NEW w \in Writers, DraftAction(w),
         ~CommitSnapshot(w)
  PROVE  /\ DraftsTyped' /\ captures' \in 0 .. MaxCaptures
         /\ UNCHANGED <<second, snapshots, navs, restated, raced>>
<1>1. draft[w] \in Draft /\ Dated(draft[w]) /\ captures \in 0 .. MaxCaptures
        /\ second \in Seconds
  BY DEF LedgerTypeOK, Dated
<1>2. DateOf[second] \in Dates /\ Dates \subseteq Nat /\ second \in Nat
        /\ second \in 1 .. second
  BY <1>1, LedgerAssumption DEF Seconds
<1>3. CASE Capture(w)
  <2>1. PICK book \in BooksAt[second], date \in {d \in Dates : d <= DateOf[second]} :
          draft' = [draft EXCEPT ![w] =
            [NoDraft EXCEPT !.pc = "select", !.account = "broker",
                            !.as_of = second, !.date = date,
                            !.snapshot = [nav |-> book.nav, held |-> book.held,
                                          manual |-> 0]]]
    BY <1>3 DEF Capture
  <2> DEFINE s == [nav |-> book.nav, held |-> book.held, manual |-> 0]
             d == [NoDraft EXCEPT !.pc = "select", !.account = "broker",
                                  !.as_of = second, !.date = date,
                                  !.snapshot = s]
  <2>2. s \in Snapshot
    BY <1>1, LedgerAssumption DEF Book, Snapshot
  <2> HIDE DEF s
  <2>3. d \in Draft /\ d.as_of = second /\ d.date = date
    BY <1>2, <2>2, NoDraftTyped DEF Draft, Accounts
  <2>4. draft' = [draft EXCEPT ![w] = d]
    BY <2>1 DEF s
  <2> HIDE DEF d
  <2>5. captures' \in 0 .. MaxCaptures
    BY <1>1, <1>3, LedgerAssumption DEF Capture
  <2> QED BY <1>2, <1>3, <2>3, <2>4, <2>5, DraftKept DEF Capture, Dated
<1>4. CASE ReadLatestNav(w)
  <2>1. PICK nav \in OrNone(LatestNavs("broker")) :
          draft' = [draft EXCEPT ![w].pc = "positions", ![w].snapshot.nav = nav]
    BY <1>4 DEF ReadLatestNav
  <2> DEFINE d == [draft[w] EXCEPT !.pc = "positions", !.snapshot.nav = nav]
  <2>2. nav \in Nat
    BY LatestTyped DEF Accounts
  <2>3. d \in Draft /\ d.pc = "positions"
    BY <1>1, <2>2 DEF Draft, Snapshot
  <2>4. draft' = [draft EXCEPT ![w] = d]
    BY <2>1 DEF LedgerTypeOK
  <2> HIDE DEF d
  <2> QED BY <1>1, <1>4, <2>3, <2>4, DraftKept DEF ReadLatestNav, Dated
<1>5. CASE ReadLatestPositions(w)
  <2>1. PICK held \in OrNone(LatestPositions("broker")) :
          draft' = [draft EXCEPT ![w].pc = "manual", ![w].snapshot.held = held]
    BY <1>5 DEF ReadLatestPositions
  <2> DEFINE d == [draft[w] EXCEPT !.pc = "manual", !.snapshot.held = held]
  <2>2. held \in Nat
    BY LatestTyped DEF Accounts
  <2>3. d \in Draft /\ d.pc = "manual"
    BY <1>1, <2>2 DEF Draft, Snapshot
  <2>4. draft' = [draft EXCEPT ![w] = d]
    BY <2>1 DEF LedgerTypeOK
  <2> HIDE DEF d
  <2> QED BY <1>1, <1>5, <2>3, <2>4, DraftKept DEF ReadLatestPositions, Dated
<1>6. CASE AddManualRows(w)
  <2>0. PICK value \in Nat : AddManual(w, value)
    BY <1>6, ManualValueNatural, RatesOptional DEF AddManualRows, TableSound
  <2> DEFINE s == [nav |-> draft[w].snapshot.nav + value,
                   held |-> draft[w].snapshot.held, manual |-> value]
             d == [draft[w] EXCEPT !.pc = "select", !.as_of = second,
                                   !.date = DateOf[second], !.snapshot = s]
  <2>2. s \in Snapshot
    BY <1>1 DEF Draft, Snapshot
  <2>3. draft' = [draft EXCEPT ![w] = d]
    BY <2>0 DEF AddManual
  <2> HIDE DEF s
  <2>4. d \in Draft /\ d.as_of = second /\ d.date = DateOf[second]
    BY <1>1, <1>2, <2>2 DEF Draft
  <2> HIDE DEF d
  <2> QED BY <1>1, <1>2, <2>0, <2>3, <2>4, DraftKept DEF AddManual, Dated
<1>7. CASE SelectPrevious(w)
  <2> DEFINE pnl == DailyPnlFromPreviousNav(draft[w].account, draft[w].date,
                                            draft[w].snapshot.nav)
             d == [draft[w] EXCEPT !.pc = "write", !.pnl = pnl,
                                   !.overtaken = FALSE]
  <2>1. pnl \in Int
    BY <1>1, DailyPnlRight DEF Draft, Snapshot
  <2>2. draft' = [draft EXCEPT ![w] = d]
    BY <1>7 DEF SelectPrevious, LedgerTypeOK
  <2> HIDE DEF pnl
  <2>3. d \in Draft /\ d.as_of = draft[w].as_of /\ d.date = draft[w].date
    BY <1>1, <2>1 DEF Draft
  <2>4. draft[w].pc = "select"
    BY <1>7 DEF SelectPrevious
  <2> HIDE DEF d
  <2> QED BY <1>1, <1>7, <2>2, <2>3, <2>4, DraftKept DEF SelectPrevious, Dated
<1> QED BY <1>3, <1>4, <1>5, <1>6, <1>7 DEF DraftAction

(* What is written is what the draft holds, and other accounts stay. *)
LEMMA Committed ==
  ASSUME LedgerTypeOK, NEW w \in Writers, CommitSnapshot(w),
         NEW mine, mine = draft[w], NEW a, a = mine.account
  PROVE  /\ mine \in Draft /\ a \in Accounts /\ mine.pc = "write"
         /\ mine.as_of \in 1 .. second /\ mine.as_of \in Seconds
         /\ mine.date \in Dates
         /\ mine.snapshot \in Snapshot
         /\ [as_of |-> mine.as_of, nav |-> mine.snapshot.nav,
             daily_pnl |-> mine.pnl] \in NavRow
         /\ DOMAIN snapshots' = Accounts /\ DOMAIN navs' = Accounts
         /\ snapshots'[a] = With(snapshots[a], mine.as_of, mine.snapshot)
         /\ navs'[a] = With(navs[a], mine.date,
                            [as_of |-> mine.as_of, nav |-> mine.snapshot.nav,
                             daily_pnl |-> mine.pnl])
         /\ \A b \in Accounts \ {a} :
              snapshots'[b] = snapshots[b] /\ navs'[b] = navs[b]
<1>1. mine \in Draft /\ mine.pc = "write"
  BY DEF LedgerTypeOK, CommitSnapshot
<1>2. /\ mine.as_of \in 1 .. second /\ mine.date \in Dates
      /\ second \in Seconds /\ DOMAIN snapshots = Accounts /\ DOMAIN navs = Accounts
  BY <1>1 DEF LedgerTypeOK
<1>3. mine.as_of \in Seconds /\ mine.as_of \in Nat
  BY <1>2, LedgerAssumption DEF Seconds
<1>4. /\ snapshots' = [snapshots EXCEPT ![a] =
                         With(snapshots[a], mine.as_of, mine.snapshot)]
      /\ navs' = [navs EXCEPT ![a] =
                    With(navs[a], mine.date,
                         [as_of |-> mine.as_of, nav |-> mine.snapshot.nav,
                          daily_pnl |-> mine.pnl])]
  BY DEF CommitSnapshot
<1>5. a \in Accounts /\ mine.snapshot \in Snapshot /\ mine.snapshot.nav \in Nat
        /\ mine.pnl \in Int
  BY <1>1 DEF Draft, Snapshot
<1>6. [as_of |-> mine.as_of, nav |-> mine.snapshot.nav, daily_pnl |-> mine.pnl]
        \in NavRow
  BY <1>3, <1>5 DEF NavRow
<1> QED BY <1>1, <1>2, <1>3, <1>4, <1>5, <1>6

LEMMA CommitTyped ==
  ASSUME LedgerTypeOK, NEW w \in Writers, CommitSnapshot(w)
  PROVE  LedgerTypeOK'
<1> DEFINE mine == draft[w]
           a == mine.account
           row == [as_of |-> mine.as_of, nav |-> mine.snapshot.nav,
                   daily_pnl |-> mine.pnl]
<1>1. /\ mine \in Draft /\ a \in Accounts /\ mine.as_of \in Seconds
      /\ mine.date \in Dates /\ mine.snapshot \in Snapshot /\ row \in NavRow
      /\ DOMAIN snapshots' = Accounts /\ DOMAIN navs' = Accounts
      /\ snapshots'[a] = With(snapshots[a], mine.as_of, mine.snapshot)
      /\ navs'[a] = With(navs[a], mine.date, row)
      /\ \A b \in Accounts \ {a} :
           snapshots'[b] = snapshots[b] /\ navs'[b] = navs[b]
  BY Committed
<1>2. row.as_of = mine.as_of
  OBVIOUS
<1>3. /\ second' = second /\ captures' = captures
      /\ restated' = [restated EXCEPT ![a] =
           (restated[a] \ {mine.date}) \cup {d \in Recorded(a) : d > mine.date}
             \cup IF mine.overtaken THEN {mine.date} ELSE {}]
      /\ draft' = [v \in Writers |->
           IF v = w THEN NoDraft
           ELSE IF draft[v].pc = "write" /\ draft[v].account = a
                   /\ mine.date < draft[v].date
           THEN [draft[v] EXCEPT !.overtaken = TRUE]
           ELSE draft[v]]
      /\ raced' \in BOOLEAN
  BY DEF CommitSnapshot, LedgerTypeOK
<1> HIDE DEF mine, row
<1>4. ASSUME NEW b \in Accounts
      PROVE  /\ Taken(b)' \subseteq Seconds
             /\ (snapshots[b] \in [Taken(b) -> Snapshot])'
             /\ Recorded(b)' \subseteq Dates
             /\ (navs[b] \in [Recorded(b) -> NavRow])'
             /\ \A d \in Recorded(b)' : navs'[b][d].as_of \in Taken(b)'
  <2>1. /\ Taken(b) \subseteq Seconds
        /\ snapshots[b] \in [Taken(b) -> Snapshot]
        /\ Recorded(b) \subseteq Dates
        /\ navs[b] \in [Recorded(b) -> NavRow]
        /\ \A d \in Recorded(b) : navs[b][d].as_of \in Taken(b)
    BY DEF LedgerTypeOK
  <2>2. CASE b = a
    <3>1. /\ Taken(b)' = Taken(b) \cup {mine.as_of}
          /\ Taken(b)' \subseteq Seconds
          /\ (snapshots[b] \in [Taken(b) -> Snapshot])'
      <4>1. snapshots'[b] = With(snapshots[b], mine.as_of, mine.snapshot)
        BY <1>1, <2>2
      <4> HIDE DEF a
      <4>2. /\ DOMAIN snapshots[b] \subseteq Seconds
            /\ snapshots[b] \in [DOMAIN snapshots[b] -> Snapshot]
        BY <2>1 DEF Taken
      <4>3. /\ DOMAIN snapshots'[b] = DOMAIN snapshots[b] \cup {mine.as_of}
            /\ DOMAIN snapshots'[b] \subseteq Seconds
            /\ snapshots'[b] \in [DOMAIN snapshots'[b] -> Snapshot]
            /\ snapshots'[b][mine.as_of] = mine.snapshot
            /\ \A y \in DOMAIN snapshots[b] \ {mine.as_of} :
                 snapshots'[b][y] = snapshots[b][y]
        BY <1>1, <4>1, <4>2 DEF With
      <4> QED BY <4>3 DEF Taken
    <3>2. /\ Recorded(b)' = Recorded(b) \cup {mine.date}
          /\ Recorded(b)' \subseteq Dates
          /\ (navs[b] \in [Recorded(b) -> NavRow])'
          /\ navs'[b][mine.date] = row
          /\ \A d \in Recorded(b) \ {mine.date} : navs'[b][d] = navs[b][d]
      <4>1. navs'[b] = With(navs[b], mine.date, row)
        BY <1>1, <2>2
      <4> HIDE DEF a
      <4>2. /\ DOMAIN navs[b] \subseteq Dates
            /\ navs[b] \in [DOMAIN navs[b] -> NavRow]
        BY <2>1 DEF Recorded
      <4>3. /\ DOMAIN navs'[b] = DOMAIN navs[b] \cup {mine.date}
            /\ DOMAIN navs'[b] \subseteq Dates
            /\ navs'[b] \in [DOMAIN navs'[b] -> NavRow]
            /\ navs'[b][mine.date] = row
            /\ \A y \in DOMAIN navs[b] \ {mine.date} :
                 navs'[b][y] = navs[b][y]
        BY <1>1, <4>1, <4>2 DEF With
      <4> QED BY <4>3 DEF Recorded
    <3> QED BY <1>2, <2>1, <3>1, <3>2
  <2>3. CASE b # a
    BY <1>1, <2>1, <2>3 DEF Taken, Recorded
  <2> QED BY <2>2, <2>3
<1>5. restated' \in [Accounts -> SUBSET Dates]
  <2>1. restated \in [Accounts -> SUBSET Dates] /\ Recorded(a) \subseteq Dates
    BY <1>1 DEF LedgerTypeOK
  <2> HIDE DEF a
  <2> QED BY <1>1, <1>3, <2>1
<1>6. /\ draft' \in [Writers -> Draft]
      /\ \A v \in Writers :
           draft'[v].pc \in {"select", "write"} =>
             draft'[v].as_of \in 1 .. second' /\ draft'[v].date \in Dates
  <2>1. ASSUME NEW v \in Writers
        PROVE  draft'[v] \in Draft /\ Dated(draft'[v])
    <3>1. draft[v] \in Draft /\ Dated(draft[v])
      BY DEF LedgerTypeOK, Dated
    <3> DEFINE late == [draft[v] EXCEPT !.overtaken = TRUE]
    <3>2. late \in Draft /\ Dated(late)
      BY <3>1 DEF Draft, Dated
    <3>3. NoDraft \in Draft /\ Dated(NoDraft)
      BY NoDraftTyped DEF Dated
    <3> HIDE DEF late
    <3>4. draft'[v] \in {NoDraft, late, draft[v]}
      BY <1>3 DEF late
    <3> QED BY <3>1, <3>2, <3>3, <3>4
  <2> QED BY <1>3, <2>1 DEF Dated
<1> QED BY <1>1, <1>3, <1>4, <1>5, <1>6 DEF LedgerTypeOK

LEMMA LedgerTypedKept ==
  ASSUME LedgerTypeOK, TableSound, [Next]_vars
  PROVE  LedgerTypeOK'
<1>1. ASSUME DraftsTyped', captures' \in 0 .. MaxCaptures,
             UNCHANGED <<second, snapshots, navs, restated, raced>>
      PROVE  LedgerTypeOK'
  BY <1>1 DEF LedgerTypeOK, DraftsTyped, Dated, Taken, Recorded
<1>2. CASE Tick
  <2>1. second' \in Seconds /\ 1 .. second \subseteq 1 .. second'
    BY <1>2, LedgerAssumption DEF Tick, LedgerTypeOK, Seconds
  <2> QED BY <1>2, <2>1 DEF Tick, LedgerTypeOK, Taken, Recorded
<1>3. ASSUME NEW w \in Writers, DraftAction(w)
      PROVE  LedgerTypeOK'
  BY <1>1, <1>3, CommitTyped, DraftActionTyped
<1>4. ASSUME NEW w, Drop(w)
      PROVE  LedgerTypeOK'
  <2>1. DraftsTyped'
    BY <1>4, NoDraftTyped DEF Drop, DraftsTyped, LedgerTypeOK, Dated
  <2> QED BY <1>1, <1>4, <2>1 DEF Drop, LedgerTypeOK
<1>5. CASE UNCHANGED ledgerVars
  BY <1>5 DEF ledgerVars, LedgerTypeOK, Taken, Recorded
<1> QED BY <1>2, <1>3, <1>4, <1>5, LedgerStep

-----------------------------------------------------------------------------
(* A report has a draft only when it has synced *)

(* Another's draft is at most marked as overtaken. *)
LEMMA OthersDrafts ==
  ASSUME LedgerTypeOK, NEW w \in Writers, DraftAction(w),
         NEW v \in Writers, v # w
  PROVE  \/ draft'[v] = draft[v]
         \/ draft[v].pc = "write" /\ draft'[v] = [draft[v] EXCEPT !.overtaken = TRUE]
<1>1. draft \in [Writers -> Draft]
  BY DEF LedgerTypeOK
<1>2. CASE ~CommitSnapshot(w)
  <2>1. CASE AddManualRows(w)
    BY <1>1, <2>1 DEF AddManualRows, AddManual
  <2>2. CASE \/ Capture(w) \/ ReadLatestNav(w) \/ ReadLatestPositions(w)
             \/ SelectPrevious(w)
    BY <1>1, <2>2 DEF Capture, ReadLatestNav, ReadLatestPositions, SelectPrevious
  <2> QED BY <1>2, <2>1, <2>2 DEF DraftAction
<1>3. CASE CommitSnapshot(w)
  BY <1>3 DEF CommitSnapshot
<1> QED BY <1>2, <1>3

LEMMA OthersStages ==
  ASSUME LedgerTypeOK, NEW w \in Writers, DraftAction(w),
         NEW v \in Writers, v # w
  PROVE  draft'[v].pc = draft[v].pc
<1>1. draft[v] \in Draft
  BY DEF LedgerTypeOK
<1>2. [draft[v] EXCEPT !.overtaken = TRUE].pc = draft[v].pc
  BY <1>1 DEF Draft
<1> QED BY <1>2, OthersDrafts

LEMMA OthersWork ==
  ASSUME WorkInv, NEW q \in Processes, SyncAction(q), NEW r \in Processes
  PROVE  /\ r # q => work'[r].pc = work[r].pc
         /\ work[q].pc # "synced"
<1>1. work[q].pc # "synced"
  BY DEF SyncAction, StartReport, StartRefresh, ReadSource, MergeRows, Upsert,
         DeactivateMissing, LoadRows, WriteRefreshed
<1>2. ASSUME r # q
      PROVE  work'[r].pc = work[r].pc
  <2>1. DOMAIN work = Processes
          /\ work[r] \in [pc : Stages(r), rows : {work[r].rows}, overtaken : BOOLEAN]
    BY DEF WorkInv, WorkOK
  <2>2. [work[r] EXCEPT !.overtaken = TRUE].pc = work[r].pc
    BY <2>1
  <2>3. ASSUME NEW table, NEW next, Commit(q, table, next)
        PROVE  work'[r].pc = work[r].pc
    BY <1>2, <2>2, <2>3 DEF Commit
  <2>4. CASE Upsert(q) \/ DeactivateMissing(q) \/ WriteRefreshed(q)
    BY <2>3, <2>4 DEF Upsert, DeactivateMissing, WriteRefreshed
  <2>5. CASE StartReport(q) \/ StartRefresh(q) \/ MergeRows(q) \/ LoadRows(q)
    BY <1>2, <2>1, <2>5
       DEF StartReport, StartRefresh, ReadSource, Advance, MergeRows, LoadRows
  <2> QED BY <2>4, <2>5 DEF SyncAction
<1> QED BY <1>1, <1>2

SyncedInv == \A r \in Reporters : draft[r].pc # "idle" => work[r].pc = "synced"

LEMMA SyncedKept ==
  ASSUME HoldingsInv, LedgerTypeOK, SyncedInv, [Next]_vars
  PROVE  SyncedInv'
<1>1. /\ Reporters \subseteq Writers /\ Reporters \subseteq Processes
      /\ Captures \subseteq Writers /\ Reporters \cap Captures = {}
  BY LiveAssumption DEF Processes
<1>2. WorkInv /\ DOMAIN work = Processes /\ draft \in [Writers -> Draft]
  BY DEF HoldingsInv, WorkInv, LedgerTypeOK
<1>3. CASE UNCHANGED <<work, draft>>
  BY <1>3 DEF SyncedInv
<1>4. ASSUME NEW q \in Processes, Holdings(SyncStep(q))
      PROVE  SyncedInv'
  <2>1. SyncAction(q) /\ draft' = draft
    BY <1>4 DEF Holdings, SyncStep, SyncAction, ledgerVars
  <2>2. ASSUME NEW r \in Reporters, draft[r].pc # "idle"
        PROVE  work'[r].pc = "synced"
    BY <1>1, <1>2, <2>1, <2>2, OthersWork DEF SyncedInv
  <2> QED BY <2>1, <2>2 DEF SyncedInv
<1>5. ASSUME NEW q \in Processes, Kill(q)
      PROVE  SyncedInv'
  <2>1. \A r \in Reporters :
          IF r = q THEN draft'[r] = NoDraft
          ELSE draft'[r] = draft[r] /\ work'[r] = work[r]
    BY <1>1, <1>2, <1>5 DEF Kill
  <2> QED BY <2>1, NoDraftTyped DEF SyncedInv
<1>6. ASSUME NEW q \in Reporters, ReportStep(q)
      PROVE  SyncedInv'
  <2>1. q \in Writers /\ DraftAction(q)
    BY <1>1, <1>6 DEF ReportStep, ReportNav, Ledger, FinishReport, DraftAction
  <2>2. \A r \in Reporters \ {q} : draft'[r].pc = draft[r].pc /\ work'[r] = work[r]
    <3>1. \A r \in Reporters \ {q} : draft'[r].pc = draft[r].pc
      BY <1>1, <2>1, OthersStages
    <3>2. \A r \in Reporters \ {q} : work'[r] = work[r]
      BY <1>1, <1>2, <1>6
         DEF ReportStep, ReportNav, FinishReport, Ledger, holdingVars
    <3> QED BY <3>1, <3>2
  <2>3. draft'[q].pc # "idle" => work'[q].pc = "synced"
    <3>1. CASE FinishReport(q)
      BY <1>1, <3>1, NoDraftTyped DEF FinishReport, CommitSnapshot
    <3>2. CASE ReportNav(q)
      BY <3>2 DEF ReportNav, holdingVars
    <3>3. CASE \/ Ledger(ReadLatestPositions(q))
               \/ Ledger(AddManualRows(q)) \/ Ledger(SelectPrevious(q))
      <4>1. draft[q].pc # "idle" /\ work' = work
        BY <3>3 DEF Ledger, ReadLatestPositions, AddManualRows, AddManual, SelectPrevious, holdingVars
      <4> QED BY <4>1 DEF SyncedInv
    <3> QED BY <1>6, <3>1, <3>2, <3>3 DEF ReportStep
  <2> QED BY <2>2, <2>3 DEF SyncedInv
<1>7. ASSUME NEW c \in Captures, CaptureStep(c)
      PROVE  SyncedInv'
  <2>1. DraftAction(c) /\ work' = work
    BY <1>7 DEF CaptureStep, Ledger, DraftAction, holdingVars
  <2>2. \A r \in Reporters : draft'[r].pc = draft[r].pc
    BY <1>1, <2>1, OthersStages
  <2> QED BY <2>1, <2>2 DEF SyncedInv
<1>8. CASE Holdings(EditStep)
  BY <1>3, <1>8
     DEF Holdings, EditStep, BeginSave, BackUp, Replace, KillSave, ledgerVars
<1>9. CASE Ledger(Tick) \/ UNCHANGED vars
  <2>1. CASE Ledger(Tick)
    BY <1>3, <2>1 DEF Ledger, Tick, holdingVars
  <2>2. CASE UNCHANGED vars
    BY <1>3, <2>2 DEF vars, holdingVars, ledgerVars
  <2> QED BY <1>9, <2>1, <2>2
<1> QED BY <1>4, <1>5, <1>6, <1>7, <1>8, <1>9 DEF Next

LiveInv == HoldingsInv /\ LedgerTypeOK /\ SyncedInv

LEMMA LiveInvInitially == Init => LiveInv
<1> SUFFICES ASSUME Init PROVE LiveInv
  OBVIOUS
<1>1. SyncedInv
  <2>1. Reporters \subseteq Writers
    BY LiveAssumption
  <2> QED BY <2>1, NoDraftTyped DEF Init, LedgerInit, SyncedInv
<1> QED BY <1>1, HoldingsInitially, LedgerInitially DEF Init, LiveInv

LEMMA LiveInvKept == LiveInv /\ [Next]_vars => LiveInv'
<1> SUFFICES ASSUME LiveInv, [Next]_vars PROVE LiveInv'
  OBVIOUS
<1>1. TableSound
  BY DEF LiveInv, HoldingsInv
<1> QED BY <1>1, HoldingsKept, LedgerTypedKept, SyncedKept DEF LiveInv

(* Holdings and ledger keep their types, whatever syncs, refreshes, captures *)
(* and kills follow each other, and reports write only after their sync.     *)
THEOREM LiveTypeCorrect == Spec => []TypeOK
<1>1. LiveInv => TypeOK
  BY HoldingsInvTyped DEF LiveInv, SyncedInv, TypeOK
<1> QED BY <1>1, LiveInvInitially, LiveInvKept, PTL DEF Spec

-----------------------------------------------------------------------------
(* Daily profits *)

PnlInv ==
  /\ \A a \in Accounts : \A d \in Recorded(a) \ restated[a] :
       PnlRight(navs[a], d, navs[a][d].nav, navs[a][d].daily_pnl)
  /\ \A w \in Writers :
       LET mine == draft[w]
       IN mine.pc = "write" /\ ~mine.overtaken =>
            PnlRight(navs[mine.account], mine.date, mine.snapshot.nav, mine.pnl)

(* Rows of later dates do not matter. *)
LEMMA PnlStays ==
  ASSUME NEW f, NEW g, NEW date, NEW nav, NEW pnl, PnlRight(f, date, nav, pnl),
         {e \in DOMAIN g : e < date} = {e \in DOMAIN f : e < date},
         \A e \in DOMAIN f : e < date => g[e] = f[e]
  PROVE  PnlRight(g, date, nav, pnl)
BY DEF PnlRight

LEMMA CommitPnl ==
  ASSUME LedgerTypeOK, PnlInv, NEW w \in Writers, CommitSnapshot(w)
  PROVE  PnlInv'
<1> DEFINE mine == draft[w]
           a == mine.account
           row == [as_of |-> mine.as_of, nav |-> mine.snapshot.nav,
                   daily_pnl |-> mine.pnl]
<1>1. /\ a \in Accounts /\ mine.pc = "write" /\ mine.date \in Dates
      /\ navs'[a] = With(navs[a], mine.date, row)
      /\ \A b \in Accounts \ {a} : navs'[b] = navs[b]
  BY Committed
<1>2. row.nav = mine.snapshot.nav /\ row.daily_pnl = mine.pnl
  OBVIOUS
<1>3. /\ restated' = [restated EXCEPT ![a] =
           (restated[a] \ {mine.date}) \cup {d \in Recorded(a) : d > mine.date}
             \cup IF mine.overtaken THEN {mine.date} ELSE {}]
      /\ draft' = [v \in Writers |->
           IF v = w THEN NoDraft
           ELSE IF draft[v].pc = "write" /\ draft[v].account = a
                   /\ mine.date < draft[v].date
           THEN [draft[v] EXCEPT !.overtaken = TRUE]
           ELSE draft[v]]
  BY DEF CommitSnapshot
<1>4. ~mine.overtaken => PnlRight(navs[a], mine.date, row.nav, row.daily_pnl)
  BY <1>1, <1>2 DEF PnlInv
<1>5. \A b \in Accounts : /\ Recorded(b) \subseteq Dates
                          /\ restated[b] \subseteq Dates
  BY DEF LedgerTypeOK
<1>6. restated \in [Accounts -> SUBSET Dates] /\ Dates \subseteq Nat
        /\ draft \in [Writers -> Draft]
  BY LedgerAssumption DEF LedgerTypeOK
<1> HIDE DEF mine, row
<1>7. /\ DOMAIN navs'[a] = DOMAIN navs[a] \cup {mine.date}
      /\ navs'[a][mine.date] = row
      /\ \A d \in DOMAIN navs[a] \ {mine.date} : navs'[a][d] = navs[a][d]
  BY <1>1 DEF With
<1>0. /\ mine.date \in Nat
      /\ \A d \in Dates : d \in Nat /\ (~(mine.date < d) => d <= mine.date)
                           /\ (~(d > mine.date) => d <= mine.date)
  <2>1. mine.date \in Nat /\ \A d \in Dates : d \in Nat
    BY <1>1, <1>6
  <2> QED BY <2>1
(* What is right for a date up to the written one stays so. *)
<1>8. ASSUME NEW date \in Dates, date <= mine.date, NEW nav, NEW pnl,
             PnlRight(navs[a], date, nav, pnl)
      PROVE  PnlRight(navs'[a], date, nav, pnl)
  <2>1. /\ mine.date \in Nat /\ date \in Nat
        /\ \A e \in DOMAIN navs[a] : e \in Nat
    BY <1>1, <1>5, <1>6 DEF Recorded
  <2>2. ~(mine.date < date)
    BY <2>1, <1>8
  <2>3. {e \in DOMAIN navs'[a] : e < date} = {e \in DOMAIN navs[a] : e < date}
    BY <2>2, <1>7
  <2>4. \A e \in DOMAIN navs[a] : e < date => navs'[a][e] = navs[a][e]
    BY <2>2, <1>7
  <2> HIDE DEF a
  <2> QED BY <1>8, <2>3, <2>4, PnlStays
<1>9. ASSUME NEW b \in Accounts, NEW d \in (Recorded(b) \ restated[b])'
      PROVE  PnlRight(navs'[b], d, navs'[b][d].nav, navs'[b][d].daily_pnl)
  <2>1. CASE b # a
    <3>1. navs'[b] = navs[b] /\ restated'[b] = restated[b]
      BY <1>1, <1>3, <1>6, <2>1
    <3>2. d \in Recorded(b) \ restated[b]
      BY <3>1, <1>9 DEF Recorded
    <3> QED BY <3>1, <3>2 DEF PnlInv
  <2>2. CASE b = a /\ d = mine.date
    <3>1. ~mine.overtaken
      BY <1>1, <1>3, <1>6, <1>9, <2>2
    <3>2. mine.date <= mine.date
      BY <1>0
    <3> QED BY <1>1, <1>4, <1>7, <1>8, <2>2, <3>1, <3>2
  <2>3. CASE b = a /\ d # mine.date
    <3>1. d \in Recorded(a) /\ d \in Dates /\ navs'[a][d] = navs[a][d]
      BY <1>1, <1>5, <1>7, <1>9, <2>3 DEF Recorded
    <3>2. d \notin restated'[a]
      BY <1>9, <2>3
    <3>3. d \notin restated[a] /\ ~(d > mine.date)
      BY <1>1, <1>3, <1>6, <2>3, <3>1, <3>2
    <3>4. d <= mine.date
      BY <1>0, <3>1, <3>3
    <3>5. PnlRight(navs[a], d, navs[a][d].nav, navs[a][d].daily_pnl)
      BY <1>1, <3>1, <3>3 DEF PnlInv
    <3> QED BY <1>8, <2>3, <3>1, <3>4, <3>5
  <2> QED BY <2>1, <2>2, <2>3
<1>10. ASSUME NEW v \in Writers, draft'[v].pc = "write", ~draft'[v].overtaken
       PROVE  PnlRight(navs'[draft'[v].account], draft'[v].date,
                       draft'[v].snapshot.nav, draft'[v].pnl)
  <2>1. v # w /\ draft'[v] = draft[v]
          /\ ~(draft[v].account = a /\ mine.date < draft[v].date)
    <3>1. v # w
      BY <1>3, <1>10, NoDraftTyped
    <3>2. draft[v] \in Draft
      BY <1>6
    <3>3. [draft[v] EXCEPT !.overtaken = TRUE].overtaken
      BY <3>2 DEF Draft
    <3> QED BY <1>3, <1>10, <3>1, <3>3
  <2>2. /\ draft[v].account \in Accounts
        /\ draft[v].date \in Dates
        /\ PnlRight(navs[draft[v].account], draft[v].date,
                    draft[v].snapshot.nav, draft[v].pnl)
    <3>1. draft[v].account \in Accounts
      BY <1>6 DEF Draft
    <3> QED BY <1>10, <2>1, <3>1 DEF PnlInv, LedgerTypeOK
  <2>3. CASE draft[v].account # a
    BY <1>1, <2>1, <2>2, <2>3
  <2>4. CASE draft[v].account = a
    <3>1. draft[v].date <= mine.date
      BY <1>0, <2>1, <2>2, <2>4
    <3> QED BY <1>8, <2>1, <2>2, <2>4, <3>1
  <2> QED BY <2>3, <2>4
<1> QED BY <1>9, <1>10 DEF PnlInv

LEMMA PnlKept ==
  ASSUME LiveInv, PnlInv, [Next]_vars
  PROVE  PnlInv'
<1>1. LedgerTypeOK /\ draft \in [Writers -> Draft]
  BY DEF LiveInv, LedgerTypeOK
<1>2. ASSUME UNCHANGED <<navs, restated>>,
             NEW w, \A v \in Writers : v # w => draft'[v] = draft[v],
             w \in Writers =>
               LET mine == draft'[w]
               IN mine.pc = "write" /\ ~mine.overtaken =>
                    PnlRight(navs[mine.account], mine.date, mine.snapshot.nav, mine.pnl)
      PROVE  PnlInv'
  BY <1>2 DEF PnlInv, Recorded
<1>3. ASSUME NEW w \in Writers, DraftAction(w)
      PROVE  PnlInv'
  <2>1. CASE CommitSnapshot(w)
    BY <1>1, <2>1, CommitPnl
  <2>2. CASE Capture(w)
    <3>1. PICK book \in BooksAt[second], date \in {d \in Dates : d <= DateOf[second]} :
            draft' = [draft EXCEPT ![w] =
              [NoDraft EXCEPT !.pc = "select", !.account = "broker",
                              !.as_of = second, !.date = date,
                              !.snapshot = [nav |-> book.nav, held |-> book.held,
                                            manual |-> 0]]]
      BY <2>2 DEF Capture
    <3>2. draft'[w].pc = "select"
      BY <1>1, <3>1 DEF NoDraft
    <3> QED BY <1>1, <1>2, <2>2, <3>1, <3>2 DEF Capture
  <2>3. CASE ReadLatestNav(w) \/ ReadLatestPositions(w) \/ AddManualRows(w)
    <3>1. draft'[w].pc # "write" /\ \A v \in Writers : v # w => draft'[v] = draft[v]
      <4>1. draft[w] \in Draft
        BY <1>1
      <4>2. CASE ReadLatestNav(w) \/ ReadLatestPositions(w)
        BY <1>1, <4>1, <4>2 DEF ReadLatestNav, ReadLatestPositions, Draft
      <4>3. CASE AddManualRows(w)
        BY <1>1, <4>1, <4>3 DEF AddManualRows, AddManual, Draft
      <4> QED BY <2>3, <4>2, <4>3
    <3> QED BY <1>2, <2>3, <3>1
            DEF ReadLatestNav, ReadLatestPositions, AddManualRows, AddManual
  <2>4. CASE SelectPrevious(w)
    <3> DEFINE pnl == DailyPnlFromPreviousNav(draft[w].account, draft[w].date,
                                              draft[w].snapshot.nav)
               d == [draft[w] EXCEPT !.pc = "write", !.pnl = pnl, !.overtaken = FALSE]
    <3>1. /\ draft[w] \in Draft /\ draft[w].snapshot.nav \in Nat
          /\ draft[w].account \in Accounts /\ draft[w].date \in Nat
      BY <1>1 DEF Draft, Snapshot
    <3>2. PnlRight(navs[draft[w].account], draft[w].date, draft[w].snapshot.nav, pnl)
      BY <1>1, <3>1, DailyPnlRight
    <3>3. draft' = [draft EXCEPT ![w] = d]
      BY <1>1, <2>4 DEF SelectPrevious
    <3> HIDE DEF pnl
    <3>4. d.account = draft[w].account /\ d.date = draft[w].date
            /\ d.snapshot = draft[w].snapshot /\ d.pnl = pnl
      BY <3>1 DEF Draft
    <3> HIDE DEF d
    <3>5. draft'[w] = d /\ \A v \in Writers : v # w => draft'[v] = draft[v]
      BY <1>1, <3>3
    <3> QED BY <1>2, <2>4, <3>2, <3>4, <3>5 DEF SelectPrevious
  <2> QED BY <1>3, <2>1, <2>2, <2>3, <2>4 DEF DraftAction
<1>4. ASSUME NEW w, Drop(w)
      PROVE  PnlInv'
  <2>1. \A v \in Writers : draft'[v] = IF v = w THEN NoDraft ELSE draft[v]
    BY <1>4 DEF Drop
  <2> QED BY <1>2, <1>4, <2>1, NoDraftTyped DEF Drop
<1>5. CASE Tick \/ UNCHANGED ledgerVars
  BY <1>5 DEF Tick, ledgerVars, PnlInv, Recorded
<1> QED BY <1>3, <1>4, <1>5, LedgerStep

(* Each day's profit is the difference to the latest earlier date, unless an *)
(* earlier date was written after it, however captures and reports overlap.  *)
THEOREM PnlIsTheDifference == Spec => []DailyPnlIsTheDifference
<1>1. Init => PnlInv
  <2> SUFFICES ASSUME Init PROVE PnlInv
    OBVIOUS
  <2>1. \A a \in Accounts : Recorded(a) = {}
    BY DEF Init, LedgerInit, Recorded, Empty
  <2>2. \A w \in Writers : draft[w].pc = "idle"
    BY NoDraftTyped DEF Init, LedgerInit
  <2> QED BY <2>1, <2>2 DEF PnlInv
<1>2. PnlInv => DailyPnlIsTheDifference
  BY DEF PnlInv, PnlRight, Recorded, DailyPnlIsTheDifference
<1> QED BY <1>1, <1>2, LiveInvInitially, LiveInvKept, PnlKept, PTL DEF Spec

-----------------------------------------------------------------------------
(* Unified snapshots are of one broker snapshot *)

BooksOrNone == Books \cup {[nav |-> 0, held |-> 0]}

OfOneBook(nav, held) ==
  \E book \in BooksOrNone : nav = book.nav /\ held = book.held

Cut(snapshot) ==
  \E book \in BooksOrNone :
    snapshot.nav = book.nav + snapshot.manual /\ snapshot.held = book.held

(* What a draft holds, of the broker's latest NAVs and of its snapshots.     *)
DraftCut(d, latest, taken) ==
  /\ d.pc = "idle" => d = NoDraft
  /\ d.pc \in {"positions", "manual"} => d.account = "unified"
  /\ d.pc = "positions" => d.snapshot.nav \in latest
  /\ d.pc = "manual" => OfOneBook(d.snapshot.nav, d.snapshot.held)
  /\ d.pc \in {"select", "write"} =>
       IF d.account = "broker"
       THEN /\ OfOneBook(d.snapshot.nav, d.snapshot.held)
            /\ \A s \in taken : s <= d.as_of
       ELSE Cut(d.snapshot)

BrokerNavs == OrNone(LatestNavs("broker"))
BrokerPositions == OrNone(LatestPositions("broker"))

(* Without a race the broker's latest NAV and its latest positions are of    *)
(* one snapshot, and the one about to be written is the latest.              *)
CutInv ==
  raced \/
    /\ \A w \in Writers : DraftCut(draft[w], BrokerNavs, Taken("broker"))
    /\ \A s \in Taken("unified") : Cut(snapshots["unified"][s])
    /\ \A nav \in BrokerNavs, held \in BrokerPositions : OfOneBook(nav, held)
    /\ \A s \in Taken("broker") : s <= second

LEMMA NoDraftCut == \A latest, taken : DraftCut(NoDraft, latest, taken)
BY DEF NoDraft, DraftCut

LEMMA LateCut ==
  ASSUME NEW d \in Draft, NEW latest, NEW taken, DraftCut(d, latest, taken),
         d.pc = "write"
  PROVE  DraftCut([d EXCEPT !.overtaken = TRUE], latest, taken)
<1> DEFINE late == [d EXCEPT !.overtaken = TRUE]
<1>1. late.pc = d.pc /\ late.account = d.account /\ late.snapshot = d.snapshot
        /\ late.as_of = d.as_of
  BY DEF Draft
<1> HIDE DEF late
<1>2. DraftCut(late, latest, taken)
  BY <1>1 DEF DraftCut
<1> QED BY <1>2 DEF late

LEMMA CommitUnified ==
  ASSUME LedgerTypeOK, CutInv, ~raced, NEW w \in Writers, CommitSnapshot(w),
         draft[w].account = "unified"
  PROVE  CutInv'
<1> DEFINE mine == draft[w]
<1>1. /\ mine.pc = "write" /\ "broker" \in Accounts /\ "unified" \in Accounts
      /\ snapshots'["unified"] = With(snapshots["unified"], mine.as_of, mine.snapshot)
      /\ snapshots'["broker"] = snapshots["broker"]
      /\ navs'["broker"] = navs["broker"]
  <2>1. "broker" \in Accounts \ {"unified"} /\ "unified" \in Accounts
    BY DEF Accounts
  <2>2. /\ mine.pc = "write"
        /\ snapshots'[mine.account] =
             With(snapshots[mine.account], mine.as_of, mine.snapshot)
        /\ \A b \in Accounts \ {mine.account} :
             snapshots'[b] = snapshots[b] /\ navs'[b] = navs[b]
    BY Committed
  <2> QED BY <2>1, <2>2
<1>2. BrokerNavs' = BrokerNavs /\ BrokerPositions' = BrokerPositions
        /\ Taken("broker")' = Taken("broker")
  BY <1>1 DEF BrokerNavs, BrokerPositions, LatestNavs, LatestPositions, Taken, Recorded
<1>3. ASSUME NEW s \in Taken("unified")'
      PROVE  Cut(snapshots'["unified"][s])
  <2>1. Cut(mine.snapshot)
    BY <1>1 DEF CutInv, DraftCut
  <2>2. \A t \in Taken("unified") : Cut(snapshots["unified"][t])
    BY DEF CutInv
  <2>3. CASE s = mine.as_of
    BY <1>1, <2>1, <2>3 DEF With
  <2>4. CASE s # mine.as_of
    BY <1>1, <1>3, <2>2, <2>4 DEF With, Taken
  <2> QED BY <2>3, <2>4
<1>4. ASSUME NEW v \in Writers
      PROVE  DraftCut(draft'[v], BrokerNavs, Taken("broker"))
  <2>1. draft[v] \in Draft /\ DraftCut(draft[v], BrokerNavs, Taken("broker"))
    BY DEF LedgerTypeOK, CutInv
  <2>2. \/ draft'[v] = NoDraft \/ draft'[v] = draft[v]
        \/ draft[v].pc = "write" /\ draft'[v] = [draft[v] EXCEPT !.overtaken = TRUE]
    BY DEF CommitSnapshot
  <2> QED BY <2>1, <2>2, NoDraftCut, LateCut
<1>5. second' = second
  BY DEF CommitSnapshot
<1> QED BY <1>2, <1>3, <1>4, <1>5 DEF CutInv

LEMMA CommitBroker ==
  ASSUME LedgerTypeOK, CutInv, ~raced', NEW w \in Writers, CommitSnapshot(w),
         draft[w].account = "broker"
  PROVE  CutInv'
<1> DEFINE mine == draft[w]
           row == [as_of |-> mine.as_of, nav |-> mine.snapshot.nav,
                   daily_pnl |-> mine.pnl]
           now == mine.as_of
<1>1. /\ mine.pc = "write" /\ "broker" \in Accounts /\ "unified" \in Accounts
      /\ mine.as_of \in 1 .. second
      /\ snapshots'["broker"] = With(snapshots["broker"], mine.as_of, mine.snapshot)
      /\ navs'["broker"] = With(navs["broker"], mine.date, row)
      /\ snapshots'["unified"] = snapshots["unified"]
  BY Committed DEF Accounts
<1>2. /\ ~raced /\ mine.as_of \notin Taken("broker")
      /\ \A v \in Writers \ {w} :
           /\ draft[v].pc # "positions"
           /\ draft[v].pc # "idle" => draft[v].account # "broker"
  BY DEF CommitSnapshot
<1>3. /\ OfOneBook(mine.snapshot.nav, mine.snapshot.held)
      /\ \A s \in Taken("broker") : s <= mine.as_of
  BY <1>1, <1>2 DEF CutInv, DraftCut
<1>4. row.as_of = now /\ row.nav = mine.snapshot.nav
  OBVIOUS
<1>5. now \in Nat /\ second \in Nat /\ Taken("broker") \subseteq Nat
  BY <1>1, LedgerAssumption DEF LedgerTypeOK, Seconds
<1>6. \A s \in Taken("broker") : s <= now /\ ~(now <= s)
  BY <1>2, <1>3, <1>5
<1>7. /\ Recorded("broker")' = Recorded("broker") \cup {mine.date}
      /\ navs'["broker"][mine.date] = row
      /\ \A d \in Recorded("broker") \ {mine.date} :
           /\ navs'["broker"][d] = navs["broker"][d]
           /\ navs["broker"][d].as_of \in Taken("broker")
  <2>1. \A d \in Recorded("broker") : navs["broker"][d].as_of \in Taken("broker")
    BY <1>1 DEF LedgerTypeOK
  <2> HIDE DEF mine, row
  <2> QED BY <1>1, <2>1 DEF With, Recorded
<1>8. /\ Taken("broker")' = Taken("broker") \cup {now}
      /\ snapshots'["broker"][now] = mine.snapshot
  BY <1>1 DEF With, Taken
<1> HIDE DEF row, now
(* Both readers find what was just written. *)
<1>9. BrokerNavs' = {mine.snapshot.nav}
  <2>1. \A d \in Recorded("broker")' :
          (\A e \in Recorded("broker")' :
             navs'["broker"][e].as_of <= navs'["broker"][d].as_of)
          <=> d = mine.date
    <3>1. now <= now
      BY <1>5
    <3>2. \A e \in Recorded("broker")' : navs'["broker"][e].as_of <= now
      BY <1>4, <1>6, <1>7, <3>1
    <3>3. \A d \in Recorded("broker") \ {mine.date} :
            ~(now <= navs'["broker"][d].as_of)
      BY <1>6, <1>7
    <3> QED BY <1>4, <1>7, <3>2, <3>3
  <2>2. LatestNavs("broker")' = {mine.snapshot.nav}
    BY <1>4, <1>7, <2>1 DEF LatestNavs
  <2> QED BY <2>2 DEF BrokerNavs, OrNone
<1>10. BrokerPositions' = {mine.snapshot.held}
  <2>1. \A s \in Taken("broker")' :
          (\A t \in Taken("broker")' : t <= s) <=> s = now
    BY <1>5, <1>6, <1>8
  <2>2. LatestPositions("broker")' = {mine.snapshot.held}
    BY <1>8, <2>1 DEF LatestPositions
  <2> QED BY <2>2 DEF BrokerPositions, OrNone
<1>11. ASSUME NEW v \in Writers
       PROVE  DraftCut(draft'[v], BrokerNavs', Taken("broker")')
  <2>1. draft[v] \in Draft /\ DraftCut(draft[v], BrokerNavs, Taken("broker"))
    BY <1>2 DEF LedgerTypeOK, CutInv
  <2>2. \/ draft'[v] = NoDraft
        \/ v # w /\ draft'[v] = draft[v]
        \/ /\ v # w /\ draft[v].pc = "write"
           /\ draft'[v] = [draft[v] EXCEPT !.overtaken = TRUE]
    BY DEF CommitSnapshot
  <2>3. v # w => DraftCut(draft[v], BrokerNavs', Taken("broker")')
    <3> SUFFICES ASSUME v # w
                 PROVE  DraftCut(draft[v], BrokerNavs', Taken("broker")')
      OBVIOUS
    <3>1. /\ draft[v].pc # "positions"
          /\ draft[v].pc \in {"select", "write"} => draft[v].account # "broker"
      <4>1. v \in Writers \ {w}
        OBVIOUS
      <4>2. /\ draft[v].pc # "positions"
            /\ draft[v].pc # "idle" => draft[v].account # "broker"
        BY <1>2, <4>1
      <4> QED BY <4>2
    <3> QED BY <2>1, <3>1 DEF DraftCut
  <2> QED BY <2>1, <2>2, <2>3, NoDraftCut, LateCut
<1>12. \A s \in Taken("broker")' : s <= second'
  <2>1. second' = second /\ \A s \in Taken("broker") : s <= second
    BY <1>2 DEF CommitSnapshot, CutInv
  <2>2. now <= second
    BY <1>1 DEF now
  <2> QED BY <1>8, <2>1, <2>2
<1>13. \A s \in Taken("unified")' : Cut(snapshots'["unified"][s])
  BY <1>1, <1>2 DEF CutInv, Taken
<1> QED BY <1>3, <1>9, <1>10, <1>11, <1>12, <1>13 DEF CutInv

(* Every step of a draft but the last; none of them changes a table. *)
LEMMA DraftActionCut ==
  ASSUME LedgerTypeOK, TableSound, CutInv, ~raced,
         NEW w \in Writers, DraftAction(w), ~CommitSnapshot(w)
  PROVE  CutInv'
<1>1. /\ DraftCut(draft[w], BrokerNavs, Taken("broker"))
      /\ draft \in [Writers -> Draft] /\ draft[w] \in Draft
      /\ \A s \in Taken("broker") : s <= second
      /\ \A nav \in BrokerNavs, held \in BrokerPositions : OfOneBook(nav, held)
  BY DEF CutInv, LedgerTypeOK
<1>2. ASSUME NEW d, DraftCut(d, BrokerNavs, Taken("broker")),
             draft' = [draft EXCEPT ![w] = d],
             UNCHANGED <<second, snapshots, navs, raced>>
      PROVE  CutInv'
  <2>1. BrokerNavs' = BrokerNavs /\ BrokerPositions' = BrokerPositions
          /\ \A a : Taken(a)' = Taken(a)
    BY <1>2 DEF BrokerNavs, BrokerPositions, LatestNavs, LatestPositions, Taken, Recorded
  <2>2. \A v \in Writers : DraftCut(draft'[v], BrokerNavs, Taken("broker"))
    BY <1>1, <1>2 DEF CutInv
  <2> QED BY <1>2, <2>1, <2>2 DEF CutInv
<1>3. CASE Capture(w)
  <2>1. PICK book \in BooksAt[second], date \in {d \in Dates : d <= DateOf[second]} :
          draft' = [draft EXCEPT ![w] =
            [NoDraft EXCEPT !.pc = "select", !.account = "broker",
                            !.as_of = second, !.date = date,
                            !.snapshot = [nav |-> book.nav, held |-> book.held,
                                          manual |-> 0]]]
    BY <1>3 DEF Capture
  <2> DEFINE d == [NoDraft EXCEPT !.pc = "select", !.account = "broker",
                                  !.as_of = second, !.date = date,
                                  !.snapshot = [nav |-> book.nav, held |-> book.held,
                                                manual |-> 0]]
  <2>2. /\ d.pc = "select" /\ d.account = "broker" /\ d.as_of = second
        /\ d.snapshot.nav = book.nav /\ d.snapshot.held = book.held
    BY DEF NoDraft
  <2>3. draft' = [draft EXCEPT ![w] = d]
    BY <2>1
  <2> HIDE DEF d
  <2> second \in Seconds
    BY DEF LedgerTypeOK
  <2>4. OfOneBook(d.snapshot.nav, d.snapshot.held)
    BY <2>2 DEF OfOneBook, BooksOrNone, Books
  <2>5. DraftCut(d, BrokerNavs, Taken("broker"))
    BY <1>1, <2>2, <2>4 DEF DraftCut
  <2> QED BY <1>2, <1>3, <2>3, <2>5 DEF Capture
<1>4. CASE ReadLatestNav(w)
  <2>1. PICK nav \in BrokerNavs :
          draft' = [draft EXCEPT ![w].pc = "positions", ![w].snapshot.nav = nav]
    BY <1>4 DEF ReadLatestNav, BrokerNavs
  <2> DEFINE d == [draft[w] EXCEPT !.pc = "positions", !.snapshot.nav = nav]
  <2>2. draft[w] = NoDraft
    BY <1>1, <1>4 DEF ReadLatestNav, DraftCut
  <2>3. d.pc = "positions" /\ d.account = "unified" /\ d.snapshot.nav = nav
    BY <2>2 DEF NoDraft, NoSnapshot
  <2>4. draft' = [draft EXCEPT ![w] = d]
    BY <1>1, <2>1
  <2> HIDE DEF d
  <2>5. DraftCut(d, BrokerNavs, Taken("broker"))
    BY <2>3 DEF DraftCut
  <2> QED BY <1>2, <1>4, <2>4, <2>5 DEF ReadLatestNav
<1>5. CASE ReadLatestPositions(w)
  <2>1. PICK held \in BrokerPositions :
          draft' = [draft EXCEPT ![w].pc = "manual", ![w].snapshot.held = held]
    BY <1>5 DEF ReadLatestPositions, BrokerPositions
  <2> DEFINE d == [draft[w] EXCEPT !.pc = "manual", !.snapshot.held = held]
  <2>2. draft[w].account = "unified" /\ draft[w].snapshot.nav \in BrokerNavs
    BY <1>1, <1>5 DEF ReadLatestPositions, DraftCut
  <2>3. /\ d.pc = "manual" /\ d.account = "unified"
        /\ d.snapshot.nav = draft[w].snapshot.nav /\ d.snapshot.held = held
    BY <1>1, <2>2 DEF Draft, Snapshot
  <2>4. draft' = [draft EXCEPT ![w] = d]
    BY <1>1, <2>1
  <2> HIDE DEF d
  <2>5. OfOneBook(d.snapshot.nav, d.snapshot.held)
    BY <1>1, <2>2, <2>3
  <2>6. DraftCut(d, BrokerNavs, Taken("broker"))
    BY <2>3, <2>5 DEF DraftCut
  <2> QED BY <1>2, <1>5, <2>4, <2>6 DEF ReadLatestPositions
<1>6. CASE AddManualRows(w)
  <2>0. PICK value \in Nat : AddManual(w, value)
    BY <1>6, ManualValueNatural, RatesOptional DEF AddManualRows, TableSound
  <2> DEFINE s == [nav |-> draft[w].snapshot.nav + value,
                   held |-> draft[w].snapshot.held, manual |-> value]
             d == [draft[w] EXCEPT !.pc = "select", !.as_of = second,
                                   !.date = DateOf[second], !.snapshot = s]
  <2>1. /\ draft[w].account = "unified"
        /\ OfOneBook(draft[w].snapshot.nav, draft[w].snapshot.held)
    BY <1>1, <2>0 DEF AddManual, DraftCut
  <2>2. Cut(s)
    BY <2>1 DEF OfOneBook, Cut
  <2>3. draft' = [draft EXCEPT ![w] = d]
    BY <2>0 DEF AddManual
  <2> HIDE DEF s
  <2>4. d.pc = "select" /\ d.account = "unified" /\ d.snapshot = s
    BY <1>1, <2>1 DEF Draft
  <2> HIDE DEF d
  <2>5. DraftCut(d, BrokerNavs, Taken("broker"))
    BY <2>2, <2>4 DEF DraftCut
  <2> QED BY <1>2, <2>0, <2>3, <2>5 DEF AddManual
<1>7. CASE SelectPrevious(w)
  <2> DEFINE pnl == DailyPnlFromPreviousNav(draft[w].account, draft[w].date,
                                            draft[w].snapshot.nav)
             d == [draft[w] EXCEPT !.pc = "write", !.pnl = pnl, !.overtaken = FALSE]
  <2>1. draft' = [draft EXCEPT ![w] = d] /\ draft[w].pc = "select"
    BY <1>1, <1>7 DEF SelectPrevious
  <2> HIDE DEF pnl
  <2>2. /\ d.pc = "write" /\ d.account = draft[w].account
        /\ d.snapshot = draft[w].snapshot /\ d.as_of = draft[w].as_of
    BY <1>1 DEF Draft
  <2> HIDE DEF d
  <2>3. DraftCut(d, BrokerNavs, Taken("broker"))
    BY <1>1, <2>1, <2>2 DEF DraftCut
  <2> QED BY <1>2, <1>7, <2>1, <2>3 DEF SelectPrevious
<1> QED BY <1>3, <1>4, <1>5, <1>6, <1>7 DEF DraftAction

LEMMA CutKept ==
  ASSUME LiveInv, CutInv, [Next]_vars
  PROVE  CutInv'
<1>1. LedgerTypeOK /\ TableSound
  BY DEF LiveInv, HoldingsInv
<1>2. raced => raced'
  BY LedgerStep DEF Tick, Drop, ledgerVars, DraftAction, Capture, ReadLatestNav,
     ReadLatestPositions, AddManualRows, AddManual, SelectPrevious, CommitSnapshot
<1>3. CASE raced'
  BY <1>3 DEF CutInv
<1>4. CASE ~raced'
  <2>1. ~raced
    BY <1>2, <1>4
  <2>2. ASSUME NEW w \in Writers, DraftAction(w)
        PROVE  CutInv'
    <3>1. draft[w].account \in {"broker", "unified"}
      BY <1>1 DEF LedgerTypeOK, Draft, Accounts
    <3> QED BY <1>1, <1>4, <2>1, <2>2, <3>1, CommitUnified, CommitBroker, DraftActionCut
  <2>3. ASSUME UNCHANGED <<snapshots, navs>>
        PROVE  BrokerNavs' = BrokerNavs /\ BrokerPositions' = BrokerPositions
                 /\ \A a : Taken(a)' = Taken(a)
    BY <2>3 DEF BrokerNavs, BrokerPositions, LatestNavs, LatestPositions, Taken, Recorded
  <2>4. CASE Tick
    <3>1. \A s \in Taken("broker") : s <= second'
      <4>1. second \in Nat /\ Taken("broker") \subseteq Nat /\ second' = second + 1
        BY <1>1, <2>4, LedgerAssumption DEF LedgerTypeOK, Seconds, Tick, Accounts
      <4>2. \A s \in Taken("broker") : s <= second
        BY <2>1 DEF CutInv
      <4> QED BY <4>1, <4>2
    <3> QED BY <2>1, <2>3, <2>4, <3>1 DEF Tick, CutInv
  <2>5. ASSUME NEW w, Drop(w)
        PROVE  CutInv'
    <3>1. \A v \in Writers : draft'[v] = NoDraft \/ draft'[v] = draft[v]
      BY <2>5 DEF Drop
    <3>2. \A v \in Writers : DraftCut(draft'[v], BrokerNavs, Taken("broker"))
      BY <2>1, <3>1, NoDraftCut DEF CutInv
    <3> QED BY <2>1, <2>3, <2>5, <3>2 DEF Drop, CutInv
  <2>6. CASE UNCHANGED ledgerVars
    BY <2>1, <2>3, <2>6 DEF ledgerVars, CutInv
  <2> QED BY <2>2, <2>4, <2>5, <2>6, LedgerStep
<1> QED BY <1>3, <1>4

(* A unified snapshot adds the holdings to the NAV and the positions of one  *)
(* broker snapshot, unless captures overlapped, however reports, syncs and   *)
(* captures follow each other.                                               *)
THEOREM UnifiedIsAlwaysOneCut == Spec => []UnifiedIsOneCut
<1>1. Init => CutInv
  <2> SUFFICES ASSUME Init PROVE CutInv
    OBVIOUS
  <2>1. \A a \in Accounts : Taken(a) = {} /\ Recorded(a) = {}
    BY DEF Init, LedgerInit, Taken, Recorded, Empty
  <2>2. \A w \in Writers : draft[w] = NoDraft
    BY DEF Init, LedgerInit
  <2>3. BrokerNavs = {0} /\ BrokerPositions = {0}
    BY <2>1 DEF BrokerNavs, BrokerPositions, LatestNavs, LatestPositions, OrNone, Accounts
  <2>4. OfOneBook(0, 0)
    <3> DEFINE none == [nav |-> 0, held |-> 0]
    <3>1. none \in BooksOrNone /\ none.nav = 0 /\ none.held = 0
      BY DEF BooksOrNone
    <3> HIDE DEF none
    <3> QED BY <3>1 DEF OfOneBook
  <2> QED BY <2>1, <2>2, <2>3, <2>4, NoDraftCut DEF CutInv, Accounts
<1>2. CutInv => UnifiedIsOneCut
  BY DEF CutInv, Cut, BooksOrNone, UnifiedIsOneCut
<1> QED BY <1>1, <1>2, LiveInvInitially, LiveInvKept, CutKept, PTL DEF Spec
=============================================================================
