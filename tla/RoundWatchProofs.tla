-------------------------- MODULE RoundWatchProofs --------------------------
(***************************************************************************)
(* The whole service is right: for any number of watches, buyers,          *)
(* payments, rounds and crashes, and whatever the three actors interleave, *)
(* what the table says of a watch is true of the chain, no payment is      *)
(* settled twice or forgotten, and every change of a row is a step the     *)
(* buyer's contract allows.                                                *)
(***************************************************************************)
EXTENDS RoundWatch, WatchStoreProofs, WellFoundedInduction

-----------------------------------------------------------------------------
(***************************************************************************)
(* The chain.                                                              *)
(***************************************************************************)

(* Block timestamps never decrease. *)
TimeIsMonotone ==
    \A i, j \in DOMAIN blocks : i <= j => blocks[i].time <= blocks[j].time

WorldInv ==
    /\ LedgerTypeOK
    /\ TimeIsMonotone
    /\ \A t \in Txs : landed[t] <= Tip

(* The chain in the terms the proofs use. *)
LEMMA ChainFacts ==
  ASSUME WorldInv
  PROVE  /\ Tip \in Nat /\ DOMAIN blocks = 1..Tip
         /\ \A i \in 1..Tip : blocks[i] \in Block /\ blocks[i].time \in Nat
         /\ \A t \in Txs : landed[t] \in Nat /\ landed[t] <= Tip /\ LastValid[t] \in Nat
         /\ submitted \subseteq Txs /\ now \in Nat
<1>1. /\ Tip \in Nat /\ DOMAIN blocks = 1..Tip /\ \A i \in 1..Tip : blocks[i] \in Block
      /\ submitted \subseteq Txs /\ now \in Nat
  BY DEF WorldInv, LedgerTypeOK, Tip
<1>2. \A i \in 1..Tip : blocks[i].time \in Nat
  BY <1>1, LedgerAssumption DEF Block
<1>3. \A t \in Txs : landed[t] \in Nat /\ landed[t] <= Tip /\ LastValid[t] \in Nat
  BY LedgerAssumption DEF WorldInv, LedgerTypeOK
<1> QED
  BY <1>1, <1>2, <1>3

(* The chain only grows: blocks stay, and a payment lands once, in the new *)
(* block and while it is valid.                                            *)
LEMMA ChainGrows ==
  ASSUME WorldInv, NewBlock
  PROVE  /\ WorldInv'
         /\ Tip' = Tip + 1
         /\ \A i \in 1..Tip : blocks'[i] = blocks[i]
         /\ \A i \in 1..Tip : blocks[i].time <= blocks'[Tip + 1].time
         /\ \A t \in Txs :
              \/ landed'[t] = landed[t]
              \/ landed[t] = 0 /\ landed'[t] = Tip + 1 /\ Tip + 1 <= LastValid[t]
         /\ submitted' = submitted /\ now' = now
<1> USE LedgerAssumption, ChainFacts
<1>1. PICK time \in LastTime..MaxBlockTime, pays \in Transfers,
           confirmed \in SUBSET {t \in submitted : landed[t] = 0 /\ Tip + 1 <= LastValid[t]} :
             /\ blocks' = Append(blocks, [time |-> time, pays |-> pays])
             /\ landed' = [t \in Txs |-> IF t \in confirmed THEN Tip + 1 ELSE landed[t]]
  BY DEF NewBlock
<1>2. LastTime \in Nat /\ \A i \in 1..Tip : blocks[i].time <= LastTime
  <2>1. CASE blocks = <<>>
    BY <2>1 DEF LastTime, Tip
  <2>2. CASE blocks # <<>>
    <3>1. Tip \in 1..Tip /\ LastTime = blocks[Tip].time
      BY <2>2 DEF LastTime, WorldInv, LedgerTypeOK, Tip
    <3> QED
      BY <3>1 DEF WorldInv, TimeIsMonotone
  <2> QED
    BY <2>1, <2>2
<1> DEFINE block == [time |-> time, pays |-> pays]
<1>3. block \in Block /\ block.time = time /\ time \in Nat /\ LastTime <= time
  BY <1>2 DEF Block
<1> HIDE DEF block
<1>4. /\ blocks' \in Seq(Block) /\ Tip' = Tip + 1 /\ DOMAIN blocks' = 1..(Tip + 1)
      /\ blocks'[Tip + 1] = block
      /\ \A i \in 1..Tip : blocks'[i] = blocks[i]
  BY <1>1, <1>3 DEF WorldInv, LedgerTypeOK, Tip, block
<1>5. \A i \in 1..Tip : blocks[i].time <= blocks'[Tip + 1].time
  BY <1>2, <1>3, <1>4
<1>6. TimeIsMonotone'
  <2> SUFFICES ASSUME NEW i \in 1..(Tip + 1), NEW j \in 1..(Tip + 1), i <= j
               PROVE  blocks'[i].time <= blocks'[j].time
    BY <1>4 DEF TimeIsMonotone
  <2>1. CASE j \in 1..Tip
    BY <1>4, <2>1 DEF WorldInv, TimeIsMonotone
  <2>2. CASE j = Tip + 1 /\ i \in 1..Tip
    BY <1>4, <1>5, <2>2
  <2>3. CASE j = Tip + 1 /\ i = Tip + 1
    BY <1>3, <1>4, <2>3
  <2> QED
    BY <2>1, <2>2, <2>3
<1>7. /\ landed' \in [Txs -> Nat]
      /\ \A t \in Txs :
              \/ landed'[t] = landed[t]
              \/ landed[t] = 0 /\ landed'[t] = Tip + 1 /\ Tip + 1 <= LastValid[t]
  BY <1>1
<1>8. submitted' = submitted /\ now' = now
  BY DEF NewBlock
<1>9. WorldInv'
  <2>1. LedgerTypeOK'
    BY <1>4, <1>7, <1>8 DEF LedgerTypeOK
  <2>2. \A t \in Txs : landed'[t] <= Tip'
    BY <1>4, <1>7
  <2> QED
    BY <1>6, <2>1, <2>2 DEF WorldInv
<1> QED
  BY <1>4, <1>5, <1>7, <1>8, <1>9

-----------------------------------------------------------------------------
(***************************************************************************)
(* What a row says of the chain.                                           *)
(***************************************************************************)
NoneEligible(row, first, last) == \A r \in first..last : ~Eligible(row, r)

(* The scan and its verdicts are true: nothing eligible lies behind the    *)
(* cursor, the closing round is past the deadline, and a match is a         *)
(* transfer that satisfies the watch, none of which lies a window before it.*)
Judged(row) ==
    /\ row.state # "absent" => row.spec \in Specs
    /\ row.state \in {"active", "expired"} =>
         row.scanAfter <= Tip /\ NoneEligible(row, 1, row.scanAfter)
    /\ row.closing # None => row.closing \in 1..Tip /\ PastDeadlineAt(row, row.closing)
    /\ row.state = "matched" =>
         /\ row.matchedRound \in 1..Tip
         /\ Eligible(row, row.matchedRound)
         /\ NoneEligible(row, 1, row.matchedRound - RoundWindow)

(* The payment is not, and can no longer be, confirmed under its terms. *)
Hopeless(t) == ~Paid(t) /\ (landed[t] = 0 => Tip > LastValid[t])

(* What the row says of its payment is true. *)
PaidFor(row) ==
    /\ row.proof => row.tx \in Txs
    /\ row.serviceTx = None => row.activationRound = None
    /\ row.serviceTx # None =>
         /\ row.proof /\ row.serviceTx = row.tx
         /\ Paid(row.tx) /\ row.activationRound = landed[row.tx]
    /\ Rejected(row) /\ row.proof => Hopeless(row.tx)

(* A new block changes nothing about the rounds before it. *)
LEMMA OldRoundsStay ==
  ASSUME WorldInv, NewBlock
  PROVE  \A row, r : r \in 1..Tip =>
            /\ Eligible(row, r)' <=> Eligible(row, r)
            /\ PastDeadlineAt(row, r)' <=> PastDeadlineAt(row, r)
BY ChainFacts, ChainGrows DEF Eligible, PastDeadlineAt, WorldInv, LedgerTypeOK, Tip

(* A payment's fate is settled once: paid stays paid in the same round, and *)
(* hopeless stays hopeless.                                                 *)
LEMMA FateStays ==
  ASSUME WorldInv, NewBlock
  PROVE  \A t \in Txs : /\ Paid(t) => Paid(t)' /\ landed'[t] = landed[t]
                        /\ Hopeless(t) => Hopeless(t)'
BY ChainFacts, ChainGrows DEF Paid, Hopeless

(* What a row says stays true while the chain grows. *)
LEMMA GrowthKeepsRow ==
  ASSUME WorldInv, NewBlock, NEW row, RowInv(row)
  PROVE  /\ Judged(row) => Judged(row)'
         /\ PaidFor(row) => PaidFor(row)'
<1> USE ChainFacts, ChainGrows, OldRoundsStay
<1>1. ASSUME Judged(row) PROVE Judged(row)'
  <2>1. ASSUME row.state \in {"active", "expired"}
        PROVE  row.scanAfter <= Tip' /\ NoneEligible(row, 1, row.scanAfter)'
    <3>1. row.scanAfter \in Nat /\ row.scanAfter <= Tip /\ NoneEligible(row, 1, row.scanAfter)
      BY <1>1, <2>1 DEF Judged, RowInv
    <3>2. \A r \in 1..row.scanAfter : r \in 1..Tip
      BY <3>1
    <3> QED
      BY <3>1, <3>2 DEF NoneEligible
  <2>2. ASSUME row.closing # None
        PROVE  row.closing \in 1..Tip' /\ PastDeadlineAt(row, row.closing)'
    BY <1>1, <2>2 DEF Judged
  <2>3. ASSUME row.state = "matched"
        PROVE  /\ row.matchedRound \in 1..Tip'
               /\ Eligible(row, row.matchedRound)'
               /\ NoneEligible(row, 1, row.matchedRound - RoundWindow)'
    <3>1. \A r \in 1..(row.matchedRound - RoundWindow) : r \in 1..Tip
      BY <1>1, <2>3, PollingAssumption DEF Judged
    <3> QED
      BY <1>1, <2>3, <3>1 DEF Judged, NoneEligible
  <2> QED
    BY <1>1, <2>1, <2>2, <2>3 DEF Judged
<1>2. ASSUME PaidFor(row) PROVE PaidFor(row)'
  BY <1>2, FateStays DEF PaidFor, Rejected
<1> QED
  BY <1>1, <1>2

-----------------------------------------------------------------------------
(***************************************************************************)
(* One call of the store changes one row, keeps what it says true, and     *)
(* moves the watch to a phase the contract lets it move to.                *)
(***************************************************************************)
KeepsTerms(old, new) ==
    /\ new.spec = old.spec /\ new.tx = old.tx
    /\ new.proof = old.proof /\ new.expiresAt = old.expiresAt

(* The buyer sees no difference. *)
AsBefore(old, new) ==
    /\ PhaseOf(new) = PhaseOf(old)
    /\ KeepsTerms(old, new)
    /\ new.activationRound = old.activationRound /\ new.matchedRound = old.matchedRound

Concludes(old, new) ==
    /\ KeepsTerms(old, new)
    /\ \/ /\ PhaseOf(old) = "reserved" /\ PhaseOf(new) = "active"
          /\ new.matchedRound = old.matchedRound
       \/ /\ PhaseOf(old) = "active" /\ PhaseOf(new) = "matched"
          /\ new.activationRound = old.activationRound
       \/ /\ \/ PhaseOf(old) = "reserved" /\ PhaseOf(new) = "rejected"
             \/ PhaseOf(old) = "active" /\ PhaseOf(new) = "expired"
             \/ PhaseOf(old) \in {"reserved", "active"} /\ PhaseOf(new) = "indeterminate"
          /\ new.activationRound = old.activationRound
          /\ new.matchedRound = old.matchedRound

Binds(old, new) ==
    /\ PhaseOf(old) = "reserved" /\ PhaseOf(new) = "reserved"
    /\ old.tx = None /\ new.tx \in Txs
    /\ new.spec = old.spec /\ new.proof = old.proof /\ new.expiresAt = old.expiresAt
    /\ new.activationRound = old.activationRound /\ new.matchedRound = old.matchedRound

Admits(old, new) ==
    /\ PhaseOf(old) = "none" /\ PhaseOf(new) = "reserved"
    /\ new.spec \in Specs /\ new.tx \in Opt(Txs) /\ new.proof = (new.tx # None)
    /\ new.expiresAt = now + TTL
    /\ new.activationRound = None /\ new.matchedRound = None

Moves(old, new) ==
    AsBefore(old, new) \/ Concludes(old, new) \/ Binds(old, new) \/ Admits(old, new)

TrueStep(w, d, e) ==
    /\ SoundStep(d, e)
    /\ \A v \in Watches \ {w} : e[v] = d[v]
    /\ Moves(d[w], e[w])
    /\ Judged(d[w]) => Judged(e[w])
    /\ PaidFor(d[w]) => PaidFor(e[w])

(* The phase of a row, by its state. *)
LEMMA Phases ==
  ASSUME NEW row, RowInv(row)
  PROVE  /\ row.state = "absent" <=> PhaseOf(row) = "none"
         /\ Reconcilable(row) <=> PhaseOf(row) = "reserved"
         /\ Rejected(row) <=> PhaseOf(row) = "rejected"
         /\ \A s \in {"active", "matched", "expired", "indeterminate"} :
              row.state = s <=> PhaseOf(row) = s
         /\ Reconcilable(row) => Settling(row)
         /\ Settling(row) => Reconcilable(row) \/ Rejected(row)
<1>1. /\ row.state \in {"absent", "settlement_pending", "settlement_unknown", "active",
                          "matched", "expired", "indeterminate"}
      /\ row.terminal \in BOOLEAN
      /\ row.state = "settlement_pending" => ~row.terminal
  BY DEF RowInv, Row, WatchState
<1>2. CASE row.state = "absent"
  BY <1>2 DEF PhaseOf, Reconcilable, Settling, Rejected
<1>3. CASE Reconcilable(row)
  BY <1>3 DEF PhaseOf, Reconcilable, Settling, Rejected
<1>4. CASE Rejected(row)
  BY <1>4 DEF PhaseOf, Reconcilable, Settling, Rejected
<1>5. CASE row.state \in {"active", "matched", "expired", "indeterminate"}
  BY <1>5 DEF PhaseOf, Reconcilable, Settling, Rejected
<1> QED
  BY <1>1, <1>2, <1>3, <1>4, <1>5 DEF Reconcilable, Settling, Rejected

(* Rows with the same window agree on every round. *)
LEMMA SameWindow ==
  ASSUME NEW a, NEW b, a.spec = b.spec, a.expiresAt = b.expiresAt,
         a.activationRound = b.activationRound
  PROVE  \A r : /\ Eligible(a, r) <=> Eligible(b, r)
                /\ PastDeadlineAt(a, r) <=> PastDeadlineAt(b, r)
BY DEF Eligible, PastDeadlineAt

(* Sound steps compose. *)
LEMMA SoundStepsCompose ==
  ASSUME NEW d, NEW e, NEW f, TableInv(d), SoundStep(d, e), SoundStep(e, f)
  PROVE  SoundStep(d, f)
<1> SUFFICES ASSUME NEW w \in Watches PROVE Progresses(d[w], f[w])
  BY DEF SoundStep
<1>1. /\ Progresses(d[w], e[w]) /\ Progresses(e[w], f[w])
      /\ d[w] \in Row /\ e[w] \in Row /\ f[w] \in Row
  BY DEF SoundStep, TableInv
<1>2. \A a, b, c \in Opt(Nat) :
        /\ a # None => b # None /\ b >= a
        /\ b # None => c # None /\ c >= b
        => (a # None => c # None /\ c >= a)
  BY DEF Opt
<1>3. d[w].scanAfter # None => f[w].scanAfter # None /\ f[w].scanAfter >= d[w].scanAfter
  BY <1>1, <1>2 DEF Progresses, Row
<1>4. f[w].used >= d[w].used
  BY <1>1 DEF Progresses, Row
<1>5. Final(d[w]) => Final(e[w])
  BY <1>1 DEF Progresses, Final
<1> QED
  BY <1>1, <1>3, <1>4, <1>5 DEF Progresses

(* A step the buyer does not see may precede or follow another.            *)
LEMMA UnseenBefore ==
  ASSUME NEW d, NEW e, NEW f, NEW w \in Watches, TableInv(d),
         TrueStep(w, d, e), AsBefore(d[w], e[w]), TrueStep(w, e, f)
  PROVE  TrueStep(w, d, f)
<1>1. SoundStep(d, f)
  BY SoundStepsCompose DEF TrueStep
<1>2. Moves(d[w], f[w])
  BY DEF TrueStep, Moves, AsBefore, Concludes, Binds, Admits, KeepsTerms
<1> QED
  BY <1>1, <1>2 DEF TrueStep

(* A true step and a second one that a reader cannot see are one true step. *)
LEMMA UnseenAfter ==
  ASSUME NEW d, NEW e, NEW f, NEW w \in Watches, TableInv(d),
         TrueStep(w, d, e), TrueStep(w, e, f), AsBefore(e[w], f[w])
  PROVE  TrueStep(w, d, f)
<1>1. SoundStep(d, f)
  BY SoundStepsCompose DEF TrueStep
<1>2. Moves(d[w], f[w])
  BY DEF TrueStep, Moves, AsBefore, Concludes, Binds, Admits, KeepsTerms
<1> QED
  BY <1>1, <1>2 DEF TrueStep

(* Counters, deadlines and a payment marked unknown: the scan and the      *)
(* payment stay as they are.                                               *)
Bookkeeping(old, new) ==
    /\ KeepsTerms(old, new)
    /\ new.serviceTx = old.serviceTx /\ new.activationRound = old.activationRound
    /\ new.matchedRound = old.matchedRound
    /\ new.scanAfter = old.scanAfter /\ new.closing = old.closing
    /\ \/ new.state = old.state /\ new.terminal = old.terminal
       \/ Reconcilable(old) /\ Reconcilable(new)

(* It is a true step of the row, when it is a sound one of the table.       *)
LEMMA BookkeepingIsTrue ==
  ASSUME NEW d, NEW e, NEW w \in Watches, TableInv(d), SoundStep(d, e),
         \A v \in Watches \ {w} : e[v] = d[v], Bookkeeping(d[w], e[w])
  PROVE  TrueStep(w, d, e) /\ AsBefore(d[w], e[w])
<1>1. RowInv(d[w]) /\ RowInv(e[w])
  BY DEF TableInv, SoundStep
<1>2. PhaseOf(e[w]) = PhaseOf(d[w])
  <2>1. CASE Reconcilable(d[w]) /\ Reconcilable(e[w])
    BY <1>1, <2>1, Phases
  <2>2. CASE e[w].state = d[w].state /\ e[w].terminal = d[w].terminal
    <3>1. /\ Reconcilable(e[w]) <=> Reconcilable(d[w])
          /\ Rejected(e[w]) <=> Rejected(d[w])
      BY <2>2 DEF Reconcilable, Settling, Rejected
    <3> QED
      BY <2>2, <3>1 DEF PhaseOf
  <2> QED
    BY <2>1, <2>2 DEF Bookkeeping
<1>3. AsBefore(d[w], e[w])
  BY <1>2 DEF AsBefore, Bookkeeping
<1>4. \A r : /\ Eligible(d[w], r) <=> Eligible(e[w], r)
             /\ PastDeadlineAt(d[w], r) <=> PastDeadlineAt(e[w], r)
  BY SameWindow DEF Bookkeeping, KeepsTerms
<1>5. Judged(d[w]) => Judged(e[w])
  BY <1>4 DEF Judged, NoneEligible, Bookkeeping, KeepsTerms, Reconcilable, Settling
<1>6. PaidFor(d[w]) => PaidFor(e[w])
  BY DEF PaidFor, Bookkeeping, KeepsTerms, Rejected, Reconcilable
<1> QED
  BY <1>3, <1>5, <1>6 DEF TrueStep, Moves

(* The calls that only keep books. *)
LEMMA BookkeepingCalls ==
  ASSUME NEW d, NEW w \in Watches, TableInv(d),
         NEW e \in {d, MarkSettlementUnknown(d, w), RecordReconciliationFailure(d, w),
                    RecordPollingFailure(d, w, FALSE), ClearPollingFailure(d, w),
                    PollRetryDue(d, w), ReconcileRetryDue(d, w)}
  PROVE  TrueStep(w, d, e) /\ AsBefore(d[w], e[w])
<1>1. d \in [Watches -> Row] /\ d[w] \in Row
  BY DEF TableInv
<1>2. SoundStep(d, e)
  BY StutterIsSound, MarkUnknownIsSound, ReconciliationFailureIsSound, PollingFailureIsSound,
     ClearFailureIsSound, RetryDueIsSound
<1>3. \A v \in Watches \ {w} : e[v] = d[v]
  BY <1>1 DEF MarkSettlementUnknown, RecordReconciliationFailure, RecordPollingFailure,
              ClearPollingFailure, PollRetryDue, ReconcileRetryDue
<1>4. Bookkeeping(d[w], e[w])
  <2>1. CASE e = d
    BY <2>1 DEF Bookkeeping, KeepsTerms
  <2>2. CASE e = MarkSettlementUnknown(d, w)
    <3>1. CASE d[w].state = "settlement_pending"
      <4>1. e[w] = [d[w] EXCEPT !.state = "settlement_unknown", !.terminal = FALSE]
        BY <1>1, <2>2, <3>1 DEF MarkSettlementUnknown
      <4>2. ~d[w].terminal
        BY <3>1 DEF TableInv, RowInv
      <4> QED
        BY <1>1, <3>1, <4>1, <4>2 DEF Bookkeeping, KeepsTerms, Reconcilable, Settling, Row
    <3>2. CASE d[w].state # "settlement_pending"
      BY <2>2, <3>2 DEF MarkSettlementUnknown, Bookkeeping, KeepsTerms
    <3> QED
      BY <3>1, <3>2
  <2>3. CASE e = RecordReconciliationFailure(d, w)
    BY <1>1, <2>3 DEF RecordReconciliationFailure, Bookkeeping, KeepsTerms, Row
  <2>4. CASE e = RecordPollingFailure(d, w, FALSE)
    BY <1>1, <2>4 DEF RecordPollingFailure, Bookkeeping, KeepsTerms, Row
  <2>5. CASE e = ClearPollingFailure(d, w)
    BY <1>1, <2>5 DEF ClearPollingFailure, Bookkeeping, KeepsTerms, Row
  <2>6. CASE e = PollRetryDue(d, w)
    BY <1>1, <2>6 DEF PollRetryDue, Bookkeeping, KeepsTerms, Row
  <2>7. CASE e = ReconcileRetryDue(d, w)
    BY <1>1, <2>7 DEF ReconcileRetryDue, Bookkeeping, KeepsTerms, Row
  <2> QED
    BY <2>1, <2>2, <2>3, <2>4, <2>5, <2>6, <2>7
<1> QED
  BY <1>2, <1>3, <1>4, BookkeepingIsTrue

(* A watch that is given up keeps its terms.                                *)
LEMMA GivingUpIsTrue ==
  ASSUME NEW d, NEW e, NEW w \in Watches, TableInv(d), SoundStep(d, e),
         \A v \in Watches \ {w} : e[v] = d[v],
         d[w].state = "active" \/ Reconcilable(d[w]), e[w].state = "indeterminate",
         KeepsTerms(d[w], e[w]), e[w].serviceTx = d[w].serviceTx,
         e[w].activationRound = d[w].activationRound,
         e[w].matchedRound = d[w].matchedRound, e[w].closing = d[w].closing
  PROVE  TrueStep(w, d, e)
<1>1. RowInv(d[w]) /\ RowInv(e[w])
  BY DEF TableInv, SoundStep
<1>2. PhaseOf(d[w]) \in {"reserved", "active"} /\ PhaseOf(e[w]) = "indeterminate"
  BY <1>1, Phases
<1>3. \A r : PastDeadlineAt(d[w], r) <=> PastDeadlineAt(e[w], r)
  BY SameWindow DEF KeepsTerms
<1>4. Judged(d[w]) => Judged(e[w])
  BY <1>3 DEF Judged, KeepsTerms, Reconcilable, Settling
<1>5. PaidFor(d[w]) => PaidFor(e[w])
  BY DEF PaidFor, KeepsTerms, Rejected
<1> QED
  BY <1>2, <1>4, <1>5 DEF TrueStep, Moves, Concludes

(* A claim charges, or gives the watch up.                                  *)
LEMMA ClaimIsTrue ==
  ASSUME NEW d, NEW w \in Watches, TableInv(d), NEW eligible \in BOOLEAN,
         eligible => d[w].state = "active" \/ Reconcilable(d[w])
  PROVE  /\ TrueStep(w, d, ClaimWorkUnit(d, w, eligible))
         /\ ClaimOutcome(d[w], eligible) = "claimed" =>
              /\ AsBefore(d[w], ClaimWorkUnit(d, w, eligible)[w])
              /\ ClaimWorkUnit(d, w, eligible)[w] = [d[w] EXCEPT !.used = @ + 1]
<1> DEFINE e == ClaimWorkUnit(d, w, eligible)
<1>1. d \in [Watches -> Row] /\ d[w] \in Row
  BY DEF TableInv
<1>2. SoundStep(d, e)
  BY ClaimIsSound
<1>3. CASE ClaimOutcome(d[w], eligible) = "claimed"
  <2>1. e = [d EXCEPT ![w].used = @ + 1]
    BY <1>3 DEF ClaimWorkUnit
  <2>2. e[w] = [d[w] EXCEPT !.used = @ + 1] /\ \A v \in Watches \ {w} : e[v] = d[v]
    BY <1>1, <2>1
  <2>3. Bookkeeping(d[w], e[w])
    BY <1>1, <2>2 DEF Bookkeeping, KeepsTerms, Row
  <2> QED
    BY <1>2, <2>2, <2>3, BookkeepingIsTrue
<1>4. CASE ClaimOutcome(d[w], eligible) = "exhausted"
  <2>1. e = [d EXCEPT ![w].state = "indeterminate", ![w].terminal = TRUE,
                      ![w].reason = "work_budget_exhausted"]
    BY <1>4 DEF ClaimWorkUnit
  <2>2. /\ e[w] = [d[w] EXCEPT !.state = "indeterminate", !.terminal = TRUE,
                               !.reason = "work_budget_exhausted"]
        /\ \A v \in Watches \ {w} : e[v] = d[v]
    BY <1>1, <2>1
  <2>3. /\ e[w].state = "indeterminate" /\ KeepsTerms(d[w], e[w])
        /\ e[w].serviceTx = d[w].serviceTx /\ e[w].closing = d[w].closing
        /\ e[w].activationRound = d[w].activationRound
        /\ e[w].matchedRound = d[w].matchedRound
    BY <1>1, <2>2 DEF KeepsTerms, Row
  <2>4. eligible
    BY <1>4 DEF ClaimOutcome
  <2>5. TrueStep(w, d, e)
    BY <1>2, <2>2, <2>3, <2>4, GivingUpIsTrue
  <2> QED
    BY <1>4, <2>5
<1>5. CASE ClaimOutcome(d[w], eligible) = "inactive"
  <2>1. e = d
    BY <1>5 DEF ClaimWorkUnit
  <2> QED
    BY <1>5, <2>1, BookkeepingCalls
<1> QED
  BY <1>3, <1>4, <1>5 DEF ClaimOutcome

(* A polling failure counts, or gives the watch up. *)
LEMMA PollingFailureIsTrue ==
  ASSUME NEW d, NEW w \in Watches, TableInv(d), NEW permanent \in BOOLEAN
  PROVE  TrueStep(w, d, RecordPollingFailure(d, w, permanent))
<1> DEFINE e == RecordPollingFailure(d, w, permanent)
<1>1. d \in [Watches -> Row] /\ d[w] \in Row
  BY DEF TableInv
<1>2. SoundStep(d, e)
  BY PollingFailureIsSound
<1>3. CASE ~permanent \/ d[w].state # "active"
  <2>1. e = RecordPollingFailure(d, w, FALSE) \/ e = d
    BY <1>3 DEF RecordPollingFailure
  <2> QED
    BY <2>1, BookkeepingCalls
<1>4. CASE permanent /\ d[w].state = "active"
  <2>1. e = [d EXCEPT ![w].state = "indeterminate", ![w].failures = @ + 1,
                      ![w].pollWaiting = FALSE, ![w].reason = "indexer_permanent_failure"]
    BY <1>4 DEF RecordPollingFailure
  <2>2. /\ e[w] = [d[w] EXCEPT !.state = "indeterminate", !.failures = @ + 1,
                               !.pollWaiting = FALSE, !.reason = "indexer_permanent_failure"]
        /\ \A v \in Watches \ {w} : e[v] = d[v]
    BY <1>1, <2>1
  <2>3. /\ e[w].state = "indeterminate" /\ KeepsTerms(d[w], e[w])
        /\ e[w].serviceTx = d[w].serviceTx /\ e[w].closing = d[w].closing
        /\ e[w].activationRound = d[w].activationRound
        /\ e[w].matchedRound = d[w].matchedRound
    BY <1>1, <2>2 DEF KeepsTerms, Row
  <2> QED
    BY <1>2, <1>4, <2>2, <2>3, GivingUpIsTrue
<1> QED
  BY <1>3, <1>4

(* A row is activated by a payment of its own that the chain confirms. *)
LEMMA ActivationIsTrue ==
  ASSUME WorldInv, NEW d, NEW w \in Watches, TableInv(d), NEW t \in Txs,
         d[w].tx = t, d[w].proof, Judged(d[w]), t \in Conforming, landed[t] > 0,
         landed[t] <= LastValid[t], ActivationAccepted(d, w, t)
  PROVE  TrueStep(w, d, ActivateWatch(d, w, t, landed[t]))
<1> DEFINE e == ActivateWatch(d, w, t, landed[t])
<1>1. d \in [Watches -> Row] /\ d[w] \in Row /\ RowInv(d[w])
  BY DEF TableInv
<1>2. landed[t] \in Nat /\ landed[t] <= Tip /\ Paid(t) /\ t # None
  BY ChainFacts, StoreAssumption DEF Paid
<1>3. SoundStep(d, e)
  BY <1>2, ActivateIsSound
<1>4. CASE ~Reconcilable(d[w])
  <2>1. e = d
    BY <1>4 DEF ActivateWatch
  <2> QED
    BY <2>1, BookkeepingCalls
<1>5. CASE Reconcilable(d[w])
  <2>1. e = [d EXCEPT ![w].state = "active", ![w].serviceTx = t,
                      ![w].servicePayer = PayerOf[t],
                      ![w].activationRound = landed[t], ![w].scanAfter = landed[t]]
    BY <1>5 DEF ActivateWatch
  <2>2. /\ e[w] = [d[w] EXCEPT !.state = "active", !.serviceTx = t, !.servicePayer = PayerOf[t],
                               !.activationRound = landed[t], !.scanAfter = landed[t]]
        /\ \A v \in Watches \ {w} : e[v] = d[v]
    BY <1>1, <2>1
  <2> HIDE DEF e
  <2>3. /\ e[w].state = "active" /\ KeepsTerms(d[w], e[w]) /\ e[w].serviceTx = t
        /\ e[w].activationRound = landed[t] /\ e[w].scanAfter = landed[t]
        /\ e[w].closing = d[w].closing /\ e[w].matchedRound = d[w].matchedRound
    <3> DEFINE old == d[w]
               new == e[w]
               payer == PayerOf[t]
               round == landed[t]
    <3>1. old \in Row
      BY <1>1
    <3>2. new = [old EXCEPT !.state = "active", !.serviceTx = t, !.servicePayer = payer,
                            !.activationRound = round, !.scanAfter = round]
      BY <2>2
    <3> HIDE DEF old, new, payer, round
    <3>3. /\ new.state = "active" /\ KeepsTerms(old, new) /\ new.serviceTx = t
          /\ new.activationRound = round /\ new.scanAfter = round
          /\ new.closing = old.closing /\ new.matchedRound = old.matchedRound
      BY <3>1, <3>2 DEF Row, KeepsTerms
    <3> QED
      BY <3>3 DEF old, new, payer, round
  <2>4. d[w].closing = None /\ d[w].state # "absent" /\ d[w].spec \in Specs
    BY <1>1, <1>5 DEF RowInv, Reconcilable, Settling, Judged
  <2>5. NoneEligible(e[w], 1, landed[t])
    BY <1>2, <2>3 DEF NoneEligible, Eligible
  <2>6. Judged(e[w])
    BY <1>2, <2>3, <2>4, <2>5 DEF Judged, KeepsTerms
  <2>7. PaidFor(e[w])
    BY <1>2, <2>3 DEF PaidFor, KeepsTerms, Rejected
  <2>8. PhaseOf(d[w]) = "reserved" /\ PhaseOf(e[w]) = "active"
    <3>1. RowInv(e[w])
      BY <1>3 DEF SoundStep, TableInv
    <3> QED
      BY <1>1, <1>5, <2>3, <3>1, Phases
  <2>9. Moves(d[w], e[w])
    BY <2>3, <2>8 DEF Moves, Concludes
  <2> QED
    BY <1>3, <2>2, <2>6, <2>7, <2>9 DEF TrueStep, e
<1> QED
  BY <1>4, <1>5

(* A row is rejected when its verified payment is hopeless. *)
LEMMA RejectionIsTrue ==
  ASSUME NEW d, NEW w \in Watches, TableInv(d), d[w].proof => Hopeless(d[w].tx)
  PROVE  TrueStep(w, d, MarkSettlementInvalid(d, w))
<1> DEFINE e == MarkSettlementInvalid(d, w)
<1>1. d \in [Watches -> Row] /\ d[w] \in Row /\ RowInv(d[w])
  BY DEF TableInv
<1>2. SoundStep(d, e)
  BY MarkInvalidIsSound
<1>3. CASE ~Settling(d[w])
  <2>1. e = d
    BY <1>3 DEF MarkSettlementInvalid
  <2> QED
    BY <2>1, BookkeepingCalls
<1>4. CASE Settling(d[w])
  <2>1. e = [d EXCEPT ![w].state = "settlement_unknown", ![w].terminal = TRUE]
    BY <1>4 DEF MarkSettlementInvalid
  <2>2. /\ e[w] = [d[w] EXCEPT !.state = "settlement_unknown", !.terminal = TRUE]
        /\ \A v \in Watches \ {w} : e[v] = d[v]
    BY <1>1, <2>1
  <2>3. /\ Rejected(e[w]) /\ e[w].state = "settlement_unknown" /\ KeepsTerms(d[w], e[w])
        /\ e[w].serviceTx = d[w].serviceTx /\ e[w].activationRound = d[w].activationRound
        /\ e[w].closing = d[w].closing /\ e[w].matchedRound = d[w].matchedRound
    BY <1>1, <2>2 DEF KeepsTerms, Row, Rejected
  <2> HIDE DEF e
  <2>4. d[w].closing = None /\ d[w].state # "absent"
    BY <1>1, <1>4 DEF RowInv, Settling
  <2>5. Judged(d[w]) => Judged(e[w])
    BY <2>3, <2>4 DEF Judged, KeepsTerms
  <2>6. PaidFor(d[w]) => PaidFor(e[w])
    BY <2>3 DEF PaidFor, KeepsTerms
  <2>7. PhaseOf(e[w]) = "rejected" /\ PhaseOf(d[w]) \in {"reserved", "rejected"}
    <3>1. RowInv(e[w])
      BY <1>2 DEF SoundStep, TableInv
    <3> QED
      BY <1>1, <1>4, <2>3, <3>1, Phases
  <2>8. Moves(d[w], e[w])
    BY <2>3, <2>7 DEF Moves, Concludes, AsBefore
  <2> QED
    BY <1>2, <2>2, <2>5, <2>6, <2>8 DEF TrueStep, e
<1> QED
  BY <1>3, <1>4

(* A row sold without an intent learns its payment. *)
LEMMA CandidateIsTrue ==
  ASSUME NEW d, NEW w \in Watches, TableInv(d), NEW t \in Txs, CandidateAccepted(d, w, t)
  PROVE  TrueStep(w, d, RecordSettlementCandidate(d, w, t))
<1> DEFINE e == RecordSettlementCandidate(d, w, t)
<1>1. d \in [Watches -> Row] /\ d[w] \in Row /\ RowInv(d[w])
  BY DEF TableInv
<1>2. SoundStep(d, e)
  BY CandidateIsSound
<1>3. CASE ~Reconcilable(d[w])
  <2>1. e = d
    BY <1>3 DEF RecordSettlementCandidate
  <2> QED
    BY <2>1, BookkeepingCalls
<1>4. CASE Reconcilable(d[w])
  <2>1. e = [d EXCEPT ![w].tx = Coalesce(@, t), ![w].payer = Coalesce(@, PayerOf[t])]
    BY <1>4 DEF RecordSettlementCandidate
  <2>2. /\ e[w] = [d[w] EXCEPT !.tx = Coalesce(@, t), !.payer = Coalesce(@, PayerOf[t])]
        /\ \A v \in Watches \ {w} : e[v] = d[v]
    BY <1>1, <2>1
  <2>3. /\ e[w].tx = t
        /\ e[w].state = d[w].state /\ e[w].terminal = d[w].terminal
        /\ e[w].spec = d[w].spec /\ e[w].proof = d[w].proof
        /\ e[w].expiresAt = d[w].expiresAt /\ e[w].serviceTx = d[w].serviceTx
        /\ e[w].activationRound = d[w].activationRound
        /\ e[w].closing = d[w].closing /\ e[w].matchedRound = d[w].matchedRound
    <3>1. Coalesce(d[w].tx, t) = t
      BY DEF CandidateAccepted, EvidenceMatches, Coalesce
    <3> QED
      BY <1>1, <2>2, <3>1 DEF Row
  <2> HIDE DEF e
  <2>4. /\ d[w].closing = None /\ d[w].state # "absent" /\ d[w].serviceTx = None
        /\ d[w].state \in {"settlement_pending", "settlement_unknown"}
    BY <1>1, <1>4 DEF RowInv, Reconcilable, Settling
  <2>5. Judged(d[w]) => Judged(e[w])
    BY <2>3, <2>4 DEF Judged
  <2>6. Reconcilable(e[w]) /\ ~Rejected(e[w])
    BY <1>4, <2>3 DEF Reconcilable, Settling, Rejected
  <2>7. PaidFor(d[w]) => PaidFor(e[w])
    BY <2>3, <2>4, <2>6 DEF PaidFor
  <2>8. PhaseOf(d[w]) = "reserved" /\ PhaseOf(e[w]) = "reserved"
    <3>1. RowInv(e[w])
      BY <1>2 DEF SoundStep, TableInv
    <3> QED
      BY <1>1, <1>4, <2>6, <3>1, Phases
  <2>9. d[w].tx = t \/ d[w].tx = None
    BY DEF CandidateAccepted, EvidenceMatches
  <2>10. Moves(d[w], e[w])
    BY <2>3, <2>8, <2>9 DEF Moves, Binds, AsBefore, KeepsTerms
  <2> QED
    BY <1>2, <2>2, <2>5, <2>7, <2>10 DEF TrueStep, e
<1> QED
  BY <1>3, <1>4

(* A new row claims nothing of the chain. *)
LEMMA AdmissionIsTrue ==
  ASSUME WorldInv, NEW d, NEW w \in Watches, TableInv(d), d[w].state = "absent",
         NEW k \in Keys, NEW s \in Specs, NEW t \in Opt(Txs),
         PrepareOutcome(d, w, k, s, t) = "created"
  PROVE  TrueStep(w, d, PrepareWatch(d, w, k, s, t, now + TTL))
<1> DEFINE e == PrepareWatch(d, w, k, s, t, now + TTL)
<1>1. d \in [Watches -> Row] /\ d[w] \in Row /\ RowInv(d[w])
  BY DEF TableInv
<1>2. now + TTL \in Nat
  BY ChainFacts, LedgerAssumption
<1>3. SoundStep(d, e)
  BY <1>2, PrepareIsSound
<1>4. \A v \in Watches \ {w} : e[v] = d[v]
  BY <1>1 DEF PrepareWatch
<1>5. /\ e[w].state = "settlement_pending" /\ ~e[w].terminal
      /\ e[w].spec = s /\ e[w].tx = t /\ e[w].proof = (t # None)
      /\ e[w].expiresAt = now + TTL /\ e[w].serviceTx = None
      /\ e[w].activationRound = None /\ e[w].matchedRound = None /\ e[w].closing = None
  BY <1>1 DEF PrepareWatch, NoRow
<1> HIDE DEF e
<1>6. Judged(e[w])
  BY <1>5 DEF Judged
<1>7. PaidFor(e[w])
  BY <1>5 DEF PaidFor, Rejected, Opt
<1>8. PhaseOf(d[w]) = "none" /\ PhaseOf(e[w]) = "reserved"
  <2>1. RowInv(e[w]) /\ Reconcilable(e[w])
    BY <1>3, <1>5 DEF SoundStep, TableInv, Reconcilable, Settling
  <2> QED
    BY <1>1, <2>1, Phases
<1>9. Moves(d[w], e[w])
  BY <1>5, <1>8 DEF Moves, Admits
<1> QED
  BY <1>3, <1>4, <1>6, <1>7, <1>9 DEF TrueStep, e

(* A change of the scan alone: the cursor, the checkpoint or the outcome.   *)
Scans(old, new) ==
    /\ KeepsTerms(old, new)
    /\ new.serviceTx = old.serviceTx /\ new.activationRound = old.activationRound
    /\ new.terminal = old.terminal

(* It leaves the payment that the row was activated by in place.            *)
LEMMA ScanIsPaid ==
  ASSUME NEW old, NEW new, Scans(old, new), old.state = "active", RowInv(old),
         new.state \in {"active", "matched", "expired"}
  PROVE  PaidFor(old) => PaidFor(new)
BY DEF PaidFor, Scans, KeepsTerms, Rejected

(* The cursor moves over rounds that were scanned. *)
LEMMA AdvanceIsTrue ==
  ASSUME WorldInv, NEW d, NEW w \in Watches, TableInv(d), NEW expected \in Nat, NEW round \in Nat,
         round <= Tip, NoneEligible(d[w], expected + 1, round)
  PROVE  LET e == AdvanceScanRound(d, w, expected, round)
         IN  TrueStep(w, d, e) /\ AsBefore(d[w], e[w])
<1> DEFINE e == AdvanceScanRound(d, w, expected, round)
<1>1. d \in [Watches -> Row] /\ d[w] \in Row /\ RowInv(d[w])
  BY DEF TableInv
<1>2. SoundStep(d, e)
  BY AdvanceIsSound
<1>3. CASE ~CanAdvance(d[w], expected, round)
  <2>1. e = d
    BY <1>3 DEF AdvanceScanRound
  <2> QED
    BY <2>1, BookkeepingCalls
<1>4. CASE CanAdvance(d[w], expected, round)
  <2>1. e = [d EXCEPT ![w].scanAfter = round]
    BY <1>4 DEF AdvanceScanRound
  <2>2. e[w] = [d[w] EXCEPT !.scanAfter = round] /\ \A v \in Watches \ {w} : e[v] = d[v]
    BY <1>1, <2>1
  <2>3. /\ Scans(d[w], e[w]) /\ e[w].state = d[w].state /\ e[w].scanAfter = round
        /\ e[w].closing = d[w].closing /\ e[w].matchedRound = d[w].matchedRound
    BY <1>1, <2>2 DEF Scans, KeepsTerms, Row
  <2> HIDE DEF e
  <2>4. d[w].state = "active" /\ d[w].scanAfter = expected
    BY <1>4 DEF CanAdvance
  <2>5. ASSUME Judged(d[w]) PROVE Judged(e[w])
    <3>1. \A r : /\ Eligible(d[w], r) <=> Eligible(e[w], r)
                 /\ PastDeadlineAt(d[w], r) <=> PastDeadlineAt(e[w], r)
      BY <2>3, SameWindow DEF Scans, KeepsTerms
    <3>2. \A r \in 1..round : r \in 1..expected \/ r \in (expected + 1)..round
      OBVIOUS
    <3>3. NoneEligible(d[w], 1, round)
      BY <2>4, <2>5, <3>2 DEF Judged, NoneEligible
    <3> QED
      BY <2>3, <2>4, <2>5, <3>1, <3>3 DEF Judged, NoneEligible, Scans, KeepsTerms
  <2>6. AsBefore(d[w], e[w])
    <3>1. PhaseOf(d[w]) = "active" /\ PhaseOf(e[w]) = "active"
      BY <1>1, <1>2, <2>3, <2>4, Phases DEF SoundStep, TableInv
    <3> QED
      BY <2>3, <3>1 DEF AsBefore, Scans
  <2>7. PaidFor(d[w]) => PaidFor(e[w])
    BY <1>1, <2>3, <2>4, ScanIsPaid
  <2>8. TrueStep(w, d, e)
    BY <1>2, <2>2, <2>5, <2>6, <2>7 DEF TrueStep, Moves
  <2> QED
    BY <2>6, <2>8 DEF e
<1> QED
  BY <1>3, <1>4

(* The closing round is a block past the deadline. *)
LEMMA ClosingIsTrue ==
  ASSUME WorldInv, NEW d, NEW w \in Watches, TableInv(d), NEW round \in 1..Tip,
         PastDeadlineAt(d[w], round)
  PROVE  LET e == SetClosingRound(d, w, round)
         IN  /\ TrueStep(w, d, e) /\ AsBefore(d[w], e[w])
             /\ e[w].scanAfter = d[w].scanAfter
<1> DEFINE e == SetClosingRound(d, w, round)
<1>1. d \in [Watches -> Row] /\ d[w] \in Row /\ RowInv(d[w])
  BY DEF TableInv
<1>2. SoundStep(d, e)
  BY ChainFacts, SetClosingIsSound
<1>3. CASE ~(d[w].state = "active" /\ d[w].proof)
  <2>1. e = d
    BY <1>3 DEF SetClosingRound
  <2> QED
    BY <2>1, BookkeepingCalls
<1>4. CASE d[w].state = "active" /\ d[w].proof
  <2>1. e = [d EXCEPT ![w].closing = Coalesce(@, round)]
    BY <1>4 DEF SetClosingRound
  <2>2. /\ e[w] = [d[w] EXCEPT !.closing = Coalesce(@, round)]
        /\ \A v \in Watches \ {w} : e[v] = d[v]
    BY <1>1, <2>1
  <2>3. /\ Scans(d[w], e[w]) /\ e[w].state = d[w].state /\ e[w].scanAfter = d[w].scanAfter
        /\ e[w].closing = Coalesce(d[w].closing, round)
        /\ e[w].matchedRound = d[w].matchedRound
    BY <1>1, <2>2 DEF Scans, KeepsTerms, Row
  <2> HIDE DEF e
  <2>5. ASSUME Judged(d[w]) PROVE Judged(e[w])
    <3>1. \A r : /\ Eligible(d[w], r) <=> Eligible(e[w], r)
                 /\ PastDeadlineAt(d[w], r) <=> PastDeadlineAt(e[w], r)
      BY <2>3, SameWindow DEF Scans, KeepsTerms
    <3>2. CASE d[w].closing = None
      <4>1. e[w].closing = round /\ PastDeadlineAt(e[w], round)
        BY <2>3, <3>1, <3>2 DEF Coalesce
      <4> QED
        BY <1>4, <2>3, <2>5, <3>1, <4>1 DEF Judged, NoneEligible, Scans, KeepsTerms
    <3>3. CASE d[w].closing # None
      <4>1. e[w].closing = d[w].closing
        BY <2>3, <3>3 DEF Coalesce
      <4> QED
        BY <1>4, <2>3, <2>5, <3>1, <4>1 DEF Judged, NoneEligible, Scans, KeepsTerms
    <3> QED
      BY <3>2, <3>3
  <2>6. AsBefore(d[w], e[w])
    <3>1. PhaseOf(d[w]) = "active" /\ PhaseOf(e[w]) = "active"
      BY <1>1, <1>2, <1>4, <2>3, Phases DEF SoundStep, TableInv
    <3> QED
      BY <2>3, <3>1 DEF AsBefore, Scans
  <2>7. PaidFor(d[w]) => PaidFor(e[w])
    BY <1>1, <1>4, <2>3, ScanIsPaid
  <2>8. TrueStep(w, d, e)
    BY <1>2, <2>2, <2>5, <2>6, <2>7 DEF TrueStep, Moves
  <2> QED
    BY <2>3, <2>6, <2>8 DEF e
<1> QED
  BY <1>3, <1>4

(* A match is eligible, and nothing is that lies a window before it. *)
LEMMA MatchIsTrue ==
  ASSUME WorldInv, NEW d, NEW w \in Watches, TableInv(d), NEW round \in 1..Tip,
         d[w].state = "active" =>
            Eligible(d[w], round) /\ NoneEligible(d[w], 1, round - RoundWindow)
  PROVE  TrueStep(w, d, MarkMatched(d, w, round))
<1> DEFINE e == MarkMatched(d, w, round)
<1>1. d \in [Watches -> Row] /\ d[w] \in Row /\ RowInv(d[w])
  BY DEF TableInv
<1>2. SoundStep(d, e)
  BY ChainFacts, MatchedIsSound
<1>3. CASE d[w].state # "active"
  <2>1. e = d
    BY <1>3 DEF MarkMatched
  <2> QED
    BY <2>1, BookkeepingCalls
<1>4. CASE d[w].state = "active"
  <2>1. e = [d EXCEPT ![w].state = "matched", ![w].matchedRound = round]
    BY <1>4 DEF MarkMatched
  <2>2. /\ e[w] = [d[w] EXCEPT !.state = "matched", !.matchedRound = round]
        /\ \A v \in Watches \ {w} : e[v] = d[v]
    BY <1>1, <2>1
  <2>3. /\ Scans(d[w], e[w]) /\ e[w].state = "matched"
        /\ e[w].closing = d[w].closing /\ e[w].matchedRound = round
    BY <1>1, <2>2 DEF Scans, KeepsTerms, Row
  <2> HIDE DEF e
  <2>4. \A r : /\ Eligible(d[w], r) <=> Eligible(e[w], r)
               /\ PastDeadlineAt(d[w], r) <=> PastDeadlineAt(e[w], r)
    BY <2>3, SameWindow DEF Scans, KeepsTerms
  <2>5. Judged(d[w]) => Judged(e[w])
    BY <1>4, <2>3, <2>4 DEF Judged, NoneEligible, Scans, KeepsTerms
  <2>6. PhaseOf(d[w]) = "active" /\ PhaseOf(e[w]) = "matched"
    BY <1>1, <1>2, <1>4, <2>3, Phases DEF SoundStep, TableInv
  <2>7. PaidFor(d[w]) => PaidFor(e[w])
    BY <1>1, <1>4, <2>3, ScanIsPaid
  <2>8. Moves(d[w], e[w])
    BY <2>3, <2>6 DEF Moves, Concludes, Scans
  <2> QED
    BY <1>2, <2>2, <2>5, <2>7, <2>8 DEF TrueStep, e
<1> QED
  BY <1>3, <1>4

(* A watch expires with what the scan already said of it. *)
LEMMA ExpiryIsTrue ==
  ASSUME NEW d, NEW w \in Watches, TableInv(d), NEW scan \in Nat, NEW closing \in Nat
  PROVE  TrueStep(w, d, MarkExpired(d, w, scan, closing))
<1> DEFINE e == MarkExpired(d, w, scan, closing)
<1>1. d \in [Watches -> Row] /\ d[w] \in Row /\ RowInv(d[w])
  BY DEF TableInv
<1>2. SoundStep(d, e)
  BY ExpiredIsSound
<1>3. CASE e = d
  BY <1>3, BookkeepingCalls
<1>4. CASE e # d
  <2>1. e = [d EXCEPT ![w].state = "expired"] /\ d[w].state = "active"
    BY <1>4 DEF MarkExpired
  <2>2. /\ e[w] = [d[w] EXCEPT !.state = "expired"]
        /\ \A v \in Watches \ {w} : e[v] = d[v]
    BY <1>1, <2>1
  <2>3. /\ Scans(d[w], e[w]) /\ e[w].state = "expired" /\ e[w].scanAfter = d[w].scanAfter
        /\ e[w].closing = d[w].closing /\ e[w].matchedRound = d[w].matchedRound
    BY <1>1, <2>2 DEF Scans, KeepsTerms, Row
  <2> HIDE DEF e
  <2>4. \A r : /\ Eligible(d[w], r) <=> Eligible(e[w], r)
               /\ PastDeadlineAt(d[w], r) <=> PastDeadlineAt(e[w], r)
    BY <2>3, SameWindow DEF Scans, KeepsTerms
  <2>5. Judged(d[w]) => Judged(e[w])
    BY <2>1, <2>3, <2>4 DEF Judged, NoneEligible, Scans, KeepsTerms
  <2>6. PhaseOf(d[w]) = "active" /\ PhaseOf(e[w]) = "expired"
    BY <1>1, <1>2, <2>1, <2>3, Phases DEF SoundStep, TableInv
  <2>7. PaidFor(d[w]) => PaidFor(e[w])
    BY <1>1, <2>1, <2>3, ScanIsPaid
  <2>8. Moves(d[w], e[w])
    BY <2>3, <2>6 DEF Moves, Concludes, Scans
  <2> QED
    BY <1>2, <2>2, <2>5, <2>7, <2>8 DEF TrueStep, e
<1> QED
  BY <1>3, <1>4

-----------------------------------------------------------------------------
(***************************************************************************)
(* What callback and reconciler do with a confirmed transfer.              *)
(***************************************************************************)

(* A transfer that does not match the terms will not pay for the watch.    *)
LEMMA MismatchIsHopeless ==
  ASSUME WorldInv, NEW row, NEW t \in Txs, row.proof => row.tx = t, landed[t] > 0,
         ~TermsMatch(row, t)
  PROVE  row.proof => Hopeless(row.tx)
BY ChainFacts DEF TermsMatch, Hopeless, Paid

(* onAfterSettle: the watch is activated by its payment, or rejected. *)
LEMMA CallbackIsTrue ==
  ASSUME WorldInv, NEW d, NEW w \in Watches, TableInv(d), Judged(d[w]), NEW t \in Txs,
         landed[t] > 0, d[w].proof => d[w].tx = t
  PROVE  TrueStep(w, d, ApplyActivation(d, w, t))
<1>1. CASE ~TermsMatch(d[w], t)
  BY <1>1, MismatchIsHopeless, RejectionIsTrue DEF ApplyActivation
<1>2. CASE TermsMatch(d[w], t) /\ ActivationAccepted(d, w, t)
  <2>1. TrueStep(w, d, ActivateWatch(d, w, t, landed[t]))
    BY <1>2, ActivationIsTrue DEF TermsMatch
  <2> QED
    BY <1>2, <2>1 DEF ApplyActivation
<1>3. CASE TermsMatch(d[w], t) /\ ~ActivationAccepted(d, w, t)
  <2>1. ApplyActivation(d, w, t) = d
    BY <1>3 DEF ApplyActivation
  <2> QED
    BY <2>1, BookkeepingCalls
<1> QED
  BY <1>1, <1>2, <1>3

(* applyConfirmed: the same, and a refused activation is deferred. *)
LEMMA ConfirmedIsTrue ==
  ASSUME WorldInv, NEW d, NEW w \in Watches, TableInv(d), Judged(d[w]), d[w].tx \in Txs,
         landed[d[w].tx] > 0
  PROVE  TrueStep(w, d, ApplyConfirmed(d, w))
<1> DEFINE t == d[w].tx
<1>1. CASE ~TermsMatch(d[w], t)
  <2>1. TrueStep(w, d, MarkSettlementInvalid(d, w))
    BY <1>1, MismatchIsHopeless, RejectionIsTrue
  <2> QED
    BY <1>1, <2>1 DEF ApplyConfirmed
<1>2. CASE TermsMatch(d[w], t) /\ ActivationAccepted(d, w, t)
  <2>1. TrueStep(w, d, ActivateWatch(d, w, t, landed[t]))
    BY <1>2, ActivationIsTrue DEF TermsMatch
  <2> QED
    BY <1>2, <2>1 DEF ApplyConfirmed
<1>3. CASE TermsMatch(d[w], t) /\ ~ActivationAccepted(d, w, t)
  <2>1. ApplyConfirmed(d, w) = RecordReconciliationFailure(d, w)
    BY <1>3 DEF ApplyConfirmed
  <2> QED
    BY <2>1, BookkeepingCalls
<1> QED
  BY <1>1, <1>2, <1>3

-----------------------------------------------------------------------------
(***************************************************************************)
(* What the table means to the memory of the three actors: they rely on    *)
(* rows only progressing, whoever called the store.                        *)
(***************************************************************************)
DbStep == db' = db \/ \E w \in Watches : TrueStep(w, db, db')

RowsProgress == \A w \in Watches : Progresses(db[w], db'[w])

(* What a row says depends on the ledger alone. *)
LEMMA SameLedger ==
  ASSUME UNCHANGED ledgerVars
  PROVE  /\ \A row : (Judged(row)' <=> Judged(row)) /\ (PaidFor(row)' <=> PaidFor(row))
         /\ WorldInv' <=> WorldInv
         /\ Tip' = Tip
<1> USE DEF ledgerVars
<1>1. Tip' = Tip
  BY DEF Tip
<1>2. /\ \A row, r : Eligible(row, r)' <=> Eligible(row, r)
      /\ \A row, r : PastDeadlineAt(row, r)' <=> PastDeadlineAt(row, r)
      /\ \A t : Paid(t)' <=> Paid(t)
  BY DEF Eligible, PastDeadlineAt, Paid
<1>3. \A row : Judged(row)' <=> Judged(row)
  BY <1>1, <1>2 DEF Judged, NoneEligible
<1>4. \A row : PaidFor(row)' <=> PaidFor(row)
  BY <1>1, <1>2 DEF PaidFor, Rejected, Hopeless
<1>5. WorldInv' <=> WorldInv
  BY <1>1 DEF WorldInv, LedgerTypeOK, TimeIsMonotone
<1> QED
  BY <1>1, <1>3, <1>4, <1>5

(* A call keeps the table sound and true, and rows only progress. *)
LEMMA DbStepKeeps ==
  ASSUME TableInv(db), DbStep
  PROVE  /\ TableInv(db') /\ RowsProgress
         /\ \A w \in Watches : Judged(db[w]) => Judged(db'[w])
         /\ \A w \in Watches : PaidFor(db[w]) => PaidFor(db'[w])
<1>1. CASE db' = db
  BY <1>1, StutterIsSound DEF SoundStep, RowsProgress
<1>2. ASSUME NEW w \in Watches, TrueStep(w, db, db')
      PROVE  /\ TableInv(db') /\ RowsProgress
             /\ \A v \in Watches : Judged(db[v]) => Judged(db'[v])
             /\ \A v \in Watches : PaidFor(db[v]) => PaidFor(db'[v])
  BY <1>2 DEF TrueStep, SoundStep, RowsProgress
<1> QED
  BY <1>1, <1>2 DEF DbStep

(* The terms and the payment of an inserted row are there to stay. *)
LEMMA InsertedStays ==
  ASSUME TableInv(db), RowsProgress, NEW w \in Watches
  PROVE  /\ db[w].state # "absent" =>
              /\ db'[w].state # "absent" /\ db'[w].key = db[w].key /\ db'[w].spec = db[w].spec
              /\ db'[w].proof = db[w].proof /\ db'[w].expiresAt = db[w].expiresAt
         /\ db[w].tx # None => db'[w].tx = db[w].tx
         /\ db[w].payer # None => db'[w].payer = db[w].payer
         /\ db[w].serviceTx # None =>
              /\ db[w].state # "absent" /\ db'[w].serviceTx = db[w].serviceTx
              /\ db'[w].activationRound = db[w].activationRound
         /\ db[w].proof => db[w].state # "absent"
BY DEF RowsProgress, Progresses, TableInv, RowInv

-----------------------------------------------------------------------------
(***************************************************************************)
(* Purchases.                                                              *)
(***************************************************************************)
Refusals == {"legacy_conflict", "idempotency_conflict", "replay", "global_capacity",
             "payer_capacity", "constraint"}

Request == [pc     : {"idle", "settle", "settling", "lookup", "respond", "done"},
            watch  : Opt(Watches),
            key    : Opt(Keys),
            tx     : Opt(Txs),
            answer : Opt({"purchased", "unconfirmed", "error", "lost"} \cup Refusals)]

(* A request holds a row of its own, sold under its key and, with an       *)
(* intent, for its payment and payer.                                      *)
RequestInv(q) ==
    /\ req[q].pc = "idle" => req[q] = NewRequest
    /\ req[q].pc # "idle" => req[q].tx \in Txs
    /\ req[q].pc \in {"settle", "settling", "lookup", "respond"} => req[q].watch # None
    /\ req[q].watch # None =>
         /\ db[req[q].watch].state # "absent"
         /\ db[req[q].watch].key = req[q].key
         /\ db[req[q].watch].proof =>
              /\ db[req[q].watch].tx = req[q].tx
              /\ db[req[q].watch].payer = PayerOf[req[q].tx]
         /\ RequireSettlementIntent => db[req[q].watch].proof
    /\ req[q].answer = "purchased" => req[q].watch # None /\ Activated(db[req[q].watch])

WatchesUnshared ==
    \A p, q \in Requests : p # q /\ req[p].watch # None => req[p].watch # req[q].watch

PurchaseInv ==
    /\ req \in [Requests -> Request]
    /\ \A q \in Requests : RequestInv(q)
    /\ WatchesUnshared
    /\ EveryPaymentIsReserved

(* A request that goes on keeps what it was made with. *)
Follows(q) ==
    \/ req'[q] = req[q]
    \/ /\ req[q].pc # "idle" /\ req'[q].pc # "idle"
       /\ req[q].watch # None
       /\ req'[q].watch = req[q].watch /\ req'[q].key = req[q].key /\ req'[q].tx = req[q].tx
       /\ req'[q].answer = "purchased" => Activated(db'[req[q].watch])

(* What EveryPaymentIsReserved says of one payment. *)
Recorded(t) ==
    \/ \E w \in Watches : db[w].tx = t
    \/ /\ ~RequireSettlementIntent
       /\ \E q \in Requests : req[q].tx = t /\ ~Reserved(q)

(* A payment stays recorded while its request and the rows stay. *)
LEMMA RecordsStay ==
  ASSUME PurchaseInv, TableInv(db), RowsProgress, submitted \subseteq Txs,
         \A q \in Requests : req[q].pc # "idle" =>
            req'[q].tx = req[q].tx /\ req'[q].watch = req[q].watch
  PROVE  \A t \in submitted : Recorded(t)'
<1> SUFFICES ASSUME NEW t \in submitted
             PROVE  \/ \E w \in Watches : db'[w].tx = t
                    \/ /\ ~RequireSettlementIntent
                       /\ \E q \in Requests : req'[q].tx = t /\ ~Reserved(q)'
  BY DEF Recorded
<1>1. t \in Txs /\ t # None
  BY StoreAssumption
<1>2. CASE \E w \in Watches : db[w].tx = t
  BY <1>1, <1>2, InsertedStays
<1>3. ASSUME ~RequireSettlementIntent, NEW q \in Requests, req[q].tx = t, ~Reserved(q)
      PROVE  req'[q].tx = t /\ ~Reserved(q)'
  <2>1. req[q].pc # "idle" /\ req[q] \in Request /\ RequestInv(q)
    BY <1>1, <1>3 DEF PurchaseInv, RequestInv, NewRequest
  <2>2. req'[q].tx = t /\ req'[q].watch = req[q].watch
    BY <1>3, <2>1
  <2>3. req[q].watch # None => db'[req[q].watch].proof = db[req[q].watch].proof
    BY <2>1, InsertedStays DEF RequestInv, Request, Opt
  <2> QED
    BY <1>3, <2>2, <2>3 DEF Reserved
<1> QED
  BY <1>2, <1>3 DEF PurchaseInv, EveryPaymentIsReserved

(* What one request relies on stays, whoever changes the table. *)
LEMMA RequestStays ==
  ASSUME TableInv(db), RowsProgress, NEW q \in Requests, req[q] \in Request, RequestInv(q),
         Follows(q)
  PROVE  RequestInv(q)'
<1>1. CASE req[q].watch = None
  BY <1>1 DEF RequestInv, Follows, NewRequest
<1>2. CASE req[q].watch # None
  <2> DEFINE w == req[q].watch
  <2>1. w \in Watches /\ req'[q].watch = w /\ req'[q].key = req[q].key /\ req'[q].tx = req[q].tx
    BY <1>2 DEF Request, Opt, Follows
  <2>2. req[q].pc # "idle" /\ req'[q].pc # "idle" /\ req[q].tx \in Txs
    BY <1>2 DEF RequestInv, NewRequest, Follows
  <2>3. req[q].tx # None /\ PayerOf[req[q].tx] # None
    BY <2>2, StoreAssumption
  <2>4. /\ db[w].state # "absent" /\ db[w].key = req[q].key
        /\ db[w].proof => db[w].tx = req[q].tx /\ db[w].payer = PayerOf[req[q].tx]
        /\ RequireSettlementIntent => db[w].proof
    BY <1>2 DEF RequestInv
  <2>5. /\ db'[w].state # "absent" /\ db'[w].key = req[q].key
        /\ db'[w].proof => db'[w].tx = req[q].tx /\ db'[w].payer = PayerOf[req[q].tx]
        /\ RequireSettlementIntent => db'[w].proof
    BY <2>1, <2>3, <2>4, InsertedStays
  <2>6. req'[q].answer = "purchased" => Activated(db'[w])
    BY <2>1, InsertedStays DEF RequestInv, Follows, Activated
  <2> QED
    BY <1>2, <2>1, <2>2, <2>5, <2>6 DEF RequestInv
<1> QED
  BY <1>1, <1>2

(* Whatever else happens, purchases keep their invariant. *)
LEMMA PurchasesStay ==
  ASSUME PurchaseInv, TableInv(db), RowsProgress, submitted \subseteq Txs, UNCHANGED submitted,
         req' \in [Requests -> Request], \A q \in Requests : Follows(q)
  PROVE  PurchaseInv'
<1>1. \A q \in Requests : RequestInv(q)'
  BY RequestStays DEF PurchaseInv
<1>2. \A q \in Requests : req'[q].watch = req[q].watch /\ req'[q].tx = req[q].tx
  BY DEF Follows
<1>3. WatchesUnshared'
  BY <1>2 DEF PurchaseInv, WatchesUnshared
<1>4. EveryPaymentIsReserved'
  BY <1>2, RecordsStay DEF EveryPaymentIsReserved, Recorded
<1> QED
  BY <1>1, <1>3, <1>4 DEF PurchaseInv

(* What holds of the chain and the table between any two steps. *)
CoreInv ==
    /\ WorldInv
    /\ TableInv(db)
    /\ \A w \in Watches : Judged(db[w]) /\ PaidFor(db[w])

(* One request goes on, the others wait. *)
LEMMA OneGoesOn ==
  ASSUME PurchaseInv, NEW q \in Requests, req[q].pc # "idle", req[q].watch # None,
         NEW new \in Request, req' = [req EXCEPT ![q] = new], new.pc # "idle",
         new.watch = req[q].watch, new.key = req[q].key, new.tx = req[q].tx,
         new.answer = "purchased" => Activated(db'[req[q].watch])
  PROVE  req' \in [Requests -> Request] /\ \A p \in Requests : Follows(p)
<1>1. req \in [Requests -> Request]
  BY DEF PurchaseInv
<1>2. req'[q] = new /\ \A p \in Requests \ {q} : req'[p] = req[p]
  BY <1>1
<1> QED
  BY <1>1, <1>2 DEF Follows

(* The row of a request that is under way. *)
LEMMA RequestRow ==
  ASSUME CoreInv, PurchaseInv, NEW q \in Requests,
         req[q].pc \in {"settle", "settling", "lookup", "respond"}
  PROVE  /\ req[q] \in Request /\ req[q].pc # "idle" /\ req[q].watch # None
         /\ req[q].watch \in Watches /\ req[q].tx \in Txs
         /\ db[req[q].watch].state # "absent"
         /\ db[req[q].watch].proof => db[req[q].watch].tx = req[q].tx
         /\ TableInv(db) /\ WorldInv /\ submitted \subseteq Txs
BY ChainFacts DEF CoreInv, PurchaseInv, RequestInv, Request, Opt

(* onSettleFailure keeps the books. *)
LEMMA SettleFailedKeeps ==
  ASSUME CoreInv, PurchaseInv, NEW q \in Requests, SettleFailed(q)
  PROVE  DbStep /\ PurchaseInv'
<1>1. req[q].pc \in {"settle", "settling"}
  BY DEF SettleFailed
<1> USE <1>1, RequestRow
<1>2. DbStep
  BY BookkeepingCalls DEF SettleFailed, DbStep
<1> DEFINE new == [req[q] EXCEPT !.pc = "done", !.answer = "error"]
<1>3. req' = [req EXCEPT ![q] = new] /\ submitted' = submitted
  BY DEF SettleFailed, ledgerVars, PurchaseInv
<1>4. /\ new \in Request /\ new.pc = "done" /\ new.answer = "error"
      /\ new.watch = req[q].watch /\ new.key = req[q].key /\ new.tx = req[q].tx
  BY DEF Request, Opt
<1> HIDE DEF new
<1>5. "error" # "purchased"
  OBVIOUS
<1>6. req' \in [Requests -> Request] /\ \A p \in Requests : Follows(p)
  BY <1>3, <1>4, <1>5, OneGoesOn
<1> QED
  BY <1>2, <1>3, <1>6, PurchasesStay, DbStepKeeps

(* onAfterSettle, first half. *)
LEMMA SettledKeeps ==
  ASSUME CoreInv, PurchaseInv, NEW q \in Requests, Settled(q)
  PROVE  DbStep /\ PurchaseInv'
<1>1. req[q].pc = "settling"
  BY DEF Settled
<1> USE <1>1, RequestRow
<1>2. DbStep
  BY CandidateIsTrue DEF Settled, DbStep
<1>3. PICK new \in {[req[q] EXCEPT !.pc = "lookup"], [req[q] EXCEPT !.pc = "respond"],
                    [req[q] EXCEPT !.pc = "done", !.answer = "error"]} :
        req' = [req EXCEPT ![q] = new]
  BY DEF Settled, PurchaseInv
<1>4. submitted' = submitted
  BY DEF Settled, ledgerVars
<1>5. /\ new \in Request /\ new.pc # "idle"
      /\ new.answer = req[q].answer \/ new.answer = "error"
      /\ new.watch = req[q].watch /\ new.key = req[q].key /\ new.tx = req[q].tx
  BY DEF Request, Opt
<1>6. new.answer = "purchased" => Activated(db'[req[q].watch])
  <2>1. req[q].answer = "purchased" => Activated(db[req[q].watch])
    BY DEF PurchaseInv, RequestInv
  <2> QED
    BY <1>2, <1>5, <2>1, DbStepKeeps, InsertedStays DEF Activated
<1>7. req' \in [Requests -> Request] /\ \A p \in Requests : Follows(p)
  BY <1>3, <1>5, <1>6, OneGoesOn
<1> QED
  BY <1>2, <1>4, <1>7, PurchasesStay, DbStepKeeps

(* onAfterSettle, second half. *)
LEMMA ActivationLookupKeeps ==
  ASSUME CoreInv, PurchaseInv, NEW q \in Requests, ActivationLookup(q)
  PROVE  DbStep /\ PurchaseInv'
<1>1. req[q].pc = "lookup"
  BY DEF ActivationLookup
<1> USE <1>1, RequestRow
<1>2. DbStep
  <2>1. CASE UNCHANGED db
    BY <2>1 DEF DbStep
  <2>2. ASSUME NEW view \in Views, Confirmed(req[q].tx, view),
               db' = ApplyActivation(db, req[q].watch, req[q].tx)
        PROVE  DbStep
    <3>1. landed[req[q].tx] > 0
      BY <2>2, ChainFacts DEF Confirmed, Views
    <3>2. Judged(db[req[q].watch])
      BY DEF CoreInv
    <3> QED
      BY <2>2, <3>1, <3>2, CallbackIsTrue DEF DbStep
  <2> QED
    BY <2>1, <2>2 DEF ActivationLookup
<1> DEFINE new == [req[q] EXCEPT !.pc = "respond"]
<1>3. req' = [req EXCEPT ![q] = new] /\ submitted' = submitted
  BY DEF ActivationLookup, ledgerVars, PurchaseInv
<1>4. /\ new \in Request /\ new.pc = "respond" /\ new.answer = req[q].answer
      /\ new.watch = req[q].watch /\ new.key = req[q].key /\ new.tx = req[q].tx
  BY DEF Request, Opt
<1> HIDE DEF new
<1>5. new.answer = "purchased" => Activated(db'[req[q].watch])
  <2>1. req[q].answer = "purchased" => Activated(db[req[q].watch])
    BY DEF PurchaseInv, RequestInv
  <2> QED
    BY <1>2, <1>4, <2>1, DbStepKeeps, InsertedStays DEF Activated
<1>6. req' \in [Requests -> Request] /\ \A p \in Requests : Follows(p)
  BY <1>3, <1>4, <1>5, OneGoesOn
<1> QED
  BY <1>2, <1>3, <1>6, PurchasesStay, DbStepKeeps

(* The response guard: success only names an activated watch. *)
LEMMA RespondKeeps ==
  ASSUME CoreInv, PurchaseInv, NEW q \in Requests, Respond(q)
  PROVE  DbStep /\ PurchaseInv'
<1>1. req[q].pc = "respond" /\ db' = db
  BY DEF Respond
<1> USE <1>1, RequestRow
<1>2. DbStep
  BY DEF DbStep
<1> DEFINE answer == IF db[req[q].watch].state \in {"active", "matched"}
                     THEN "purchased" ELSE "unconfirmed"
           new == [req[q] EXCEPT !.pc = "done", !.answer = answer]
<1>3. req' = [req EXCEPT ![q] = new] /\ submitted' = submitted
  BY DEF Respond, ledgerVars, PurchaseInv
<1>4. answer = "purchased" => Activated(db'[req[q].watch])
  BY DEF Activated, TableInv, RowInv
<1>5. answer \in {"purchased", "unconfirmed"}
  OBVIOUS
<1> HIDE DEF answer
<1>6. /\ new \in Request /\ new.pc = "done" /\ new.answer = answer
      /\ new.watch = req[q].watch /\ new.key = req[q].key /\ new.tx = req[q].tx
  BY <1>5 DEF Request, Opt
<1> HIDE DEF new
<1>7. req' \in [Requests -> Request] /\ \A p \in Requests : Follows(p)
  BY <1>3, <1>4, <1>6, OneGoesOn
<1> QED
  BY <1>2, <1>3, <1>7, PurchasesStay, DbStepKeeps

(* x402 asks for the settlement of a payment a row expects. *)
LEMMA SettleCallKeeps ==
  ASSUME CoreInv, PurchaseInv, NEW q \in Requests, SettleCall(q)
  PROVE  CoreInv' /\ PurchaseInv'
<1>1. /\ req[q].pc = "settle" /\ req' = [req EXCEPT ![q].pc = "settling"]
      /\ db' = db /\ submitted' = submitted \cup {req[q].tx}
      /\ blocks' = blocks /\ landed' = landed /\ now' = now
  BY DEF SettleCall
<1> USE <1>1, RequestRow
<1>2. CoreInv'
  <2>1. WorldInv'
    BY DEF WorldInv, LedgerTypeOK, TimeIsMonotone, Tip
  <2>2. \A row : (Judged(row)' <=> Judged(row)) /\ (PaidFor(row)' <=> PaidFor(row))
    BY DEF Judged, PaidFor, NoneEligible, Eligible, PastDeadlineAt, Rejected, Hopeless, Paid, Tip
  <2> QED
    BY <2>1, <2>2 DEF CoreInv
<1>3. RowsProgress
  BY StutterIsSound DEF RowsProgress, SoundStep
<1>4. /\ req'[q] \in Request /\ req'[q].pc = "settling" /\ req'[q].answer = req[q].answer
      /\ req'[q].watch = req[q].watch /\ req'[q].key = req[q].key /\ req'[q].tx = req[q].tx
      /\ req' \in [Requests -> Request] /\ \A p \in Requests \ {q} : req'[p] = req[p]
  BY DEF PurchaseInv, Request
<1>5. \A p \in Requests : RequestInv(p)'
  <2>1. Follows(q)
    BY <1>4 DEF Follows, PurchaseInv, RequestInv
  <2>2. \A p \in Requests : Follows(p)
    BY <1>4, <2>1 DEF Follows
  <2> QED
    BY <1>3, <2>2, RequestStays DEF PurchaseInv
<1>6. WatchesUnshared'
  BY <1>4 DEF PurchaseInv, WatchesUnshared
<1>7. \A t \in submitted : Recorded(t)'
  BY <1>3, <1>4, RecordsStay
<1>8. Recorded(req[q].tx)'
  <2>1. RequireSettlementIntent => db[req[q].watch].proof
    BY DEF PurchaseInv, RequestInv
  <2>2. Reserved(q)' <=> db[req[q].watch].proof
    BY <1>4 DEF Reserved
  <2> QED
    BY <1>4, <2>1, <2>2 DEF Recorded
<1>9. EveryPaymentIsReserved'
  BY <1>7, <1>8 DEF EveryPaymentIsReserved, Recorded
<1> QED
  BY <1>2, <1>4, <1>5, <1>6, <1>9 DEF PurchaseInv

(* What prepareWatch can answer. *)
LEMMA PrepareOutcomes ==
  ASSUME NEW d, NEW w, NEW k, NEW s, NEW t
  PROVE  PrepareOutcome(d, w, k, s, t) \in Refusals \cup {"created"}
<1> DEFINE p == IF t = None THEN None ELSE PayerOf[t]
           known == FindIdempotencyRow(d, k, p)
           legacy == p # None /\ \E v \in known : d[v].payer = None
           differs == \E v \in known : d[v].spec # s
           full == Full(d)
           payerFull == p # None /\ PayerFull(d, p)
<1>1. PrepareOutcome(d, w, k, s, t) =
        CASE known # {} /\ legacy                  -> "legacy_conflict"
          [] known # {} /\ ~legacy /\ differs      -> "idempotency_conflict"
          [] known # {} /\ ~legacy /\ ~differs     -> "replay"
          [] known = {} /\ full                    -> "global_capacity"
          [] known = {} /\ ~full /\ payerFull      -> "payer_capacity"
          [] known = {} /\ ~full /\ ~payerFull /\ UniqueFor(d, w, k, t, p)  -> "created"
          [] known = {} /\ ~full /\ ~payerFull /\ ~UniqueFor(d, w, k, t, p) -> "constraint"
  BY DEF PrepareOutcome
<1> HIDE DEF known, legacy, differs, full, payerFull
<1> QED
  BY <1>1 DEF Refusals

(* The paid handler: a new row is the request's own. *)
LEMMA PurchaseHandlerKeeps ==
  ASSUME CoreInv, PurchaseInv, NEW q \in Requests, PurchaseHandler(q)
  PROVE  DbStep /\ PurchaseInv'
<1>1. PICK k \in Keys, s \in Specs, t \in Txs, intent \in {TRUE, RequireSettlementIntent},
           w \in {v \in Watches : db[v].state = "absent"} :
        LET i       == IF intent THEN t ELSE None
            outcome == PrepareOutcome(db, w, k, s, i)
        IN  \/ /\ outcome = "created"
               /\ db' = PrepareWatch(db, w, k, s, i, now + TTL)
               /\ req' = [req EXCEPT ![q] = [pc |-> "settle", watch |-> w,
                                key |-> k, tx |-> t, answer |-> None]]
            \/ /\ outcome # "created"
               /\ req' = [req EXCEPT ![q] = [pc |-> "done", watch |-> None,
                                key |-> k, tx |-> t, answer |-> outcome]]
               /\ UNCHANGED db
  BY DEF PurchaseHandler
<1> DEFINE i == IF intent THEN t ELSE None
           outcome == PrepareOutcome(db, w, k, s, i)
<1>2. /\ i \in Opt(Txs) /\ i \in {t, None} /\ (RequireSettlementIntent => i = t)
      /\ t # None /\ w \in Watches /\ db[w].state = "absent"
  BY StoreAssumption, SettlementAssumption DEF Opt
<1>3. /\ req[q].pc = "idle" /\ req \in [Requests -> Request] /\ submitted' = submitted
      /\ TableInv(db) /\ WorldInv /\ submitted \subseteq Txs
  BY ChainFacts DEF PurchaseHandler, PurchaseInv, CoreInv, ledgerVars
<1>4. DbStep
  BY <1>1, <1>2, <1>3, AdmissionIsTrue DEF DbStep
<1>5. RowsProgress
  BY <1>3, <1>4, DbStepKeeps
<1>6. /\ req'[q] \in Request /\ req'[q].pc # "idle" /\ req'[q].key = k /\ req'[q].tx = t
      /\ req' \in [Requests -> Request] /\ \A p \in Requests \ {q} : req'[p] = req[p]
      /\ req'[q].answer # "purchased"
      /\ \/ req'[q].watch = w /\ db' = PrepareWatch(db, w, k, s, i, now + TTL)
         \/ req'[q].watch = None /\ req'[q].pc = "done"
  <2>1. CASE outcome = "created"
    <3>1. req' = [req EXCEPT ![q] = [pc |-> "settle", watch |-> w, key |-> k, tx |-> t,
                                     answer |-> None]]
      BY <1>1, <2>1
    <3>2. db' = PrepareWatch(db, w, k, s, i, now + TTL)
      BY <1>1, <2>1
    <3> QED
      BY <1>2, <1>3, <3>1, <3>2, SettlementAssumption DEF Request, Opt
  <2>2. CASE outcome # "created"
    <3>1. req' = [req EXCEPT ![q] = [pc |-> "done", watch |-> None, key |-> k, tx |-> t,
                                     answer |-> outcome]]
      BY <1>1, <2>2
    <3>2. outcome \in Refusals
      BY <2>2, PrepareOutcomes
    <3>3. outcome # "purchased" /\ outcome \in Opt({"purchased", "unconfirmed", "error", "lost"}
                                                   \cup Refusals)
      BY <3>2 DEF Refusals, Opt
    <3> HIDE DEF outcome
    <3> QED
      BY <1>3, <3>1, <3>3 DEF Request, Opt
  <2> QED
    BY <2>1, <2>2
<1> HIDE DEF outcome
<1>7. \A p \in Requests : RequestInv(p)'
  <2>1. ASSUME NEW p \in Requests \ {q} PROVE RequestInv(p)'
    BY <1>3, <1>5, <1>6, RequestStays DEF PurchaseInv, Follows
  <2>2. RequestInv(q)'
    <3>1. CASE req'[q].watch = None
      <4>1. req'[q].pc = "done"
        BY <1>2, <1>6, <3>1, StoreAssumption
      <4> QED
        BY <1>6, <3>1, <4>1 DEF RequestInv
    <3>2. CASE req'[q].watch = w /\ db' = PrepareWatch(db, w, k, s, i, now + TTL)
      <4>1. /\ db'[w].state = "settlement_pending" /\ db'[w].key = k
            /\ db'[w].proof <=> i # None
            /\ i # None => db'[w].tx = t /\ db'[w].payer = PayerOf[t]
        BY <1>2, <1>3, <3>2 DEF PrepareWatch, NoRow, TableInv
      <4>2. RequireSettlementIntent => db'[w].proof
        BY <1>2, <4>1
      <4>3. w # None /\ req'[q].watch = w /\ req'[q].key = k /\ req'[q].tx = t
        BY <1>2, <1>6, <3>2, StoreAssumption
      <4>4. db'[w].proof => db'[w].tx = req'[q].tx /\ db'[w].payer = PayerOf[req'[q].tx]
        BY <4>1, <4>3
      <4>5. db'[w].state # "absent" /\ db'[w].key = req'[q].key
        BY <4>1, <4>3
      <4>6. req'[q].pc # "idle" /\ req'[q].tx \in Txs /\ req'[q].answer # "purchased"
        BY <1>6, <4>3
      <4> HIDE DEF i
      <4> QED
        BY ONLY <4>2, <4>3, <4>4, <4>5, <4>6 DEF RequestInv
    <3> QED
      BY <1>6, <3>1, <3>2
  <2> QED
    BY <2>1, <2>2
<1>8. WatchesUnshared'
  <2>1. \A p \in Requests \ {q} : req[p].watch # None => req[p].watch # w
    BY <1>2 DEF PurchaseInv, RequestInv
  <2> QED
    BY <1>6, <2>1 DEF PurchaseInv, WatchesUnshared
<1>9. EveryPaymentIsReserved'
  <2>1. \A p \in Requests : req[p].pc # "idle" =>
            req'[p].tx = req[p].tx /\ req'[p].watch = req[p].watch
    BY <1>3, <1>6
  <2> QED
    BY <1>3, <1>5, <2>1, RecordsStay DEF EveryPaymentIsReserved, Recorded
<1> QED
  BY <1>4, <1>6, <1>7, <1>8, <1>9 DEF PurchaseInv

(* A call on the ledger as it is keeps what holds of chain and table. *)
LEMMA CoreStays ==
  ASSUME CoreInv, DbStep, UNCHANGED ledgerVars
  PROVE  CoreInv' /\ RowsProgress
<1>1. /\ WorldInv /\ TableInv(db) /\ TableInv(db') /\ RowsProgress
      /\ \A w \in Watches : Judged(db'[w]) /\ PaidFor(db'[w])
  BY DbStepKeeps DEF CoreInv
<1>2. WorldInv'
  BY <1>1, SameLedger
<1>3. ASSUME NEW w \in Watches
      PROVE  Judged(db[w])' /\ PaidFor(db[w])'
  <2> DEFINE row == db'[w]
  <2>1. Judged(row) /\ PaidFor(row)
    BY <1>1
  <2>2. Judged(db[w])'
    BY <2>1 DEF Judged, NoneEligible, Eligible, PastDeadlineAt, Tip, ledgerVars
  <2>3. PaidFor(db[w])'
    BY <2>1 DEF PaidFor, Rejected, Hopeless, Paid, Tip, ledgerVars
  <2> QED
    BY <2>2, <2>3
<1> QED
  BY <1>1, <1>2, <1>3 DEF CoreInv

(* Purchases keep their invariant while they wait. *)
LEMMA PurchasesWait ==
  ASSUME CoreInv, PurchaseInv, RowsProgress, UNCHANGED <<req, submitted>>
  PROVE  PurchaseInv'
<1>1. TableInv(db) /\ submitted \subseteq Txs
  BY ChainFacts DEF CoreInv
<1>2. req' \in [Requests -> Request] /\ \A q \in Requests : Follows(q)
  BY DEF PurchaseInv, Follows
<1> QED
  BY <1>1, <1>2, PurchasesStay

(* ... and when the process dies under them. *)
LEMMA PurchasesDie ==
  ASSUME CoreInv, PurchaseInv, LoseSettlementMemory, UNCHANGED <<db, ledgerVars>>
  PROVE  PurchaseInv'
<1>1. TableInv(db) /\ submitted \subseteq Txs /\ submitted' = submitted
  BY ChainFacts DEF CoreInv, ledgerVars
<1>2. RowsProgress
  BY <1>1, StutterIsSound DEF RowsProgress, SoundStep
<1>3. ASSUME NEW q \in Requests
      PROVE  req'[q] \in Request /\ Follows(q)
  <2>1. CASE req[q].pc \in {"idle", "done"}
    BY <2>1 DEF LoseSettlementMemory, PurchaseInv, Follows
  <2>2. CASE req[q].pc \notin {"idle", "done"}
    <3>1. req'[q] = [req[q] EXCEPT !.pc = "done", !.answer = "lost"]
      BY <2>2 DEF LoseSettlementMemory
    <3>2. req[q] \in Request /\ req[q].watch # None
      BY <2>2 DEF PurchaseInv, RequestInv, Request
    <3>3. /\ req'[q] \in Request /\ req'[q].pc = "done" /\ req'[q].answer = "lost"
          /\ req'[q].watch = req[q].watch /\ req'[q].key = req[q].key /\ req'[q].tx = req[q].tx
      BY <3>1, <3>2 DEF Request, Opt
    <3> QED
      BY <2>2, <3>2, <3>3 DEF Follows
  <2> QED
    BY <2>1, <2>2
<1>4. req' \in [Requests -> Request]
  BY <1>3 DEF LoseSettlementMemory
<1> QED
  BY <1>1, <1>2, <1>3, <1>4, PurchasesStay

(* The facilitator is handed a payment. *)
Submits ==
    /\ \E t \in Txs : submitted' = submitted \cup {t}
    /\ UNCHANGED <<db, blocks, landed, now>>

(* Every step of a purchase. *)
LEMMA PurchaseKeeps ==
  ASSUME CoreInv, PurchaseInv, PurchaseNext
  PROVE  /\ CoreInv' /\ PurchaseInv' /\ RowsProgress
         /\ UNCHANGED <<rec, absence, blocks, landed, now>>
         /\ (DbStep /\ UNCHANGED ledgerVars) \/ Submits
<1>1. UNCHANGED <<rec, absence, blocks, landed, now>>
  BY DEF PurchaseNext, PurchaseHandler, SettleCall, SettleFailed, Settled, ActivationLookup,
         Respond, ledgerVars
<1>2. PICK q \in Requests :
        \/ PurchaseHandler(q) \/ SettleCall(q) \/ SettleFailed(q)
        \/ Settled(q) \/ ActivationLookup(q) \/ Respond(q)
  BY DEF PurchaseNext
<1>3. CASE SettleCall(q)
  <2>1. RowsProgress
    BY <1>3, StutterIsSound DEF SettleCall, RowsProgress, SoundStep, CoreInv
  <2>2. Submits
    BY <1>3 DEF SettleCall, Submits, PurchaseInv, RequestInv
  <2> QED
    BY <1>1, <1>3, <2>1, <2>2, SettleCallKeeps
<1>4. CASE ~SettleCall(q)
  <2>1. DbStep /\ PurchaseInv'
    BY <1>2, <1>4, PurchaseHandlerKeeps, SettleFailedKeeps, SettledKeeps, ActivationLookupKeeps,
       RespondKeeps
  <2>2. UNCHANGED ledgerVars
    BY <1>2, <1>4 DEF PurchaseHandler, SettleFailed, Settled, ActivationLookup, Respond
  <2> QED
    BY <1>1, <2>1, <2>2, CoreStays
<1> QED
  BY <1>3, <1>4

-----------------------------------------------------------------------------
(***************************************************************************)
(* The reconciler.  An absence proof is about the payment of its row, and  *)
(* no page it has left behind listed the payment up to the proof's         *)
(* coverage.                                                               *)
(***************************************************************************)
Counts == UNION {[S -> Nat] : S \in SUBSET Watches}

Turn == [pc       : {"idle", "sweep", "lookup", "tip", "page"},
         todo     : SUBSET Watches,
         attempts : Counts,
         watch    : Opt(Watches)]

Session == [tx : Txs, token : 0..LastPage, seen : SUBSET (0..LastPage), coverage : Opt(Nat)]

SessionInv(w) ==
    /\ absence[w] \in Session
    /\ absence[w].tx = db[w].tx
    /\ absence[w].coverage # None => absence[w].coverage <= Tip
    /\ absence[w].token > 0 => absence[w].coverage # None
    /\ TxPage[absence[w].tx] < absence[w].token =>
         landed[absence[w].tx] \notin 1..absence[w].coverage

ReconcilerInv ==
    /\ rec \in Turn
    /\ absence \in [Watches -> Opt(Session)]
    /\ rec.pc \in {"lookup", "tip", "page"} => rec.watch # None /\ db[rec.watch].proof
    /\ \A w \in Watches :
         absence[w] # None \/ (rec.pc = "page" /\ rec.watch = w) => SessionInv(w)

(* The chain as it is, or later. *)
ChainLater ==
    /\ Tip' \in Nat /\ Tip' >= Tip
    /\ \A i \in 1..Tip : blocks'[i] = blocks[i]
    /\ \A t \in Txs : landed'[t] = landed[t] \/ landed'[t] > Tip

(* A session that is kept stays true. *)
LEMMA SessionStays ==
  ASSUME CoreInv, RowsProgress, ChainLater, NEW w \in Watches, SessionInv(w),
         absence'[w] = absence[w]
  PROVE  SessionInv(w)'
<1> DEFINE s == absence[w]
<1>1. /\ s.tx \in Txs /\ s.tx = db[w].tx /\ s.token \in Nat /\ s.coverage \in Opt(Nat)
      /\ TxPage[s.tx] \in Nat /\ s \in Session
  BY SettlementAssumption DEF SessionInv, Session
<1>2. db'[w].tx = s.tx
  BY <1>1, InsertedStays, StoreAssumption DEF CoreInv
<1>3. s.coverage # None => s.coverage \in Nat /\ s.coverage <= Tip /\ s.coverage <= Tip'
  BY <1>1, ChainFacts DEF SessionInv, ChainLater, CoreInv, Opt
<1>4. s.token > 0 => s.coverage # None
  BY DEF SessionInv
<1>5. ASSUME TxPage[s.tx] < s.token PROVE landed'[s.tx] \notin 1..s.coverage
  <2>1. landed[s.tx] \notin 1..s.coverage /\ s.coverage \in Nat /\ s.coverage <= Tip
    BY <1>1, <1>3, <1>4, <1>5 DEF SessionInv
  <2>2. landed'[s.tx] = landed[s.tx] \/ landed'[s.tx] > Tip
    BY <1>1 DEF ChainLater
  <2>3. Tip \in Nat
    BY ChainFacts DEF CoreInv
  <2> QED
    BY <2>1, <2>2, <2>3
<1>6. Tip' \in Nat
  BY DEF ChainLater
<1> HIDE DEF s
<1>7. absence'[w] = s
  BY DEF s
<1> QED
  BY <1>1, <1>2, <1>3, <1>4, <1>5, <1>7 DEF SessionInv

(* What the reconciler relies on stays, whoever calls the store. *)
LEMMA ReconcilerStays ==
  ASSUME CoreInv, RowsProgress, ChainLater,
         rec' \in Turn, absence' \in [Watches -> Opt(Session)],
         rec'.pc \in {"lookup", "tip", "page"} => rec'.watch # None /\ db[rec'.watch].proof,
         \A w \in Watches :
            absence'[w] # None \/ (rec'.pc = "page" /\ rec'.watch = w) =>
               SessionInv(w)' \/ (SessionInv(w) /\ absence'[w] = absence[w])
  PROVE  ReconcilerInv'
<1>1. \A w \in Watches :
        absence'[w] # None \/ (rec'.pc = "page" /\ rec'.watch = w) => SessionInv(w)'
  BY SessionStays
<1>2. rec'.pc \in {"lookup", "tip", "page"} => rec'.watch # None /\ db'[rec'.watch].proof
  BY InsertedStays DEF Turn, Opt, CoreInv
<1> QED
  BY <1>1, <1>2 DEF ReconcilerInv

(* A reconciler that waits. *)
LEMMA ReconcilerWaits ==
  ASSUME CoreInv, ReconcilerInv, RowsProgress, ChainLater, UNCHANGED <<rec, absence>>
  PROVE  ReconcilerInv'
BY ReconcilerStays DEF ReconcilerInv

(* No sweep is under way and no turn holds a watch: memory starts afresh. *)
LEMMA IdleReconcilerIsTyped == IdleReconciler \in Turn /\ IdleReconciler.pc = "idle"
<1>1. <<>> \in [{} -> Nat]
  OBVIOUS
<1>2. <<>> \in Counts
  BY <1>1 DEF Counts
<1> QED
  BY <1>2 DEF IdleReconciler, Turn, Opt

(* The chain does not move in a turn. *)
LEMMA ChainStands ==
  ASSUME CoreInv, UNCHANGED ledgerVars
  PROVE  ChainLater
BY ChainFacts DEF CoreInv, ChainLater, ledgerVars, Tip

(* Memory that only forgets sessions. *)
Forgets ==
    /\ absence' \in [Watches -> Opt(Session)]
    /\ \A w \in Watches : absence'[w] \in {None, absence[w]}

(* A sweep goes on, or ends, with the sessions that are left. *)
LEMMA ReconcilerForgets ==
  ASSUME CoreInv, ReconcilerInv, RowsProgress, ChainLater,
         rec' \in Turn, rec'.pc \notin {"lookup", "tip", "page"}, Forgets
  PROVE  ReconcilerInv'
<1>1. \A w \in Watches : absence'[w] # None => SessionInv(w) /\ absence'[w] = absence[w]
  BY DEF ReconcilerInv, Forgets
<1> QED
  BY <1>1, ReconcilerStays DEF Forgets

(* Dropping a session forgets it. *)
LEMMA DropForgets ==
  ASSUME absence \in [Watches -> Opt(Session)], NEW w \in Watches,
         absence' = DropSession(w) \/ absence' = absence
  PROVE  Forgets /\ (absence' = DropSession(w) => absence'[w] = None)
BY DEF DropSession, Forgets, Opt

(* A turn that ends. *)
LEMMA TurnEnds ==
  ASSUME CoreInv, ReconcilerInv, RowsProgress, ChainLater, NEW w \in Watches,
         rec' = TurnOver, absence' = DropSession(w) \/ absence' = absence
  PROVE  ReconcilerInv'
<1>1. rec' \in Turn /\ rec'.pc = "sweep"
  BY DEF TurnOver, ReconcilerInv, Turn, Opt
<1> QED
  BY <1>1, DropForgets, ReconcilerForgets DEF ReconcilerInv

(* A sweep begins and ends with a look at the sessions. *)
LEMMA SweepKeeps ==
  ASSUME CoreInv, ReconcilerInv, StartSweep \/ EndSweep
  PROVE  DbStep /\ ReconcilerInv'
<1>1. db' = db /\ UNCHANGED ledgerVars /\ absence' = Pruned(absence)
  BY DEF StartSweep, EndSweep
<1>2. DbStep /\ RowsProgress /\ ChainLater
  BY <1>1, CoreStays, ChainStands DEF DbStep
<1>3. rec' \in Turn /\ rec'.pc \in {"idle", "sweep"}
  <2>1. CASE StartSweep
    <3> DEFINE attempts == [w \in ReconcileCandidates |-> db[w].attempts]
    <3>1. ReconcileCandidates \in SUBSET Watches
      BY DEF ReconcileCandidates
    <3>2. attempts \in [ReconcileCandidates -> Nat]
      BY <3>1 DEF CoreInv, TableInv, Row
    <3>3. attempts \in Counts
      BY <3>1, <3>2 DEF Counts
    <3>4. rec' = [pc |-> "sweep", todo |-> ReconcileCandidates, watch |-> None,
                  attempts |-> attempts]
      BY <2>1 DEF StartSweep
    <3> HIDE DEF attempts
    <3> QED
      BY <3>1, <3>3, <3>4 DEF Turn, Opt
  <2>2. CASE EndSweep
    BY <2>2, IdleReconcilerIsTyped DEF EndSweep
  <2> QED
    BY <2>1, <2>2
<1>4. Forgets
  BY <1>1 DEF Pruned, Forgets, ReconcilerInv, Opt
<1> QED
  BY <1>2, <1>3, <1>4, ReconcilerForgets

(* The claim of a turn. *)
LEMMA ReconcileClaimKeeps ==
  ASSUME CoreInv, ReconcilerInv, NEW w \in Watches, ReconcileClaim(w)
  PROVE  DbStep /\ ReconcilerInv'
<1> DEFINE row == db[w]
           eligible == ReconciliationEligible(row, row.tx, rec.attempts[w])
           next == [rec EXCEPT !.todo = @ \ {w}]
           e == ClaimWorkUnit(db, w, eligible)
<1>1. TableInv(db) /\ UNCHANGED ledgerVars /\ rec.pc = "sweep" /\ rec \in Turn
  BY DEF ReconcileClaim, CoreInv, ReconcilerInv
<1>2. eligible \in BOOLEAN /\ (eligible => Reconcilable(row))
  BY DEF ReconciliationEligible
<1>3. /\ TrueStep(w, db, e)
      /\ ClaimOutcome(row, eligible) = "claimed" => AsBefore(db[w], e[w])
  BY <1>1, <1>2, ClaimIsTrue
<1>4. DbStep
  <2>1. CASE db' = e
    BY <1>3, <2>1 DEF DbStep
  <2>2. CASE db' = db
    BY <2>2 DEF DbStep
  <2>3. CASE ClaimOutcome(row, eligible) = "claimed" /\ db' = RecordReconciliationFailure(e, w)
    <3>1. TableInv(e)
      BY <1>3 DEF TrueStep, SoundStep
    <3> HIDE DEF e
    <3>2. TrueStep(w, e, RecordReconciliationFailure(e, w))
      BY <3>1, BookkeepingCalls
    <3>3. TrueStep(w, db, db')
      BY <1>1, <1>3, <2>3, <3>2, UnseenBefore
    <3> QED
      BY <3>3 DEF DbStep
  <2> QED
    BY <2>1, <2>2, <2>3 DEF ReconcileClaim
<1>5. RowsProgress /\ ChainLater
  BY <1>1, <1>4, CoreStays, ChainStands
<1> DEFINE page == [next EXCEPT !.pc = "page", !.watch = w]
           lookup == [next EXCEPT !.pc = "lookup", !.watch = w]
<1>6. /\ next \in Turn /\ next.pc = "sweep"
      /\ page \in Turn /\ page.pc = "page" /\ page.watch = w
      /\ lookup \in Turn /\ lookup.pc = "lookup" /\ lookup.watch = w
  BY <1>1 DEF Turn, Opt
<1>7. absence \in [Watches -> Opt(Session)] /\ w # None
  BY StoreAssumption DEF ReconcilerInv
<1>8. \A v \in Watches : absence[v] # None => SessionInv(v)
  BY DEF ReconcilerInv
<1>9. \/ db[w].proof /\ absence[w] # None /\ rec' = page /\ absence' = absence
      \/ db[w].proof /\ absence' = DropSession(w) /\ rec' = lookup
      \/ rec' = next /\ (absence' = DropSession(w) \/ absence' = absence)
  BY DEF ReconcileClaim
<1> HIDE DEF next, page, lookup
<1>10. Forgets
  BY <1>7, <1>9, DropForgets
<1>11. CASE db[w].proof /\ absence[w] # None /\ rec' = page /\ absence' = absence
  BY <1>4, <1>5, <1>6, <1>7, <1>8, <1>11, ReconcilerStays
<1>12. CASE db[w].proof /\ absence' = DropSession(w) /\ rec' = lookup
  <2>1. \A v \in Watches : absence'[v] # None => SessionInv(v) /\ absence'[v] = absence[v]
    BY <1>8, <1>10 DEF Forgets
  <2> QED
    BY <1>4, <1>5, <1>6, <1>7, <1>10, <1>12, <2>1, ReconcilerStays DEF Forgets
<1>13. CASE rec' = next
  BY <1>4, <1>5, <1>6, <1>10, <1>13, ReconcilerForgets
<1> QED
  BY <1>4, <1>9, <1>11, <1>12, <1>13

(* The row of a turn that waits for the Indexer. *)
LEMMA TurnRow ==
  ASSUME CoreInv, ReconcilerInv, rec.pc \in {"lookup", "tip", "page"}
  PROVE  /\ rec.watch \in Watches /\ db[rec.watch].proof
         /\ db[rec.watch].tx \in Txs /\ db[rec.watch].tx # None
         /\ LastValid[db[rec.watch].tx] \in Nat
         /\ TableInv(db) /\ WorldInv /\ Judged(db[rec.watch])
         /\ absence \in [Watches -> Opt(Session)]
<1>1. rec.watch \in Watches /\ db[rec.watch].proof
  BY DEF ReconcilerInv, Turn, Opt
<1>2. db[rec.watch].tx \in Txs
  BY <1>1 DEF CoreInv, PaidFor
<1> QED
  BY <1>1, <1>2, StoreAssumption, LedgerAssumption DEF CoreInv, ReconcilerInv

(* The catch of reconcileSweep. *)
LEMMA ReconcileErrorKeeps ==
  ASSUME CoreInv, ReconcilerInv, ReconcileError
  PROVE  DbStep /\ ReconcilerInv'
<1>1. rec.pc \in {"lookup", "tip", "page"} /\ UNCHANGED ledgerVars
  BY DEF ReconcileError
<1> USE <1>1, TurnRow
<1>2. DbStep
  BY BookkeepingCalls DEF ReconcileError, DbStep
<1>3. RowsProgress /\ ChainLater
  BY <1>2, CoreStays, ChainStands
<1> QED
  BY <1>2, <1>3, TurnEnds DEF ReconcileError

(* The answer of the lookup. *)
LEMMA ReconcileLookupKeeps ==
  ASSUME CoreInv, ReconcilerInv, ReconcileLookup
  PROVE  DbStep /\ ReconcilerInv'
<1>1. rec.pc = "lookup" /\ UNCHANGED ledgerVars
  BY DEF ReconcileLookup
<1> USE <1>1, TurnRow
<1>2. PICK view \in Views :
        \/ /\ Confirmed(db[rec.watch].tx, view)
           /\ db' = ApplyConfirmed(db, rec.watch)
           /\ rec' = TurnOver
           /\ absence' = DropSession(rec.watch)
        \/ /\ ~Confirmed(db[rec.watch].tx, view)
           /\ rec' = [rec EXCEPT !.pc = "tip"]
           /\ UNCHANGED <<db, absence>>
  BY DEF ReconcileLookup
<1>3. CASE /\ Confirmed(db[rec.watch].tx, view) /\ db' = ApplyConfirmed(db, rec.watch)
           /\ rec' = TurnOver /\ absence' = DropSession(rec.watch)
  <2>1. landed[db[rec.watch].tx] > 0
    BY <1>3, ChainFacts DEF Confirmed, Views
  <2>2. DbStep
    BY <1>3, <2>1, ConfirmedIsTrue DEF DbStep
  <2>3. RowsProgress /\ ChainLater
    BY <2>2, CoreStays, ChainStands
  <2> QED
    BY <1>3, <2>2, <2>3, TurnEnds
<1>4. CASE rec' = [rec EXCEPT !.pc = "tip"] /\ UNCHANGED <<db, absence>>
  <2>1. DbStep
    BY <1>4 DEF DbStep
  <2>2. RowsProgress /\ ChainLater
    BY <2>1, CoreStays, ChainStands
  <2>3. rec' \in Turn /\ rec'.pc = "tip" /\ rec'.watch = rec.watch
    BY <1>4 DEF ReconcilerInv, Turn
  <2>4. \A w \in Watches : absence'[w] # None => SessionInv(w) /\ absence'[w] = absence[w]
    BY <1>4 DEF ReconcilerInv
  <2> QED
    BY <1>4, <2>1, <2>2, <2>3, <2>4, ReconcilerStays, StoreAssumption
<1> QED
  BY <1>2, <1>3, <1>4

(* The tip: a proof of absence starts with nothing covered. *)
LEMMA ReconcileTipKeeps ==
  ASSUME CoreInv, ReconcilerInv, ReconcileTip
  PROVE  DbStep /\ ReconcilerInv'
<1>1. rec.pc = "tip" /\ UNCHANGED ledgerVars
  BY DEF ReconcileTip
<1> USE <1>1, TurnRow
<1> DEFINE w == rec.watch
           session == [tx |-> db[w].tx, token |-> 0, seen |-> {}, coverage |-> None]
<1>2. \/ db' = RecordReconciliationFailure(db, w) /\ rec' = TurnOver /\ UNCHANGED absence
      \/ /\ rec' = [rec EXCEPT !.pc = "page"] /\ UNCHANGED db
         /\ absence' = [absence EXCEPT ![w] = session]
  BY DEF ReconcileTip
<1>3. CASE db' = RecordReconciliationFailure(db, w) /\ rec' = TurnOver /\ UNCHANGED absence
  <2>1. DbStep
    BY <1>3, BookkeepingCalls DEF DbStep
  <2>2. RowsProgress /\ ChainLater
    BY <2>1, CoreStays, ChainStands
  <2> QED
    BY <1>3, <2>1, <2>2, TurnEnds
<1>4. CASE /\ rec' = [rec EXCEPT !.pc = "page"] /\ UNCHANGED db
           /\ absence' = [absence EXCEPT ![w] = session]
  <2>1. DbStep
    BY <1>4 DEF DbStep
  <2>2. RowsProgress /\ ChainLater
    BY <2>1, CoreStays, ChainStands
  <2>3. rec' \in Turn /\ rec'.pc = "page" /\ rec'.watch = w
    BY <1>4 DEF ReconcilerInv, Turn
  <2>4. session \in Session
    BY SettlementAssumption DEF Session, Opt
  <2>5. /\ absence' \in [Watches -> Opt(Session)] /\ absence'[w] = session
        /\ \A v \in Watches \ {w} : absence'[v] = absence[v]
    BY <1>4, <2>4 DEF Opt
  <2>6. SessionInv(w)'
    <3>1. /\ session.tx = db'[w].tx /\ session.coverage = None /\ session.token = 0
          /\ TxPage[session.tx] \in Nat
      BY <1>4, SettlementAssumption
    <3> HIDE DEF session
    <3> QED
      BY <2>3, <2>4, <2>5, <3>1 DEF SessionInv
  <2>7. \A v \in Watches \ {w} : absence'[v] # None => SessionInv(v) /\ absence'[v] = absence[v]
    BY <2>5 DEF ReconcilerInv
  <2> HIDE DEF session
  <2> QED
    BY <2>1, <2>2, <2>3, <2>5, <2>6, <2>7, ReconcilerStays, StoreAssumption
<1> QED
  BY <1>2, <1>3, <1>4

(* The lesser of two rounds. *)
LEMMA LesserRound ==
  ASSUME NEW a \in Nat, NEW b \in Nat
  PROVE  Min({a, b}) \in Nat /\ Min({a, b}) <= a /\ Min({a, b}) <= b
<1>1. \E x \in {a, b} : \A y \in {a, b} : x <= y
  BY a <= b \/ b <= a
<1>2. Min({a, b}) \in {a, b} /\ \A y \in {a, b} : Min({a, b}) <= y
  BY <1>1 DEF Min
<1> QED
  BY <1>2

(* A further page covers no more than its replica knew, nor than before. *)
LEMMA CoveredBounds ==
  ASSUME NEW s \in Session, NEW view \in Nat
  PROVE  /\ Covered(s, view) \in Nat /\ Covered(s, view) <= view
         /\ s.coverage # None => Covered(s, view) <= s.coverage
BY LesserRound DEF Covered, Session, Opt

(* A page of the id search: the session covers less, but listed more.      *)
LEMMA PageGoesOn ==
  ASSUME CoreInv, NEW w \in Watches, SessionInv(w), NEW view \in Nat, view <= Tip,
         TxPage[absence[w].tx] = absence[w].token => landed[absence[w].tx] \notin 1..view
  PROVE  LET covered == Covered(absence[w], view)
         IN  /\ covered \in Nat /\ covered <= Tip
             /\ TxPage[absence[w].tx] <= absence[w].token =>
                  landed[absence[w].tx] \notin 1..covered
<1> DEFINE s == absence[w]
           covered == Covered(s, view)
<1>1. /\ s \in Session /\ s.tx \in Txs /\ s.token \in Nat /\ s.coverage \in Opt(Nat)
      /\ TxPage[s.tx] \in Nat /\ landed[s.tx] \in Nat /\ Tip \in Nat
  BY SettlementAssumption, ChainFacts DEF SessionInv, Session, CoreInv
<1>2. /\ covered \in Nat /\ covered <= view
      /\ s.coverage # None => covered <= s.coverage
  BY <1>1, CoveredBounds
<1>3. ASSUME TxPage[s.tx] < s.token
      PROVE  /\ landed[s.tx] \notin 1..s.coverage
             /\ s.coverage \in Nat /\ covered <= s.coverage
  <2>1. s.coverage # None
    BY <1>1, <1>3 DEF SessionInv
  <2> QED
    BY <1>1, <1>2, <1>3, <2>1 DEF SessionInv, Opt
<1> HIDE DEF covered
<1>4. TxPage[s.tx] = s.token => landed[s.tx] \notin 1..covered
  BY <1>1, <1>2
<1>5. TxPage[s.tx] < s.token => landed[s.tx] \notin 1..covered
  BY <1>1, <1>2, <1>3
<1> QED
  BY <1>1, <1>2, <1>4, <1>5 DEF covered

(* A session after a page that did not list its payment. *)
AfterPage(s, covered, nextToken) ==
    [[s EXCEPT !.coverage = covered] EXCEPT !.token = nextToken, !.seen = @ \cup {nextToken}]

(* It is about the same payment. *)
LEMMA SessionAfterPage ==
  ASSUME NEW s \in Session, NEW covered \in Nat, NEW nextToken \in 0..LastPage
  PROVE  /\ AfterPage(s, covered, nextToken) \in Session
         /\ AfterPage(s, covered, nextToken).tx = s.tx
         /\ AfterPage(s, covered, nextToken).coverage = covered
         /\ AfterPage(s, covered, nextToken).token = nextToken
<1> DEFINE mid == [s EXCEPT !.coverage = covered]
<1>1. mid \in Session /\ mid.tx = s.tx /\ mid.coverage = covered
  BY DEF Session, Opt
<1> HIDE DEF mid
<1>2. mid.seen \cup {nextToken} \in SUBSET (0..LastPage)
  BY <1>1 DEF Session
<1> DEFINE seen == mid.seen \cup {nextToken}
           next == [mid EXCEPT !.token = nextToken, !.seen = seen]
<1> HIDE DEF seen
<1>3. /\ next \in Session /\ next.tx = mid.tx
      /\ next.coverage = mid.coverage /\ next.token = nextToken
  BY <1>1, <1>2 DEF Session, seen
<1> QED
  BY <1>1, <1>3 DEF mid, seen, AfterPage

(* One page: the proof of absence goes on, is given up, or is complete.    *)
LEMMA ReconcilePageKeeps ==
  ASSUME CoreInv, ReconcilerInv, ReconcilePage
  PROVE  DbStep /\ ReconcilerInv'
<1>1. rec.pc = "page" /\ rec' = TurnOver /\ UNCHANGED ledgerVars
  BY DEF ReconcilePage
<1> USE <1>1, TurnRow
<1> PICK w \in Watches : w = rec.watch
  OBVIOUS
<1> DEFINE s == absence[w]
           t == s.tx
<1>2. SessionInv(w) /\ s \in Session /\ t = db[w].tx /\ t \in Txs
  BY DEF ReconcilerInv, SessionInv
<1>3. PICK view \in Views, nextToken \in NextTokens(s.token) :
        LET session  == [s EXCEPT !.coverage = Covered(s, view)]
            found    == TxPage[t] = session.token /\ Confirmed(t, view)
            repeated == nextToken = session.token \/ nextToken \in session.seen
        IN  \/ /\ found
               /\ db' = ApplyConfirmed(db, w)
               /\ absence' = DropSession(w)
            \/ /\ ~found /\ nextToken # None /\ ~repeated
               /\ db' = RecordReconciliationFailure(db, w)
               /\ absence' = [absence EXCEPT ![w] =
                    [session EXCEPT !.token = nextToken, !.seen = @ \cup {nextToken}]]
            \/ /\ ~found
               /\ \/ nextToken # None /\ repeated
                  \/ nextToken = None /\ session.coverage <= LastValid[t]
               /\ db' = RecordReconciliationFailure(db, w)
               /\ absence' = DropSession(w)
            \/ /\ ~found /\ nextToken = None /\ session.coverage > LastValid[t]
               /\ db' = MarkSettlementInvalid(db, w)
               /\ absence' = DropSession(w)
  BY DEF ReconcilePage
<1> DEFINE covered == Covered(s, view)
           found == TxPage[t] = s.token /\ Confirmed(t, view)
           next == AfterPage(s, covered, nextToken)
<1>4. /\ view \in Nat /\ view <= Tip
      /\ s.token \in 0..LastPage /\ s.seen \in SUBSET (0..LastPage)
      /\ TxPage[t] \in 0..LastPage
      /\ LastPage \in Nat /\ landed[t] \in Nat /\ Tip \in Nat
      /\ nextToken = None => s.token = LastPage
      /\ nextToken # None => s.token # LastPage /\ nextToken \in {s.token, s.token + 1}
  <2>1. s.token \in 0..LastPage /\ s.seen \in SUBSET (0..LastPage)
    BY <1>2 DEF Session
  <2>2. s.token # None /\ s.token + 1 # None
    BY <2>1, StoreAssumption, SettlementAssumption
  <2> QED
    BY <1>2, <2>1, <2>2, SettlementAssumption, ChainFacts DEF Views, NextTokens
<1>5. \/ found /\ db' = ApplyConfirmed(db, w) /\ absence' = DropSession(w)
      \/ /\ ~found /\ nextToken # None /\ nextToken # s.token
         /\ db' = RecordReconciliationFailure(db, w) /\ absence' = [absence EXCEPT ![w] = next]
      \/ db' = RecordReconciliationFailure(db, w) /\ absence' = DropSession(w)
      \/ /\ ~found /\ nextToken = None /\ covered > LastValid[t]
         /\ db' = MarkSettlementInvalid(db, w) /\ absence' = DropSession(w)
  <2>1. /\ [s EXCEPT !.coverage = covered].token = s.token
        /\ [s EXCEPT !.coverage = covered].coverage = covered
    BY <1>2 DEF Session
  <2> QED
    BY <1>3, <2>1 DEF AfterPage
<1>6. /\ covered \in Nat /\ covered <= Tip
      /\ ~found /\ TxPage[t] <= s.token => landed[t] \notin 1..covered
  <2>1. covered \in Nat /\ covered <= view
    BY <1>2, <1>4, CoveredBounds
  <2>2. ASSUME ~found, TxPage[t] <= s.token PROVE landed[t] \notin 1..covered
    <3>1. TxPage[t] = s.token => landed[t] \notin 1..view
      BY <2>2 DEF Confirmed
    <3> QED
      BY <1>2, <1>4, <2>2, <3>1, PageGoesOn
  <2> HIDE DEF covered
  <2> QED
    BY <1>4, <2>1, <2>2
<1> HIDE DEF covered, next
<1>7. CASE found /\ db' = ApplyConfirmed(db, w) /\ absence' = DropSession(w)
  <2>1. landed[db[w].tx] > 0
    BY <1>2, <1>4, <1>7 DEF Confirmed
  <2>2. DbStep
    BY <1>7, <2>1, ConfirmedIsTrue DEF DbStep
  <2> QED
    BY <1>7, <2>2, TurnEnds, CoreStays, ChainStands
<1>8. CASE /\ ~found /\ nextToken # None /\ nextToken # s.token
           /\ db' = RecordReconciliationFailure(db, w) /\ absence' = [absence EXCEPT ![w] = next]
  <2>1. DbStep
    BY <1>8, BookkeepingCalls DEF DbStep
  <2>2. RowsProgress /\ ChainLater
    BY <2>1, CoreStays, ChainStands
  <2>3. nextToken = s.token + 1 /\ nextToken \in 0..LastPage
    BY <1>4, <1>8
  <2>4. next \in Session /\ next.tx = t /\ next.coverage = covered /\ next.token = nextToken
    BY <1>2, <1>6, <2>3, SessionAfterPage DEF next
  <2>5. /\ absence' \in [Watches -> Opt(Session)] /\ absence'[w] = next
        /\ \A v \in Watches \ {w} : absence'[v] = absence[v]
    BY <1>8, <2>4 DEF Opt
  <2>6. SessionInv(w)'
    <3>1. db'[w].tx = t
      BY <1>2, <2>2, InsertedStays
    <3>2. /\ next.tx = t /\ next.coverage = covered /\ next.token = s.token + 1
          /\ covered # None
      BY <1>6, <2>3, <2>4, StoreAssumption
    <3>3. landed' = landed /\ Tip' = Tip
      BY DEF ledgerVars, Tip
    <3>4. TxPage[t] < s.token + 1 => landed[t] \notin 1..covered
      BY <1>4, <1>6, <1>8
    <3> QED
      BY <1>6, <2>4, <2>5, <3>1, <3>2, <3>3, <3>4 DEF SessionInv
  <2>7. \A v \in Watches \ {w} : absence'[v] # None => SessionInv(v) /\ absence'[v] = absence[v]
    BY <2>5 DEF ReconcilerInv
  <2>8. rec' \in Turn /\ rec'.pc = "sweep"
    BY DEF TurnOver, ReconcilerInv, Turn, Opt
  <2> QED
    BY <2>1, <2>2, <2>5, <2>6, <2>7, <2>8, ReconcilerStays
<1>9. CASE db' = RecordReconciliationFailure(db, w) /\ absence' = DropSession(w)
  <2>1. DbStep
    BY <1>9, BookkeepingCalls DEF DbStep
  <2> QED
    BY <1>9, <2>1, TurnEnds, CoreStays, ChainStands
<1>10. CASE /\ ~found /\ nextToken = None /\ covered > LastValid[t]
            /\ db' = MarkSettlementInvalid(db, w) /\ absence' = DropSession(w)
  <2>0. LastValid[t] \in Nat /\ TxPage[t] <= s.token
    BY <1>2, <1>4, <1>10
  <2>1. landed[t] \notin 1..covered /\ Tip > LastValid[t]
    BY <1>4, <1>6, <1>10, <2>0
  <2>2. Hopeless(t)
    <3>1. landed[t] > LastValid[t] \/ landed[t] = 0
      BY <1>4, <1>6, <1>10, <2>0, <2>1
    <3> QED
      BY <1>4, <2>0, <2>1, <3>1 DEF Hopeless, Paid
  <2>3. DbStep
    BY <1>2, <1>10, <2>2, RejectionIsTrue DEF DbStep
  <2> QED
    BY <1>10, <2>3, TurnEnds, CoreStays, ChainStands
<1> QED
  BY <1>5, <1>7, <1>8, <1>9, <1>10

(* Memory that was lost claims nothing. *)
LEMMA ReconcilerStartsEmpty ==
  ASSUME rec = IdleReconciler, absence = NoSessions
  PROVE  ReconcilerInv
BY IdleReconcilerIsTyped DEF ReconcilerInv, NoSessions, Opt

(* Every step of the reconciler. *)
LEMMA ReconcilerKeeps ==
  ASSUME CoreInv, ReconcilerInv, ReconcilerNext
  PROVE  /\ CoreInv' /\ ReconcilerInv' /\ RowsProgress /\ DbStep
         /\ UNCHANGED <<req, ledgerVars>>
<1>1. UNCHANGED <<req, ledgerVars>>
  BY DEF ReconcilerNext, ReconcilerStep, StartSweep, EndSweep, ReconcileClaim, ReconcileLookup,
         ReconcileTip, ReconcilePage, ReconcileError, ReconcileDue, settlementVars
<1>2. CASE \E w \in Watches : ReconcileDue(w)
  <2>1. DbStep
    BY <1>2, BookkeepingCalls DEF ReconcileDue, DbStep, CoreInv
  <2>2. UNCHANGED <<rec, absence>>
    BY <1>2 DEF ReconcileDue, settlementVars
  <2> QED
    BY <1>1, <2>1, <2>2, CoreStays, ChainStands, ReconcilerWaits
<1>3. CASE ReconcilerStep
  <2>1. DbStep /\ ReconcilerInv'
    BY <1>3, SweepKeeps, ReconcileClaimKeeps, ReconcileLookupKeeps, ReconcileTipKeeps,
       ReconcilePageKeeps, ReconcileErrorKeeps DEF ReconcilerStep
  <2> QED
    BY <1>1, <2>1, CoreStays
<1> QED
  BY <1>1, <1>2, <1>3 DEF ReconcilerNext

-----------------------------------------------------------------------------
(***************************************************************************)
(* The settlement half.                                                    *)
(***************************************************************************)

(* The chain grows or the clock ticks under everything. *)
LEMMA WorldMoves ==
  ASSUME CoreInv, NewBlock \/ ClockTick, UNCHANGED db
  PROVE  CoreInv' /\ RowsProgress /\ ChainLater /\ UNCHANGED submitted
<1>1. TableInv(db) /\ WorldInv /\ RowsProgress /\ Tip \in Nat
  BY StutterIsSound, ChainFacts DEF CoreInv, RowsProgress, SoundStep
<1>2. CASE NewBlock
  <2>1. WorldInv' /\ ChainLater /\ submitted' = submitted
    BY <1>1, <1>2, ChainFacts, ChainGrows DEF ChainLater
  <2>2. ASSUME NEW w \in Watches
        PROVE  Judged(db[w])' /\ PaidFor(db[w])'
    <3> PICK row : row = db[w]
      OBVIOUS
    <3>1. RowInv(row) /\ Judged(row) /\ PaidFor(row) /\ db'[w] = row
      BY <1>1 DEF CoreInv, TableInv
    <3>2. Judged(row)' /\ PaidFor(row)'
      BY <1>1, <1>2, <3>1, GrowthKeepsRow
    <3>3. Judged(db[w])'
      BY <3>1, <3>2 DEF Judged, NoneEligible, Eligible, PastDeadlineAt
    <3>4. PaidFor(db[w])'
      BY <3>1, <3>2 DEF PaidFor, Rejected, Hopeless, Paid
    <3> QED
      BY <3>3, <3>4
  <2> QED
    BY <1>1, <2>1, <2>2 DEF CoreInv
<1>3. CASE ClockTick
  <2>1. UNCHANGED <<blocks, landed, submitted>> /\ Tip' = Tip /\ now' = now + 1
    BY <1>3 DEF ClockTick, Tip
  <2>2. WorldInv' /\ ChainLater
    BY <1>1, <2>1, ChainFacts DEF WorldInv, LedgerTypeOK, TimeIsMonotone, ChainLater
  <2>3. ASSUME NEW w \in Watches
        PROVE  Judged(db[w])' /\ PaidFor(db[w])'
    <3>1. Judged(db[w]) /\ PaidFor(db[w])
      BY DEF CoreInv
    <3>2. Judged(db[w])'
      BY <2>1, <3>1 DEF Judged, NoneEligible, Eligible, PastDeadlineAt
    <3>3. PaidFor(db[w])'
      BY <2>1, <3>1 DEF PaidFor, Rejected, Hopeless, Paid
    <3> QED
      BY <3>2, <3>3
  <2> QED
    BY <1>1, <2>1, <2>2, <2>3 DEF CoreInv
<1> QED
  BY <1>2, <1>3

(* A new service has a world and a table in which nothing is claimed yet. *)
LEMMA CoreStarts == ProcessInit => CoreInv
<1> SUFFICES ASSUME ProcessInit PROVE CoreInv
  OBVIOUS
<1>1. /\ db = EmptyTable /\ blocks = <<>> /\ landed = [t \in Txs |-> 0]
      /\ submitted = {} /\ now = 0
  BY DEF ProcessInit, LedgerInit
<1>2. WorldInv
  <2>1. Tip = 0 /\ DOMAIN blocks = {} /\ blocks \in Seq(Block)
    BY <1>1 DEF Tip
  <2> QED
    BY <1>1, <2>1 DEF WorldInv, LedgerTypeOK, TimeIsMonotone
<1>3. TableInv(db)
  BY <1>1, EmptyTableIsSound
<1>4. \A w \in Watches : Judged(db[w]) /\ PaidFor(db[w])
  BY <1>1, StoreAssumption DEF EmptyTable, NoRow, Judged, PaidFor, Rejected
<1> QED
  BY <1>2, <1>3, <1>4 DEF CoreInv

SettlementInv == CoreInv /\ PurchaseInv /\ ReconcilerInv

(* No request, no turn, no session. *)
LEMMA SettlementStarts == ProcessInit /\ SettlementInit => SettlementInv
<1> SUFFICES ASSUME ProcessInit, SettlementInit PROVE SettlementInv
  OBVIOUS
<1>1. CoreInv /\ ReconcilerInv
  BY CoreStarts, ReconcilerStartsEmpty DEF SettlementInit
<1>2. req = [q \in Requests |-> NewRequest] /\ submitted = {}
  BY DEF ProcessInit, LedgerInit, SettlementInit
<1>3. NewRequest \in Request
  BY DEF NewRequest, Request, Opt
<1>4. req \in [Requests -> Request] /\ WatchesUnshared /\ EveryPaymentIsReserved
  BY <1>2, <1>3 DEF WatchesUnshared, EveryPaymentIsReserved, NewRequest
<1>5. \A q \in Requests : RequestInv(q)
  BY <1>2, SettlementAssumption DEF RequestInv, NewRequest
<1> QED
  BY <1>1, <1>4, <1>5 DEF SettlementInv, PurchaseInv

(* Purchases and the reconciler keep each other's invariant. *)
LEMMA SettlementKeeps ==
  ASSUME SettlementInv,
         \/ PurchaseNext
         \/ ReconcilerNext
         \/ (NewBlock \/ ClockTick) /\ UNCHANGED <<db, settlementVars>>
         \/ UNCHANGED <<db, ledgerVars>> /\ LoseSettlementMemory
         \/ DbStep /\ UNCHANGED <<ledgerVars, settlementVars>>
  PROVE  SettlementInv' /\ RowsProgress /\ ChainLater
<1> USE DEF SettlementInv
<1>1. CASE PurchaseNext
  <2>1. /\ CoreInv' /\ PurchaseInv' /\ RowsProgress
        /\ UNCHANGED <<rec, absence, blocks, landed, now>>
    BY <1>1, PurchaseKeeps
  <2>2. ChainLater
    BY <2>1, ChainFacts DEF ChainLater, Tip, CoreInv
  <2> QED
    BY <2>1, <2>2, ReconcilerWaits
<1>2. CASE ReconcilerNext
  <2>1. /\ CoreInv' /\ ReconcilerInv' /\ RowsProgress
        /\ UNCHANGED <<req, ledgerVars>>
    BY <1>2, ReconcilerKeeps
  <2>2. ChainLater /\ submitted' = submitted
    BY <2>1, ChainStands DEF ledgerVars
  <2> QED
    BY <2>1, <2>2, PurchasesWait
<1>3. CASE (NewBlock \/ ClockTick) /\ UNCHANGED <<db, settlementVars>>
  BY <1>3, WorldMoves, PurchasesWait, ReconcilerWaits DEF settlementVars
<1>4. CASE UNCHANGED <<db, ledgerVars>> /\ LoseSettlementMemory
  <2>1. DbStep
    BY <1>4 DEF DbStep
  <2>2. CoreInv' /\ RowsProgress /\ ChainLater
    BY <1>4, <2>1, CoreStays, ChainStands
  <2>3. ReconcilerInv'
    <3>1. rec' = IdleReconciler /\ absence' = NoSessions
      BY <1>4 DEF LoseSettlementMemory
    <3> QED
      BY <3>1, IdleReconcilerIsTyped DEF ReconcilerInv, NoSessions, Opt
  <2> QED
    BY <1>4, <2>2, <2>3, PurchasesDie
<1>5. CASE DbStep /\ UNCHANGED <<ledgerVars, settlementVars>>
  <2>1. CoreInv' /\ RowsProgress /\ ChainLater /\ submitted' = submitted
    BY <1>5, CoreStays, ChainStands DEF ledgerVars
  <2> QED
    BY <1>5, <2>1, PurchasesWait, ReconcilerWaits DEF settlementVars
<1> QED
  BY <1>1, <1>2, <1>3, <1>4, <1>5

-----------------------------------------------------------------------------
(***************************************************************************)
(* The pages of a scan.                                                    *)
(***************************************************************************)

(* Rounds that are not none have a first. *)
LEMMA FirstRound ==
  ASSUME NEW S \in SUBSET Nat, S # {}
  PROVE  Min(S) \in S /\ \A r \in S : Min(S) <= r
<1>1. PICK i \in S : \A j \in S : <<j, i>> \notin OpToRel(<, Nat)
  BY WFMin, NatLessThanWellFounded
<1>2. ASSUME NEW j \in S, j < i PROVE FALSE
  <2>1. <<j, i>>[1] = j /\ <<j, i>>[2] = i /\ <<j, i>> \in Nat \X Nat
    OBVIOUS
  <2>2. <<j, i>> \in OpToRel(<, Nat)
    BY <1>2, <2>1 DEF OpToRel
  <2> QED
    BY <1>1, <2>2
<1>3. \E x \in S : \A y \in S : x <= y
  BY <1>2
<1> QED
  BY <1>3 DEF Min

Scan == [min : Nat \ {0}, max : Nat, token : SUBSET Nat, seen : SUBSET SUBSET Nat]

Page == [min : Nat \ {0}, max : Nat, token : SUBSET Nat,
         items : SUBSET Nat, more : BOOLEAN, next : SUBSET Nat]

(* No round of these satisfies the row. *)
NoneAmong(row, rounds) == \A r \in rounds : ~Eligible(row, r)

(* A window within the chain, as scans and cached pages have one; the token*)
(* stands for rounds of it.                                                *)
Window(scan) ==
    /\ scan.min \in Nat \ {0} /\ scan.max \in Nat /\ scan.max <= Tip
    /\ scan.token \subseteq scan.min..scan.max

(* Whatever rounds the provider lists, and in whatever order: they are of  *)
(* the window and not listed before, the last page lists all that are left *)
(* and a continuation stands for none that were not listed.                *)
AnswersTo(scan, page) ==
    /\ page.items \subseteq (scan.min..scan.max) \ scan.token
    /\ page.more \in BOOLEAN
    /\ ~page.more => page.items = (scan.min..scan.max) \ scan.token
    /\ page.next \subseteq scan.token \cup page.items

(* A replica that knows the window answers so. *)
LEMMA AnswersAreHonest ==
  ASSUME NEW scan, Window(scan), NEW view \in Nat, view >= scan.max,
         NEW page \in PageAnswers(scan, view)
  PROVE  AnswersTo(scan, page)
<1>1. Remaining(scan, view) = (scan.min..scan.max) \ scan.token
  BY DEF Remaining, Window
<1> DEFINE rest == Remaining(scan, view)
<1> HIDE DEF rest
<1>2. CASE page = [items |-> rest, more |-> FALSE, next |-> {}]
  BY <1>1, <1>2 DEF AnswersTo, rest
<1>3. CASE page \in {[items |-> i, more |-> TRUE, next |-> scan.token \cup i] :
                       i \in (SUBSET rest) \ {{}}}
  <2> PICK i \in SUBSET rest : page = [items |-> i, more |-> TRUE, next |-> scan.token \cup i]
    BY <1>3
  <2>1. page.items = i /\ page.more = TRUE /\ page.next = scan.token \cup i
    OBVIOUS
  <2> QED
    BY <1>1, <2>1 DEF AnswersTo, rest
<1>4. CASE page \in [items : SUBSET rest, more : {TRUE}, next : scan.seen \cap SUBSET scan.token]
  BY <1>1, <1>4 DEF AnswersTo, rest
<1> QED
  BY <1>2, <1>3, <1>4 DEF PageAnswers, rest

-----------------------------------------------------------------------------
(***************************************************************************)
(* The poller.  A turn works on a copy of its watch that the row has at    *)
(* most outgrown; a scan's token stands for rounds of its window that do   *)
(* not satisfy the watch; a cached page is an honest answer about rounds   *)
(* that do not change.                                                     *)
(***************************************************************************)
Copies(copy, row) ==
    /\ copy \in Row
    /\ row.serviceTx # None
    /\ KeepsTerms(row, copy) /\ copy.activationRound = row.activationRound
    /\ copy.scanAfter \in Nat /\ row.scanAfter \in Nat /\ copy.scanAfter <= row.scanAfter
    /\ copy.closing # None => row.closing = copy.closing

Copied == UNION {[S -> Row] : S \in SUBSET Watches}

PollTurn == [pc         : {"idle", "sweep", "checkpoint", "block", "tip", "page"},
             todo       : Copied,
             watch      : Opt(Watches),
             row        : Row,
             checkpoint : Opt(Nat),
             tip        : Opt(Nat),
             tipFailed  : BOOLEAN]

ScanInv(w) ==
    /\ scans[w] \in Scan
    /\ db[w].serviceTx # None
    /\ scans[w].max <= Tip
    /\ scans[w].max < scans[w].min + RoundWindow
    /\ scans[w].token \subseteq scans[w].min..scans[w].max
    /\ NoneAmong(db[w], scans[w].token)

PageInv(page) == page \in Page /\ Window(page) /\ AnswersTo(page, page)

InTurn(p) == p.pc \in {"checkpoint", "block", "tip", "page"}

PollerInv ==
    /\ poll \in PollTurn
    /\ scans \in [Watches -> Opt(Scan)]
    /\ \A w \in DOMAIN poll.todo : Copies(poll.todo[w], db[w])
    /\ InTurn(poll) => poll.watch # None /\ Copies(poll.row, db[poll.watch])
    /\ poll.pc = "page" => scans[poll.watch].min = poll.row.scanAfter + 1
    /\ poll.tip # None => poll.tip <= Tip
    /\ \A w \in Watches :
         scans[w] # None \/ (poll.pc = "page" /\ poll.watch = w) => ScanInv(w)
    /\ \A page \in pages : PageInv(page)

(* A copy stays one while the row progresses. *)
LEMMA CopyOutgrown ==
  ASSUME NEW old, NEW new, RowInv(old), RowInv(new), Progresses(old, new), PaidFor(old),
         NEW copy, Copies(copy, old)
  PROVE  Copies(copy, new)
<1>1. old.state # "absent" /\ old.tx # None /\ old.serviceTx # None
  BY StoreAssumption DEF Copies, RowInv, PaidFor
<1>2. /\ new.serviceTx = old.serviceTx /\ KeepsTerms(new, copy)
      /\ new.activationRound = old.activationRound
  BY <1>1 DEF Progresses, Copies, KeepsTerms
<1>3. /\ copy.scanAfter \in Nat /\ old.scanAfter \in Nat /\ copy.scanAfter <= old.scanAfter
      /\ new.scanAfter \in Nat /\ new.scanAfter >= old.scanAfter
  BY StoreAssumption DEF Progresses, Copies, RowInv, Row, Opt
<1>4. copy.closing # None => new.closing = copy.closing
  BY DEF Progresses, Copies
<1> QED
  BY <1>1, <1>2, <1>3, <1>4 DEF Copies

(* The same of the table. *)
LEMMA CopiesStay ==
  ASSUME CoreInv, TableInv(db'), RowsProgress, NEW w \in Watches, NEW copy, Copies(copy, db[w])
  PROVE  Copies(copy, db'[w])
BY CopyOutgrown DEF CoreInv, TableInv, RowsProgress

(* An answer about old rounds stays the answer. *)
LEMMA PagesStay ==
  ASSUME CoreInv, ChainLater, NEW page, PageInv(page)
  PROVE  PageInv(page)'
<1>1. Tip \in Nat /\ Tip' >= Tip /\ Tip' \in Nat
  BY ChainFacts DEF CoreInv, ChainLater
<1> QED
  BY <1>1 DEF PageInv, Window, AnswersTo, Page

(* A scan that is kept stays true. *)
LEMMA ScanStays ==
  ASSUME CoreInv, RowsProgress, ChainLater, NEW w \in Watches, ScanInv(w), scans'[w] = scans[w]
  PROVE  ScanInv(w)'
<1> PICK scan : scan = scans[w]
  OBVIOUS
<1>1. /\ scan \in Scan /\ scan.min \in Nat \ {0} /\ scan.max \in Nat /\ scan.max <= Tip
      /\ scan.token \subseteq scan.min..scan.max /\ Tip \in Nat /\ Tip' >= Tip /\ Tip' \in Nat
      /\ scans[w] = scan /\ scans'[w] = scan
  BY ChainFacts DEF ScanInv, Scan, CoreInv, ChainLater
<1>2. /\ db[w].serviceTx # None /\ db'[w].serviceTx = db[w].serviceTx
      /\ db'[w].spec = db[w].spec /\ db'[w].expiresAt = db[w].expiresAt
      /\ db'[w].activationRound = db[w].activationRound
  BY InsertedStays DEF ScanInv, CoreInv
<1>3. ASSUME NEW r \in scan.token PROVE ~Eligible(db[w], r)'
  <2>1. r \in 1..Tip /\ DOMAIN blocks = 1..Tip
    BY <1>1, ChainFacts DEF CoreInv
  <2>2. blocks'[r] = blocks[r]
    BY <2>1 DEF ChainLater
  <2>3. ~Eligible(db[w], r)
    BY <1>1 DEF ScanInv, NoneAmong
  <2> QED
    BY <1>2, <2>1, <2>2, <2>3 DEF Eligible
<1>4. scan.max <= Tip'
  BY <1>1
<1> QED
  BY <1>1, <1>2, <1>3, <1>4 DEF ScanInv, NoneAmong

(* What the poller relies on stays, whoever calls the store. *)
LEMMA PollerStays ==
  ASSUME CoreInv, TableInv(db'), RowsProgress, ChainLater,
         poll' \in PollTurn, scans' \in [Watches -> Opt(Scan)],
         \A w \in DOMAIN poll'.todo : Copies(poll'.todo[w], db[w]),
         InTurn(poll') =>
            /\ poll'.watch # None
            /\ \/ Copies(poll'.row, db[poll'.watch])
               \/ Copies(poll'.row, db'[poll'.watch]),
         poll'.pc = "page" => scans'[poll'.watch].min = poll'.row.scanAfter + 1,
         poll'.tip # None => poll'.tip <= Tip',
         \A w \in Watches :
            scans'[w] # None \/ (poll'.pc = "page" /\ poll'.watch = w) =>
               ScanInv(w)' \/ (ScanInv(w) /\ scans'[w] = scans[w]),
         \A page \in pages' : PageInv(page) \/ PageInv(page)'
  PROVE  PollerInv'
<1>1. \A w \in Watches :
        scans'[w] # None \/ (poll'.pc = "page" /\ poll'.watch = w) => ScanInv(w)'
  BY ScanStays
<1>2. \A page \in pages' : PageInv(page)'
  BY PagesStay
<1>3. DOMAIN poll'.todo \subseteq Watches
  <2>1. PICK S \in SUBSET Watches : poll'.todo \in [S -> Row]
    BY DEF PollTurn, Copied
  <2> QED
    BY <2>1
<1>4. \A w \in DOMAIN poll'.todo : Copies(poll'.todo[w], db'[w])
  BY <1>3, CopiesStay
<1>5. InTurn(poll') => poll'.watch # None /\ Copies(poll'.row, db'[poll'.watch])
  BY CopiesStay DEF PollTurn, Opt
<1> QED
  BY <1>1, <1>2, <1>4, <1>5 DEF PollerInv

(* A poller that waits. *)
LEMMA PollerWaits ==
  ASSUME CoreInv, TableInv(db'), PollerInv, RowsProgress, ChainLater, UNCHANGED pollingVars
  PROVE  PollerInv'
<1>1. /\ poll' = poll /\ scans' = scans /\ pages' = pages
      /\ \A w \in Watches : scans'[w] = scans[w]
  BY DEF pollingVars
<1>2. poll.tip # None => poll.tip <= Tip'
  <2>1. poll.tip \in Opt(Nat) /\ Tip \in Nat /\ Tip' \in Nat /\ Tip' >= Tip
    BY ChainFacts DEF CoreInv, ChainLater, PollerInv, PollTurn
  <2> QED
    BY <2>1 DEF PollerInv, Opt
<1> QED
  BY <1>1, <1>2, PollerStays DEF PollerInv

(* Memory that was lost claims nothing. *)
LEMMA IdlePollerIsTyped ==
  /\ IdlePoller \in PollTurn /\ IdlePoller.pc = "idle" /\ IdlePoller.tip = None
  /\ DOMAIN IdlePoller.todo = {}
<1>1. NoRow \in Row
  BY DEF NoRow, Row, Opt, WatchState
<1>2. <<>> \in [{} -> Row] /\ DOMAIN <<>> = {}
  OBVIOUS
<1>3. <<>> \in Copied
  BY <1>2 DEF Copied
<1> QED
  BY <1>1, <1>2, <1>3 DEF IdlePoller, PollTurn, Opt

(* A sweep goes on with fewer scans, or with ones that are true. *)
LEMMA SweepGoesOn ==
  ASSUME CoreInv, PollerInv, DbStep, UNCHANGED ledgerVars,
         poll' \in PollTurn, poll'.pc \in {"idle", "sweep"},
         \A w \in DOMAIN poll'.todo : Copies(poll'.todo[w], db[w]),
         poll'.tip # None => poll'.tip <= Tip,
         scans' \in [Watches -> Opt(Scan)],
         \A w \in Watches : scans'[w] \in {None, scans[w]} \/ ScanInv(w)',
         \A page \in pages' : PageInv(page)
  PROVE  PollerInv'
<1>1. TableInv(db') /\ RowsProgress /\ ChainLater /\ Tip' = Tip
  BY CoreStays, ChainStands DEF CoreInv, ledgerVars, Tip
<1>2. ~InTurn(poll') /\ poll'.pc # "page"
  BY DEF InTurn
<1>3. \A w \in Watches :
        scans'[w] # None \/ (poll'.pc = "page" /\ poll'.watch = w) =>
           ScanInv(w)' \/ (ScanInv(w) /\ scans'[w] = scans[w])
  BY <1>2 DEF PollerInv
<1> QED
  BY <1>1, <1>2, <1>3, PollerStays

(* The fields of a turn that is over, or not yet begun. *)
LEMMA TurnFields ==
  ASSUME NEW p \in PollTurn, NEW w \in Watches
  PROVE  /\ PollTurnOver(p) \in PollTurn /\ PollTurnOver(p).pc = "sweep"
         /\ PollTurnOver(p).todo = p.todo /\ PollTurnOver(p).tip = p.tip
<1>1. NoRow \in Row
  BY DEF NoRow, Row, Opt, WatchState
<1> QED
  BY <1>1 DEF PollTurnOver, PollTurn, Opt

(* A turn that has begun. *)
Turned(p, pc, w, row) == [p EXCEPT !.pc = pc, !.watch = w, !.row = row]

(* Its fields. *)
LEMMA TurnedFields ==
  ASSUME NEW p \in PollTurn, NEW w \in Watches, NEW row \in Row,
         NEW pc \in {"checkpoint", "block", "tip", "page"}
  PROVE  /\ Turned(p, pc, w, row) \in PollTurn /\ Turned(p, pc, w, row).pc = pc
         /\ Turned(p, pc, w, row).watch = w /\ Turned(p, pc, w, row).row = row
         /\ Turned(p, pc, w, row).todo = p.todo /\ Turned(p, pc, w, row).tip = p.tip
BY DEF Turned, PollTurn, Opt

(* Dropping a scan forgets it. *)
LEMMA DropScanForgets ==
  ASSUME scans \in [Watches -> Opt(Scan)], NEW w \in Watches, scans' \in {scans, DropScan(w)}
  PROVE  /\ scans' \in [Watches -> Opt(Scan)]
         /\ \A v \in Watches : scans'[v] \in {None, scans[v]}
         /\ \A v \in Watches : scans'[v] # None => scans'[v] = scans[v]
BY DEF DropScan, Opt

(* serviceWatch after the checkpoint: the watch expires, or its scan goes  *)
(* on from where the copy says it is.                                      *)
LEMMA ScanOrFinalizeKeeps ==
  ASSUME CoreInv, PollerInv, UNCHANGED <<pages, ledgerVars>>, NEW w \in Watches,
         NEW d, TrueStep(w, db, d), AsBefore(db[w], d[w]),
         NEW p \in PollTurn, \A v \in DOMAIN p.todo : Copies(p.todo[v], db[v]),
         p.tip # None => p.tip <= Tip,
         NEW row, Copies(row, d[w]), ScanOrFinalize(d, p, w, row)
  PROVE  DbStep /\ PollerInv'
<1>1. /\ TableInv(db) /\ TableInv(d) /\ scans \in [Watches -> Opt(Scan)] /\ w # None
      /\ \A page \in pages' : PageInv(page)
  BY StoreAssumption DEF CoreInv, TrueStep, SoundStep, PollerInv
<1>2. row \in Row /\ row.scanAfter \in Nat
  BY DEF Copies
<1>3. CASE /\ Closed(row) /\ db' = MarkExpired(d, w, row.scanAfter, row.closing)
           /\ poll' = PollTurnOver(p) /\ UNCHANGED scans
  <2>1. row.closing \in Nat
    BY <1>2, <1>3 DEF Closed, Row, Opt
  <2>2. TrueStep(w, d, db')
    BY <1>1, <1>2, <1>3, <2>1, ExpiryIsTrue
  <2>3. DbStep
    BY <1>1, <2>2, UnseenBefore DEF DbStep
  <2> QED
    BY <1>1, <1>3, <2>3, TurnFields, SweepGoesOn
<1>4. CASE ~Closed(row) /\ db' = d
  <2>1. DbStep
    BY <1>4 DEF DbStep
  <2>2. TableInv(db') /\ RowsProgress /\ ChainLater /\ Tip' = Tip
    BY <2>1, CoreStays, ChainStands DEF CoreInv, ledgerVars, Tip
  <2>3. CASE /\ scans[w] # None /\ ScanCompatible(row, scans[w])
             /\ poll' = Turned(p, "page", w, row) /\ UNCHANGED scans
    <3>1. scans[w].min = row.scanAfter + 1
      BY <2>3 DEF ScanCompatible
    <3>2. /\ poll' \in PollTurn /\ poll'.pc = "page" /\ poll'.watch = w /\ poll'.row = row
          /\ poll'.todo = p.todo /\ poll'.tip = p.tip
      BY <1>2, <2>3, TurnedFields
    <3>3. \A v \in Watches :
            scans'[v] # None \/ (poll'.pc = "page" /\ poll'.watch = v) =>
               ScanInv(v) /\ scans'[v] = scans[v]
      BY <2>3, <3>2 DEF PollerInv
    <3> QED
      BY <1>1, <1>4, <2>1, <2>2, <2>3, <3>1, <3>2, <3>3, PollerStays
  <2>4. CASE poll' = Turned(p, "tip", w, row) /\ scans' = DropScan(w)
    <3>1. /\ poll' \in PollTurn /\ poll'.pc = "tip" /\ poll'.watch = w /\ poll'.row = row
          /\ poll'.todo = p.todo /\ poll'.tip = p.tip
      BY <1>2, <2>4, TurnedFields
    <3>2. /\ scans' \in [Watches -> Opt(Scan)]
          /\ \A v \in Watches : scans'[v] # None => ScanInv(v) /\ scans'[v] = scans[v]
      BY <1>1, <2>4, DropScanForgets DEF PollerInv
    <3> QED
      BY <1>1, <1>4, <2>1, <2>2, <3>1, <3>2, PollerStays
  <2> QED
    BY <1>4, <2>3, <2>4 DEF ScanOrFinalize, Turned
<1> QED
  BY <1>3, <1>4 DEF ScanOrFinalize

(* A sweep with one watch fewer to do. *)
Without(p, w) == [p EXCEPT !.todo = [v \in DOMAIN @ \ {w} |-> @[v]]]

(* Its fields. *)
LEMMA WithoutFields ==
  ASSUME NEW p \in PollTurn, NEW w \in Watches
  PROVE  /\ Without(p, w) \in PollTurn /\ Without(p, w).pc = p.pc
         /\ Without(p, w).tip = p.tip
         /\ DOMAIN Without(p, w).todo = DOMAIN p.todo \ {w}
         /\ \A v \in DOMAIN p.todo \ {w} : Without(p, w).todo[v] = p.todo[v]
<1> DEFINE todo == [v \in DOMAIN p.todo \ {w} |-> p.todo[v]]
<1>1. PICK S \in SUBSET Watches : p.todo \in [S -> Row]
  BY DEF PollTurn, Copied
<1>2. S \ {w} \in SUBSET Watches /\ todo \in [S \ {w} -> Row]
  BY <1>1
<1>3. todo \in Copied
  BY <1>2 DEF Copied
<1>4. DOMAIN todo = DOMAIN p.todo \ {w} /\ \A v \in DOMAIN p.todo \ {w} : todo[v] = p.todo[v]
  OBVIOUS
<1>5. Without(p, w) = [p EXCEPT !.todo = todo]
  BY DEF Without
<1> HIDE DEF todo
<1> QED
  BY <1>3, <1>4, <1>5 DEF PollTurn

(* The claim of a turn. *)
LEMMA PollClaimKeeps ==
  ASSUME CoreInv, PollerInv, NEW w \in Watches, PollClaim(w)
  PROVE  DbStep /\ PollerInv'
<1> DEFINE row == poll.todo[w]
           eligible == PollingEligible(db[w], row.scanAfter, row.closing, row.failures)
           outcome == ClaimOutcome(db[w], eligible)
           next == Without(poll, w)
           e == ClaimWorkUnit(db, w, eligible)
<1>1. /\ TableInv(db) /\ poll \in PollTurn /\ poll.pc = "sweep" /\ w \in DOMAIN poll.todo
      /\ UNCHANGED <<pages, ledgerVars>> /\ scans \in [Watches -> Opt(Scan)] /\ w # None
      /\ \A page \in pages' : PageInv(page)
      /\ RowInv(db[w]) /\ PaidFor(db[w])
  BY StoreAssumption DEF PollClaim, CoreInv, PollerInv, TableInv
<1>2. eligible \in BOOLEAN /\ (eligible => db[w].state = "active")
  BY DEF PollingEligible
<1>3. TrueStep(w, db, e) /\ (outcome = "claimed" => AsBefore(db[w], e[w]))
  BY <1>1, <1>2, ClaimIsTrue
<1>4. /\ next \in PollTurn /\ next.pc = "sweep"
      /\ next.tip # None => next.tip <= Tip
      /\ \A v \in DOMAIN next.todo : Copies(next.todo[v], db[v])
  BY <1>1, WithoutFields DEF PollerInv
<1>5. Copies(row, db[w]) /\ row \in Row
  BY <1>1 DEF PollerInv, Copies
<1>6. Copies(row, e[w])
  <2>1. RowInv(e[w]) /\ Progresses(db[w], e[w])
    BY <1>3 DEF TrueStep, SoundStep, TableInv
  <2> HIDE DEF e
  <2> QED
    BY <1>1, <1>5, <2>1, CopyOutgrown
<1> HIDE DEF e, next
<1>7. CASE /\ outcome = "claimed" /\ db' = e
           /\ poll' = Turned(next, "checkpoint", w, row) /\ UNCHANGED scans
  <2>1. DbStep
    BY <1>3, <1>7 DEF DbStep
  <2>2. TableInv(db') /\ RowsProgress /\ ChainLater /\ Tip' = Tip
    BY <1>1, <2>1, CoreStays, ChainStands DEF CoreInv, ledgerVars, Tip
  <2>3. /\ poll' \in PollTurn /\ poll'.pc = "checkpoint" /\ poll'.watch = w /\ poll'.row = row
        /\ poll'.todo = next.todo /\ poll'.tip = next.tip
    BY <1>4, <1>5, <1>7, TurnedFields
  <2>4. \A v \in Watches : scans'[v] # None => ScanInv(v) /\ scans'[v] = scans[v]
    BY <1>7 DEF PollerInv
  <2> QED
    BY <1>1, <1>4, <1>5, <1>7, <2>1, <2>2, <2>3, <2>4, PollerStays
<1>8. CASE outcome = "claimed" /\ ScanOrFinalize(e, next, w, row)
  BY <1>1, <1>3, <1>4, <1>6, <1>8, ScanOrFinalizeKeeps
<1>9. CASE /\ db' \in {db, e} /\ poll' = next /\ scans' \in {scans, DropScan(w)}
  <2>1. DbStep
    BY <1>3, <1>9 DEF DbStep
  <2>2. /\ scans' \in [Watches -> Opt(Scan)]
        /\ \A v \in Watches : scans'[v] \in {None, scans[v]}
    BY <1>1, <1>9, DropScanForgets
  <2> QED
    BY <1>1, <1>4, <1>9, <2>1, <2>2, SweepGoesOn
<1>10. \/ /\ outcome = "claimed" /\ db' = e
          /\ poll' = Turned(next, "checkpoint", w, row) /\ UNCHANGED scans
       \/ outcome = "claimed" /\ ScanOrFinalize(e, next, w, row)
       \/ db' \in {db, e} /\ poll' = next /\ scans' \in {scans, DropScan(w)}
  BY DEF PollClaim, Turned, Without, e, next
<1> QED
  BY <1>7, <1>8, <1>9, <1>10

(* A sweep begins with copies of the due rows, and ends with none. *)
LEMMA PollSweepKeeps ==
  ASSUME CoreInv, PollerInv, StartPollSweep \/ EndPollSweep
  PROVE  DbStep /\ PollerInv'
<1>1. /\ db' = db /\ pages' = pages /\ UNCHANGED ledgerVars /\ scans' = PrunedScans
      /\ TableInv(db) /\ \A page \in pages' : PageInv(page)
  BY DEF StartPollSweep, EndPollSweep, CoreInv, PollerInv
<1>2. DbStep
  BY <1>1 DEF DbStep
<1>3. /\ scans' \in [Watches -> Opt(Scan)]
      /\ \A w \in Watches : scans'[w] \in {None, scans[w]}
  BY <1>1 DEF PrunedScans, PollerInv, Opt
<1>4. CASE StartPollSweep
  <2> DEFINE todo == [w \in PollingCandidates |-> db[w]]
  <2>1. PollingCandidates \in SUBSET Watches
    BY DEF PollingCandidates
  <2>2. todo \in [PollingCandidates -> Row] /\ DOMAIN todo = PollingCandidates
    BY <1>1, <2>1 DEF TableInv
  <2>3. todo \in Copied
    BY <2>1, <2>2 DEF Copied
  <2>4. \A w \in DOMAIN todo : Copies(todo[w], db[w])
    <3> SUFFICES ASSUME NEW w \in PollingCandidates PROVE Copies(db[w], db[w])
      OBVIOUS
    <3>1. RowInv(db[w]) /\ db[w].state = "active"
      BY <1>1, <2>1 DEF TableInv, PollingCandidates
    <3> QED
      BY <3>1 DEF RowInv, Copies, KeepsTerms
  <2> HIDE DEF todo
  <2>5. poll' = [IdlePoller EXCEPT !.pc = "sweep", !.todo = todo]
    BY <1>4 DEF StartPollSweep, todo
  <2>6. poll' \in PollTurn /\ poll'.pc = "sweep" /\ poll'.todo = todo /\ poll'.tip = None
    BY <2>3, <2>5, IdlePollerIsTyped DEF PollTurn
  <2> QED
    BY <1>1, <1>2, <1>3, <2>4, <2>6, SweepGoesOn
<1>5. CASE EndPollSweep
  <2>1. poll' = IdlePoller
    BY <1>5 DEF EndPollSweep
  <2> QED
    BY <1>1, <1>2, <1>3, <2>1, IdlePollerIsTyped, SweepGoesOn
<1> QED
  BY <1>4, <1>5

(* The row of a turn that waits for the Indexer. *)
LEMMA PollRow ==
  ASSUME CoreInv, PollerInv, InTurn(poll)
  PROVE  /\ poll \in PollTurn /\ poll.watch \in Watches /\ poll.watch # None
         /\ poll.row \in Row /\ Copies(poll.row, db[poll.watch])
         /\ poll.row.scanAfter \in Nat
         /\ \A v \in DOMAIN poll.todo : Copies(poll.todo[v], db[v])
         /\ poll.tip # None => poll.tip <= Tip
         /\ TableInv(db) /\ WorldInv /\ Judged(db[poll.watch]) /\ PaidFor(db[poll.watch])
         /\ scans \in [Watches -> Opt(Scan)]
         /\ \A page \in pages : PageInv(page)
BY DEF CoreInv, PollerInv, PollTurn, Opt, Copies

(* The catch of runPollingSweep. *)
LEMMA PollFailureKeeps ==
  ASSUME CoreInv, PollerInv, InTurn(poll), NEW permanent \in BOOLEAN, PollFailure(permanent)
  PROVE  DbStep /\ PollerInv'
<1> USE PollRow
<1>1. DbStep
  BY PollingFailureIsTrue DEF PollFailure, DbStep
<1>2. /\ poll' = PollTurnOver(poll) /\ scans' = DropScan(poll.watch) /\ pages' = {}
      /\ UNCHANGED ledgerVars
  BY DEF PollFailure
<1> QED
  BY <1>1, <1>2, TurnFields, DropScanForgets, SweepGoesOn

(* A failed tip request ends the turn and marks the sweep. *)
LEMMA SweepTipErrorKeeps ==
  ASSUME CoreInv, PollerInv, SweepTipError
  PROVE  DbStep /\ PollerInv'
<1>1. InTurn(poll)
  BY DEF SweepTipError, InTurn
<1> USE <1>1, PollRow
<1>2. DbStep
  BY PollingFailureIsTrue DEF SweepTipError, DbStep
<1>3. /\ poll' = [PollTurnOver(poll) EXCEPT !.tipFailed = TRUE]
      /\ scans' = DropScan(poll.watch) /\ pages' = {} /\ UNCHANGED ledgerVars
  BY DEF SweepTipError
<1>4. /\ poll' \in PollTurn /\ poll'.pc = "sweep" /\ poll'.todo = poll.todo
      /\ poll'.tip = poll.tip
  BY <1>3, TurnFields DEF PollTurn
<1> QED
  BY <1>2, <1>3, <1>4, DropScanForgets, SweepGoesOn

(* The checkpoint's tip. *)
LEMMA CheckpointTipKeeps ==
  ASSUME CoreInv, PollerInv, CheckpointTip
  PROVE  DbStep /\ PollerInv'
<1>1. InTurn(poll) /\ UNCHANGED <<db, scans, pages, ledgerVars>> /\ poll.pc # "page"
  BY DEF CheckpointTip, InTurn
<1> USE <1>1, PollRow
<1>2. DbStep
  BY DEF DbStep
<1>3. TableInv(db') /\ RowsProgress /\ ChainLater /\ Tip' = Tip
  BY <1>2, CoreStays, ChainStands DEF CoreInv, ledgerVars, Tip
<1>4. PICK view \in Views : poll' = [poll EXCEPT !.pc = "block", !.checkpoint = view]
  BY DEF CheckpointTip
<1>5. view \in Nat
  BY ChainFacts DEF Views
<1>6. /\ poll' \in PollTurn /\ poll'.pc = "block" /\ poll'.watch = poll.watch
      /\ poll'.row = poll.row /\ poll'.todo = poll.todo /\ poll'.tip = poll.tip
  BY <1>4, <1>5 DEF PollTurn, Opt
<1>7. \A v \in Watches : scans'[v] # None => ScanInv(v) /\ scans'[v] = scans[v]
  BY DEF PollerInv
<1> QED
  BY <1>2, <1>3, <1>6, <1>7, PollerStays

(* The checkpoint's block fixes the closing round. *)
LEMMA CheckpointBlockKeeps ==
  ASSUME CoreInv, PollerInv, CheckpointBlock
  PROVE  DbStep /\ PollerInv'
<1>1. /\ InTurn(poll) /\ UNCHANGED <<pages, ledgerVars>>
      /\ poll.checkpoint \in DOMAIN blocks
  BY DEF CheckpointBlock, InTurn
<1> USE <1>1, PollRow
<1> PICK w \in Watches : w = poll.watch
  OBVIOUS
<1> DEFINE d == IF PastDeadlineAt(poll.row, poll.checkpoint)
                THEN SetClosingRound(db, w, poll.checkpoint) ELSE db
<1>2. ScanOrFinalize(d, poll, w, d[w])
  BY DEF CheckpointBlock
<1>3. TrueStep(w, db, d) /\ AsBefore(db[w], d[w])
  <2>1. CASE PastDeadlineAt(poll.row, poll.checkpoint)
    <3>1. poll.checkpoint \in 1..Tip /\ PastDeadlineAt(db[w], poll.checkpoint)
      BY <2>1, ChainFacts DEF PastDeadlineAt, Copies, KeepsTerms
    <3> QED
      BY <2>1, <3>1, ClosingIsTrue
  <2>2. CASE ~PastDeadlineAt(poll.row, poll.checkpoint)
    BY <2>2, BookkeepingCalls
  <2> QED
    BY <2>1, <2>2
<1> HIDE DEF d
<1>4. Copies(d[w], d[w])
  <2>1. RowInv(db[w]) /\ RowInv(d[w]) /\ Progresses(db[w], d[w])
    BY <1>3 DEF TrueStep, SoundStep, TableInv
  <2>2. Copies(poll.row, d[w])
    BY <2>1, CopyOutgrown
  <2> QED
    BY <2>1, <2>2 DEF Copies, KeepsTerms, RowInv
<1> QED
  BY <1>2, <1>3, <1>4, ScanOrFinalizeKeeps

(* The window of a new scan ends within the chain and within its length. *)
LEMMA ScanMaxBounds ==
  ASSUME NEW row \in Row, row.scanAfter \in Nat, NEW tip \in Nat
  PROVE  /\ ScanMax(row, tip) \in Nat /\ ScanMax(row, tip) <= tip
         /\ ScanMax(row, tip) <= row.scanAfter + RoundWindow
<1> DEFINE S == {row.scanAfter + RoundWindow, tip} \cup ({row.closing} \ {None})
<1>1. row.closing \in Opt(Nat)
  BY DEF Row
<1>2. S \in SUBSET Nat /\ S # {} /\ tip \in S /\ row.scanAfter + RoundWindow \in S
  BY <1>1, PollingAssumption DEF Opt
<1> HIDE DEF S
<1>3. Min(S) \in S /\ Min(S) <= tip /\ Min(S) <= row.scanAfter + RoundWindow
  BY <1>2, FirstRound
<1>4. ScanMax(row, tip) = Min(S)
  BY DEF ScanMax, S
<1> QED
  BY <1>2, <1>3, <1>4

(* The sweep's tip opens a scan. *)
LEMMA SweepTipKeeps ==
  ASSUME CoreInv, PollerInv, SweepTip
  PROVE  DbStep /\ PollerInv'
<1>1. InTurn(poll) /\ poll.pc = "tip" /\ UNCHANGED <<db, pages, ledgerVars>>
  BY DEF SweepTip, InTurn
<1> USE <1>1, PollRow
<1>2. DbStep
  BY DEF DbStep
<1>3. TableInv(db') /\ RowsProgress /\ ChainLater /\ Tip' = Tip /\ Tip \in Nat
  BY <1>2, CoreStays, ChainStands, ChainFacts DEF CoreInv, ledgerVars, Tip
<1> PICK w \in Watches : w = poll.watch
  OBVIOUS
<1>4. PICK tip \in IF poll.tip = None THEN Views ELSE {poll.tip} :
        LET max == ScanMax(poll.row, tip)
        IN  \/ /\ max <= poll.row.scanAfter
               /\ poll' = [PollTurnOver(poll) EXCEPT !.tip = tip]
               /\ UNCHANGED scans
            \/ /\ max > poll.row.scanAfter
               /\ poll' = [poll EXCEPT !.pc = "page", !.tip = tip]
               /\ scans' = [scans EXCEPT ![w] =
                    [min |-> poll.row.scanAfter + 1, max |-> max, token |-> {}, seen |-> {}]]
  BY DEF SweepTip
<1>5. tip \in Nat /\ tip <= Tip
  <2>1. poll.tip \in Opt(Nat)
    BY DEF PollTurn
  <2> QED
    BY <1>3, <2>1 DEF Views, Opt
<1> DEFINE max == ScanMax(poll.row, tip)
           scan == [min |-> poll.row.scanAfter + 1, max |-> max, token |-> {}, seen |-> {}]
<1>6. max \in Nat /\ max <= tip /\ max <= poll.row.scanAfter + RoundWindow
  BY <1>5, ScanMaxBounds
<1>7. CASE poll' = [PollTurnOver(poll) EXCEPT !.tip = tip] /\ UNCHANGED scans
  <2>1. poll' \in PollTurn /\ poll'.pc = "sweep" /\ poll'.todo = poll.todo /\ poll'.tip = tip
    BY <1>5, <1>7, TurnFields DEF PollTurn, Opt
  <2> QED
    BY <1>2, <1>5, <1>7, <2>1, SweepGoesOn
<1>8. CASE poll' = [poll EXCEPT !.pc = "page", !.tip = tip] /\ scans' = [scans EXCEPT ![w] = scan]
  <2>1. /\ poll' \in PollTurn /\ poll'.pc = "page" /\ poll'.todo = poll.todo /\ poll'.tip = tip
        /\ poll'.watch = poll.watch /\ poll'.row = poll.row
    BY <1>5, <1>8 DEF PollTurn, Opt
  <2>2. /\ scan \in Scan /\ scan.min = poll.row.scanAfter + 1 /\ scan.max = max
        /\ scan.token = {} /\ scan.seen = {}
    BY <1>6 DEF Scan
  <2> HIDE DEF scan
  <2>3. /\ scans' \in [Watches -> Opt(Scan)] /\ scans'[w] = scan
        /\ \A v \in Watches \ {w} : scans'[v] = scans[v]
    BY <1>8, <2>2 DEF Opt
  <2>4. ScanInv(w)'
    <3>1. db'[w].serviceTx # None /\ max <= Tip'
      BY <1>3, <1>5, <1>6 DEF Copies
    <3>2. scan.max < scan.min + RoundWindow
      BY <1>6, <2>2, PollingAssumption DEF Copies
    <3> QED
      BY <2>2, <2>3, <3>1, <3>2 DEF ScanInv, NoneAmong
  <2>5. \A v \in Watches \ {w} : scans'[v] # None => ScanInv(v) /\ scans'[v] = scans[v]
    BY <2>3 DEF PollerInv
  <2> QED
    BY <1>2, <1>3, <1>5, <2>1, <2>2, <2>3, <2>4, <2>5, PollerStays
<1> QED
  BY <1>4, <1>7, <1>8

(* A page without a match: its continuation stands for rounds that do not  *)
(* satisfy the watch, and after the last page no round of the window does. *)
LEMMA NoMatchSoFar ==
  ASSUME NEW scan, NEW row, NoneAmong(row, scan.token),
         NEW page, AnswersTo(scan, page), Matches(row, page.items) = {}
  PROVE  /\ ~page.more => NoneEligible(row, scan.min, scan.max)
         /\ NoneAmong(row, page.next)
<1>1. \A r \in scan.token \cup page.items : ~Eligible(row, r)
  BY DEF Matches, NoneAmong
<1> QED
  BY <1>1 DEF AnswersTo, NoneEligible, NoneAmong

(* The scan of a turn that waits for a page. *)
LEMMA PageTurn ==
  ASSUME CoreInv, PollerInv, poll.pc = "page", NEW w \in Watches, w = poll.watch,
         NEW scan, scan = scans[w]
  PROVE  /\ scan \in Scan /\ Window(scan) /\ scan.min = poll.row.scanAfter + 1
         /\ db[w].serviceTx # None /\ db[w].spec \in Specs
         /\ NoneAmong(db[w], scan.token)
         /\ scan.max < scan.min + RoundWindow
         /\ \A r : Eligible(poll.row, r) <=> Eligible(db[w], r)
         /\ db[w].state = "active" => NoneEligible(db[w], 1, scan.min - 1)
<1>1. InTurn(poll)
  BY DEF InTurn
<1> USE PollRow
<1>2. ScanInv(w) /\ scan.min = poll.row.scanAfter + 1
  BY DEF PollerInv
<1>3. scan \in Scan /\ Window(scan)
  BY <1>2 DEF ScanInv, Scan, Window
<1>4. /\ db[w].serviceTx # None
      /\ NoneAmong(db[w], scan.token)
      /\ scan.max < scan.min + RoundWindow
  BY <1>2 DEF ScanInv
<1>5. db[w].spec \in Specs
  BY <1>1, <1>4 DEF Judged, TableInv, RowInv
<1>6. Copies(poll.row, db[w])
  BY <1>1
<1>7. \A r : Eligible(poll.row, r) <=> Eligible(db[w], r)
  BY <1>6, SameWindow DEF Copies, KeepsTerms
<1>8. db[w].state = "active" => NoneEligible(db[w], 1, scan.min - 1)
  BY <1>1, <1>2, <1>6 DEF Judged, NoneEligible, Copies
<1> QED
  BY <1>2, <1>3, <1>4, <1>5, <1>7, <1>8

(* What serviceWatch writes when the last page of a window is done. *)
WindowDone(d, w, scan, row, fresh) ==
    LET advanced == AdvanceScanRound(d, w, row.scanAfter, scan.max)
        closing  == advanced[w].closing
    IN  IF CanAdvance(d[w], row.scanAfter, scan.max)
        THEN ClearPollingFailure(
                 IF closing = scan.max THEN MarkExpired(advanced, w, scan.max, closing)
                 ELSE advanced, w)
        ELSE IF fresh THEN ClearPollingFailure(d, w) ELSE d

(* The cursor moves over a scanned window, and the watch may expire there. *)
LEMMA WindowIsTrue ==
  ASSUME WorldInv, NEW d, NEW w \in Watches, TableInv(d), NEW scan, Window(scan),
         NEW row, row.scanAfter \in Nat, NoneEligible(d[w], row.scanAfter + 1, scan.max),
         NEW fresh \in BOOLEAN
  PROVE  TrueStep(w, d, WindowDone(d, w, scan, row, fresh))
<1> DEFINE advanced == AdvanceScanRound(d, w, row.scanAfter, scan.max)
           closing == advanced[w].closing
           judged == IF closing = scan.max THEN MarkExpired(advanced, w, scan.max, closing)
                     ELSE advanced
<1>1. scan.max \in Nat /\ scan.max <= Tip
  BY DEF Window
<1>2. TrueStep(w, d, advanced) /\ AsBefore(d[w], advanced[w])
  BY <1>1, AdvanceIsTrue
<1>3. TableInv(advanced)
  BY <1>2 DEF TrueStep, SoundStep
<1> HIDE DEF advanced
<1>4. TrueStep(w, advanced, judged)
  <2>1. CASE closing = scan.max
    BY <1>1, <1>3, <2>1, ExpiryIsTrue
  <2>2. CASE closing # scan.max
    BY <1>3, <2>2, BookkeepingCalls
  <2> QED
    BY <2>1, <2>2
<1> HIDE DEF judged
<1>5. TrueStep(w, d, judged) /\ TableInv(judged)
  <2>1. TrueStep(w, d, judged)
    BY <1>2, <1>4, UnseenBefore
  <2> QED
    BY <1>4, <2>1 DEF TrueStep, SoundStep
<1>6. /\ TrueStep(w, judged, ClearPollingFailure(judged, w))
      /\ AsBefore(judged[w], ClearPollingFailure(judged, w)[w])
  BY <1>5, BookkeepingCalls
<1>7. TrueStep(w, d, ClearPollingFailure(judged, w))
  BY <1>5, <1>6, UnseenAfter
<1>8. TrueStep(w, d, IF fresh THEN ClearPollingFailure(d, w) ELSE d)
  BY BookkeepingCalls
<1> QED
  BY <1>7, <1>8 DEF WindowDone, advanced, judged

(* The page that the cache keeps of an answer is an honest one. *)
LEMMA RememberedIsHonest ==
  ASSUME NEW scan \in Scan, Window(scan), NEW page, AnswersTo(scan, page),
         \A p \in pages : PageInv(p)
  PROVE  \A p \in Remember(scan, page) : PageInv(p)
<1> DEFINE kept == [min |-> scan.min, max |-> scan.max, token |-> scan.token,
                    items |-> page.items, more |-> page.more, next |-> page.next]
<1>1. page.items \subseteq Nat /\ page.next \subseteq Nat /\ page.more \in BOOLEAN
  BY DEF AnswersTo, Window
<1>2. kept \in Page
  BY <1>1 DEF Page, Scan
<1>3. PageInv(kept)
  BY <1>2 DEF PageInv, Window, AnswersTo
<1> QED
  BY <1>3 DEF Remember

(* A scan that goes on behind a token. *)
Continued(scan, next) == [scan EXCEPT !.token = next, !.seen = @ \cup {next}]

(* A page of the window: a failure, a match, a continuation or the end.    *)
LEMMA ApplyPageKeeps ==
  ASSUME CoreInv, PollerInv, poll.pc = "page", NEW w \in Watches, w = poll.watch,
         NEW view \in Nat, NEW fresh \in BOOLEAN, NEW page,
         view >= scans[w].max => AnswersTo(scans[w], page),
         ApplyPage(scans[w], view, page, fresh)
  PROVE  DbStep /\ PollerInv'
<1>1. InTurn(poll)
  BY DEF InTurn
<1> USE <1>1, PollRow
<1> PICK scan : scan = scans[w]
  OBVIOUS
<1> DEFINE row == poll.row
           match == Matches(row, page.items)
           next == page.next
<1>2. /\ scan \in Scan /\ Window(scan) /\ scan.min = row.scanAfter + 1
      /\ db[w].serviceTx # None /\ db[w].spec \in Specs
      /\ NoneAmong(db[w], scan.token)
      /\ scan.max < scan.min + RoundWindow
      /\ \A r : Eligible(row, r) <=> Eligible(db[w], r)
      /\ db[w].state = "active" => NoneEligible(db[w], 1, scan.min - 1)
  BY PageTurn
<1>3. CASE PollFailure(FALSE)
  BY <1>3, PollFailureKeeps
<1>4. ASSUME ~PollFailure(FALSE) PROVE Covers(scan, view)
  BY <1>4 DEF ApplyPage
<1>5. SUFFICES ASSUME Covers(scan, view) PROVE DbStep /\ PollerInv'
  BY <1>3, <1>4
<1>6. AnswersTo(scan, page)
  BY <1>5 DEF Covers
<1>7. \A r : r \in match <=> r \in page.items /\ Eligible(db[w], r)
  BY <1>2 DEF Matches
<1>8. match = {} => Matches(db[w], page.items) = {}
  BY <1>7 DEF Matches
<1>9. \A p \in Remember(scan, page) : PageInv(p)
  BY <1>2, <1>6, RememberedIsHonest DEF PollerInv
<1> DEFINE Answered == /\ poll' = PollTurnOver(poll)
                       /\ pages' = Remember(scan, page)
                       /\ UNCHANGED ledgerVars
<1>10. ASSUME Answered PROVE \A p \in pages' : PageInv(p)
  BY <1>9, <1>10
<1>11. CASE /\ \E r \in match : db' = MarkMatched(db, w, r)
            /\ scans' = DropScan(w) /\ Answered
  <2> PICK round \in match : db' = MarkMatched(db, w, round)
    BY <1>11
  <2>1. /\ round \in scan.min..scan.max /\ round \in 1..Tip /\ Eligible(db[w], round)
        /\ round - RoundWindow <= scan.min - 1
    <3>1. round \in page.items /\ Eligible(db[w], round)
      BY <1>7
    <3>2. round \in scan.min..scan.max
      BY <1>6, <3>1 DEF AnswersTo
    <3>3. /\ scan.min \in Nat \ {0} /\ scan.max \in Nat /\ scan.max <= Tip /\ Tip \in Nat
          /\ RoundWindow \in Nat
      BY <1>2, ChainFacts, PollingAssumption DEF Window, CoreInv
    <3>4. scan.max < scan.min + RoundWindow
      BY <1>2
    <3> QED
      BY <3>1, <3>2, <3>3, <3>4
  <2>2. ASSUME db[w].state = "active" PROVE NoneEligible(db[w], 1, round - RoundWindow)
    <3>1. \A r \in 1..(round - RoundWindow) : r \in 1..(scan.min - 1)
      BY <1>2, <2>1, PollingAssumption DEF Window
    <3> QED
      BY <1>2, <2>2, <3>1 DEF NoneEligible
  <2>3. TrueStep(w, db, MarkMatched(db, w, round))
    BY <2>1, <2>2, MatchIsTrue
  <2>4. DbStep
    BY <2>3 DEF DbStep
  <2> QED
    BY <1>10, <1>11, <2>4, TurnFields, DropScanForgets, SweepGoesOn
<1>12. CASE /\ match = {} /\ db' = (IF fresh THEN ClearPollingFailure(db, w) ELSE db)
            /\ scans' = [scans EXCEPT ![w] = Continued(scan, next)] /\ Answered
  <2>1. DbStep
    BY <1>12, BookkeepingCalls DEF DbStep
  <2>2. NoneAmong(db[w], next) /\ next \subseteq scan.min..scan.max
    BY <1>2, <1>6, <1>8, <1>12, NoMatchSoFar DEF AnswersTo, Window
  <2>3. /\ Continued(scan, next) \in Scan
        /\ Continued(scan, next).min = scan.min /\ Continued(scan, next).max = scan.max
        /\ Continued(scan, next).token = next
    <3>1. next \in SUBSET Nat
      BY <1>2, <2>2 DEF Window
    <3>2. scan.seen \cup {next} \in SUBSET SUBSET Nat
      BY <1>2, <3>1 DEF Scan
    <3> QED
      BY <1>2, <3>1, <3>2 DEF Continued, Scan
  <2>4. /\ scans' \in [Watches -> Opt(Scan)] /\ scans'[w] = Continued(scan, next)
        /\ \A v \in Watches \ {w} : scans'[v] = scans[v]
    BY <1>12, <2>3 DEF Opt
  <2>5. RowsProgress /\ UNCHANGED ledgerVars /\ Tip' = Tip
    BY <1>12, <2>1, CoreStays DEF ledgerVars, Tip
  <2>6. ScanInv(w)'
    <3>1. /\ db'[w].serviceTx = db[w].serviceTx /\ db'[w].spec = db[w].spec
          /\ db'[w].expiresAt = db[w].expiresAt
          /\ db'[w].activationRound = db[w].activationRound
      BY <1>2, <2>5, InsertedStays
    <3>2. \A r \in next : ~Eligible(db[w], r)'
      BY <2>2, <2>5, <3>1 DEF NoneAmong, Eligible, ledgerVars
    <3>3. scan.max <= Tip'
      BY <1>2, <2>5 DEF Window
    <3> QED
      BY <1>2, <2>2, <2>3, <2>4, <3>1, <3>2, <3>3 DEF ScanInv, NoneAmong
  <2>7. \A v \in Watches : scans'[v] \in {None, scans[v]} \/ ScanInv(v)'
    BY <2>4, <2>6
  <2> QED
    BY <1>10, <1>12, <2>1, <2>4, <2>7, TurnFields, SweepGoesOn
<1>13. CASE /\ match = {} /\ ~page.more /\ db' = WindowDone(db, w, scan, row, fresh)
            /\ scans' = DropScan(w) /\ Answered
  <2>1. NoneEligible(db[w], row.scanAfter + 1, scan.max)
    BY <1>2, <1>6, <1>8, <1>13, NoMatchSoFar
  <2>2. TrueStep(w, db, WindowDone(db, w, scan, row, fresh))
    BY <1>2, <2>1, WindowIsTrue
  <2>3. DbStep
    BY <1>13, <2>2 DEF DbStep
  <2> QED
    BY <1>10, <1>13, <2>3, TurnFields, DropScanForgets, SweepGoesOn
<1>14. \/ PollFailure(FALSE)
       \/ /\ \E r \in match : db' = MarkMatched(db, w, r)
          /\ scans' = DropScan(w) /\ Answered
       \/ /\ match = {} /\ db' = (IF fresh THEN ClearPollingFailure(db, w) ELSE db)
          /\ scans' = [scans EXCEPT ![w] = Continued(scan, next)] /\ Answered
       \/ /\ match = {} /\ ~page.more /\ db' = WindowDone(db, w, scan, row, fresh)
          /\ scans' = DropScan(w) /\ Answered
  <2> DEFINE Scanned == [scans EXCEPT ![w].token = next, ![w].seen = @ \cup {next}]
  <2>1. Scanned = [scans EXCEPT ![w] = Continued(scan, next)]
    BY DEF Continued
  <2> QED
    BY <2>1 DEF ApplyPage, WindowDone, LastOf
<1> QED
  BY <1>3, <1>11, <1>12, <1>13, <1>14

(* The turn's page, from a replica or out of the cache. *)
LEMMA PageKeeps ==
  ASSUME CoreInv, PollerInv, FetchPage \/ CachedPage
  PROVE  DbStep /\ PollerInv'
<1>1. poll.pc = "page" /\ InTurn(poll)
  BY DEF FetchPage, CachedPage, InTurn
<1> USE <1>1, PollRow
<1> PICK w \in Watches : w = poll.watch
  OBVIOUS
<1>2. Window(scans[w]) /\ scans[w].max \in Nat
  BY PageTurn DEF Window
<1>3. CASE FetchPage
  <2>1. PICK view \in Views : \E page \in PageAnswers(scans[w], view) :
          ApplyPage(scans[w], view, page, TRUE)
    BY <1>3 DEF FetchPage
  <2> PICK page \in PageAnswers(scans[w], view) : ApplyPage(scans[w], view, page, TRUE)
    BY <2>1
  <2>2. view \in Nat
    BY ChainFacts DEF Views
  <2>3. view >= scans[w].max => AnswersTo(scans[w], page)
    BY <1>2, <2>2, AnswersAreHonest
  <2> QED
    BY <2>2, <2>3, ApplyPageKeeps
<1>4. CASE CachedPage
  <2>1. PICK page \in pages :
          /\ <<page.min, page.max, page.token>> = <<scans[w].min, scans[w].max, scans[w].token>>
          /\ ApplyPage(scans[w], scans[w].max, page, FALSE)
    BY <1>4 DEF CachedPage
  <2>2. /\ page.min = scans[w].min /\ page.max = scans[w].max /\ page.token = scans[w].token
        /\ AnswersTo(page, page)
    BY <2>1 DEF PageInv, PollerInv
  <2>3. AnswersTo(scans[w], page)
    BY <2>2 DEF AnswersTo
  <2> QED
    BY <1>2, <2>1, <2>3, ApplyPageKeeps
<1> QED
  BY <1>3, <1>4

(* Every step of the poller keeps the table true and its memory honest. *)
LEMMA PollerKeeps ==
  ASSUME CoreInv, PollerInv, PollerNext
  PROVE  DbStep /\ PollerInv' /\ UNCHANGED ledgerVars
<1>1. UNCHANGED ledgerVars
  BY DEF PollerNext, PollerStep, StartPollSweep, EndPollSweep, PollClaim, CheckpointTip,
         CheckpointBlock, SweepTip, FetchPage, CachedPage, ApplyPage, PollError, PollFailure,
         SweepTipError, PollDue
<1>2. CASE \E w \in Watches : PollDue(w)
  <2>1. DbStep
    BY <1>2, BookkeepingCalls DEF PollDue, DbStep, CoreInv
  <2>2. UNCHANGED pollingVars
    BY <1>2 DEF PollDue, pollingVars
  <2>3. TableInv(db') /\ RowsProgress /\ ChainLater
    BY <1>1, <2>1, CoreStays, ChainStands DEF CoreInv
  <2> QED
    BY <1>1, <2>1, <2>2, <2>3, PollerWaits
<1>3. CASE PollError
  <2>1. InTurn(poll) /\ \E permanent \in BOOLEAN : PollFailure(permanent)
    BY <1>3 DEF PollError, InTurn
  <2> QED
    BY <1>1, <2>1, PollFailureKeeps
<1> QED
  BY <1>1, <1>2, <1>3, PollSweepKeeps, PollClaimKeeps, CheckpointTipKeeps, CheckpointBlockKeeps,
     SweepTipKeeps, PageKeeps, SweepTipErrorKeeps DEF PollerNext, PollerStep

-----------------------------------------------------------------------------
(***************************************************************************)
(* The service: every actor relies on its own memory and on the table,     *)
(* and none disturbs what another relies on.                               *)
(***************************************************************************)
ServiceInv == SettlementInv /\ PollerInv

(* The process starts with no memory and an empty table. *)
LEMMA ServiceStarts == Init => ServiceInv
<1> SUFFICES ASSUME Init PROVE ServiceInv
  OBVIOUS
<1>1. SettlementInv
  BY SettlementStarts DEF Init
<1>2. poll = IdlePoller /\ scans = NoScans /\ pages = {}
  BY DEF Init, PollingInit
<1>3. PollerInv
  BY <1>2, IdlePollerIsTyped DEF PollerInv, InTurn, NoScans, Opt
<1> QED
  BY <1>1, <1>3 DEF ServiceInv

(* Every step of the service. *)
LEMMA ServiceKeeps ==
  ASSUME ServiceInv, [Next]_vars
  PROVE  ServiceInv' /\ RowsProgress /\ ChainLater
<1> USE DEF ServiceInv
<1>1. CoreInv
  BY DEF SettlementInv
<1>2. ASSUME SettlementInv', RowsProgress, ChainLater, UNCHANGED pollingVars
      PROVE  PollerInv'
  BY <1>1, <1>2, PollerWaits DEF SettlementInv, CoreInv
<1>3. CASE (PurchaseNext \/ ReconcilerNext) /\ UNCHANGED <<pollingVars, crashes>>
  BY <1>2, <1>3, SettlementKeeps
<1>4. CASE PollerNext /\ UNCHANGED <<settlementVars, crashes>>
  BY <1>1, <1>4, PollerKeeps, SettlementKeeps
<1>5. CASE (NewBlock \/ ClockTick) /\ UNCHANGED <<db, settlementVars, pollingVars, crashes>>
  BY <1>2, <1>5, SettlementKeeps
<1>6. CASE Crash
  <2>1. SettlementInv' /\ RowsProgress /\ ChainLater
    BY <1>6, SettlementKeeps DEF Crash, ProcessDies
  <2>2. poll' = IdlePoller /\ scans' = NoScans /\ pages' = {}
    BY <1>6 DEF Crash, LosePollingMemory
  <2>3. PollerInv'
    BY <2>2, IdlePollerIsTyped DEF PollerInv, InTurn, NoScans, Opt
  <2> QED
    BY <2>1, <2>3
<1>7. CASE UNCHANGED vars
  <2>1. DbStep /\ UNCHANGED <<ledgerVars, settlementVars, pollingVars>>
    BY <1>7 DEF vars, DbStep
  <2> QED
    BY <1>2, <2>1, SettlementKeeps
<1> QED
  BY <1>3, <1>4, <1>5, <1>6, <1>7 DEF Next

(* Whatever the three actors, the chain and crashes interleave, the table  *)
(* is sound and true, and every actor's memory is.                         *)
THEOREM ServiceInvariant == Spec => []ServiceInv
<1>1. ServiceInv /\ [Next]_vars => ServiceInv'
  BY ServiceKeeps
<1> QED
  BY <1>1, ServiceStarts, PTL DEF Spec

-----------------------------------------------------------------------------
(***************************************************************************)
(* What the buyer is promised.                                             *)
(***************************************************************************)

(* What the invariants of table and requests say of payments. *)
LEMMA PaymentsAreSafe ==
  ASSUME CoreInv, PurchaseInv
  PROVE  /\ NoDoubleSettlement /\ EveryPaymentIsReserved /\ NoPaidWatchRejected
         /\ ActivatedWasPaid /\ SuccessIsDurable
<1>1. ASSUME NEW q \in Requests, req[q].watch # None
      PROVE  /\ req[q].watch \in Watches /\ req[q].tx \in Txs
             /\ db[req[q].watch].key = req[q].key
             /\ db[req[q].watch].proof =>
                  /\ db[req[q].watch].tx = req[q].tx
                  /\ db[req[q].watch].payer = PayerOf[req[q].tx]
  BY <1>1 DEF PurchaseInv, RequestInv, Request, Opt, NewRequest
<1>2. NoDoubleSettlement
  <2> SUFFICES ASSUME NEW q1 \in Requests, NEW q2 \in Requests, q1 # q2,
                      Reserved(q1), Reserved(q2)
               PROVE  /\ req[q1].watch # req[q2].watch
                      /\ req[q1].tx # req[q2].tx
                      /\ PayerOf[req[q1].tx] = PayerOf[req[q2].tx] => req[q1].key # req[q2].key
    BY DEF NoDoubleSettlement
  <2>1. /\ req[q1].watch # None /\ db[req[q1].watch].proof
        /\ req[q2].watch # None /\ db[req[q2].watch].proof
    BY DEF Reserved
  <2>2. req[q1].watch # req[q2].watch
    BY <2>1 DEF PurchaseInv, WatchesUnshared
  <2>3. Apart(db[req[q1].watch], db[req[q2].watch])
    BY <1>1, <2>1, <2>2 DEF CoreInv, TableInv
  <2>4. db[req[q1].watch].payer # None /\ db[req[q1].watch].tx # None
    BY <1>1, <2>1, StoreAssumption DEF CoreInv, TableInv, RowInv
  <2> QED
    BY <1>1, <2>1, <2>2, <2>3, <2>4 DEF Apart
<1>3. EveryPaymentIsReserved
  BY DEF PurchaseInv
<1>4. NoPaidWatchRejected
  BY DEF NoPaidWatchRejected, CoreInv, PaidFor, Hopeless
<1>5. ActivatedWasPaid
  BY DEF ActivatedWasPaid, Activated, CoreInv, PaidFor
<1>6. SuccessIsDurable
  <2> SUFFICES ASSUME NEW q \in Requests, req[q].answer = "purchased"
               PROVE  Activated(db[req[q].watch]) /\ Paid(req[q].tx)
    BY DEF SuccessIsDurable
  <2>1. req[q].watch # None /\ Activated(db[req[q].watch])
    BY DEF PurchaseInv, RequestInv
  <2>2. req[q].watch \in Watches
    BY <1>1, <2>1
  <2>3. db[req[q].watch].proof /\ Paid(db[req[q].watch].tx)
    BY <2>1, <2>2 DEF Activated, CoreInv, PaidFor
  <2> QED
    BY <1>1, <2>1, <2>3
<1> QED
  BY <1>2, <1>3, <1>4, <1>5, <1>6

(* An expired row will never match: rounds behind the cursor were scanned, *)
(* and rounds after the closing round are too late.                        *)
LEMMA ExpiredForGood ==
  ASSUME WorldInv, NEW row, RowInv(row), Judged(row), row.state = "expired"
  PROVE  /\ \A r \in DOMAIN blocks : ~Eligible(row, r)
         /\ blocks # <<>> /\ LastTime * MsPerSecond >= row.expiresAt
<1>1. /\ Tip \in Nat /\ DOMAIN blocks = 1..Tip /\ \A r \in 1..Tip : blocks[r].time \in Nat
      /\ MsPerSecond \in Nat
  BY ChainFacts, LedgerAssumption
<1>2. /\ row.closing \in 1..Tip /\ PastDeadlineAt(row, row.closing)
      /\ row.scanAfter \in Nat /\ row.scanAfter >= row.closing
      /\ NoneEligible(row, 1, row.scanAfter) /\ row.expiresAt \in Nat
  BY StoreAssumption DEF Judged, RowInv, Row
<1>3. \A a, b, m \in Nat : a <= b => a * m <= b * m /\ a * m \in Nat /\ b * m \in Nat
  BY SMT
<1>4. ASSUME NEW r \in 1..Tip, r >= row.closing
      PROVE  blocks[r].time * MsPerSecond >= row.expiresAt
  <2>1. blocks[row.closing].time <= blocks[r].time
    BY <1>1, <1>2, <1>4 DEF WorldInv, TimeIsMonotone
  <2>2. /\ blocks[row.closing].time * MsPerSecond <= blocks[r].time * MsPerSecond
        /\ blocks[row.closing].time * MsPerSecond \in Nat
        /\ blocks[r].time * MsPerSecond \in Nat
    BY <1>1, <1>2, <1>3, <2>1
  <2> QED
    BY <1>2, <2>2 DEF PastDeadlineAt
<1>5. ASSUME NEW r \in 1..Tip, Eligible(row, r) PROVE FALSE
  <2>1. r > row.scanAfter
    BY <1>1, <1>2, <1>5 DEF NoneEligible
  <2>2. blocks[r].time * MsPerSecond >= row.expiresAt
    BY <1>1, <1>2, <1>4, <2>1
  <2>3. blocks[r].time * MsPerSecond < row.expiresAt /\ blocks[r].time * MsPerSecond \in Nat
    BY <1>1, <1>3, <1>5 DEF Eligible
  <2> QED
    BY <1>2, <2>2, <2>3
<1>6. blocks # <<>> /\ LastTime = blocks[Tip].time /\ Tip \in 1..Tip /\ Tip >= row.closing
  BY <1>1, <1>2 DEF LastTime, Tip
<1> QED
  BY <1>1, <1>4, <1>5, <1>6

(* What the invariants of the table say of verdicts.                       *)
LEMMA VerdictsAreTrue ==
  ASSUME WorldInv, TableInv(db), \A w \in Watches : Judged(db[w])
  PROVE  NoFalseExpiry /\ MatchIsInFirstWindow
<1>1. Tip \in Nat /\ DOMAIN blocks = 1..Tip
  BY ChainFacts
<1>2. NoFalseExpiry
  BY ExpiredForGood DEF NoFalseExpiry, Satisfied, TableInv
<1>3. MatchIsInFirstWindow
  <2> SUFFICES ASSUME NEW w \in Watches, db[w].state = "matched"
               PROVE  /\ Eligible(db[w], db[w].matchedRound)
                      /\ \A r \in 1..Tip :
                           Eligible(db[w], r) => db[w].matchedRound < r + RoundWindow
    BY <1>1 DEF MatchIsInFirstWindow
  <2>1. /\ db[w].matchedRound \in 1..Tip /\ Eligible(db[w], db[w].matchedRound)
        /\ NoneEligible(db[w], 1, db[w].matchedRound - RoundWindow)
    BY DEF Judged
  <2> QED
    BY <1>1, <2>1, PollingAssumption DEF NoneEligible
<1> QED
  BY <1>2, <1>3

(* What the recovery endpoint said of a row is still true of a later one.  *)
LEMMA AnswersStand ==
  ASSUME NEW old, NEW new, RowInv(old), RowInv(new), Progresses(old, new)
  PROVE  /\ ToldTerminal(old) => ToldTerminal(new)
         /\ Recoverable(old) => Recoverable(new)
<1>1. /\ old.state \in WatchState \cup {"absent"} /\ new.state \in WatchState \cup {"absent"}
      /\ old.terminal \in BOOLEAN /\ new.terminal \in BOOLEAN
  BY DEF RowInv, Row
<1>2. ASSUME Recoverable(old) PROVE Recoverable(new)
  BY <1>1, <1>2 DEF Recoverable, Progresses, RowInv, Settling, WatchState
<1>3. ASSUME ToldTerminal(old) PROVE ToldTerminal(new)
  <2>1. Final(old) /\ old.state # "absent"
    BY <1>1, <1>3 DEF ToldTerminal, ToldRetry, Recoverable, Final, RowInv, WatchState
  <2>2. /\ new.state = old.state /\ new.terminal = old.terminal
        /\ new.serviceTx = old.serviceTx
    BY <2>1 DEF Progresses
  <2> QED
    BY <1>3, <2>2 DEF ToldTerminal, ToldRetry, Recoverable
<1> QED
  BY <1>2, <1>3

(* No reserved payment and no key of a payer is settled twice, whatever    *)
(* retries, crashes and failed settlements come between (app.ts,           *)
(* prepareWatch and its unique indexes).                                   *)
THEOREM NeverSettledTwice == Spec => []NoDoubleSettlement
<1>1. ServiceInv => NoDoubleSettlement
  BY PaymentsAreSafe DEF ServiceInv, SettlementInv
<1> QED
  BY <1>1, ServiceInvariant, PTL

(* Every payment the facilitator was handed is expected by a durable row,  *)
(* or came without an intent off MainNet.                                  *)
THEOREM PaymentsAlwaysReserved == Spec => []EveryPaymentIsReserved
<1>1. ServiceInv => EveryPaymentIsReserved
  BY PaymentsAreSafe DEF ServiceInv, SettlementInv
<1> QED
  BY <1>1, ServiceInvariant, PTL

(* Neither callback nor reconciler writes off a watch whose payment is or  *)
(* may still be confirmed under its terms, however lagging replicas, pages *)
(* and crashes break up its absence proof.                                 *)
THEOREM PaidWatchesNeverRejected == Spec => []NoPaidWatchRejected
<1>1. ServiceInv => NoPaidWatchRejected
  BY PaymentsAreSafe DEF ServiceInv, SettlementInv
<1> QED
  BY <1>1, ServiceInvariant, PTL

(* An activated watch was paid by its own payment, confirmed in the round  *)
(* its scan starts after.                                                  *)
THEOREM ActivationIsAlwaysPaid == Spec => []ActivatedWasPaid
<1>1. ServiceInv => ActivatedWasPaid
  BY PaymentsAreSafe DEF ServiceInv, SettlementInv
<1> QED
  BY <1>1, ServiceInvariant, PTL

(* A buyer who was answered with success owns a durably activated watch.   *)
THEOREM SuccessAlwaysDurable == Spec => []SuccessIsDurable
<1>1. ServiceInv => SuccessIsDurable
  BY PaymentsAreSafe DEF ServiceInv, SettlementInv
<1> QED
  BY <1>1, ServiceInvariant, PTL

(* No watch expires that some transfer of the chain satisfied in time.     *)
THEOREM ExpiryNeverFalse == Spec => []NoFalseExpiry
<1>1. ServiceInv => NoFalseExpiry
  BY VerdictsAreTrue DEF ServiceInv, SettlementInv, CoreInv
<1> QED
  BY <1>1, ServiceInvariant, PTL

(* A match names a transfer that satisfies the watch, however the provider *)
(* orders and splits its pages; none that does lies a whole window before. *)
THEOREM MatchAlwaysInFirstWindow == Spec => []MatchIsInFirstWindow
<1>1. ServiceInv => MatchIsInFirstWindow
  BY VerdictsAreTrue DEF ServiceInv, SettlementInv, CoreInv
<1> QED
  BY <1>1, ServiceInvariant, PTL

(* What the recovery endpoint may tell of a watch, once it may.             *)
AnswersLast ==
    \A w \in Watches :
        /\ ToldTerminal(db[w]) => ToldTerminal(db'[w])
        /\ Recoverable(db[w]) => Recoverable(db'[w])

(* Rows that are sound and only progress keep every answer.                 *)
LEMMA ProgressKeepsAnswers ==
  ASSUME SettlementInv, SettlementInv', RowsProgress
  PROVE  AnswersLast
<1>1. \A w \in Watches : RowInv(db[w]) /\ RowInv(db'[w]) /\ Progresses(db[w], db'[w])
  BY DEF SettlementInv, CoreInv, TableInv, RowsProgress
<1> QED
  BY <1>1, AnswersStand DEF AnswersLast

(* What the recovery endpoint told a buyer stays true.                      *)
THEOREM RecoveryAnswersStand == Spec => RecoveryAnswerStands
<1>1. ServiceInv /\ [Next]_vars => [AnswersLast]_db
  BY ServiceKeeps, ProgressKeepsAnswers DEF ServiceInv
<1> QED
  BY <1>1, ServiceInvariant, PTL DEF Spec, RecoveryAnswerStands, AnswersLast

(* The settlement half alone: what one of its steps keeps.                  *)
LEMMA SettlementHalfKeeps ==
  ASSUME SettlementInv, [SettlementNext]_settlementSpecVars
  PROVE  SettlementInv' /\ RowsProgress
<1>1. CASE SettlementNext
  BY <1>1, SettlementKeeps DEF SettlementNext, SettlementCrash, ProcessDies
<1>2. CASE UNCHANGED settlementSpecVars
  BY <1>2, SettlementKeeps DEF settlementSpecVars, DbStep
<1> QED
  BY <1>1, <1>2

(* The settlement half alone keeps its invariant.                           *)
LEMMA SettlementHalfHolds == SettlementSpec => []SettlementInv
<1>1. SettlementStart => SettlementInv
  BY SettlementStarts DEF SettlementStart
<1>2. SettlementInv /\ [SettlementNext]_settlementSpecVars => SettlementInv'
  BY SettlementHalfKeeps
<1> QED
  BY <1>1, <1>2, PTL DEF SettlementSpec

(* The settlement half alone keeps the same promises: no payment is settled *)
(* twice, unreserved, written off although it landed, or reported as a sale *)
(* that is not in the table, and nothing works unpaid.                      *)
THEOREM SettlementAlone ==
  SettlementSpec => [](/\ NoDoubleSettlement /\ EveryPaymentIsReserved /\ NoPaidWatchRejected
                       /\ ActivatedWasPaid /\ SuccessIsDurable)
<1>1. SettlementInv => /\ NoDoubleSettlement /\ EveryPaymentIsReserved /\ NoPaidWatchRejected
                       /\ ActivatedWasPaid /\ SuccessIsDurable
  BY PaymentsAreSafe DEF SettlementInv
<1> QED
  BY <1>1, SettlementHalfHolds, PTL

(* Nor does the settlement half alone withdraw an answer of the recovery    *)
(* endpoint.                                                                *)
THEOREM SettlementAnswersStand == SettlementSpec => RecoveryAnswerStands
<1>1. SettlementInv /\ SettlementInv' /\ [SettlementNext]_settlementSpecVars => [AnswersLast]_db
  BY SettlementHalfKeeps, ProgressKeepsAnswers
<1> QED
  BY <1>1, SettlementHalfHolds, PTL DEF SettlementSpec, RecoveryAnswerStands, AnswersLast

(* A watch that was sold, paid and activated in round 1. *)
LEMMA SoldRowIsTrue ==
  ASSUME LedgerTypeOK, Tip = 1, NEW s \in Specs, NEW t \in Txs, NEW k \in Keys,
         landed[t] = 1, Paid(t)
  PROVE  /\ RowInv(SoldRow(s, t, k)) /\ Judged(SoldRow(s, t, k)) /\ PaidFor(SoldRow(s, t, k))
         /\ Open(SoldRow(s, t, k)) /\ SoldRow(s, t, k).proof
         /\ SoldRow(s, t, k).tx = t /\ SoldRow(s, t, k).serviceTx = t
         /\ SoldRow(s, t, k).payer = PayerOf[t] /\ SoldRow(s, t, k).key = k
         /\ PayerOf[t] # None /\ t # None
<1> DEFINE row == SoldRow(s, t, k)
<1>1. PayerOf[t] \in Payers /\ PayerOf[t] # None /\ t # None
  BY StoreAssumption
<1>2. /\ row \in Row /\ row.state = "active" /\ row.proof /\ row.spec = s /\ row.tx = t
      /\ row.serviceTx = t /\ row.payer = PayerOf[t] /\ row.key = k /\ row.used = 0
      /\ row.activationRound = 1 /\ row.scanAfter = 1 /\ row.closing = None
      /\ row.reason = None /\ ~row.terminal
  BY <1>1, LedgerAssumption DEF SoldRow, NoRow, Row, Opt, WatchState
<1> HIDE DEF row
<1>3. RowInv(row)
  BY <1>1, <1>2, StoreAssumption DEF RowInv, Settling, Reasons
<1>4. NoneEligible(row, 1, 1)
  BY <1>2 DEF NoneEligible, Eligible
<1>5. Judged(row)
  BY <1>2, <1>4 DEF Judged
<1>6. PaidFor(row)
  BY <1>1, <1>2 DEF PaidFor, Rejected
<1>7. Open(row)
  BY <1>2 DEF Open
<1> QED
  BY <1>1, <1>2, <1>3, <1>5, <1>6, <1>7 DEF row

(* The table the polling half starts with is sound and true. *)
LEMMA PollingStarts == PollingStart => CoreInv /\ PollerInv
<1> SUFFICES ASSUME PollingStart PROVE CoreInv /\ PollerInv
  OBVIOUS
<1>1. /\ blocks = <<[time |-> 0, pays |-> None]>> /\ submitted = Txs
      /\ landed = [t \in Txs |-> 1] /\ now = 0
      /\ poll = IdlePoller /\ scans = NoScans /\ pages = {}
  BY DEF PollingStart, PollingInit
<1>2. Tip = 1 /\ DOMAIN blocks = {1} /\ blocks \in Seq(Block)
  <2>1. [time |-> 0, pays |-> None] \in Block
    BY LedgerAssumption DEF Block
  <2> QED
    BY <1>1, <2>1 DEF Tip
<1>3. WorldInv
  BY <1>1, <1>2, LedgerAssumption DEF WorldInv, LedgerTypeOK, TimeIsMonotone, Block
<1>4. PICK sold \in SUBSET Watches, spec \in [Watches -> Specs],
           tx \in Injections(Watches, Txs), key \in Injections(Watches, Keys) :
        /\ \A w \in sold : Paid(tx[w])
        /\ Cardinality(sold) <= MaxOpenWatches
        /\ \A p \in Payers :
             Cardinality({w \in sold : PayerOf[tx[w]] = p}) <= MaxOpenWatchesPerPayer
        /\ db = [w \in Watches |-> IF w \in sold THEN SoldRow(spec[w], tx[w], key[w]) ELSE NoRow]
  BY DEF PollingStart
<1>5. /\ \A w \in Watches : tx[w] \in Txs /\ key[w] \in Keys /\ spec[w] \in Specs
      /\ \A v, w \in Watches : v # w => tx[v] # tx[w] /\ key[v] # key[w]
  BY DEF Injections
<1>6. ASSUME NEW w \in sold
      PROVE  /\ RowInv(db[w]) /\ Judged(db[w]) /\ PaidFor(db[w])
             /\ Open(db[w]) /\ db[w].proof /\ db[w].tx = tx[w] /\ db[w].serviceTx = tx[w]
             /\ db[w].payer = PayerOf[tx[w]] /\ db[w].key = key[w]
             /\ PayerOf[tx[w]] # None /\ tx[w] # None
  BY <1>1, <1>2, <1>3, <1>4, <1>5, <1>6, SoldRowIsTrue DEF WorldInv
<1>7. ASSUME NEW w \in Watches \ sold
      PROVE  /\ db[w] = NoRow /\ RowInv(db[w]) /\ Judged(db[w]) /\ PaidFor(db[w]) /\ ~Open(db[w])
             /\ db[w].tx = None /\ db[w].serviceTx = None /\ db[w].payer = None
  <2>1. db[w] = NoRow
    BY <1>4
  <2>2. RowInv(NoRow)
    BY EmptyTableIsSound DEF TableInv, EmptyTable
  <2> QED
    BY <2>1, <2>2, StoreAssumption DEF NoRow, Judged, PaidFor, Rejected, Open
<1>8. TableInv(db)
  <2>1. \A w \in Watches : RowInv(db[w]) /\ db[w] \in Row
    BY <1>6, <1>7 DEF RowInv
  <2>2. db \in [Watches -> Row]
    BY <1>4, <2>1
  <2>3. \A v, w \in Watches : v # w => Apart(db[v], db[w])
    BY <1>5, <1>6, <1>7 DEF Apart
  <2>4. OpenWatches(db) = sold
    BY <1>6, <1>7 DEF OpenWatches
  <2>5. ASSUME NEW p \in Payers PROVE SoldTo(db, p) = {w \in sold : PayerOf[tx[w]] = p}
    BY <1>6, <2>4 DEF SoldTo, OpenWatchesOf, Coalesce
  <2> QED
    BY <1>4, <2>1, <2>2, <2>3, <2>4, <2>5 DEF TableInv
<1>9. CoreInv
  BY <1>3, <1>6, <1>7, <1>8 DEF CoreInv
<1>10. PollerInv
  BY <1>1, IdlePollerIsTyped DEF PollerInv, InTurn, NoScans, Opt
<1> QED
  BY <1>9, <1>10

(* The polling half alone gives the same verdicts. *)
THEOREM PollingAlone == PollingSpec => [](NoFalseExpiry /\ MatchIsInFirstWindow)
<1> DEFINE Inv == CoreInv /\ PollerInv
<1>1. Inv /\ [PollingNext]_pollingSpecVars => Inv'
  <2> SUFFICES ASSUME CoreInv, PollerInv, [PollingNext]_pollingSpecVars PROVE Inv'
    OBVIOUS
  <2>1. CASE PollerNext
    BY <2>1, PollerKeeps, CoreStays
  <2>2. ASSUME CoreInv', RowsProgress, ChainLater, UNCHANGED pollingVars PROVE Inv'
    BY <2>2, PollerWaits DEF CoreInv
  <2>3. CASE (NewBlock \/ ClockTick) /\ UNCHANGED <<db, pollingVars, crashes>>
    BY <2>2, <2>3, WorldMoves
  <2>4. CASE PollingCrash
    <3>1. DbStep /\ UNCHANGED ledgerVars
      BY <2>4 DEF PollingCrash, ProcessDies, DbStep
    <3>2. poll' = IdlePoller /\ scans' = NoScans /\ pages' = {}
      BY <2>4 DEF PollingCrash, LosePollingMemory
    <3>3. PollerInv'
      BY <3>2, IdlePollerIsTyped DEF PollerInv, InTurn, NoScans, Opt
    <3> QED
      BY <3>1, <3>3, CoreStays
  <2>5. CASE UNCHANGED pollingSpecVars
    <3>1. DbStep /\ UNCHANGED <<ledgerVars, pollingVars>>
      BY <2>5 DEF pollingSpecVars, DbStep
    <3> QED
      BY <2>2, <3>1, CoreStays, ChainStands
  <2> QED
    BY <2>1, <2>3, <2>4, <2>5 DEF PollingNext
<1>2. PollingStart => Inv
  BY PollingStarts
<1>3. Inv => NoFalseExpiry /\ MatchIsInFirstWindow
  BY VerdictsAreTrue DEF CoreInv
<1> QED
  BY <1>1, <1>2, <1>3, PTL DEF PollingSpec

-----------------------------------------------------------------------------
(***************************************************************************)
(* The service keeps the buyer's contract.                                 *)
(***************************************************************************)
Lives == [w \in Watches |-> LifeOf(db[w])]

(* The contract's terms are the service's. *)
LEMMA ContractTerms ==
  /\ \A row, r : Contract!SatisfiedBy(LifeOf(row), r) <=> Eligible(row, r)
  /\ \A t : Contract!Paid(t) <=> Paid(t)
  /\ \A t : Contract!NeverPaid(t) <=> Hopeless(t)
  /\ \A S : Contract!Opt(S) = Opt(S)
  /\ \A S : Contract!Cardinality(S) = Cardinality(S)
  /\ Contract!Tip = Tip /\ Contract!LastTime = LastTime
<1>1. Contract!Tip = Tip
  BY DEF Contract!Tip, Tip
<1>2. Contract!LastTime = LastTime
  BY <1>1 DEF Contract!LastTime, LastTime
<1>3. \A row, r : Contract!SatisfiedBy(LifeOf(row), r) <=> Eligible(row, r)
  BY DEF Contract!SatisfiedBy, Contract!Eligible, Eligible, LifeOf
<1>4. \A t : Contract!Paid(t) <=> Paid(t)
  BY DEF Contract!Paid, Paid
<1>5. \A t : Contract!NeverPaid(t) <=> Hopeless(t)
  BY <1>1, <1>4 DEF Contract!NeverPaid, Hopeless
<1>6. \A S : Contract!Opt(S) = Opt(S)
  BY DEF Contract!Opt, Opt
<1>7. \A S : Contract!Cardinality(S) = Cardinality(S)
  BY DEF Contract!Cardinality, Cardinality
<1> QED
  BY <1>1, <1>2, <1>3, <1>4, <1>5, <1>6, <1>7

(* The obligations of the contract are the open rows. *)
LEMMA ObligationsAreOpen ==
  ASSUME TableInv(db)
  PROVE  Contract!Obligations = OpenWatches(db)
<1>1. ASSUME NEW w \in Watches
      PROVE  Lives[w].phase \in {"reserved", "active"} <=> Open(db[w])
  <2>1. RowInv(db[w])
    BY DEF TableInv
  <2>2. Open(db[w]) <=> Reconcilable(db[w]) \/ db[w].state = "active"
    BY <2>1 DEF Open, Reconcilable, Settling, RowInv
  <2> QED
    BY <2>1, <2>2, Phases DEF Lives, LifeOf
<1> QED
  BY <1>1 DEF Contract!Obligations, OpenWatches, Lives

LifeWith(row, phase, tx, activationRound, matchedRound) ==
    [phase |-> phase, spec |-> row.spec, tx |-> tx, proof |-> row.proof,
     expiresAt |-> row.expiresAt, activationRound |-> activationRound,
     matchedRound |-> matchedRound]

(* The changes of a life that the contract makes, as records. *)
LEMMA LifeEdits ==
  ASSUME NEW row, NEW p, NEW t, NEW a, NEW m
  PROVE  /\ [LifeOf(row) EXCEPT !.phase = p] =
              LifeWith(row, p, row.tx, row.activationRound, row.matchedRound)
         /\ [LifeOf(row) EXCEPT !.tx = t] =
              LifeWith(row, PhaseOf(row), t, row.activationRound, row.matchedRound)
         /\ [LifeOf(row) EXCEPT !.phase = p, !.activationRound = a] =
              LifeWith(row, p, row.tx, a, row.matchedRound)
         /\ [LifeOf(row) EXCEPT !.phase = p, !.matchedRound = m] =
              LifeWith(row, p, row.tx, row.activationRound, m)
<1>1. [LifeOf(row) EXCEPT !.phase = p] =
        LifeWith(row, p, row.tx, row.activationRound, row.matchedRound)
  BY DEF LifeOf, LifeWith
<1>2. [LifeOf(row) EXCEPT !.tx = t] =
        LifeWith(row, PhaseOf(row), t, row.activationRound, row.matchedRound)
  BY DEF LifeOf, LifeWith
<1>3. [LifeWith(row, p, row.tx, row.activationRound, row.matchedRound)
         EXCEPT !.activationRound = a] = LifeWith(row, p, row.tx, a, row.matchedRound)
  BY DEF LifeWith
<1>4. [LifeWith(row, p, row.tx, row.activationRound, row.matchedRound)
         EXCEPT !.matchedRound = m] = LifeWith(row, p, row.tx, row.activationRound, m)
  BY DEF LifeWith
<1>5. [LifeOf(row) EXCEPT !.phase = p, !.activationRound = a] =
        LifeWith(row, p, row.tx, a, row.matchedRound)
  BY <1>1, <1>3
<1>6. [LifeOf(row) EXCEPT !.phase = p, !.matchedRound = m] =
        LifeWith(row, p, row.tx, row.activationRound, m)
  BY <1>1, <1>4
<1> QED
  BY <1>1, <1>2, <1>5, <1>6

(* The change of a life that a match makes. *)
LEMMA LifeMatched ==
  ASSUME NEW row, NEW m
  PROVE  [LifeOf(row) EXCEPT !.phase = "matched", !.matchedRound = m] =
           LifeWith(row, "matched", row.tx, row.activationRound, m)
<1>1. [LifeOf(row) EXCEPT !.phase = "matched"] =
        LifeWith(row, "matched", row.tx, row.activationRound, row.matchedRound)
  BY LifeEdits
<1>2. [LifeWith(row, "matched", row.tx, row.activationRound, row.matchedRound)
         EXCEPT !.matchedRound = m] = LifeWith(row, "matched", row.tx, row.activationRound, m)
  BY DEF LifeWith
<1> QED
  BY <1>1, <1>2

(* Every change of a row is a step of the contract, or invisible to it. *)
LEMMA MovesAreAllowed ==
  ASSUME CoreInv, NEW w \in Watches, TrueStep(w, db, db')
  PROVE  Contract!WatchStep(w) \/ Lives' = Lives
<1> DEFINE old == db[w]
           new == db'[w]
           life == LifeOf(old)
           next == LifeOf(new)
<1> USE ContractTerms
<1>1. /\ TableInv(db) /\ TableInv(db') /\ WorldInv /\ RowInv(old) /\ RowInv(new)
      /\ Judged(new) /\ PaidFor(new) /\ Moves(old, new)
  BY DEF CoreInv, TrueStep, SoundStep, TableInv
<1>2. Lives' = [Lives EXCEPT ![w] = next] /\ Lives[w] = life
  BY DEF TrueStep, Lives
<1>3. /\ life.phase = PhaseOf(old) /\ next.phase = PhaseOf(new)
      /\ life.spec = old.spec /\ life.tx = old.tx /\ life.proof = old.proof
      /\ life.expiresAt = old.expiresAt
      /\ next = LifeWith(new, PhaseOf(new), new.tx, new.activationRound, new.matchedRound)
      /\ life = LifeWith(old, PhaseOf(old), old.tx, old.activationRound, old.matchedRound)
  BY DEF LifeOf, LifeWith
<1>4. \A v \in Watches \ {w} : new.tx # None => Lives[v].tx # new.tx
  <2>1. \A v \in Watches \ {w} : db'[v] = db[v] /\ Apart(new, db'[v])
    BY <1>1 DEF TrueStep, TableInv
  <2> QED
    BY <2>1 DEF Apart, Lives, LifeOf
<1> HIDE DEF old, new, life, next
<1>5. CASE AsBefore(old, new)
  BY <1>2, <1>3, <1>5 DEF AsBefore, KeepsTerms, Lives, LifeWith
<1>6. CASE Admits(old, new)
  <2>1. Contract!Obligations = OpenWatches(db) /\ w \notin OpenWatches(db)
    BY <1>1, <1>6, ObligationsAreOpen, Phases DEF Admits, OpenWatches, Open, old
  <2>2. OpenWatches(db') = OpenWatches(db) \cup {w}
    <3>1. Open(new)
      BY <1>1, <1>6, Phases DEF Admits, Open, Reconcilable, Settling
    <3> QED
      BY <3>1 DEF OpenWatches, TrueStep, new
  <2>3. Cardinality(OpenWatches(db)) < MaxOpenWatches
    <3>1. IsFiniteSet(OpenWatches(db)) /\ Cardinality(OpenWatches(db)) \in Nat
      BY WatchSetsFinite, FS_CardinalityType, StoreAssumption, FS_Subset DEF OpenWatches
    <3>2. Cardinality(OpenWatches(db')) = Cardinality(OpenWatches(db)) + 1
      BY <2>1, <2>2, <3>1, FS_AddElement
    <3> QED
      BY <1>1, <3>1, <3>2, StoreAssumption DEF TableInv
  <2>4. Contract!Reserve(w)
    <3>1. Lives' = [Lives EXCEPT ![w] =
             [phase |-> "reserved", spec |-> new.spec, tx |-> new.tx, proof |-> (new.tx # None),
              expiresAt |-> now + TTL, activationRound |-> None, matchedRound |-> None]]
      BY <1>2, <1>3, <1>6 DEF Admits, LifeWith
    <3>2. Lives[w].phase = "none" /\ new.spec \in Specs /\ new.tx \in Opt(Txs)
      BY <1>2, <1>3, <1>6 DEF Admits
    <3>3. new.tx # None => Contract!Unspent(w, new.tx)
      BY <1>4 DEF Contract!Unspent, Lives
    <3> DEFINE Sold(s, t) ==
                 [phase |-> "reserved", spec |-> s, tx |-> t, proof |-> (t # None),
                  expiresAt |-> now + TTL, activationRound |-> None, matchedRound |-> None]
    <3>4. \E s \in Specs, t \in Contract!Opt(Txs) :
             /\ t # None => Contract!Unspent(w, t)
             /\ Lives' = [Lives EXCEPT ![w] = Sold(s, t)]
      <4>1. new.spec \in Specs /\ new.tx \in Contract!Opt(Txs)
        BY <3>2
      <4>2. Lives' = [Lives EXCEPT ![w] = Sold(new.spec, new.tx)]
        BY <3>1
      <4> HIDE DEF Sold
      <4> QED
        BY <3>3, <4>1, <4>2
    <3> QED
      BY <2>1, <2>3, <3>2, <3>4 DEF Contract!Reserve, Lives
  <2> QED
    BY <2>4 DEF Contract!WatchStep
<1>7. CASE Binds(old, new)
  <2>1. Lives' = [Lives EXCEPT ![w].tx = new.tx]
    <3>1. [life EXCEPT !.tx = new.tx] =
            LifeWith(old, PhaseOf(old), new.tx, old.activationRound, old.matchedRound)
      BY LifeEdits DEF life
    <3>2. next = [life EXCEPT !.tx = new.tx]
      BY <1>3, <1>7, <3>1 DEF Binds, LifeWith
    <3> QED
      BY <1>2, <3>2
  <2>2. Lives[w].phase = "reserved" /\ Lives[w].tx = None /\ new.tx \in Txs /\ new.tx # None
    BY <1>2, <1>3, <1>7, StoreAssumption DEF Binds
  <2>3. Contract!Bind(w)
    BY <1>4, <2>1, <2>2 DEF Contract!Bind, Contract!Unspent, Lives
  <2> QED
    BY <2>3 DEF Contract!WatchStep
<1>8. CASE Concludes(old, new) /\ PhaseOf(old) = "reserved" /\ PhaseOf(new) = "active"
  <2>1. new.state = "active"
    BY <1>1, <1>8, Phases
  <2>2. old.proof /\ Paid(old.tx) /\ new.activationRound = landed[old.tx]
    BY <1>1, <1>8, <2>1 DEF Concludes, KeepsTerms, PaidFor, RowInv
  <2>3. Lives' = [Lives EXCEPT ![w].phase = "active",
                               ![w].activationRound = landed[Lives[w].tx]]
    <3> DEFINE round == landed[old.tx]
    <3>1. [life EXCEPT !.phase = "active", !.activationRound = round] =
            LifeWith(old, "active", old.tx, round, old.matchedRound)
      <4> HIDE DEF round
      <4> QED
        BY LifeEdits DEF life
    <3>2. next = [life EXCEPT !.phase = "active", !.activationRound = round]
      BY <1>3, <1>8, <2>2, <3>1 DEF Concludes, KeepsTerms, LifeWith
    <3> QED
      BY <1>2, <1>3, <3>2
  <2>4. Contract!Activate(w)
    BY <1>2, <1>3, <1>8, <2>2, <2>3 DEF Contract!Activate, Lives
  <2> QED
    BY <2>4 DEF Contract!WatchStep
<1>9. CASE Concludes(old, new) /\ PhaseOf(old) = "active" /\ PhaseOf(new) = "matched"
  <2>1. new.state = "matched"
    BY <1>1, <1>9, Phases
  <2>2. /\ new.spec = old.spec /\ new.expiresAt = old.expiresAt
        /\ new.activationRound = old.activationRound
    BY <1>9 DEF Concludes, KeepsTerms
  <2>3. \A r : Eligible(new, r) <=> Eligible(old, r)
    BY <2>2, SameWindow
  <2>4. new.matchedRound \in DOMAIN blocks /\ Eligible(old, new.matchedRound)
    BY <1>1, <2>1, <2>3, ChainFacts DEF Judged
  <2>5. Lives' = [Lives EXCEPT ![w].phase = "matched", ![w].matchedRound = new.matchedRound]
    <3>1. PICK round : round = new.matchedRound
      OBVIOUS
    <3>2. [life EXCEPT !.phase = "matched", !.matchedRound = round] =
            LifeWith(old, "matched", old.tx, old.activationRound, round)
      BY LifeMatched DEF life
    <3>3. next = [life EXCEPT !.phase = "matched", !.matchedRound = round]
      BY <1>3, <1>9, <3>1, <3>2 DEF Concludes, KeepsTerms, LifeWith
    <3> QED
      BY <1>2, <3>1, <3>3
  <2>6. Contract!Match(w)
    BY <1>2, <1>3, <1>9, <2>4, <2>5 DEF Contract!Match, Lives, life
  <2> QED
    BY <2>6 DEF Contract!WatchStep
<1>10. CASE Concludes(old, new) /\ PhaseOf(old) = "reserved" /\ PhaseOf(new) = "rejected"
  <2>1. old.proof => Hopeless(old.tx)
    BY <1>1, <1>10, Phases DEF PaidFor, Concludes, KeepsTerms
  <2>2. Lives' = [Lives EXCEPT ![w].phase = "rejected"]
    <3>1. [life EXCEPT !.phase = "rejected"] =
            LifeWith(old, "rejected", old.tx, old.activationRound, old.matchedRound)
      BY LifeEdits DEF life
    <3>2. next = [life EXCEPT !.phase = "rejected"]
      BY <1>3, <1>10, <3>1 DEF Concludes, KeepsTerms, LifeWith
    <3> QED
      BY <1>2, <3>2
  <2>3. Contract!Reject(w)
    BY <1>2, <1>3, <1>10, <2>1, <2>2 DEF Contract!Reject, Lives
  <2> QED
    BY <2>3 DEF Contract!WatchStep
<1>11. CASE Concludes(old, new) /\ PhaseOf(old) = "active" /\ PhaseOf(new) = "expired"
  <2>1. new.state = "expired"
    BY <1>1, <1>11, Phases
  <2>2. /\ new.spec = old.spec /\ new.expiresAt = old.expiresAt
        /\ new.activationRound = old.activationRound
    BY <1>11, <2>1 DEF Concludes, KeepsTerms
  <2>3. \A r : Eligible(new, r) <=> Eligible(old, r)
    BY <2>2, SameWindow
  <2>4. /\ \A r \in DOMAIN blocks : ~Eligible(old, r)
        /\ blocks # <<>> /\ LastTime * MsPerSecond >= old.expiresAt
    BY <1>1, <2>1, <2>2, <2>3, ExpiredForGood
  <2>5. Lives' = [Lives EXCEPT ![w].phase = "expired"]
    <3>1. [life EXCEPT !.phase = "expired"] =
            LifeWith(old, "expired", old.tx, old.activationRound, old.matchedRound)
      BY LifeEdits DEF life
    <3>2. next = [life EXCEPT !.phase = "expired"]
      BY <1>3, <1>11, <3>1 DEF Concludes, KeepsTerms, LifeWith
    <3> QED
      BY <1>2, <3>2
  <2>6. Contract!Expire(w)
    BY <1>2, <1>3, <1>11, <2>4, <2>5 DEF Contract!Expire, Contract!PastDeadline, Lives, life
  <2> QED
    BY <2>6 DEF Contract!WatchStep
<1>12. CASE /\ Concludes(old, new) /\ PhaseOf(new) = "indeterminate"
            /\ PhaseOf(old) \in {"reserved", "active"}
  <2>1. Lives' = [Lives EXCEPT ![w].phase = "indeterminate"]
    <3>1. [life EXCEPT !.phase = "indeterminate"] =
            LifeWith(old, "indeterminate", old.tx, old.activationRound, old.matchedRound)
      BY LifeEdits DEF life
    <3>2. next = [life EXCEPT !.phase = "indeterminate"]
      BY <1>3, <1>12, <3>1 DEF Concludes, KeepsTerms, LifeWith
    <3> QED
      BY <1>2, <3>2
  <2>2. Contract!GiveUp(w)
    BY <1>2, <1>3, <1>12, <2>1 DEF Contract!GiveUp, Lives
  <2> QED
    BY <2>2 DEF Contract!WatchStep
<1> QED
  BY <1>1, <1>5, <1>6, <1>7, <1>8, <1>9, <1>10, <1>11, <1>12 DEF Moves, Concludes

(* Every step of the three actors on the table is a step of the contract. *)
LEMMA TableStepsAreAllowed ==
  ASSUME CoreInv, DbStep, UNCHANGED ledgerVars
  PROVE  [Contract!ContractNext]_(Contract!contractVars)
<1>1. CASE db' = db
  BY <1>1 DEF Contract!contractVars, Contract!ledgerVars, ledgerVars
<1>2. CASE \E w \in Watches : TrueStep(w, db, db')
  <2>1. PICK w \in Watches : TrueStep(w, db, db')
    BY <1>2
  <2>2. Contract!WatchStep(w) \/ Lives' = Lives
    BY <2>1, MovesAreAllowed
  <2>3. CASE Contract!WatchStep(w)
    BY <2>3 DEF Contract!ContractNext, Contract!ledgerVars, ledgerVars
  <2>4. CASE Lives' = Lives
    BY <2>4 DEF Contract!contractVars, Contract!ledgerVars, ledgerVars, Lives
  <2> QED
    BY <2>2, <2>3, <2>4
<1> QED
  BY <1>1, <1>2 DEF DbStep

(* Every step of the service is a step of the contract, or invisible to it. *)
LEMMA StepsAreAllowed ==
  ASSUME ServiceInv, [Next]_vars
  PROVE  [Contract!ContractNext]_(Contract!contractVars)
<1>1. CoreInv
  BY DEF ServiceInv, SettlementInv
<1>2. CASE PurchaseNext /\ UNCHANGED <<pollingVars, crashes>>
  <2>1. (DbStep /\ UNCHANGED ledgerVars) \/ Submits
    BY <1>1, <1>2, PurchaseKeeps DEF ServiceInv, SettlementInv
  <2>2. CASE Submits
    BY <2>2 DEF Submits, Contract!ContractNext, Contract!Submit
  <2> QED
    BY <1>1, <2>1, <2>2, TableStepsAreAllowed
<1>3. CASE ReconcilerNext /\ UNCHANGED <<pollingVars, crashes>>
  BY <1>1, <1>3, ReconcilerKeeps, TableStepsAreAllowed DEF ServiceInv, SettlementInv
<1>4. CASE PollerNext /\ UNCHANGED <<settlementVars, crashes>>
  BY <1>1, <1>4, PollerKeeps, TableStepsAreAllowed DEF ServiceInv
<1>5. CASE (NewBlock \/ ClockTick) /\ UNCHANGED <<db, settlementVars, pollingVars, crashes>>
  <2>1. Contract!NewBlock \/ Contract!ClockTick
    BY <1>5 DEF NewBlock, ClockTick, LastTime, Tip, Contract!NewBlock, Contract!ClockTick,
               Contract!LastTime, Contract!Tip
  <2> QED
    BY <1>5, <2>1 DEF Contract!ContractNext
<1>6. CASE Crash
  BY <1>1, <1>6, TableStepsAreAllowed DEF Crash, ProcessDies, DbStep
<1>7. CASE UNCHANGED vars
  BY <1>1, <1>7, TableStepsAreAllowed DEF vars, DbStep
<1> QED
  BY <1>2, <1>3, <1>4, <1>5, <1>6, <1>7 DEF Next

(* The service keeps the contract: from an empty table, each change of a    *)
(* row that a buyer can see is one step of the watch's promised life,       *)
(* justified by the chain as it is when the step is taken.                  *)
THEOREM ServiceKeepsContract == Spec => KeepsContract
<1>1. Init => Contract!ContractInit
  <2> SUFFICES ASSUME Init PROVE Contract!ContractInit
    OBVIOUS
  <2>1. LedgerInit /\ db = EmptyTable
    BY DEF Init, ProcessInit, SettlementInit, PollingInit
  <2>2. ASSUME NEW w \in Watches PROVE LifeOf(NoRow) = Contract!NoLife
    <3>1. RowInv(NoRow) /\ NoRow.state = "absent"
      BY EmptyTableIsSound DEF TableInv, EmptyTable, NoRow
    <3>2. PhaseOf(NoRow) = "none"
      BY <3>1, Phases
    <3> QED
      BY <3>2 DEF LifeOf, NoRow, Contract!NoLife
  <2>3. Contract!LedgerInit
    BY <2>1 DEF LedgerInit, Contract!LedgerInit
  <2> QED
    BY <2>1, <2>2, <2>3 DEF Contract!ContractInit, EmptyTable
<1>2. ServiceInv /\ [Next]_vars => [Contract!ContractNext]_(Contract!contractVars)
  BY StepsAreAllowed
<1> QED
  BY <1>1, <1>2, ServiceInvariant, PTL DEF Spec, KeepsContract, Contract!ContractSpec

=============================================================================
