------------------------ MODULE WatchContractProofs ------------------------
(***************************************************************************)
(* The buyer's contract is stable: for any number of watches, payments,    *)
(* rounds and any growth of the chain, a verdict once given stays true and *)
(* every watch that is worked for has a payment of its own.  And whatever  *)
(* of a buyer's commands dies, overlaps or comes late, the buyer's file and *)
(* invoices name only watches that were paid for, and it pays once.         *)
(***************************************************************************)
EXTENDS Buyer, FiniteSetTheorems, TLAPS

(* Block timestamps never decrease. *)
TimeIsMonotone ==
    \A i, j \in DOMAIN blocks : i <= j => blocks[i].time <= blocks[j].time

(* What a watch remembers in each phase of its life. *)
PhasesAreSound ==
    \A w \in Watches :
        /\ watch[w].phase \in {"none", "reserved", "rejected"} => watch[w].activationRound = None
        /\ watch[w].proof => watch[w].tx \in Txs
        /\ watch[w].phase = "expired" => PastDeadline(watch[w])

(* No payment is behind two watches. *)
PaymentsAreUnshared ==
    \A v, w \in Watches : v # w /\ watch[v].tx # None => watch[v].tx # watch[w].tx

(* An activated watch was paid in the round it was activated for. *)
ActivationsArePaid ==
    \A w \in Watches :
        watch[w].activationRound # None =>
            /\ Paid(watch[w].tx)
            /\ watch[w].activationRound = landed[watch[w].tx]

CapIsKept == Cardinality(Obligations) <= MaxOpenWatches

ContractInv ==
    /\ ContractTypeOK
    /\ TimeIsMonotone
    /\ PhasesAreSound
    /\ PaymentsAreUnshared
    /\ ActivationsArePaid
    /\ VerdictsStand
    /\ CapIsKept

-----------------------------------------------------------------------------
(* The contract starts without watches and with an empty chain, where the  *)
(* inductive invariant holds.                                              *)
LEMMA InitHolds == ContractInit => ContractInv
<1> SUFFICES ASSUME ContractInit PROVE ContractInv
  OBVIOUS
<1> USE StoreAssumption, LedgerAssumption DEF ContractInit, LedgerInit
<1>1. ContractTypeOK
  BY DEF ContractTypeOK, LedgerTypeOK, Life, NoLife, Opt, Phase
<1>2. TimeIsMonotone
  BY DEF TimeIsMonotone
<1>3. PhasesAreSound /\ PaymentsAreUnshared /\ ActivationsArePaid /\ VerdictsStand
  BY DEF PhasesAreSound, PaymentsAreUnshared, ActivationsArePaid, VerdictsStand, NoLife
<1>4. CapIsKept
  <2>1. Obligations = {}
    BY DEF Obligations, NoLife
  <2> QED
    BY <2>1, FS_EmptySet DEF CapIsKept
<1> QED
  BY <1>1, <1>2, <1>3, <1>4 DEF ContractInv

(* What NewBlock does to the chain, in the terms the proofs use: one block *)
(* is appended, no earlier than the last, and a payment that lands does so *)
(* for the first time, in that block and while it is valid.                *)
LEMMA NewBlockExtends ==
  ASSUME LedgerTypeOK, TimeIsMonotone, NewBlock
  PROVE  /\ LedgerTypeOK'
         /\ Tip \in Nat /\ Tip' = Tip + 1
         /\ DOMAIN blocks = 1..Tip /\ DOMAIN blocks' = 1..(Tip + 1)
         /\ \A i \in 1..Tip : blocks'[i] = blocks[i]
         /\ blocks'[Tip + 1] \in Block
         /\ \A i \in 1..Tip : blocks[i].time <= blocks'[Tip + 1].time
         /\ \A t \in Txs :
              \/ landed'[t] = landed[t]
              \/ landed[t] = 0 /\ landed'[t] = Tip + 1 /\ Tip + 1 <= LastValid[t]
<1> USE LedgerAssumption DEF LedgerTypeOK, Tip
<1>1. PICK time \in LastTime..MaxBlockTime, pays \in Transfers,
           confirmed \in SUBSET {t \in submitted : landed[t] = 0 /\ Tip + 1 <= LastValid[t]} :
             /\ blocks' = Append(blocks, [time |-> time, pays |-> pays])
             /\ landed' = [t \in Txs |-> IF t \in confirmed THEN Tip + 1 ELSE landed[t]]
  BY DEF NewBlock
<1>2. Tip \in Nat /\ DOMAIN blocks = 1..Tip /\ \A i \in 1..Tip : blocks[i] \in Block
  OBVIOUS
<1>3. \A i \in 1..Tip : blocks[i].time \in 0..MaxBlockTime
  BY <1>2 DEF Block
<1>4. LastTime \in Nat /\ \A i \in 1..Tip : blocks[i].time <= LastTime
  <2>1. CASE blocks = <<>>
    BY <1>2, <2>1 DEF LastTime
  <2>2. CASE blocks # <<>>
    <3>1. Tip \in 1..Tip /\ LastTime = blocks[Tip].time
      BY <1>2, <2>2 DEF LastTime
    <3>2. ASSUME NEW i \in 1..Tip PROVE blocks[i].time <= blocks[Tip].time
      <4>1. i \in DOMAIN blocks /\ Tip \in DOMAIN blocks /\ i <= Tip
        BY <1>2, <3>1
      <4> QED
        BY <4>1 DEF TimeIsMonotone
    <3>3. LastTime \in Nat
      BY <1>3, <3>1
    <3> QED
      BY <3>1, <3>2, <3>3
  <2> QED
    BY <2>1, <2>2
<1>5. [time |-> time, pays |-> pays] \in Block
  BY <1>4 DEF Block
<1>6. blocks' \in Seq(Block) /\ Tip' = Tip + 1 /\ DOMAIN blocks' = 1..(Tip + 1)
  BY <1>1, <1>2, <1>5
<1>7. /\ \A i \in 1..Tip : blocks'[i] = blocks[i]
      /\ blocks'[Tip + 1] = [time |-> time, pays |-> pays]
  BY <1>1, <1>2, <1>5
<1>8. \A i \in 1..Tip : blocks[i].time <= blocks'[Tip + 1].time
  <2>1. blocks'[Tip + 1].time = time
    BY <1>7
  <2> QED
    BY <1>3, <1>4, <2>1
<1>9. landed' \in [Txs -> Nat]
  BY <1>1, <1>2
<1>10. submitted' = submitted /\ now' = now
  BY DEF NewBlock
<1> QED
  BY <1>1, <1>2, <1>5, <1>6, <1>7, <1>8, <1>9, <1>10

(* A payment that can never be confirmed stays so, a confirmed one stays   *)
(* confirmed in its round, and no block is undone.                         *)
LEMMA GrowthKeepsVerdicts ==
  ASSUME LedgerTypeOK, TimeIsMonotone, NewBlock
  PROVE  /\ TimeIsMonotone'
         /\ \A t \in Txs : NeverPaid(t) => NeverPaid(t)'
         /\ \A t \in Txs : Paid(t) => Paid(t)' /\ landed'[t] = landed[t]
<1> USE NewBlockExtends, LedgerAssumption
<1>0. \A i \in 1..(Tip + 1) : blocks'[i].time \in Nat
  <2>1. \A i \in 1..Tip : blocks[i] \in Block
    BY DEF LedgerTypeOK
  <2> QED
    BY <2>1 DEF Block
<1>1. TimeIsMonotone'
  <2> SUFFICES ASSUME NEW i \in 1..(Tip + 1), NEW j \in 1..(Tip + 1), i <= j
               PROVE  blocks'[i].time <= blocks'[j].time
    BY DEF TimeIsMonotone
  <2>1. CASE j \in 1..Tip
    <3>1. i \in DOMAIN blocks /\ j \in DOMAIN blocks
      BY <2>1 DEF LedgerTypeOK
    <3>2. blocks[i].time <= blocks[j].time
      BY <3>1 DEF TimeIsMonotone
    <3> QED
      BY <2>1, <3>1, <3>2
  <2>2. CASE j = Tip + 1 /\ i \in 1..Tip
    BY <2>2
  <2>3. CASE j = Tip + 1 /\ i = Tip + 1
    BY <1>0, <2>3
  <2> QED
    BY <2>1, <2>2, <2>3
<1>2. ASSUME NEW t \in Txs PROVE LastValid[t] \in Nat /\ landed[t] \in Nat /\ landed'[t] \in Nat
  BY DEF LedgerTypeOK
<1>3. ASSUME NEW t \in Txs, NeverPaid(t) PROVE NeverPaid(t)'
  BY <1>2, <1>3 DEF NeverPaid, Paid, Tip
<1>4. ASSUME NEW t \in Txs, Paid(t) PROVE Paid(t)' /\ landed'[t] = landed[t]
  BY <1>2, <1>4 DEF Paid
<1> QED
  BY <1>1, <1>3, <1>4

(* A new block keeps the whole invariant.  The hard part is an expired      *)
(* watch: its deadline lies at or before the last block, and no later block *)
(* is older than that.                                                      *)
LEMMA GrowthPreserves ==
  ASSUME ContractInv, NewBlock, UNCHANGED watch
  PROVE  ContractInv'
<1> USE LedgerAssumption DEF ContractInv
<1>1. LedgerTypeOK /\ TimeIsMonotone
  BY DEF ContractTypeOK
<1> USE NewBlockExtends, GrowthKeepsVerdicts, <1>1
<1>2. ContractTypeOK' /\ TimeIsMonotone'
  BY DEF ContractTypeOK
<1>3. PaymentsAreUnshared' /\ CapIsKept'
  BY DEF PaymentsAreUnshared, CapIsKept, Obligations
<1>4. \A i \in 1..Tip : blocks[i].time \in Nat
  <2>1. \A i \in 1..Tip : blocks[i] \in Block
    BY DEF LedgerTypeOK
  <2> QED
    BY <2>1 DEF Block
<1>5. blocks'[Tip + 1].time \in Nat
  BY DEF Block
<1>6. ASSUME NEW w \in Watches, PastDeadline(watch[w])
      PROVE  /\ PastDeadline(watch[w])'
             /\ ~SatisfiedBy(watch[w], Tip)'
  <2>1. blocks # <<>> /\ Tip \in 1..Tip /\ LastTime = blocks[Tip].time
    BY <1>6 DEF PastDeadline, LastTime, LedgerTypeOK, Tip
  <2>2. LastTime \in Nat /\ LastTime <= blocks'[Tip + 1].time
    BY <1>4, <2>1
  <2>3. watch[w].expiresAt \in Nat
    BY DEF ContractTypeOK, Life
  <2>4. LastTime * MsPerSecond <= blocks'[Tip + 1].time * MsPerSecond
    <3>1. \A a, b \in Nat, m \in Nat : a <= b => a * m <= b * m
      OBVIOUS
    <3> QED
      BY <1>5, <2>2, <3>1
  <2>5. blocks'[Tip + 1].time * MsPerSecond >= watch[w].expiresAt
    BY <1>5, <1>6, <2>2, <2>3, <2>4 DEF PastDeadline
  <2>6. blocks' # <<>> /\ LastTime' = blocks'[Tip + 1].time
    BY <2>1 DEF LastTime
  <2>7. PastDeadline(watch[w])'
    BY <2>5, <2>6 DEF PastDeadline
  <2>8. ~SatisfiedBy(watch[w], Tip)'
    BY <1>5, <2>3, <2>5 DEF SatisfiedBy, Eligible
  <2> QED
    BY <2>7, <2>8
<1>7. ASSUME NEW w \in Watches, NEW r \in 1..Tip
      PROVE  SatisfiedBy(watch[w], r)' <=> SatisfiedBy(watch[w], r)
  BY DEF SatisfiedBy, Eligible
<1>8. ASSUME NEW w \in Watches, watch[w].activationRound # None
      PROVE  Paid(watch[w].tx)' /\ watch'[w].activationRound = landed'[watch'[w].tx]
  BY <1>8 DEF ActivationsArePaid, Paid
<1>9. PhasesAreSound' /\ ActivationsArePaid'
  BY <1>6, <1>8 DEF PhasesAreSound, ActivationsArePaid
<1>10. VerdictsStand'
  <2>1. ASSUME NEW w \in Watches, watch[w].phase = "expired", NEW r \in DOMAIN blocks'
        PROVE  ~SatisfiedBy(watch[w], r)'
    <3>1. PastDeadline(watch[w]) /\ \A i \in 1..Tip : ~SatisfiedBy(watch[w], i)
      BY <2>1 DEF VerdictsStand, PhasesAreSound
    <3>2. r \in 1..Tip \/ r = Tip'
      BY <2>1
    <3>3. CASE r \in 1..Tip
      BY <1>7, <3>1, <3>3
    <3>4. CASE r = Tip'
      BY <1>6, <3>1, <3>4
    <3> QED
      BY <3>2, <3>3, <3>4
  <2>2. ASSUME NEW w \in Watches, watch[w].phase = "rejected", watch[w].proof
        PROVE  NeverPaid(watch[w].tx)'
    <3>1. watch[w].tx \in Txs /\ NeverPaid(watch[w].tx)
      BY <2>2 DEF VerdictsStand, PhasesAreSound
    <3>2. watch'[w].tx = watch[w].tx
      OBVIOUS
    <3>3. NeverPaid(watch[w].tx) => NeverPaid(watch[w].tx)'
      BY <3>1, <3>2
    <3> QED
      BY <3>1, <3>3
  <2>3. ASSUME NEW w \in Watches, watch[w].phase = "matched"
        PROVE  SatisfiedBy(watch[w], watch[w].matchedRound)'
    <3>1. SatisfiedBy(watch[w], watch[w].matchedRound)
      BY <2>3 DEF VerdictsStand
    <3>2. watch[w].matchedRound \in 1..Tip
      BY <3>1 DEF SatisfiedBy, Eligible
    <3> QED
      BY <1>7, <3>1, <3>2
  <2> QED
    BY <2>1, <2>2, <2>3 DEF VerdictsStand
<1> QED
  BY <1>2, <1>3, <1>9, <1>10

(* What a life must satisfy to be written to watch w. *)
SoundLife(w, life) ==
    /\ life \in Life
    /\ life.phase \in {"none", "reserved", "rejected"} => life.activationRound = None
    /\ life.proof => life.tx \in Txs
    /\ life.tx # None => Unspent(w, life.tx)
    /\ life.activationRound # None =>
         Paid(life.tx) /\ life.activationRound = landed[life.tx]
    /\ life.phase = "expired" =>
         PastDeadline(life) /\ \A r \in DOMAIN blocks : ~SatisfiedBy(life, r)
    /\ life.phase = "rejected" /\ life.proof => NeverPaid(life.tx)
    /\ life.phase = "matched" => SatisfiedBy(life, life.matchedRound)
    /\ life.phase \in {"reserved", "active"} =>
         w \in Obligations \/ Cardinality(Obligations) < MaxOpenWatches

(* Replacing one life by a sound one, on an unchanged ledger, keeps the     *)
(* whole invariant.                                                         *)
LEMMA LifeReplaced ==
  ASSUME ContractInv, UNCHANGED ledgerVars,
         NEW w \in Watches, NEW life, SoundLife(w, life),
         watch' = [watch EXCEPT ![w] = life]
  PROVE  ContractInv'
<1> USE StoreAssumption, LedgerAssumption DEF ContractInv, ledgerVars
<1>1. watch \in [Watches -> Life] /\ life \in Life
  BY DEF ContractTypeOK, SoundLife
<1>2. watch'[w] = life /\ \A v \in Watches \ {w} : watch'[v] = watch[v]
  BY <1>1
<1>3. ContractTypeOK' /\ TimeIsMonotone'
  BY <1>1 DEF ContractTypeOK, LedgerTypeOK, TimeIsMonotone
<1>4. PaymentsAreUnshared'
  BY <1>2 DEF PaymentsAreUnshared, SoundLife, Unspent
<1>5. /\ \A t : Paid(t)' = Paid(t) /\ NeverPaid(t)' = NeverPaid(t)
      /\ \A l, r : SatisfiedBy(l, r)' = SatisfiedBy(l, r)
      /\ \A l : PastDeadline(l)' = PastDeadline(l)
  BY DEF Paid, NeverPaid, SatisfiedBy, Eligible, PastDeadline, LastTime, Tip
<1>6. PhasesAreSound'
  <2> SUFFICES ASSUME NEW v \in Watches
               PROVE  /\ watch'[v].phase \in {"none", "reserved", "rejected"} =>
                            watch'[v].activationRound = None
                      /\ watch'[v].proof => watch'[v].tx \in Txs
                      /\ watch'[v].phase = "expired" => PastDeadline(watch'[v])
    BY <1>5 DEF PhasesAreSound, PastDeadline, LastTime, Tip
  <2> QED
    BY <1>2 DEF PhasesAreSound, SoundLife
<1>7. ActivationsArePaid'
  BY <1>2 DEF ActivationsArePaid, SoundLife, Paid
<1>8. VerdictsStand'
  <2> SUFFICES ASSUME NEW v \in Watches
               PROVE  /\ watch'[v].phase = "expired" =>
                            \A r \in DOMAIN blocks : ~SatisfiedBy(watch'[v], r)
                      /\ watch'[v].phase = "rejected" /\ watch'[v].proof =>
                            NeverPaid(watch'[v].tx)
                      /\ watch'[v].phase = "matched" =>
                            SatisfiedBy(watch'[v], watch'[v].matchedRound)
    BY DEF VerdictsStand, SatisfiedBy, Eligible, NeverPaid, Paid, Tip
  <2> QED
    BY <1>2 DEF VerdictsStand, SoundLife
<1>9. CapIsKept'
  <2>1. IsFiniteSet(Obligations) /\ Cardinality(Obligations) \in Nat
    BY FS_Subset, FS_CardinalityType DEF Obligations
  <2>2. CASE Obligations' \subseteq Obligations
    BY <2>1, <2>2, FS_Subset, FS_CardinalityType DEF CapIsKept
  <2>3. CASE /\ Obligations' = Obligations \cup {w}
             /\ Cardinality(Obligations) < MaxOpenWatches
    <3>1. Cardinality(Obligations \cup {w}) \in
            {Cardinality(Obligations), Cardinality(Obligations) + 1}
      <4>1. Cardinality(Obligations \cup {w}) =
              IF w \in Obligations THEN Cardinality(Obligations)
              ELSE Cardinality(Obligations) + 1
        BY <2>1, FS_AddElement, Zenon
      <4> QED
        BY <4>1
    <3> QED
      BY <2>1, <2>3, <3>1 DEF CapIsKept
  <2>4. Obligations' \subseteq Obligations \cup {w}
    BY <1>2 DEF Obligations
  <2>5. w \in Obligations' =>
           w \in Obligations \/ Cardinality(Obligations) < MaxOpenWatches
    BY <1>2 DEF Obligations, SoundLife
  <2>6. Obligations \ {w} \subseteq Obligations'
    BY <1>2 DEF Obligations
  <2>7. CASE w \in Obligations \/ w \notin Obligations'
    BY <2>2, <2>4, <2>7
  <2>8. CASE w \in Obligations' /\ w \notin Obligations
    <3>1. Obligations' = Obligations \cup {w}
      BY <2>4, <2>6, <2>8
    <3> QED
      BY <2>3, <2>5, <2>8, <3>1
  <2> QED
    BY <2>7, <2>8
<1> QED
  BY <1>3, <1>4, <1>6, <1>7, <1>8, <1>9

-----------------------------------------------------------------------------
(* Every step of a watch writes a sound life.                               *)
LEMMA WatchStepPreserves ==
  ASSUME ContractInv, UNCHANGED ledgerVars, NEW w \in Watches, WatchStep(w)
  PROVE  ContractInv'
<1> USE StoreAssumption, LedgerAssumption DEF ContractInv, Unspent
<1> DEFINE old == watch[w]
<1>1. watch \in [Watches -> Life] /\ old \in Life /\ now \in Nat /\ landed \in [Txs -> Nat]
  BY DEF ContractTypeOK, LedgerTypeOK
<1>2. /\ old.phase \in {"none", "reserved", "rejected"} => old.activationRound = None
      /\ old.proof => old.tx \in Txs
      /\ old.tx # None => Unspent(w, old.tx)
      /\ old.activationRound # None =>
           Paid(old.tx) /\ old.activationRound = landed[old.tx]
  BY DEF PhasesAreSound, PaymentsAreUnshared, ActivationsArePaid
<1>3. CASE Reserve(w)
  <2> DEFINE life(s, t) ==
        [phase |-> "reserved", spec |-> s, tx |-> t, proof |-> (t # None),
         expiresAt |-> now + TTL, activationRound |-> None, matchedRound |-> None]
  <2>1. PICK s \in Specs, t \in Opt(Txs) :
          /\ t # None => Unspent(w, t)
          /\ watch' = [watch EXCEPT ![w] = life(s, t)]
    BY <1>3 DEF Reserve
  <2>2. life(s, t) \in Life
    <3>1. now + TTL \in Nat /\ t \in Opt(Txs) /\ s \in Opt(Specs)
      BY <1>1 DEF Opt
    <3> QED
      BY <3>1 DEF Life, Phase, Opt
  <2>3. Cardinality(Obligations) < MaxOpenWatches
    BY <1>3 DEF Reserve
  <2>4. SoundLife(w, life(s, t))
    BY <2>1, <2>2, <2>3 DEF SoundLife, Opt
  <2> QED
    BY <2>1, <2>4, LifeReplaced
<1>4. CASE Bind(w)
  <2>1. PICK t \in Txs :
          Unspent(w, t) /\ watch' = [watch EXCEPT ![w] = [old EXCEPT !.tx = t]]
    BY <1>4 DEF Bind
  <2>2. old.phase = "reserved" /\ old.tx = None
    BY <1>4 DEF Bind
  <2> DEFINE life == [old EXCEPT !.tx = t]
  <2>3. life \in Life
    BY <1>1 DEF Life, Opt
  <2>4. SoundLife(w, life)
    BY <1>1, <1>2, <2>1, <2>2, <2>3 DEF SoundLife, Life, Obligations
  <2> QED
    BY <2>1, <2>4, LifeReplaced
<1>5. CASE Activate(w)
  <2> DEFINE life == [old EXCEPT !.phase = "active", !.activationRound = landed[old.tx]]
  <2>1. watch' = [watch EXCEPT ![w] = life]
    BY <1>5 DEF Activate
  <2>2. SoundLife(w, life)
    BY <1>1, <1>2, <1>5 DEF SoundLife, Life, Phase, Opt, Activate, Obligations
  <2> QED
    BY <2>1, <2>2, LifeReplaced
<1>6. CASE Reject(w)
  <2> DEFINE life == [old EXCEPT !.phase = "rejected"]
  <2>1. watch' = [watch EXCEPT ![w] = life]
    BY <1>6 DEF Reject
  <2>2. SoundLife(w, life)
    BY <1>1, <1>2, <1>6 DEF SoundLife, Life, Phase, Opt, Reject
  <2> QED
    BY <2>1, <2>2, LifeReplaced
<1>7. CASE Match(w)
  <2>1. PICK r \in DOMAIN blocks :
          /\ SatisfiedBy(old, r)
          /\ watch' = [watch EXCEPT ![w] = [old EXCEPT !.phase = "matched", !.matchedRound = r]]
    BY <1>7 DEF Match
  <2> DEFINE life == [old EXCEPT !.phase = "matched", !.matchedRound = r]
  <2>2. \A i : SatisfiedBy(life, i) <=> SatisfiedBy(old, i)
    BY <1>1 DEF SatisfiedBy, Eligible, Life
  <2>3. r \in Nat
    BY DEF ContractTypeOK, LedgerTypeOK
  <2>4. SoundLife(w, life)
    BY <1>1, <1>2, <2>1, <2>2, <2>3 DEF SoundLife, Life, Phase, Opt
  <2> QED
    BY <2>1, <2>4, LifeReplaced
<1>8. CASE Expire(w)
  <2> DEFINE life == [old EXCEPT !.phase = "expired"]
  <2>1. watch' = [watch EXCEPT ![w] = life]
    BY <1>8 DEF Expire
  <2>2. /\ \A i : SatisfiedBy(life, i) <=> SatisfiedBy(old, i)
        /\ PastDeadline(life) <=> PastDeadline(old)
    BY <1>1 DEF SatisfiedBy, Eligible, PastDeadline, Life
  <2>3. SoundLife(w, life)
    BY <1>1, <1>2, <1>8, <2>2 DEF SoundLife, Life, Phase, Opt, Expire
  <2> QED
    BY <2>1, <2>3, LifeReplaced
<1>9. CASE GiveUp(w)
  <2> DEFINE life == [old EXCEPT !.phase = "indeterminate"]
  <2>1. watch' = [watch EXCEPT ![w] = life]
    BY <1>9 DEF GiveUp
  <2>2. SoundLife(w, life)
    BY <1>1, <1>2 DEF SoundLife, Life, Phase, Opt
  <2> QED
    BY <2>1, <2>2, LifeReplaced
<1> QED
  BY <1>3, <1>4, <1>5, <1>6, <1>7, <1>8, <1>9 DEF WatchStep

(* A payment handed to the facilitator changes nothing of what was promised. *)
LEMMA SubmitPreserves ==
  ASSUME ContractInv, UNCHANGED <<watch, blocks, landed>>, LedgerTypeOK'
  PROVE  ContractInv'
<1> USE DEF ContractInv
<1>1. ContractTypeOK' /\ TimeIsMonotone'
  BY DEF ContractTypeOK, TimeIsMonotone
<1>2. PhasesAreSound' /\ PaymentsAreUnshared' /\ ActivationsArePaid'
  BY DEF PhasesAreSound, PaymentsAreUnshared, ActivationsArePaid, Paid, PastDeadline,
         LastTime, Tip
<1>3. VerdictsStand' /\ CapIsKept'
  BY DEF VerdictsStand, SatisfiedBy, Eligible, NeverPaid, Paid, Tip, CapIsKept, Obligations
<1> QED
  BY <1>1, <1>2, <1>3

-----------------------------------------------------------------------------
(* Every step of the contract keeps the invariant.                          *)
LEMMA ContractStep ==
  ASSUME ContractInv, [ContractNext]_contractVars
  PROVE  ContractInv'
<1>1. LedgerTypeOK
  BY DEF ContractInv, ContractTypeOK
<1>2. ASSUME NEW w \in Watches, WatchStep(w), UNCHANGED ledgerVars PROVE ContractInv'
  BY <1>2, WatchStepPreserves
<1>3. CASE NewBlock /\ UNCHANGED watch
  BY <1>3, GrowthPreserves
<1>4. CASE ClockTick /\ UNCHANGED watch
  BY <1>1, <1>4, SubmitPreserves DEF ClockTick, LedgerTypeOK
<1>5. CASE Submit
  BY <1>1, <1>5, SubmitPreserves DEF Submit, LedgerTypeOK
<1>6. CASE UNCHANGED contractVars
  BY <1>1, <1>6, SubmitPreserves DEF contractVars, ledgerVars, LedgerTypeOK
<1> QED
  BY <1>2, <1>3, <1>4, <1>5, <1>6 DEF ContractNext

(* The inductive invariant holds in every state the contract can reach.     *)
THEOREM ContractInvariant == ContractSpec => []ContractInv
<1>1. ContractInv /\ [ContractNext]_contractVars => ContractInv'
  BY ContractStep
<1> QED
  BY <1>1, InitHolds, PTL DEF ContractSpec

(* Every state of the contract is well typed.                               *)
THEOREM ContractTypes == ContractSpec => []ContractTypeOK
<1>1. ContractInv => ContractTypeOK
  BY DEF ContractInv
<1> QED
  BY <1>1, ContractInvariant, PTL

(* A verdict once given stays true: nothing the chain does later satisfies  *)
(* an expired watch, pays a rejected one or precedes a match.               *)
THEOREM VerdictsAlwaysStand == ContractSpec => []VerdictsStand
<1>1. ContractInv => VerdictsStand
  BY DEF ContractInv
<1> QED
  BY <1>1, ContractInvariant, PTL

(* Every watch that was activated has a confirmed payment that no other     *)
(* watch has, and open obligations never exceed the cap.                    *)
THEOREM AlwaysPaidOnceEach == ContractSpec => []PaidOnceEach
<1>1. ContractInv => PaidOnceEach
  <2> SUFFICES ASSUME ContractInv PROVE PaidOnceEach
    OBVIOUS
  <2>1. ASSUME NEW w \in Watches, watch[w].activationRound # None
        PROVE  Unspent(w, watch[w].tx)
    <3>1. watch[w].tx # None
      BY <2>1, StoreAssumption, LedgerAssumption DEF ContractInv, ActivationsArePaid, Paid
    <3> QED
      BY <3>1 DEF ContractInv, PaymentsAreUnshared, Unspent
  <2> QED
    BY <2>1 DEF PaidOnceEach, ContractInv, ActivationsArePaid, CapIsKept
<1> QED
  BY <1>1, ContractInvariant, PTL

-----------------------------------------------------------------------------
(***************************************************************************)
(* The buyer's command line on top of the contract.                        *)
(***************************************************************************)
Where == {"idle", "ready", "challenge", "answer", "confirm", "reread", "lookup", "inspect",
          "params"}

Progress == {"unsent", "sent", "replayed", "settle", "settling", "purchased", "failed"}

CheckpointFile == [key : Keys, id : Opt(Watches)]

Command == [mode : {None, "start", "recover", "pay"}, pc : Where, key : Opt(Keys),
            id : Opt(Watches), req : Opt(Requests)]

Purchase == [pc : Progress, key : Opt(Keys), tx : Opt(Txs), watch : Opt(Watches)]

BuyerTypeOK ==
    /\ style \in {"mainnet", "spike"}
    /\ disk # None => disk \in CheckpointFile
    /\ cmd \in [Commands -> Command]
    /\ post \in [Requests -> Purchase]
    /\ keyOf \in [Watches -> Opt(Keys)]
    /\ invoiced \subseteq Watches

Activated(w) == watch[w].activationRound # None

(* Watch w was bought under key k, and its payment is confirmed. *)
Bought(k, w) == w \in Watches /\ Activated(w) /\ keyOf[w] = k

(* Watch w was reserved by request q, which carried its payment. *)
SoldBy(q, w) ==
    /\ w \in Watches
    /\ Held(w)
    /\ keyOf[w] = post[q].key
    /\ watch[w].tx = post[q].tx

(* A watch that works or has worked for its buyer was activated, and one    *)
(* that nobody holds has no payment.                                        *)
LivesAreWhole ==
    \A w \in Watches :
        /\ watch[w].phase \in {"active", "matched", "expired"} => Activated(w)
        /\ ~Held(w) => watch[w].tx = None

KeysAreOwn ==
    \A v, w \in Watches : v # w /\ Held(v) /\ Held(w) => keyOf[v] # keyOf[w]

PaymentsAreOwn ==
    /\ \A q, r \in Requests : q # r /\ post[q].tx # None => post[q].tx # post[r].tx
    /\ \A t \in submitted : \E q \in Requests : post[q].tx = t

PostInv(q) ==
    /\ post[q].pc = "unsent" <=> post[q].tx = None
    /\ post[q].pc \in {"settle", "settling", "purchased"} => SoldBy(q, post[q].watch)
    /\ post[q].pc = "purchased" => Activated(post[q].watch)
    /\ post[q].pc = "replayed" /\ post[q].watch # None => Bought(post[q].key, post[q].watch)
    /\ Paying(q) => \E w \in Watches : SoldBy(q, w)

CommandInv(c) ==
    /\ cmd[c].pc \notin {"idle", "ready"} => cmd[c].key \in Keys
    /\ cmd[c].pc = "answer" =>
         /\ cmd[c].req \in Requests
         /\ post[cmd[c].req].key = cmd[c].key
         /\ post[cmd[c].req].tx # None
    /\ cmd[c].pc \in {"confirm", "reread", "inspect", "params"} => Bought(cmd[c].key, cmd[c].id)

DiskInv ==
    /\ disk # None /\ disk.id # None => Bought(disk.key, disk.id)
    /\ \A w \in invoiced : Activated(w)

BuyerInv ==
    /\ ContractInv
    /\ BuyerTypeOK
    /\ LivesAreWhole
    /\ KeysAreOwn
    /\ PaymentsAreOwn
    /\ \A q \in Requests : PostInv(q)
    /\ \A c \in Commands : CommandInv(c)
    /\ DiskInv

(* MainNet, one start at a time: the first nonce is the only one. *)
OneCheckpoint ==
    style = "mainnet" =>
        /\ \A c, d \in Commands : c # d => cmd[c].mode # "start" \/ cmd[d].mode # "start"
        /\ \A c \in Commands :
             /\ cmd[c].pc \in {"ready", "challenge"} => cmd[c].mode = "start"
             /\ cmd[c].pc = "ready" => disk = None
             /\ cmd[c].pc \notin {"idle", "ready"} => disk # None /\ cmd[c].key = disk.key
             /\ cmd[c].pc = "challenge" => \A q \in Requests : post[q].tx = None
        /\ \A q, r \in Requests : post[q].tx # None =>
             /\ disk # None /\ post[q].key = disk.key
             /\ post[r].tx # None => q = r

(* What every step keeps of a watch once it is held. *)
HeldForGood ==
    \A w \in Watches :
        /\ Held(w) => Held(w)' /\ keyOf'[w] = keyOf[w]
        /\ Activated(w) => Held(w) /\ Activated(w)'
        /\ watch[w].tx # None => watch'[w].tx = watch[w].tx

(* The buyer's tools and their server do nothing that the contract forbids. *)
LEMMA BuyerKeepsContract ==
  ASSUME BuyerTypeOK, \A q \in Requests : PostInv(q), [BuyerNext]_buyerVars
  PROVE  [ContractNext]_contractVars
<1>1. CASE \E c \in Commands : CommandStep(c)
  <2>1. UNCHANGED contractVars
    BY <1>1 DEF CommandStep, Start, DrawNonce, SpikePrepare, PostPaid, PurchaseAnswered, Confirm,
                Recover, Reread, Lookup, ReplayAnswered, Pay, Inspect, SendInvoice, CommandFails
  <2> QED
    BY <2>1
<1>2. ASSUME NEW q \in Requests, PostArrives(q) PROVE [ContractNext]_contractVars
  BY <1>2 DEF PostArrives, ContractNext, WatchStep, contractVars
<1>3. ASSUME NEW q \in Requests, SettleCall(q) PROVE [ContractNext]_contractVars
  <2>1. post[q].tx \in Txs
    BY <1>3 DEF SettleCall, BuyerTypeOK, Purchase, PostInv, Opt
  <2> QED
    BY <1>3, <2>1 DEF SettleCall, ContractNext, Submit
<1>4. ASSUME NEW q \in Requests, Answer(q) \/ PostFails(q) PROVE [ContractNext]_contractVars
  BY <1>4 DEF Answer, PostFails
<1>5. CASE (\E w \in Watches : Serve(w)) /\ UNCHANGED <<clientVars, ledgerVars>>
  BY <1>5 DEF Serve, ContractNext, WatchStep
<1>6. CASE (NewBlock \/ ClockTick) /\ UNCHANGED <<clientVars, watch>>
  BY <1>6 DEF ContractNext
<1>7. CASE UNCHANGED buyerVars
  BY <1>7 DEF buyerVars
<1> QED
  BY <1>1, <1>2, <1>3, <1>4, <1>5, <1>6, <1>7 DEF BuyerNext, ServerStep

(* Nothing that any step does is taken back from a watch that is held.      *)
LEMMA WatchesLast ==
  ASSUME ContractInv, BuyerTypeOK, LivesAreWhole, [BuyerNext]_buyerVars
  PROVE  /\ HeldForGood
         /\ LivesAreWhole'
<1>1. watch \in [Watches -> Life] /\ landed \in [Txs -> Nat]
  BY DEF ContractInv, ContractTypeOK, LedgerTypeOK
<1>2. \A w \in Watches : Activated(w) => Held(w)
  BY DEF ContractInv, PhasesAreSound, Activated, Held
<1>3. CASE UNCHANGED <<watch, keyOf>>
  BY <1>2, <1>3 DEF HeldForGood, LivesAreWhole, Held, Activated
<1>4. ASSUME NEW w \in Watches, Serve(w), UNCHANGED <<clientVars, ledgerVars>>
      PROVE  HeldForGood /\ LivesAreWhole'
  <2>1. keyOf' = keyOf /\ \A v \in Watches \ {w} : watch'[v] = watch[v]
    BY <1>1, <1>4 DEF clientVars, Serve, Activate, Reject, Match, Expire, GiveUp
  <2>2. /\ Held(w) /\ watch'[w].phase # "none" /\ watch'[w].tx = watch[w].tx
        /\ Activated(w) => Activated(w)'
        /\ watch'[w].phase \in {"active", "matched", "expired"} => Activated(w)'
    <3>1. CASE Activate(w)
      <4>1. landed[watch[w].tx] \in Nat
        BY <1>1, <3>1 DEF Activate, ContractInv, PhasesAreSound
      <4> QED
        BY <1>1, <3>1, <4>1, StoreAssumption DEF Activate, Life, Held, Activated
    <3>2. CASE Reject(w)
      BY <1>1, <3>2 DEF Reject, Life, Held, Activated
    <3>3. CASE Match(w)
      BY <1>1, <3>3 DEF Match, Life, Held, Activated, LivesAreWhole
    <3>4. CASE Expire(w)
      BY <1>1, <3>4 DEF Expire, Life, Held, Activated, LivesAreWhole
    <3>5. CASE GiveUp(w)
      BY <1>1, <3>5 DEF GiveUp, Life, Held, Activated
    <3> QED
      BY <1>4, <3>1, <3>2, <3>3, <3>4, <3>5 DEF Serve
  <2> QED
    BY <1>2, <2>1, <2>2 DEF HeldForGood, LivesAreWhole, Held, Activated
<1>5. ASSUME NEW q \in Requests, PostArrives(q)
      PROVE  HeldForGood /\ LivesAreWhole'
  <2>1. CASE \E w \in Watches : Reserve(w) /\ keyOf' = [keyOf EXCEPT ![w] = post[q].key]
    <3>1. PICK w \in Watches : Reserve(w) /\ keyOf' = [keyOf EXCEPT ![w] = post[q].key]
      BY <2>1
    <3>2. ~Held(w) /\ watch'[w].phase = "reserved"
      BY <1>1, <3>1 DEF Reserve, Held
    <3>3. \A v \in Watches \ {w} : watch'[v] = watch[v] /\ keyOf'[v] = keyOf[v]
      BY <1>1, <3>1 DEF Reserve, BuyerTypeOK
    <3> QED
      BY <1>2, <3>2, <3>3 DEF HeldForGood, LivesAreWhole, Held, Activated
  <2> QED
    BY <1>3, <1>5, <2>1 DEF PostArrives
<1>6. CASE (NewBlock \/ ClockTick) /\ UNCHANGED <<clientVars, watch>>
  BY <1>3, <1>6 DEF clientVars
<1>7. CASE \E q \in Requests : SettleCall(q) \/ Answer(q) \/ PostFails(q)
  BY <1>3, <1>7 DEF SettleCall, Answer, PostFails, contractVars
<1>8. CASE \E c \in Commands : CommandStep(c)
  <2>1. UNCHANGED <<keyOf, contractVars>>
    BY <1>8 DEF CommandStep, Start, DrawNonce, SpikePrepare, PostPaid, PurchaseAnswered, Confirm,
                Recover, Reread, Lookup, ReplayAnswered, Pay, Inspect, SendInvoice, CommandFails
  <2> QED
    BY <1>3, <2>1 DEF contractVars
<1>9. CASE UNCHANGED buyerVars
  BY <1>3, <1>9 DEF buyerVars, clientVars, contractVars
<1> QED
  BY <1>4, <1>5, <1>6, <1>7, <1>8, <1>9 DEF BuyerNext, ServerStep

(* The same after the step, for a key and a watch read before it.           *)
StaysBought(k, w) == w \in Watches /\ watch'[w].activationRound # None /\ keyOf'[w] = k

(* What a record of a purchase says of a watch stays true.                  *)
LEMMA PurchasesLast ==
  ASSUME HeldForGood, NEW w \in Watches
  PROVE  /\ \A k : Bought(k, w) => Activated(w)' /\ keyOf'[w] = k /\ StaysBought(k, w)
         /\ \A q \in Requests :
              SoldBy(q, w) /\ post[q].tx # None =>
                /\ Held(w)'
                /\ keyOf'[w] = post[q].key
                /\ watch'[w].tx = post[q].tx
  BY DEF HeldForGood, Bought, SoldBy, StaysBought, Activated

(* A request that a step leaves alone.                                      *)
LEMMA PostStays ==
  ASSUME BuyerInv, HeldForGood, NEW q \in Requests, post'[q] = post[q],
         post[q].tx \in submitted' => post[q].tx \in submitted
  PROVE  PostInv(q)'
<1>1. PostInv(q)
  BY DEF BuyerInv
<1>2. CASE post[q].pc \in {"settle", "settling", "purchased"}
  <2>1. post[q].watch \in Watches /\ SoldBy(q, post[q].watch) /\ post[q].tx # None
    BY <1>1, <1>2 DEF PostInv, SoldBy
  <2>2. SoldBy(q, post[q].watch)'
    BY <2>1, PurchasesLast DEF SoldBy
  <2>3. post[q].pc = "purchased" => Activated(post[q].watch)'
    BY <1>1, <2>1 DEF PostInv, HeldForGood, Activated
  <2> QED
    BY <1>1, <1>2, <2>1, <2>2, <2>3 DEF PostInv, Paying, SoldBy
<1>3. CASE post[q].pc \notin {"settle", "settling", "purchased"}
  <2>1. post[q].pc = "replayed" /\ post[q].watch # None => Bought(post[q].key, post[q].watch)'
    BY <1>1, PurchasesLast DEF PostInv, Bought, Activated
  <2>2. Paying(q)' => \E w \in Watches : SoldBy(q, w)'
    <3>1. SUFFICES ASSUME Paying(q)' PROVE \E w \in Watches : SoldBy(q, w)'
      OBVIOUS
    <3>2. Paying(q) /\ post[q].tx # None
      BY <3>1 DEF Paying
    <3>3. PICK w \in Watches : SoldBy(q, w)
      BY <1>1, <3>2 DEF PostInv
    <3> QED
      BY <3>2, <3>3, PurchasesLast DEF SoldBy
  <2> QED
    BY <1>1, <1>3, <2>1, <2>2 DEF PostInv
<1> QED
  BY <1>2, <1>3

(* A command that a step leaves alone.                                      *)
LEMMA CommandStays ==
  ASSUME BuyerInv, HeldForGood, NEW c \in Commands, cmd'[c] = cmd[c],
         \A q \in Requests : post[q].tx # None =>
            post'[q].key = post[q].key /\ post'[q].tx = post[q].tx
  PROVE  CommandInv(c)'
<1>1. CommandInv(c)
  BY DEF BuyerInv
<1>2. cmd[c].pc \in {"confirm", "reread", "inspect", "params"} => Bought(cmd[c].key, cmd[c].id)'
  BY <1>1, PurchasesLast DEF CommandInv, Bought, Activated
<1>3. cmd[c].pc = "answer" =>
        /\ cmd[c].req \in Requests
        /\ post'[cmd[c].req].key = cmd[c].key
        /\ post'[cmd[c].req].tx # None
  BY <1>1 DEF CommandInv
<1> QED
  BY <1>1, <1>2, <1>3 DEF CommandInv

(* The checkpoint and the invoices, when a step leaves them alone.          *)
LEMMA DiskStays ==
  ASSUME BuyerInv, HeldForGood, UNCHANGED <<disk, invoiced>>
  PROVE  DiskInv'
<1>1. DiskInv /\ invoiced \subseteq Watches
  BY DEF BuyerInv, BuyerTypeOK
<1>2. disk # None /\ disk.id # None => Bought(disk.key, disk.id)'
  BY <1>1, PurchasesLast DEF DiskInv, Bought, Activated
<1>3. \A w \in invoiced : Activated(w)'
  BY <1>1 DEF DiskInv, HeldForGood, Activated
<1> QED
  BY <1>1, <1>2, <1>3 DEF DiskInv

(* What a step must show when the watches and their keys stay.              *)
Records ==
    /\ BuyerTypeOK
    /\ KeysAreOwn
    /\ PaymentsAreOwn
    /\ \A q \in Requests : PostInv(q)
    /\ \A c \in Commands : CommandInv(c)
    /\ DiskInv

(* A command neither posts nor ends with a purchase: only it and the file   *)
(* change, and what it takes over was true where it took it from.           *)
LEMMA CommandChanges ==
  ASSUME BuyerInv, HeldForGood, NEW c \in Commands,
         UNCHANGED <<post, keyOf, watch, submitted, style>>,
         \A d \in Commands \ {c} : cmd'[d] = cmd[d],
         CommandInv(c)', BuyerTypeOK', DiskInv'
  PROVE  Records'
<1>1. \A d \in Commands \ {c} : CommandInv(d)'
  BY CommandStays
<1>2. \A q \in Requests : PostInv(q)'
  BY PostStays
<1>3. KeysAreOwn' /\ PaymentsAreOwn'
  BY DEF BuyerInv, KeysAreOwn, PaymentsAreOwn, Held
<1> QED
  BY <1>1, <1>2, <1>3 DEF Records

(* Every step of a command but the paid request itself.                     *)
LEMMA CommandKeeps ==
  ASSUME BuyerInv, HeldForGood, NEW c \in Commands, CommandStep(c), ~PostPaid(c)
  PROVE  Records'
<1> USE StoreAssumption, BuyerAssumption
<1>1. /\ BuyerTypeOK /\ CommandInv(c) /\ DiskInv
      /\ \A q \in Requests : PostInv(q)
      /\ cmd[c] \in Command
  BY DEF BuyerInv, BuyerTypeOK
<1>2. /\ UNCHANGED <<post, keyOf, watch, submitted, style>>
      /\ \A d \in Commands \ {c} : cmd'[d] = cmd[d]
  BY <1>1 DEF CommandStep, Start, DrawNonce, SpikePrepare, PurchaseAnswered, Confirm, Recover,
         Reread, Lookup, ReplayAnswered, Pay, Inspect, SendInvoice, CommandFails,
         contractVars, ledgerVars, Ended, BuyerTypeOK
<1>3. ASSUME cmd' = Ended(c) PROVE CommandInv(c)' /\ cmd' \in [Commands -> Command]
  BY <1>1, <1>3 DEF Ended, NoCommand, CommandInv, BuyerTypeOK, Command, Where, Opt
<1>4. \A k \in Keys : /\ Checkpoint(k, None) \in CheckpointFile
                      /\ Checkpoint(k, None).key = k /\ Checkpoint(k, None).id = None
                      /\ \A w \in Watches : /\ Checkpoint(k, w) \in CheckpointFile
                                            /\ Checkpoint(k, w).key = k
                                            /\ Checkpoint(k, w).id = w
  BY DEF Checkpoint, CheckpointFile, Opt
<1>5. ASSUME UNCHANGED <<disk, invoiced>> PROVE DiskInv'
  BY <1>5, DiskStays
<1>6. ASSUME NEW k \in Keys, NEW w, Bought(k, w), disk' = Checkpoint(k, w), UNCHANGED invoiced
      PROVE  DiskInv' /\ (disk' # None => disk' \in CheckpointFile)
  <2>1. w \in Watches /\ disk'.key = k /\ disk'.id = w /\ disk' \in CheckpointFile
    BY <1>4, <1>6 DEF Bought
  <2>2. Bought(k, w)'
    BY <1>6, PurchasesLast DEF Bought, Activated
  <2>3. \A v \in invoiced : Activated(v)'
    BY <1>1 DEF DiskInv, HeldForGood, BuyerTypeOK
  <2> QED
    BY <1>6, <2>1, <2>2, <2>3 DEF DiskInv, Bought
<1>7. CASE Start(c)
  <2>1. CommandInv(c)'
    BY <1>1, <1>7 DEF Start, NoCommand, CommandInv, BuyerTypeOK
  <2>2. BuyerTypeOK'
    BY <1>1, <1>2, <1>7 DEF Start, NoCommand, BuyerTypeOK, Command, Where, Opt
  <2> QED
    BY <1>2, <1>5, <1>7, <2>1, <2>2, CommandChanges DEF Start
<1>8. CASE DrawNonce(c) \/ SpikePrepare(c)
  <2>1. PICK k \in Keys :
          /\ disk' = Checkpoint(k, None) /\ UNCHANGED invoiced
          /\ \/ cmd' = [cmd EXCEPT ![c].pc = "challenge", ![c].key = k]
             \/ cmd' = [cmd EXCEPT ![c] = [NoCommand EXCEPT
                          !.mode = "start", !.pc = "challenge", !.key = k]]
    BY <1>8 DEF DrawNonce, SpikePrepare
  <2>2. /\ cmd'[c].pc = "challenge" /\ cmd'[c].key = k
        /\ cmd' \in [Commands -> Command]
    <3>1. CASE cmd' = [cmd EXCEPT ![c].pc = "challenge", ![c].key = k]
      BY <1>1, <3>1 DEF BuyerTypeOK, Command, Where, Opt
    <3>2. CASE cmd' = [cmd EXCEPT ![c] = [NoCommand EXCEPT
                          !.mode = "start", !.pc = "challenge", !.key = k]]
      BY <1>1, <3>2 DEF NoCommand, BuyerTypeOK, Command, Where, Opt
    <3> QED
      BY <2>1, <3>1, <3>2
  <2>3. CommandInv(c)'
    BY <2>2 DEF CommandInv
  <2>4. BuyerTypeOK'
    BY <1>1, <1>2, <1>4, <2>1, <2>2 DEF BuyerTypeOK
  <2>5. DiskInv'
    BY <1>1, <1>4, <2>1 DEF DiskInv, HeldForGood, BuyerTypeOK
  <2> QED
    BY <1>2, <2>3, <2>4, <2>5, CommandChanges
<1>9. CASE PurchaseAnswered(c)
  <2> DEFINE q == cmd[c].req
  <2>1. q \in Requests /\ post[q].key = cmd[c].key /\ post[q].pc = "purchased" /\ cmd[c].key \in Keys
    BY <1>1, <1>9 DEF PurchaseAnswered, CommandInv
  <2>2. SoldBy(q, post[q].watch) /\ Activated(post[q].watch)
    BY <1>1, <2>1 DEF PostInv
  <2>3. StaysBought(cmd[c].key, post[q].watch)
    BY <2>1, <2>2, PurchasesLast DEF SoldBy, Bought
  <2>4. cmd' = [cmd EXCEPT ![c].pc = "confirm", ![c].id = post[q].watch] /\ post[q].watch \in Watches
    BY <1>9, <2>2 DEF PurchaseAnswered, SoldBy
  <2>5. /\ cmd'[c].pc = "confirm" /\ cmd'[c].id = post[q].watch /\ cmd'[c].key = cmd[c].key
        /\ cmd' \in [Commands -> Command]
    <3> HIDE DEF q
    <3> QED
      BY <1>1, <2>4 DEF BuyerTypeOK, Command, Where, Opt
  <2>6. CommandInv(c)'
    BY <2>1, <2>3, <2>5 DEF CommandInv, Bought, StaysBought, Activated
  <2>7. UNCHANGED <<disk, invoiced>> /\ BuyerTypeOK'
    BY <1>1, <1>2, <1>9, <2>5 DEF PurchaseAnswered, BuyerTypeOK
  <2> QED
    BY <1>2, <1>5, <2>6, <2>7, CommandChanges
<1>10. CASE Confirm(c) \/ Reread(c)
  <2>1. /\ Bought(cmd[c].key, cmd[c].id) /\ cmd[c].key \in Keys
        /\ disk' = Checkpoint(cmd[c].key, cmd[c].id) /\ cmd' = Ended(c) /\ UNCHANGED invoiced
    BY <1>1, <1>10 DEF Confirm, Reread, CommandInv
  <2>2. DiskInv' /\ (disk' # None => disk' \in CheckpointFile)
    BY <1>6, <2>1
  <2>3. BuyerTypeOK' /\ CommandInv(c)'
    BY <1>1, <1>2, <1>3, <2>1, <2>2 DEF BuyerTypeOK
  <2> QED
    BY <1>2, <2>2, <2>3, CommandChanges
<1>11. CASE Recover(c)
  <2>1. disk \in CheckpointFile /\ disk # None
    BY <1>1, <1>11 DEF Recover, BuyerTypeOK
  <2>2. disk.key \in Keys /\ disk.id \in Opt(Watches)
    BY <2>1 DEF CheckpointFile
  <2>3. /\ cmd'[c].key = disk.key /\ cmd'[c].id = disk.id
        /\ cmd'[c].pc \in {"reread", "lookup", "challenge"}
        /\ cmd'[c].pc = "reread" => disk.id # None
        /\ cmd' \in [Commands -> Command]
    BY <1>1, <1>11, <2>2 DEF Recover, BuyerTypeOK, Command, Where, Opt
  <2>4. disk.id # None => StaysBought(disk.key, disk.id)
    BY <1>1, <2>1, PurchasesLast DEF DiskInv, Bought
  <2>5. CommandInv(c)'
    BY <2>2, <2>3, <2>4 DEF CommandInv, Bought, StaysBought, Activated
  <2>6. UNCHANGED <<disk, invoiced>> /\ BuyerTypeOK'
    BY <1>1, <1>2, <1>11, <2>3 DEF Recover, BuyerTypeOK
  <2> QED
    BY <1>2, <1>5, <2>5, <2>6, CommandChanges
<1>12. CASE Lookup(c)
  <2>1. PICK w \in Watches : /\ Recoverable(watch[w]) /\ keyOf[w] = cmd[c].key
                             /\ disk' = Checkpoint(cmd[c].key, w)
    BY <1>12 DEF Lookup, Known, Accepts
  <2>2. Bought(cmd[c].key, w) /\ cmd[c].key \in Keys /\ cmd' = Ended(c) /\ UNCHANGED invoiced
    BY <1>1, <1>12, <2>1 DEF Bought, Recoverable, Activated, Lookup, CommandInv
  <2>3. DiskInv' /\ (disk' # None => disk' \in CheckpointFile)
    BY <1>6, <2>1, <2>2
  <2>4. BuyerTypeOK' /\ CommandInv(c)'
    BY <1>1, <1>2, <1>3, <2>2, <2>3 DEF BuyerTypeOK
  <2> QED
    BY <1>2, <2>3, <2>4, CommandChanges
<1>13. CASE ReplayAnswered(c)
  <2> DEFINE q == cmd[c].req
  <2>1. /\ q \in Requests /\ post[q].key = cmd[c].key /\ cmd[c].key \in Keys
        /\ post[q].pc = "replayed" /\ post[q].watch # None
        /\ disk' = Checkpoint(cmd[c].key, post[q].watch) /\ cmd' = Ended(c) /\ UNCHANGED invoiced
    BY <1>1, <1>13 DEF ReplayAnswered, CommandInv
  <2>2. Bought(cmd[c].key, post[q].watch)
    BY <1>1, <2>1 DEF PostInv
  <2>3. DiskInv' /\ (disk' # None => disk' \in CheckpointFile)
    BY <1>6, <2>1, <2>2
  <2>4. BuyerTypeOK' /\ CommandInv(c)'
    BY <1>1, <1>2, <1>3, <2>1, <2>3 DEF BuyerTypeOK
  <2> QED
    BY <1>2, <2>3, <2>4, CommandChanges
<1>14. CASE Pay(c)
  <2>1. disk \in CheckpointFile /\ disk # None /\ disk.id # None
    BY <1>1, <1>14 DEF Pay, BuyerTypeOK
  <2>2. disk.key \in Keys /\ disk.id \in Opt(Watches)
    BY <2>1 DEF CheckpointFile
  <2>3. /\ cmd'[c].key = disk.key /\ cmd'[c].id = disk.id /\ cmd'[c].pc = "inspect"
        /\ cmd' \in [Commands -> Command]
    BY <1>1, <1>14, <2>2 DEF Pay, BuyerTypeOK, Command, Where, Opt
  <2>4. StaysBought(disk.key, disk.id)
    BY <1>1, <2>1, PurchasesLast DEF DiskInv, Bought
  <2>5. CommandInv(c)'
    BY <2>2, <2>3, <2>4 DEF CommandInv, Bought, StaysBought, Activated
  <2>6. UNCHANGED <<disk, invoiced>> /\ BuyerTypeOK'
    BY <1>1, <1>2, <1>14, <2>3 DEF Pay, BuyerTypeOK
  <2> QED
    BY <1>2, <1>5, <2>5, <2>6, CommandChanges
<1>15. CASE Inspect(c)
  <2>1. /\ cmd'[c].key = cmd[c].key /\ cmd'[c].id = cmd[c].id /\ cmd'[c].pc = "params"
        /\ cmd' \in [Commands -> Command]
    BY <1>1, <1>15 DEF Inspect, BuyerTypeOK, Command, Where
  <2>2. Bought(cmd[c].key, cmd[c].id) /\ cmd[c].key \in Keys
    BY <1>1, <1>15 DEF Inspect, CommandInv
  <2>3. StaysBought(cmd[c].key, cmd[c].id)
    BY <2>2, PurchasesLast DEF Bought
  <2>4. CommandInv(c)'
    BY <2>1, <2>2, <2>3 DEF CommandInv, Bought, StaysBought, Activated
  <2>5. UNCHANGED <<disk, invoiced>> /\ BuyerTypeOK'
    BY <1>1, <1>2, <1>15, <2>1 DEF Inspect, BuyerTypeOK
  <2> QED
    BY <1>2, <1>5, <2>4, <2>5, CommandChanges
<1>16. CASE SendInvoice(c)
  <2>1. Bought(cmd[c].key, cmd[c].id) /\ cmd' = Ended(c) /\ UNCHANGED disk
        /\ invoiced' = invoiced \cup {cmd[c].id}
    BY <1>1, <1>16 DEF SendInvoice, CommandInv
  <2>2. disk # None /\ disk.id # None => Bought(disk.key, disk.id)'
    BY <1>1, <2>1, PurchasesLast DEF DiskInv, Bought, Activated
  <2>3. \A w \in invoiced' : w \in Watches /\ Activated(w)'
    BY <1>1, <2>1 DEF DiskInv, Bought, HeldForGood, BuyerTypeOK
  <2>4. DiskInv'
    BY <2>1, <2>2, <2>3 DEF DiskInv
  <2>5. BuyerTypeOK' /\ CommandInv(c)'
    BY <1>1, <1>2, <1>3, <2>1, <2>3 DEF BuyerTypeOK
  <2> QED
    BY <1>2, <2>4, <2>5, CommandChanges
<1>17. CASE CommandFails(c)
  <2>1. cmd' = Ended(c) /\ UNCHANGED <<disk, invoiced>>
    BY <1>17 DEF CommandFails
  <2>2. BuyerTypeOK' /\ CommandInv(c)'
    BY <1>1, <1>2, <1>3, <2>1 DEF BuyerTypeOK
  <2> QED
    BY <1>2, <1>5, <2>1, <2>2, CommandChanges
<1> QED
  BY <1>7, <1>8, <1>9, <1>10, <1>11, <1>12, <1>13, <1>14, <1>15, <1>16, <1>17 DEF CommandStep

(* A request whose payment was handed over keeps the watch it was sold.     *)
LEMMA PayingStays ==
  ASSUME BuyerInv, HeldForGood, NEW q \in Requests,
         post'[q].tx = post[q].tx, post'[q].key = post[q].key,
         post[q].tx \in submitted' => post[q].tx \in submitted \/ \E v \in Watches : SoldBy(q, v)
  PROVE  Paying(q)' => \E w \in Watches : SoldBy(q, w)'
<1>1. SUFFICES ASSUME Paying(q)' PROVE \E w \in Watches : SoldBy(q, w)'
  OBVIOUS
<1>2. post[q].tx # None /\ (Paying(q) \/ \E v \in Watches : SoldBy(q, v))
  BY <1>1 DEF Paying
<1>3. PICK w \in Watches : SoldBy(q, w)
  BY <1>2 DEF BuyerInv, PostInv
<1> QED
  BY <1>2, <1>3, PurchasesLast DEF SoldBy

(* The paid request: a payment of its own, posted under the command's key.  *)
LEMMA PostPaidKeeps ==
  ASSUME BuyerInv, HeldForGood, NEW c \in Commands, PostPaid(c)
  PROVE  Records'
<1> USE StoreAssumption
<1>1. BuyerTypeOK /\ CommandInv(c) /\ PaymentsAreOwn /\ KeysAreOwn /\ \A q \in Requests : PostInv(q)
  BY DEF BuyerInv
<1>2. PICK q \in Requests, t \in Txs :
        /\ post[q].pc = "unsent"
        /\ \A r \in Requests : post[r].tx # t
        /\ post' = [post EXCEPT ![q] = [pc |-> "sent", key |-> cmd[c].key,
                                       tx |-> t, watch |-> None]]
        /\ cmd' = [cmd EXCEPT ![c].pc = "answer", ![c].req = q]
  BY DEF PostPaid
<1>3. /\ UNCHANGED <<style, disk, keyOf, invoiced, watch, submitted>>
      /\ cmd[c].pc = "challenge" /\ cmd[c].key \in Keys
  BY <1>1 DEF PostPaid, contractVars, ledgerVars, CommandInv
<1>4. /\ post'[q].pc = "sent" /\ post'[q].key = cmd[c].key /\ post'[q].tx = t
      /\ post[q].tx = None
      /\ \A r \in Requests \ {q} : post'[r] = post[r]
      /\ \A d \in Commands \ {c} : cmd'[d] = cmd[d]
      /\ cmd'[c].pc = "answer" /\ cmd'[c].req = q /\ cmd'[c].key = cmd[c].key
  BY <1>1, <1>2 DEF BuyerTypeOK, PostInv
<1>5. t \notin submitted
  BY <1>1, <1>2 DEF PaymentsAreOwn
<1>6. BuyerTypeOK'
  <2>1. post' \in [Requests -> Purchase]
    <3>1. [pc |-> "sent", key |-> cmd[c].key, tx |-> t, watch |-> None] \in Purchase
      BY <1>3 DEF Purchase, Progress, Opt
    <3> QED
      BY <1>1, <1>2, <3>1 DEF BuyerTypeOK
  <2>2. cmd' \in [Commands -> Command]
    <3> DEFINE moved == [cmd[c] EXCEPT !.pc = "answer"]
               bound == [moved EXCEPT !.req = q]
    <3>1. moved \in Command
      BY <1>1 DEF BuyerTypeOK, Command, Where
    <3>2. bound \in Command
      <4> HIDE DEF moved
      <4> QED
        BY <3>1 DEF Command, Opt
    <3>3. cmd' = [cmd EXCEPT ![c] = bound]
      BY <1>1, <1>2 DEF BuyerTypeOK
    <3> HIDE DEF moved, bound
    <3> QED
      BY <1>1, <3>2, <3>3 DEF BuyerTypeOK
  <2> QED
    BY <1>1, <1>3, <2>1, <2>2 DEF BuyerTypeOK
<1>7. KeysAreOwn' /\ PaymentsAreOwn'
  <2>1. KeysAreOwn'
    BY <1>1, <1>3 DEF KeysAreOwn, Held
  <2>2. \A p, r \in Requests : p # r /\ post'[p].tx # None => post'[p].tx # post'[r].tx
    BY <1>1, <1>2, <1>4 DEF PaymentsAreOwn
  <2>3. ASSUME NEW s \in submitted PROVE \E r \in Requests : post'[r].tx = s
    <3>1. PICK r \in Requests : post[r].tx = s
      BY <1>1 DEF PaymentsAreOwn
    <3>2. s # None
      BY DEF BuyerInv, ContractInv, ContractTypeOK, LedgerTypeOK
    <3> QED
      BY <1>4, <3>1, <3>2
  <2> QED
    BY <1>3, <2>1, <2>2, <2>3 DEF PaymentsAreOwn
<1>8. ASSUME NEW r \in Requests PROVE PostInv(r)'
  <2>1. CASE r = q
    BY <1>3, <1>4, <1>5, <2>1 DEF PostInv, Paying
  <2>2. CASE r # q
    BY <1>3, <1>4, <2>2, PostStays
  <2> QED
    BY <2>1, <2>2
<1>9. ASSUME NEW d \in Commands PROVE CommandInv(d)'
  <2>1. CASE d = c
    BY <1>3, <1>4, <2>1 DEF CommandInv
  <2>2. CASE d # c
    BY <1>4, <2>2, CommandStays
  <2> QED
    BY <2>1, <2>2
<1>10. DiskInv'
  BY <1>3, DiskStays
<1> QED
  BY <1>6, <1>7, <1>8, <1>9, <1>10 DEF Records

(* A request moves on and learns its watch.                                 *)
MovesOn(q, pc, w) == post' = [post EXCEPT ![q].pc = pc, ![q].watch = w]

(* The record of a request that moves on.                                   *)
LEMMA PurchaseEdits ==
  ASSUME BuyerTypeOK, NEW q \in Requests, NEW pc \in Progress, NEW w \in Opt(Watches),
         MovesOn(q, pc, w)
  PROVE  /\ post'[q].pc = pc /\ post'[q].watch = w
         /\ post'[q].key = post[q].key /\ post'[q].tx = post[q].tx
         /\ \A r \in Requests \ {q} : post'[r] = post[r]
         /\ post' \in [Requests -> Purchase]
<1> DEFINE moved == [post[q] EXCEPT !.pc = pc]
           bound == [moved EXCEPT !.watch = w]
<1>1. post \in [Requests -> Purchase] /\ post[q] \in Purchase
  BY DEF BuyerTypeOK
<1>2. moved \in Purchase /\ moved.pc = pc /\ moved.key = post[q].key /\ moved.tx = post[q].tx
  BY <1>1 DEF Purchase
<1>3. /\ bound \in Purchase /\ bound.watch = w /\ bound.pc = moved.pc
      /\ bound.key = moved.key /\ bound.tx = moved.tx
  <2> HIDE DEF moved
  <2> QED
    BY <1>2 DEF Purchase
<1>4. post' = [post EXCEPT ![q] = bound]
  BY <1>1 DEF MovesOn
<1> HIDE DEF moved, bound
<1> QED
  BY <1>1, <1>2, <1>3, <1>4

(* Every step of a posted request at the server.                            *)
LEMMA ServerKeeps ==
  ASSUME BuyerInv, HeldForGood, NEW q \in Requests, ServerStep(q)
  PROVE  Records'
<1> USE StoreAssumption
<1>1. /\ BuyerTypeOK /\ PaymentsAreOwn /\ KeysAreOwn /\ PostInv(q) /\ LivesAreWhole
      /\ watch \in [Watches -> Life]
  BY DEF BuyerInv, ContractInv, ContractTypeOK
<1>2. /\ UNCHANGED <<style, disk, cmd, invoiced>>
      /\ \A r \in Requests \ {q} : post'[r] = post[r]
      /\ post'[q].key = post[q].key /\ post'[q].tx = post[q].tx
      /\ post[q].pc # "unsent" /\ post'[q].pc # "unsent"
  <2>1. CASE PostArrives(q)
    <3>1. PICK pc \in {"replayed", "settle"}, w \in Opt(Watches) :
            MovesOn(q, pc, w)
      BY <2>1 DEF PostArrives, Known, Opt, MovesOn
    <3>2. pc \in Progress
      BY DEF Progress
    <3> QED
      BY <1>1, <2>1, <3>1, <3>2, PurchaseEdits DEF PostArrives
  <2>2. CASE SettleCall(q)
    BY <1>1, <2>2 DEF SettleCall, BuyerTypeOK
  <2>3. CASE Answer(q)
    BY <1>1, <2>3 DEF Answer, BuyerTypeOK
  <2>4. CASE PostFails(q)
    BY <1>1, <2>4 DEF PostFails, BuyerTypeOK
  <2> QED
    BY <2>1, <2>2, <2>3, <2>4 DEF ServerStep
<1>3. submitted' = submitted \/ (SettleCall(q) /\ submitted' = submitted \cup {post[q].tx})
  BY DEF ServerStep, PostArrives, SettleCall, Answer, PostFails, contractVars, ledgerVars
<1>4. post[q].tx \in submitted' => post[q].tx \in submitted \/ \E v \in Watches : SoldBy(q, v)
  BY <1>1, <1>3 DEF SettleCall, PostInv, SoldBy
<1>5. post[q].tx # None
  BY <1>1, <1>2 DEF PostInv
<1>6. Paying(q)' => \E w \in Watches : SoldBy(q, w)'
  BY <1>2, <1>4, PayingStays
<1>7. PostInv(q)' /\ BuyerTypeOK' /\ KeysAreOwn'
  <2>1. ASSUME NEW w \in Known(post[q].key),
               post' = [post EXCEPT ![q].pc = "replayed",
                                    ![q].watch = IF Live(watch[w]) THEN w ELSE None],
               UNCHANGED <<watch, keyOf>>
        PROVE  PostInv(q)' /\ BuyerTypeOK' /\ KeysAreOwn'
    <3>1. w \in Watches /\ keyOf[w] = post[q].key
      BY DEF Known
    <3> DEFINE found == IF Live(watch[w]) THEN w ELSE None
    <3>2. found \in Opt(Watches) /\ (found # None => Bought(post[q].key, found))
      BY <1>1, <3>1 DEF Opt, Live, LivesAreWhole, Bought
    <3>3. post' = [post EXCEPT ![q].pc = "replayed", ![q].watch = found]
      BY <2>1
    <3> HIDE DEF found
    <3>4. /\ post'[q].pc = "replayed" /\ post'[q].watch = found
          /\ post' \in [Requests -> Purchase]
      <4>1. PICK pc \in Progress : pc = "replayed"
        BY DEF Progress
      <4>2. MovesOn(q, pc, found)
        BY <3>3, <4>1 DEF MovesOn
      <4>3. post'[q].pc = pc /\ post'[q].watch = found /\ post' \in [Requests -> Purchase]
        BY <1>1, <3>2, <4>2, PurchaseEdits
      <4> QED
        BY <4>1, <4>3
    <3>5. (post[q].watch # None => Bought(post[q].key, post[q].watch))'
      BY <1>2, <2>1, <3>2, <3>4 DEF Bought, Activated
    <3>6. PostInv(q)'
      BY <1>2, <1>5, <1>6, <3>4, <3>5 DEF PostInv
    <3> QED
      BY <1>1, <1>2, <2>1, <3>4, <3>6 DEF BuyerTypeOK, KeysAreOwn, Held
  <2>2. ASSUME NEW w \in Watches, Known(post[q].key) = {}, Reserve(w),
               watch'[w].tx = post[q].tx,
               keyOf' = [keyOf EXCEPT ![w] = post[q].key],
               post' = [post EXCEPT ![q].pc = "settle", ![q].watch = w]
        PROVE  PostInv(q)' /\ BuyerTypeOK' /\ KeysAreOwn'
    <3>1. Held(w)' /\ \A v \in Watches \ {w} : watch'[v] = watch[v] /\ keyOf'[v] = keyOf[v]
      BY <1>1, <2>2 DEF Reserve, Held, BuyerTypeOK
    <3>2. /\ keyOf'[w] = post[q].key /\ post'[q].pc = "settle" /\ post'[q].watch = w
          /\ keyOf' \in [Watches -> Opt(Keys)]
          /\ post' \in [Requests -> Purchase]
      <4>1. w \in Opt(Watches) /\ "settle" \in Progress
        BY DEF Progress, Opt
      <4>2. post[q].key \in Opt(Keys)
        BY <1>1 DEF BuyerTypeOK, Purchase
      <4>3. keyOf'[w] = post[q].key /\ keyOf' \in [Watches -> Opt(Keys)]
        BY <1>1, <2>2, <4>2 DEF BuyerTypeOK
      <4>4. PICK pc \in Progress : pc = "settle"
        BY <4>1
      <4>5. MovesOn(q, pc, w)
        BY <2>2, <4>4 DEF MovesOn
      <4>6. post'[q].pc = pc /\ post'[q].watch = w /\ post' \in [Requests -> Purchase]
        BY <1>1, <4>1, <4>5, PurchaseEdits
      <4> QED
        BY <4>3, <4>4, <4>6
    <3>3. SoldBy(q, w)'
      BY <1>2, <2>2, <3>1, <3>2 DEF SoldBy
    <3>4. PostInv(q)'
      BY <1>2, <1>5, <3>2, <3>3 DEF PostInv, SoldBy
    <3>5. KeysAreOwn'
      <4>1. \A v \in Watches \ {w} : Held(v) => keyOf[v] # post[q].key
        BY <2>2 DEF Known
      <4> QED
        BY <1>1, <3>1, <3>2, <4>1 DEF KeysAreOwn, Held
    <3> QED
      BY <1>1, <1>2, <3>2, <3>4, <3>5 DEF BuyerTypeOK
  <2>3. ASSUME NEW pc \in {"settling", "purchased", "failed"}, post' = [post EXCEPT ![q].pc = pc],
               UNCHANGED <<watch, keyOf>>,
               pc # "failed" => post[q].pc \in {"settle", "settling"},
               pc = "purchased" => Live(watch[post[q].watch])
        PROVE  PostInv(q)' /\ BuyerTypeOK' /\ KeysAreOwn'
    <3>1. /\ post'[q].pc = pc /\ post'[q].watch = post[q].watch
          /\ post' \in [Requests -> Purchase]
      BY <1>1, <2>3 DEF BuyerTypeOK, Purchase, Progress
    <3>2. pc # "failed" => SoldBy(q, post[q].watch) /\ post[q].watch \in Watches
      BY <1>1, <2>3 DEF PostInv, SoldBy
    <3>3. pc = "purchased" => Activated(post[q].watch)
      BY <1>1, <2>3, <3>2 DEF LivesAreWhole, Live
    <3>4. PostInv(q)'
      BY <1>2, <1>5, <1>6, <2>3, <3>1, <3>2, <3>3 DEF PostInv, SoldBy, Held, Activated
    <3> QED
      BY <1>1, <1>2, <2>3, <3>1, <3>4 DEF BuyerTypeOK, KeysAreOwn, Held
  <2>4. CASE PostArrives(q)
    BY <2>1, <2>2, <2>4 DEF PostArrives
  <2>5. CASE SettleCall(q)
    BY <2>3, <2>5 DEF SettleCall
  <2>6. CASE Answer(q)
    BY <2>3, <2>6 DEF Answer, contractVars
  <2>7. CASE PostFails(q)
    BY <2>3, <2>7 DEF PostFails, contractVars
  <2> QED
    BY <2>4, <2>5, <2>6, <2>7 DEF ServerStep
<1>8. PaymentsAreOwn'
  BY <1>1, <1>2, <1>3 DEF PaymentsAreOwn
<1>9. ASSUME NEW r \in Requests \ {q} PROVE PostInv(r)'
  <2>1. post[r].tx \in submitted' => post[r].tx \in submitted
    BY <1>1, <1>3, <1>5 DEF PaymentsAreOwn
  <2> QED
    BY <1>2, <2>1, PostStays
<1>10. ASSUME NEW c \in Commands PROVE CommandInv(c)'
  <2>1. \A r \in Requests : post'[r].key = post[r].key /\ post'[r].tx = post[r].tx
    BY <1>2
  <2> QED
    BY <1>2, <2>1, CommandStays
<1>11. DiskInv'
  BY <1>2, DiskStays
<1> QED
  BY <1>7, <1>8, <1>9, <1>10, <1>11 DEF Records

(* What the contract does on its own leaves the buyer's records true.       *)
LEMMA WorldKeeps ==
  ASSUME BuyerInv, HeldForGood, UNCHANGED <<clientVars, submitted>>,
         \A w \in Watches : Held(w)' => Held(w)
  PROVE  Records'
<1>1. UNCHANGED <<style, disk, cmd, post, keyOf, invoiced>>
  BY DEF clientVars
<1>2. BuyerTypeOK' /\ PaymentsAreOwn' /\ KeysAreOwn'
  BY <1>1 DEF BuyerInv, BuyerTypeOK, PaymentsAreOwn, KeysAreOwn
<1>3. \A q \in Requests : PostInv(q)'
  BY <1>1, PostStays
<1>4. \A c \in Commands : CommandInv(c)'
  BY <1>1, CommandStays
<1> QED
  BY <1>1, <1>2, <1>3, <1>4, DiskStays DEF Records

(* Every step of the buyer, of the server and of the chain.                 *)
LEMMA BuyerStep ==
  ASSUME BuyerInv, [BuyerNext]_buyerVars
  PROVE  BuyerInv'
<1>1. ContractInv'
  BY BuyerKeepsContract, ContractStep DEF BuyerInv
<1>2. HeldForGood /\ LivesAreWhole'
  BY WatchesLast DEF BuyerInv
<1>3. Records'
  <2>1. ASSUME NEW c \in Commands, CommandStep(c) PROVE Records'
    BY <1>2, <2>1, CommandKeeps, PostPaidKeeps
  <2>2. ASSUME NEW q \in Requests, ServerStep(q) PROVE Records'
    BY <1>2, <2>2, ServerKeeps
  <2>3. CASE (\E w \in Watches : Serve(w)) /\ UNCHANGED <<clientVars, ledgerVars>>
    <3>1. PICK w \in Watches : Serve(w)
      BY <2>3
    <3>2. watch \in [Watches -> Life]
      BY DEF BuyerInv, ContractInv, ContractTypeOK
    <3>3. Held(w) /\ \A v \in Watches \ {w} : watch'[v] = watch[v]
      BY <3>1, <3>2 DEF Serve, Activate, Reject, Match, Expire, GiveUp, Held
    <3> QED
      BY <1>2, <2>3, <3>3, WorldKeeps DEF Held, ledgerVars
  <2>4. CASE (NewBlock \/ ClockTick) /\ UNCHANGED <<clientVars, watch>>
    BY <1>2, <2>4, WorldKeeps DEF NewBlock, ClockTick, Held
  <2>5. CASE UNCHANGED buyerVars
    BY <1>2, <2>5, WorldKeeps DEF buyerVars, contractVars, ledgerVars, Held
  <2> QED
    BY <2>1, <2>2, <2>3, <2>4, <2>5 DEF BuyerNext
<1> QED
  BY <1>1, <1>2, <1>3 DEF BuyerInv, Records

(* One start at a time on MainNet: whoever reaches the paid request is the   *)
(* only command to do so, and the file names its key from then on.           *)
LEMMA CheckpointStep ==
  ASSUME ~ParallelStarts, BuyerInv, OneCheckpoint, [BuyerNext]_buyerVars
  PROVE  OneCheckpoint'
<1> USE BuyerAssumption
<1>1. /\ BuyerTypeOK /\ \A q \in Requests : PostInv(q)
      /\ cmd \in [Commands -> Command] /\ post \in [Requests -> Purchase]
  BY DEF BuyerInv, BuyerTypeOK
<1>2. \A k, w : k \in Keys /\ (w = None \/ w \in Watches) =>
        Checkpoint(k, w) # None /\ Checkpoint(k, w).key = k
  BY DEF Checkpoint, Opt
<1>3. style' = style
  <2>1. ASSUME NEW c \in Commands, CommandStep(c) PROVE style' = style
    BY <2>1 DEF CommandStep, Start, DrawNonce, SpikePrepare, PostPaid, PurchaseAnswered, Confirm,
                Recover, Reread, Lookup, ReplayAnswered, Pay, Inspect, SendInvoice, CommandFails
  <2> QED
    BY <2>1 DEF BuyerNext, ServerStep, PostArrives, SettleCall, Answer, PostFails, clientVars,
                buyerVars
<1>4. SUFFICES ASSUME style = "mainnet" PROVE OneCheckpoint'
  BY <1>3 DEF OneCheckpoint
<1> DEFINE Quiet == \A q \in Requests : post[q].tx = None
<1>5. /\ \A c, d \in Commands : c # d => cmd[c].mode # "start" \/ cmd[d].mode # "start"
      /\ \A c \in Commands :
           /\ cmd[c].pc \in {"ready", "challenge"} => cmd[c].mode = "start"
           /\ cmd[c].pc = "ready" => disk = None
           /\ cmd[c].pc \notin {"idle", "ready"} => disk # None /\ cmd[c].key = disk.key
           /\ cmd[c].pc = "challenge" => Quiet
      /\ \A q, r \in Requests : post[q].tx # None =>
           /\ disk # None /\ post[q].key = disk.key
           /\ post[r].tx # None => q = r
  BY <1>4 DEF OneCheckpoint
<1>6. ASSUME UNCHANGED <<disk, cmd>>,
             \A q \in Requests : post'[q].key = post[q].key /\ post'[q].tx = post[q].tx
      PROVE  OneCheckpoint'
  BY <1>5, <1>6 DEF OneCheckpoint
<1>7. ASSUME NEW c \in Commands, UNCHANGED post,
             \A d \in Commands \ {c} : cmd'[d] = cmd[d],
             disk # None => disk' # None /\ disk'.key = disk.key,
             disk = None => disk' = None,
             cmd'[c].mode = "start" => cmd[c].mode = "start",
             cmd'[c].pc \notin {"ready", "challenge"},
             cmd'[c].pc # "idle" => disk # None /\ cmd'[c].key = disk.key
      PROVE  OneCheckpoint'
  BY <1>5, <1>7 DEF OneCheckpoint
<1>8. ASSUME NEW c \in Commands, CommandStep(c) PROVE OneCheckpoint'
  <2>1. CommandInv(c) /\ cmd[c] \in Command
    BY <1>1 DEF BuyerInv
  <2>2. CASE Start(c)
    <3>1. /\ UNCHANGED <<post, disk>> /\ disk = None
          /\ \A d \in Commands : cmd[d].mode # "start"
          /\ cmd'[c].mode = "start" /\ cmd'[c].pc = "ready"
          /\ \A d \in Commands \ {c} : cmd'[d] = cmd[d]
      BY <1>1, <2>2 DEF Start, NoCommand
    <3> QED
      BY <1>5, <3>1 DEF OneCheckpoint
  <2>3. CASE DrawNonce(c)
    <3>1. PICK k \in Keys :
            /\ disk' = Checkpoint(k, None)
            /\ cmd' = [cmd EXCEPT ![c].pc = "challenge", ![c].key = k]
      BY <2>3 DEF DrawNonce
    <3>2. /\ disk' # None /\ disk'.key = k /\ UNCHANGED post
          /\ cmd[c].pc = "ready" /\ cmd[c].mode = "start" /\ disk = None /\ Quiet
          /\ cmd'[c].pc = "challenge" /\ cmd'[c].key = k /\ cmd'[c].mode = "start"
          /\ \A d \in Commands \ {c} : cmd'[d] = cmd[d]
      BY <1>1, <1>2, <1>5, <2>3, <3>1 DEF DrawNonce, Command
    <3>3. \A d \in Commands \ {c} : cmd[d].mode # "start" /\ cmd[d].pc = "idle"
      BY <1>5, <3>2
    <3> QED
      BY <1>5, <3>2, <3>3 DEF OneCheckpoint
  <2>4. CASE PostPaid(c)
    <3>1. PICK q \in Requests, t \in Txs :
            /\ post' = [post EXCEPT ![q] = [pc |-> "sent", key |-> cmd[c].key,
                                           tx |-> t, watch |-> None]]
            /\ cmd' = [cmd EXCEPT ![c].pc = "answer", ![c].req = q]
      BY <2>4 DEF PostPaid
    <3>2. /\ UNCHANGED disk /\ cmd[c].pc = "challenge" /\ cmd[c].mode = "start" /\ Quiet
          /\ disk # None /\ cmd[c].key = disk.key
          /\ post'[q].key = disk.key /\ \A r \in Requests \ {q} : post'[r] = post[r]
          /\ cmd'[c].pc = "answer" /\ cmd'[c].key = cmd[c].key /\ cmd'[c].mode = "start"
          /\ \A d \in Commands \ {c} : cmd'[d] = cmd[d]
      BY <1>1, <1>5, <2>4, <3>1 DEF PostPaid, Command
    <3>3. \A d \in Commands \ {c} : cmd[d].mode # "start" /\ cmd[d].pc \notin {"ready", "challenge"}
      BY <1>5, <3>2
    <3> QED
      BY <1>5, <3>2, <3>3 DEF OneCheckpoint
  <2>5. CASE Recover(c) \/ Pay(c)
    <3>1. /\ UNCHANGED <<post, disk>> /\ disk # None
          /\ \A d \in Commands \ {c} : cmd'[d] = cmd[d]
          /\ cmd'[c].mode # "start" /\ cmd'[c].pc \notin {"idle", "ready", "challenge"}
          /\ cmd'[c].key = disk.key
      BY <1>1, <1>4, <2>5 DEF Recover, Pay
    <3> QED
      BY <1>7, <3>1
  <2>6. CASE PurchaseAnswered(c) \/ Inspect(c)
    <3>1. PICK pc \in {"confirm", "params"} :
            \E id : cmd' = [cmd EXCEPT ![c].pc = pc, ![c].id = id]
                    \/ cmd' = [cmd EXCEPT ![c].pc = pc]
      BY <2>6 DEF PurchaseAnswered, Inspect
    <3>2. /\ cmd'[c].pc = pc /\ cmd'[c].key = cmd[c].key /\ cmd'[c].mode = cmd[c].mode
          /\ \A d \in Commands \ {c} : cmd'[d] = cmd[d]
      BY <1>1, <3>1 DEF Command
    <3>3. UNCHANGED <<post, disk>> /\ cmd[c].pc \notin {"idle", "ready"}
      BY <2>6 DEF PurchaseAnswered, Inspect
    <3> QED
      BY <1>5, <1>7, <3>2, <3>3
  <2>7. CASE Confirm(c) \/ Reread(c) \/ Lookup(c) \/ ReplayAnswered(c)
    <3>1. /\ cmd[c].pc \notin {"idle", "ready"} /\ cmd[c].key \in Keys
          /\ cmd' = Ended(c) /\ UNCHANGED post
      BY <2>1, <2>7 DEF Confirm, Reread, Lookup, ReplayAnswered, CommandInv
    <3>2. PICK w \in Watches : disk' = Checkpoint(cmd[c].key, w)
      <4>1. CASE Confirm(c) \/ Reread(c)
        BY <2>1, <4>1 DEF Confirm, Reread, CommandInv, Bought
      <4>2. CASE Lookup(c)
        BY <4>2 DEF Lookup, Known
      <4>3. CASE ReplayAnswered(c)
        BY <1>1, <2>1, <4>3 DEF ReplayAnswered, CommandInv, Purchase, Opt
      <4> QED
        BY <2>7, <4>1, <4>2, <4>3
    <3>3. disk # None /\ cmd[c].key = disk.key /\ disk' # None /\ disk'.key = disk.key
      BY <1>2, <1>5, <3>1, <3>2
    <3>4. /\ cmd'[c].pc = "idle" /\ cmd'[c].mode # "start"
          /\ \A d \in Commands \ {c} : cmd'[d] = cmd[d]
      BY <1>1, <3>1 DEF Ended, NoCommand
    <3> QED
      BY <1>7, <3>1, <3>3, <3>4
  <2>8. CASE SendInvoice(c) \/ CommandFails(c)
    <3>1. cmd' = Ended(c) /\ UNCHANGED <<post, disk>>
      BY <2>8 DEF SendInvoice, CommandFails
    <3>2. /\ cmd'[c].pc = "idle" /\ cmd'[c].mode # "start"
          /\ \A d \in Commands \ {c} : cmd'[d] = cmd[d]
      BY <1>1, <3>1 DEF Ended, NoCommand
    <3> QED
      BY <1>7, <3>1, <3>2
  <2>9. ~SpikePrepare(c)
    BY <1>4 DEF SpikePrepare
  <2> QED
    BY <1>8, <2>2, <2>3, <2>4, <2>5, <2>6, <2>7, <2>8, <2>9 DEF CommandStep
<1>9. ASSUME NEW q \in Requests, ServerStep(q) PROVE OneCheckpoint'
  <2>1. UNCHANGED <<disk, cmd>>
    BY <1>9 DEF ServerStep, PostArrives, SettleCall, Answer, PostFails
  <2>2. \A r \in Requests : post'[r].key = post[r].key /\ post'[r].tx = post[r].tx
    <3>1. ASSUME NEW pc, NEW w, MovesOn(q, pc, w)
          PROVE  \A r \in Requests : post'[r].key = post[r].key /\ post'[r].tx = post[r].tx
      BY <1>1, <3>1 DEF MovesOn, Purchase
    <3>2. CASE PostArrives(q)
      <4>1. PICK pc, w : MovesOn(q, pc, w)
        BY <3>2 DEF PostArrives, MovesOn
      <4> QED
        BY <3>1, <4>1
    <3>3. CASE SettleCall(q) \/ Answer(q) \/ PostFails(q)
      BY <1>1, <3>3 DEF SettleCall, Answer, PostFails, Purchase
    <3> QED
      BY <1>9, <3>2, <3>3 DEF ServerStep
  <2> QED
    BY <1>6, <2>1, <2>2
<1>10. CASE UNCHANGED clientVars
  BY <1>6, <1>10 DEF clientVars
<1> QED
  BY <1>8, <1>9, <1>10 DEF BuyerNext, buyerVars

(* Nothing was bought, posted or written at the start.                       *)
LEMMA BuyerStarts == BuyerInit => BuyerInv /\ OneCheckpoint
<1> SUFFICES ASSUME BuyerInit PROVE BuyerInv /\ OneCheckpoint
  OBVIOUS
<1> USE StoreAssumption, BuyerAssumption DEF BuyerInit
<1>1. ContractInv
  BY InitHolds
<1>2. \A w \in Watches : watch[w] = NoLife /\ ~Held(w)
  BY DEF ContractInit, LedgerInit, Held, NoLife
<1>3. submitted = {}
  BY DEF ContractInit, LedgerInit
<1>4. BuyerTypeOK
  BY DEF BuyerTypeOK, Command, Where, Purchase, Progress, NoCommand, NotPosted, Opt
<1>5. LivesAreWhole /\ KeysAreOwn
  BY <1>2 DEF LivesAreWhole, KeysAreOwn, NoLife, Held
<1>6. PaymentsAreOwn /\ DiskInv /\ \A q \in Requests : PostInv(q)
  BY <1>3 DEF PaymentsAreOwn, DiskInv, PostInv, NotPosted, Paying
<1>7. (\A c \in Commands : CommandInv(c)) /\ OneCheckpoint
  BY DEF CommandInv, OneCheckpoint, NoCommand, NotPosted
<1> QED
  BY <1>1, <1>4, <1>5, <1>6, <1>7 DEF BuyerInv

-----------------------------------------------------------------------------
(* Whatever dies, overlaps or arrives late, what the buyer holds is true.    *)
THEOREM BuyerInvariant == BuyerSpec => []BuyerInv
<1>1. BuyerInv /\ [BuyerNext]_buyerVars => BuyerInv'
  BY BuyerStep
<1> QED
  BY <1>1, BuyerStarts, PTL DEF BuyerSpec

(* The buyer and the server it talks to stay within the contract, so that    *)
(* every verdict of the contract holds for them.                             *)
THEOREM BuyerStaysInContract == BuyerSpec => ContractSpec
<1>1. BuyerInit => ContractInit
  BY DEF BuyerInit
<1>2. BuyerInv /\ [BuyerNext]_buyerVars => [ContractNext]_contractVars
  BY BuyerKeepsContract DEF BuyerInv
<1> QED
  BY <1>1, <1>2, BuyerInvariant, PTL DEF BuyerSpec, ContractSpec

(* A checkpoint that names a watch, and every invoice that was paid, names a *)
(* watch of its own key whose service payment is confirmed.                  *)
THEOREM CheckpointAlwaysPaid == BuyerSpec => []CheckpointIsPaid
<1>1. BuyerInv => CheckpointIsPaid
  BY DEF BuyerInv, ContractInv, ActivationsArePaid, DiskInv, BuyerTypeOK, Bought, Activated,
         CheckpointIsPaid, Sold
<1> QED
  BY <1>1, BuyerInvariant, PTL

(* Two payments that both reach the facilitator are never for one key.       *)
LEMMA OncePerKey ==
  ASSUME BuyerInv, NEW q \in Requests, NEW r \in Requests, q # r, Paying(q), Paying(r)
  PROVE  post[q].key # post[r].key
<1>1. PICK v \in Watches : SoldBy(q, v)
  BY DEF BuyerInv, PostInv
<1>2. PICK w \in Watches : SoldBy(r, w)
  BY DEF BuyerInv, PostInv
<1>3. post[q].tx # post[r].tx
  BY DEF BuyerInv, PaymentsAreOwn, Paying
<1>4. v # w
  BY <1>1, <1>2, <1>3 DEF SoldBy
<1> QED
  BY <1>1, <1>2, <1>4 DEF BuyerInv, KeysAreOwn, SoldBy

(* The invariant of the commands, while the operator starts one at a time.   *)
LEMMA OneCheckpointHolds == ~ParallelStarts => (BuyerSpec => [](BuyerInv /\ OneCheckpoint))
<1> SUFFICES ASSUME ~ParallelStarts PROVE BuyerSpec => [](BuyerInv /\ OneCheckpoint)
  OBVIOUS
<1>1. BuyerInv /\ OneCheckpoint /\ [BuyerNext]_buyerVars => (BuyerInv /\ OneCheckpoint)'
  BY BuyerStep, CheckpointStep
<1> QED
  BY <1>1, BuyerStarts, PTL DEF BuyerSpec

(* While the operator starts one purchase at a time, no two payments for one *)
(* key reach the facilitator, and on MainNet no two at all.                  *)
THEOREM BuyerAlwaysPaysOnce == ~ParallelStarts => (BuyerSpec => []BuyerPaysOnce)
<1> SUFFICES ASSUME ~ParallelStarts PROVE BuyerSpec => []BuyerPaysOnce
  OBVIOUS
<1>1. BuyerInv /\ OneCheckpoint => BuyerPaysOnce
  <2> SUFFICES ASSUME BuyerInv, OneCheckpoint PROVE BuyerPaysOnce
    OBVIOUS
  <2>1. ASSUME NEW q \in Requests, NEW r \in Requests, q # r, Paying(q), Paying(r)
        PROVE  style # "mainnet" /\ post[q].key # post[r].key
    BY <2>1, OncePerKey DEF OneCheckpoint, Paying
  <2> QED
    BY <2>1 DEF BuyerPaysOnce
<1>2. BuyerSpec => [](BuyerInv /\ OneCheckpoint)
  BY OneCheckpointHolds
<1> QED
  BY <1>1, <1>2, PTL

(* Then, too, the file names the key of every payment that reached the       *)
(* facilitator.                                                              *)
THEOREM PaymentAlwaysCheckpointed == ~ParallelStarts => (BuyerSpec => []PaymentIsCheckpointed)
<1> SUFFICES ASSUME ~ParallelStarts PROVE BuyerSpec => []PaymentIsCheckpointed
  OBVIOUS
<1>1. BuyerInv /\ OneCheckpoint => PaymentIsCheckpointed
  BY DEF OneCheckpoint, PaymentIsCheckpointed, Paying
<1>2. BuyerSpec => [](BuyerInv /\ OneCheckpoint)
  BY OneCheckpointHolds
<1> QED
  BY <1>1, <1>2, PTL

=============================================================================
