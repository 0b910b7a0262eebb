--------------------------- MODULE WatchContract ---------------------------
(***************************************************************************)
(* What RoundWatch promises the buyer of a watch, with no table, process,  *)
(* Indexer or crash: each watch moves through its life in single steps,    *)
(* and every step that the buyer can hold against the service is justified *)
(* by the chain as it is when the step is taken.                           *)
(***************************************************************************)
EXTENDS OutsideWorld

VARIABLE watch   \* the life of each watch

contractVars == <<watch, ledgerVars>>

Phase == {"none", "reserved", "active", "matched", "expired", "indeterminate", "rejected"}

Life == [phase : Phase, spec : Opt(Specs), tx : Opt(Txs), proof : BOOLEAN,
         expiresAt : Nat, activationRound : Opt(Nat), matchedRound : Opt(Nat)]

NoLife == [phase |-> "none", spec |-> None, tx |-> None, proof |-> FALSE,
           expiresAt |-> 0, activationRound |-> None, matchedRound |-> None]

SatisfiedBy(life, r) == Eligible(life, r)

PastDeadline(life) == blocks # <<>> /\ LastTime * MsPerSecond >= life.expiresAt

(* The payment is not, and can no longer be, confirmed under its terms. *)
NeverPaid(t) == ~Paid(t) /\ (landed[t] = 0 => Tip > LastValid[t])

Obligations == {w \in Watches : watch[w].phase \in {"reserved", "active"}}

(* No other watch was sold for payment t. *)
Unspent(w, t) == \A v \in Watches \ {w} : watch[v].tx # t

Reserve(w) ==
    /\ watch[w].phase = "none"
    /\ Cardinality(Obligations) < MaxOpenWatches
    /\ \E s \in Specs, t \in Opt(Txs) :
        /\ t # None => Unspent(w, t)
        /\ watch' = [watch EXCEPT ![w] =
               [phase |-> "reserved", spec |-> s, tx |-> t, proof |-> (t # None),
                expiresAt |-> now + TTL, activationRound |-> None, matchedRound |-> None]]

(* A watch sold without an extracted intent learns its payment at settlement. *)
Bind(w) ==
    /\ watch[w].phase = "reserved"
    /\ watch[w].tx = None
    /\ \E t \in Txs :
        /\ Unspent(w, t)
        /\ watch' = [watch EXCEPT ![w].tx = t]

Activate(w) ==
    /\ watch[w].phase = "reserved"
    /\ watch[w].proof
    /\ Paid(watch[w].tx)
    /\ watch' = [watch EXCEPT ![w].phase = "active",
                              ![w].activationRound = landed[watch[w].tx]]

Reject(w) ==
    /\ watch[w].phase = "reserved"
    /\ watch[w].proof => NeverPaid(watch[w].tx)
    /\ watch' = [watch EXCEPT ![w].phase = "rejected"]

Match(w) ==
    /\ watch[w].phase = "active"
    /\ \E r \in DOMAIN blocks :
        /\ SatisfiedBy(watch[w], r)
        /\ watch' = [watch EXCEPT ![w].phase = "matched", ![w].matchedRound = r]

Expire(w) ==
    /\ watch[w].phase = "active"
    /\ PastDeadline(watch[w])
    /\ \A r \in DOMAIN blocks : ~SatisfiedBy(watch[w], r)
    /\ watch' = [watch EXCEPT ![w].phase = "expired"]

GiveUp(w) ==
    /\ watch[w].phase \in {"reserved", "active"}
    /\ watch' = [watch EXCEPT ![w].phase = "indeterminate"]

WatchStep(w) ==
    \/ Reserve(w)
    \/ Bind(w)
    \/ Activate(w)
    \/ Reject(w)
    \/ Match(w)
    \/ Expire(w)
    \/ GiveUp(w)

(* The facilitator receives a signed payment. *)
Submit ==
    /\ \E t \in Txs : submitted' = submitted \cup {t}
    /\ UNCHANGED <<watch, blocks, landed, now>>

ContractInit == watch = [w \in Watches |-> NoLife] /\ LedgerInit

ContractNext ==
    \/ (\E w \in Watches : WatchStep(w)) /\ UNCHANGED ledgerVars
    \/ (NewBlock \/ ClockTick) /\ UNCHANGED watch
    \/ Submit

ContractSpec == ContractInit /\ [][ContractNext]_contractVars

-----------------------------------------------------------------------------
(* Type invariant of the contract. *)
ContractTypeOK ==
    /\ watch \in [Watches -> Life]
    /\ LedgerTypeOK

(* The verdicts stay true while the chain grows: what expired can no longer *)
(* be satisfied, what was rejected can no longer be paid, what was matched  *)
(* is satisfied by the transfer it names.                                   *)
VerdictsStand ==
    \A w \in Watches :
        /\ watch[w].phase = "expired" => \A r \in DOMAIN blocks : ~SatisfiedBy(watch[w], r)
        /\ watch[w].phase = "rejected" /\ watch[w].proof => NeverPaid(watch[w].tx)
        /\ watch[w].phase = "matched" => SatisfiedBy(watch[w], watch[w].matchedRound)

(* Every watch that is being worked for was paid for by a transfer of its   *)
(* own, and nobody is promised more work than the service admits.           *)
PaidOnceEach ==
    /\ Cardinality(Obligations) <= MaxOpenWatches
    /\ \A w \in Watches :
        watch[w].activationRound # None =>
            /\ Paid(watch[w].tx)
            /\ watch[w].activationRound = landed[watch[w].tx]
            /\ Unspent(w, watch[w].tx)

=============================================================================
