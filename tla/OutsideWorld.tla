---------------------------- MODULE OutsideWorld ----------------------------
(***************************************************************************)
(* The world outside the process, as the code uses it: the Algorand chain, *)
(* the Indexer replicas that answer about it, the facilitator that submits *)
(* signed service payments, and the server's wall clock.  Nothing here is  *)
(* code of the repository.                                                 *)
(*                                                                         *)
(* A block carries a timestamp in seconds and at most one transfer that a  *)
(* watch search can return; the transfer is named by the specification it  *)
(* satisfies exactly.  A replica knows a prefix of the chain and reports   *)
(* the length of that prefix as current-round; two requests may be         *)
(* answered by replicas with different prefixes.                           *)
(***************************************************************************)
EXTENDS WatchStore, Sequences

CONSTANTS
    LastValid,      \* last round in which a signed service payment is valid
    Transfers,      \* transfers a block may carry: a specification it pays, another, or None
    Conforming,     \* payments whose on-chain transfer equals the stored terms
    MaxRound,       \* bound on the length of the chain
    MaxBlockTime,   \* bound on block timestamps, in seconds
    MaxClock,       \* bound on the wall clock, in milliseconds
    MsPerSecond,    \* milliseconds in a second
    TTL             \* eligibility window of a watch, in milliseconds

ASSUME LedgerAssumption ==
    /\ LastValid \in [Txs -> Nat]
    /\ Conforming \subseteq Txs
    /\ None \in Transfers
    /\ MaxRound \in Nat
    /\ MaxBlockTime \in Nat
    /\ MaxClock \in Nat
    /\ MsPerSecond \in Nat \ {0}
    /\ TTL \in Nat
    /\ None \notin Specs

VARIABLES
    blocks,     \* the chain: a sequence of [time, pays]
    landed,     \* round in which a service payment was confirmed, 0 if it was not
    submitted,  \* service payments handed to the facilitator for settlement
    now         \* wall clock of the server, in milliseconds

ledgerVars == <<blocks, landed, submitted, now>>

Tip == Len(blocks)

Block == [time : 0..MaxBlockTime, pays : Transfers]

LedgerTypeOK ==
    /\ blocks \in Seq(Block)
    /\ landed \in [Txs -> Nat]
    /\ submitted \subseteq Txs
    /\ now \in Nat

LedgerInit ==
    /\ blocks = <<>>
    /\ landed = [t \in Txs |-> 0]
    /\ submitted = {}
    /\ now = 0

LastTime == IF blocks = <<>> THEN 0 ELSE blocks[Tip].time

(* One more round: timestamps never decrease; a submitted payment can be *)
(* confirmed once, and only while it is valid.  Blocks are at most one   *)
(* second apart, which bounds the instance and not the code.             *)
NewBlock ==
    /\ Tip < MaxRound
    /\ \E time \in LastTime..MaxBlockTime, pays \in Transfers,
          confirmed \in SUBSET {t \in submitted : landed[t] = 0 /\ Tip + 1 <= LastValid[t]} :
            /\ time <= LastTime + 1
            /\ blocks' = Append(blocks, [time |-> time, pays |-> pays])
            /\ landed' = [t \in Txs |-> IF t \in confirmed THEN Tip + 1 ELSE landed[t]]
    /\ UNCHANGED <<submitted, now>>

ClockTick ==
    /\ now < MaxClock
    /\ now' = now + 1
    /\ UNCHANGED <<blocks, landed, submitted>>

(* Prefixes a replica may answer from. *)
Views == 0..Tip

Confirmed(t, view) == landed[t] \in 1..view

(* A confirmed service payment with the terms the watch was sold under. *)
Paid(t) == t \in Conforming /\ landed[t] > 0 /\ landed[t] <= LastValid[t]

(* matchesWatch over the transfers of the chain: exact terms, strictly after *)
(* activation, and before the deadline by the block's own timestamp.         *)
Eligible(row, r) ==
    /\ r \in DOMAIN blocks
    /\ r > row.activationRound
    /\ blocks[r].pays = row.spec
    /\ blocks[r].time * MsPerSecond < row.expiresAt

=============================================================================
