------------------------------- MODULE Buyer -------------------------------
(***************************************************************************)
(* The buyer's command line (mainnet-e2e.ts, mainnet-safety.ts, and the    *)
(* TestNet roundwatch-spike.ts) against a server that keeps WatchContract: *)
(* what RoundWatch implements is all the buyer relies on.  To the contract *)
(* this module adds the paid request, its replay under an idempotency key  *)
(* and the recovery and status endpoints (app.ts).                         *)
(*                                                                         *)
(* A command is a process of its own.  It may die or fail at every await,  *)
(* commands may overlap, and a purchase that was posted reaches the server *)
(* whether or not its command still lives.  What outlasts a command is the *)
(* checkpoint file.                                                        *)
(*                                                                         *)
(* A start:   "ready" -> "challenge" -> "answer" -> "confirm"              *)
(* A recover: "reread", "lookup" or, on TestNet, "challenge" -> "answer"   *)
(* A pay:     "inspect" -> "params"                                        *)
(***************************************************************************)
EXTENDS WatchContract

CONSTANTS
    Requests,        \* paid requests, each posted once
    Commands,        \* places for commands that run at the same time
    ParallelStarts   \* whether two starts may overlap

ASSUME BuyerAssumption ==
    /\ ParallelStarts \in BOOLEAN
    /\ None # "start"
    /\ None \notin [key : Keys, id : Opt(Watches)]

VARIABLES
    style,      \* "mainnet" or "spike": which of the two programs is used
    disk,       \* the checkpoint file
    cmd,        \* running commands
    post,       \* paid requests, from the moment they are posted
    keyOf,      \* idempotency key of each watch
    nonces,     \* nonces (idempotency keys) drawn so far
    invoiced    \* watches whose invoice was paid

clientVars == <<style, disk, cmd, post, keyOf, nonces, invoiced>>
buyerVars  == <<clientVars, contractVars>>

NoCommand == [mode |-> None, pc |-> "idle", key |-> None, id |-> None, req |-> None]

NotPosted == [pc |-> "unsent", key |-> None, tx |-> None, watch |-> None]

Checkpoint(key, id) == [key |-> key, id |-> id]

BuyerInit ==
    /\ ContractInit
    /\ style \in {"mainnet", "spike"}
    /\ disk = None
    /\ cmd = [c \in Commands |-> NoCommand]
    /\ post = [q \in Requests |-> NotPosted]
    /\ keyOf = [w \in Watches |-> None]
    /\ nonces = {}
    /\ invoiced = {}

Ended(c) == [cmd EXCEPT ![c] = NoCommand]

-----------------------------------------------------------------------------
(***************************************************************************)
(* The server.                                                             *)
(***************************************************************************)

Held(w) == watch[w].phase # "none"

(* Mutant: a watch is only known by its key once it is active. *)
KnownOnceActive(k) == {w \in Watches : watch[w].phase = "active" /\ keyOf[w] = k}

(* getByPayerAndIdempotencyKey: the tools sign for one payer. *)
Known(k) == {w \in Watches : Held(w) /\ keyOf[w] = k}

(* Mutant: a reserved watch passes for a purchased one. *)
LiveOnceReserved(life) == life.phase \in {"reserved", "active", "matched"}

Live(life) == life.phase \in {"active", "matched"}

(* The settlement of the watch is confirmed and its state can be shown. *)
Recoverable(life) ==
    /\ life.activationRound # None
    /\ life.phase \in {"active", "matched", "expired", "indeterminate"}

(* The handler: a known key is answered with the watch it has, a new one is *)
(* reserved if there is a place.  The tools sign a plain transfer, so that  *)
(* the settlement intent is always extracted.                               *)
PostArrives(q) ==
    /\ post[q].pc = "sent"
    /\ \/ \E w \in Known(post[q].key) :
            /\ post' = [post EXCEPT ![q].pc = "replayed",
                                    ![q].watch = IF Live(watch[w]) THEN w ELSE None]
            /\ UNCHANGED <<watch, keyOf>>
       \/ \E w \in Watches :
            /\ Known(post[q].key) = {}
            /\ Reserve(w)
            /\ watch'[w].tx = post[q].tx
            /\ keyOf' = [keyOf EXCEPT ![w] = post[q].key]
            /\ post' = [post EXCEPT ![q].pc = "settle", ![q].watch = w]
    /\ UNCHANGED <<style, disk, cmd, nonces, invoiced, ledgerVars>>

(* After the handler x402 hands the payment to the facilitator. *)
SettleCall(q) ==
    /\ post[q].pc = "settle"
    /\ submitted' = submitted \cup {post[q].tx}
    /\ post' = [post EXCEPT ![q].pc = "settling"]
    /\ UNCHANGED <<watch, blocks, landed, now, style, disk, cmd, keyOf, nonces, invoiced>>

(* The response guard lets success pass only for a live watch. *)
Answer(q) ==
    /\ post[q].pc = "settling"
    /\ Live(watch[post[q].watch])
    /\ post' = [post EXCEPT ![q].pc = "purchased"]
    /\ UNCHANGED <<contractVars, style, disk, cmd, keyOf, nonces, invoiced>>

(* A refusal, an error, a crash of the server or a broken connection. *)
PostFails(q) ==
    /\ post[q].pc \in {"sent", "settle", "settling"}
    /\ post' = [post EXCEPT ![q].pc = "failed"]
    /\ UNCHANGED <<contractVars, style, disk, cmd, keyOf, nonces, invoiced>>

-----------------------------------------------------------------------------
(***************************************************************************)
(* start.                                                                  *)
(***************************************************************************)

(* The existing checkpoint is looked for first, then /ready is awaited. *)
Start(c) ==
    /\ cmd[c].pc = "idle"
    /\ style = "mainnet"
    /\ \A d \in Commands : cmd[d].mode # "start" \/ ParallelStarts
    /\ disk = None
    /\ cmd' = [cmd EXCEPT ![c] = [NoCommand EXCEPT !.mode = "start", !.pc = "ready"]]
    /\ UNCHANGED <<style, disk, post, keyOf, nonces, invoiced, contractVars>>

(* Mutant: the checkpoint is only written when the watch is active. *)
DrawNonceUnsaved(c) ==
    /\ cmd[c].pc = "ready"
    /\ \E k \in Keys \ nonces :
        /\ nonces' = nonces \cup {k}
        /\ cmd' = [cmd EXCEPT ![c].pc = "challenge", ![c].key = k]
    /\ UNCHANGED <<style, disk, post, keyOf, invoiced, contractVars>>

(* The server is ready: a fresh nonce, saved before anything can be paid. *)
DrawNonce(c) ==
    /\ cmd[c].pc = "ready"
    /\ \E k \in Keys \ nonces :
        /\ nonces' = nonces \cup {k}
        /\ disk' = Checkpoint(k, None)
        /\ cmd' = [cmd EXCEPT ![c].pc = "challenge", ![c].key = k]
    /\ UNCHANGED <<style, post, keyOf, invoiced, contractVars>>

(* The TestNet client neither asks for readiness nor looks for a checkpoint. *)
SpikePrepare(c) ==
    /\ cmd[c].pc = "idle"
    /\ style = "spike"
    /\ \E k \in Keys \ nonces :
        /\ nonces' = nonces \cup {k}
        /\ disk' = Checkpoint(k, None)
        /\ cmd' = [cmd EXCEPT ![c] = [NoCommand EXCEPT
                        !.mode = "start", !.pc = "challenge", !.key = k]]
    /\ UNCHANGED <<style, post, keyOf, invoiced, contractVars>>

Offers == {"approved", "other"}

(* The policy keeps the approved requirements of a 402, and payment         *)
(* creation is aborted unless one is left; TestNet takes what is offered.   *)
MayPay(offered) ==
    IF style = "mainnet" THEN "approved" \in offered ELSE offered # {}

(* A 402 was answered: sign a fresh payment and post the paid request. *)
PostPaid(c) ==
    /\ cmd[c].pc = "challenge"
    /\ \E offered \in SUBSET Offers : MayPay(offered)
    /\ \E q \in Requests, t \in Txs :
        /\ post[q].pc = "unsent"
        /\ \A r \in Requests : post[r].tx # t
        /\ post' = [post EXCEPT ![q] = [pc |-> "sent", key |-> cmd[c].key,
                                       tx |-> t, watch |-> None]]
        /\ cmd' = [cmd EXCEPT ![c].pc = "answer", ![c].req = q]
    /\ UNCHANGED <<style, disk, keyOf, nonces, invoiced, contractVars>>

(* validateMainnetCheckpoint: file, payer and watch agree on every term and *)
(* the watch is payable; the TestNet client compares nothing.               *)
Validated(key, w) == style = "mainnet" => Live(watch[w]) /\ keyOf[w] = key

(* A successful purchase leads to a read of the new watch. *)
PurchaseAnswered(c) ==
    /\ cmd[c].pc = "answer"
    /\ cmd[c].mode = "start"
    /\ post[cmd[c].req].pc = "purchased"
    /\ cmd' = [cmd EXCEPT ![c].pc = "confirm", ![c].id = post[cmd[c].req].watch]
    /\ UNCHANGED <<style, disk, post, keyOf, nonces, invoiced, contractVars>>

(* The watch must be active under the checkpoint's terms to be saved. *)
Confirm(c) ==
    /\ cmd[c].pc = "confirm"
    /\ watch[cmd[c].id].phase = "active"
    /\ Validated(cmd[c].key, cmd[c].id)
    /\ disk' = Checkpoint(cmd[c].key, cmd[c].id)
    /\ cmd' = Ended(c)
    /\ UNCHANGED <<style, post, keyOf, nonces, invoiced, contractVars>>

-----------------------------------------------------------------------------
(***************************************************************************)
(* recover.                                                                *)
(***************************************************************************)

(* The file is read; a checkpoint without an id asks the free lookup on    *)
(* MainNet, and repeats the purchase on TestNet.                           *)
Recover(c) ==
    /\ cmd[c].pc = "idle"
    /\ disk # None
    /\ cmd' = [cmd EXCEPT ![c] =
         [mode |-> "recover", key |-> disk.key, id |-> disk.id, req |-> None,
          pc |-> IF disk.id # None THEN "reread"
                 ELSE IF style = "mainnet" THEN "lookup" ELSE "challenge"]]
    /\ UNCHANGED <<style, disk, post, keyOf, nonces, invoiced, contractVars>>

(* validateRecoveredMainnetCheckpoint; TestNet wants active or matched. *)
Accepts(w, key) ==
    /\ keyOf[w] = key
    /\ IF style = "mainnet" THEN Recoverable(watch[w]) ELSE Live(watch[w])

(* A checkpoint that names its watch is confirmed against the watch's status. *)
Reread(c) ==
    /\ cmd[c].pc = "reread"
    /\ Accepts(cmd[c].id, cmd[c].key)
    /\ disk' = Checkpoint(cmd[c].key, cmd[c].id)
    /\ cmd' = Ended(c)
    /\ UNCHANGED <<style, post, keyOf, nonces, invoiced, contractVars>>

(* The free lookup of an exact watch by payer, key and specification. *)
Lookup(c) ==
    /\ cmd[c].pc = "lookup"
    /\ \E w \in Known(cmd[c].key) :
        /\ Recoverable(watch[w])
        /\ Accepts(w, cmd[c].key)
        /\ disk' = Checkpoint(cmd[c].key, w)
    /\ cmd' = Ended(c)
    /\ UNCHANGED <<style, post, keyOf, nonces, invoiced, contractVars>>

(* TestNet: only the replay of an existing live watch is taken. *)
ReplayAnswered(c) ==
    /\ cmd[c].pc = "answer"
    /\ cmd[c].mode = "recover"
    /\ post[cmd[c].req].pc = "replayed"
    /\ post[cmd[c].req].watch # None
    /\ disk' = Checkpoint(cmd[c].key, post[cmd[c].req].watch)
    /\ cmd' = Ended(c)
    /\ UNCHANGED <<style, post, keyOf, nonces, invoiced, contractVars>>

-----------------------------------------------------------------------------
(***************************************************************************)
(* pay, and what ends a command or a watch.                                *)
(***************************************************************************)

Pay(c) ==
    /\ cmd[c].pc = "idle"
    /\ disk # None /\ disk.id # None
    /\ cmd' = [cmd EXCEPT ![c] = [mode |-> "pay", pc |-> "inspect", req |-> None,
                                  key |-> disk.key, id |-> disk.id]]
    /\ UNCHANGED <<style, disk, post, keyOf, nonces, invoiced, contractVars>>

(* Only an active watch of the checkpoint's terms is paid for. *)
Inspect(c) ==
    /\ cmd[c].pc = "inspect"
    /\ watch[cmd[c].id].phase = "active"
    /\ Validated(cmd[c].key, cmd[c].id)
    /\ cmd' = [cmd EXCEPT ![c].pc = "params"]
    /\ UNCHANGED <<style, disk, post, keyOf, nonces, invoiced, contractVars>>

(* sendRawTransaction; waiting for the match changes nothing. *)
SendInvoice(c) ==
    /\ cmd[c].pc = "params"
    /\ invoiced' = invoiced \cup {cmd[c].id}
    /\ cmd' = Ended(c)
    /\ UNCHANGED <<style, disk, post, keyOf, nonces, contractVars>>

(* A refusal, an error or the death of the process, at any await. *)
CommandFails(c) ==
    /\ cmd[c].pc # "idle"
    /\ cmd' = Ended(c)
    /\ UNCHANGED <<style, disk, post, keyOf, nonces, invoiced, contractVars>>

CommandStep(c) ==
    \/ Start(c)
    \/ DrawNonce(c)
    \/ SpikePrepare(c)
    \/ PostPaid(c)
    \/ PurchaseAnswered(c)
    \/ Confirm(c)
    \/ Recover(c)
    \/ Reread(c)
    \/ Lookup(c)
    \/ ReplayAnswered(c)
    \/ Pay(c)
    \/ Inspect(c)
    \/ SendInvoice(c)
    \/ CommandFails(c)

(* What the server does to a reserved watch on its own. *)
Serve(w) == Activate(w) \/ Reject(w) \/ Match(w) \/ Expire(w) \/ GiveUp(w)

ServerStep(q) ==
    \/ PostArrives(q)
    \/ SettleCall(q)
    \/ Answer(q)
    \/ PostFails(q)

BuyerNext ==
    \/ \E c \in Commands : CommandStep(c)
    \/ \E q \in Requests : ServerStep(q)
    \/ (\E w \in Watches : Serve(w)) /\ UNCHANGED <<clientVars, ledgerVars>>
    \/ (NewBlock \/ ClockTick) /\ UNCHANGED <<clientVars, watch>>

BuyerSpec == BuyerInit /\ [][BuyerNext]_buyerVars

-----------------------------------------------------------------------------
Paying(q) == post[q].tx # None /\ post[q].tx \in submitted

(* The buyer never pays the service twice for one checkpoint: not when a   *)
(* command dies, not when it is repeated, not when a late purchase arrives *)
(* after its recovery; and on MainNet not for a second checkpoint either.  *)
BuyerPaysOnce ==
    \A q, r \in Requests :
        q # r /\ Paying(q) /\ Paying(r) =>
            style # "mainnet" /\ post[q].key # post[r].key

(* A service payment that is handed to the facilitator can be traced from  *)
(* the checkpoint file, whatever died: the file names its idempotency key. *)
PaymentIsCheckpointed ==
    style = "mainnet" =>
        \A q \in Requests : Paying(q) => disk # None /\ disk.key = post[q].key

Sold(w) == watch[w].activationRound # None /\ Paid(watch[w].tx)

(* A checkpoint that names a watch names one of its own key whose service  *)
(* payment is confirmed under its terms, also after a recovery that raced  *)
(* with the purchase; no invoice is ever paid for any other.               *)
CheckpointIsPaid ==
    /\ disk # None /\ disk.id # None => Sold(disk.id) /\ keyOf[disk.id] = disk.key
    /\ \A w \in invoiced : Sold(w)

(* docs/SECURITY.md: the runner refuses to start a second paid watch while *)
(* its checkpoint exists.                                                  *)
SecondWatchRefused ==
    style = "mainnet" => Cardinality({w \in Watches : Held(w)}) <= 1

=============================================================================
