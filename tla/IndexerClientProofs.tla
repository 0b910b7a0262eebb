------------------------- MODULE IndexerClientProofs -------------------------
(***************************************************************************)
(* For any chain, provider, query variant, page limit and depth of inner   *)
(* transactions: what the client accepts is evidence, honest pages are     *)
(* never refused, and a scan answered honestly loses nothing that is due.  *)
(***************************************************************************)
EXTENDS IndexerClient, FiniteSetTheorems, WellFoundedInduction, TLAPS

(***************************************************************************)
(* The query and what satisfies it.                                        *)
(***************************************************************************)

(* The filters the client checks are those it sends: a transfer satisfying *)
(* the plan is one the query selects, and on chain the converse holds too. *)
LEMMA QueryMeansPlan ==
  ASSUME NEW w \in Watches \cup {ProbeWatch}, NEW t, NEW min, NEW max,
         t.type = "axfer"
  PROVE  /\ Satisfies(t, w) => Meets(t, SearchUrl(w, min, max))
         /\ t.amount \in Nat /\ Meets(t, SearchUrl(w, min, max)) => Satisfies(t, w)
<1> DEFINE u == SearchUrl(w, min, max)
<1>1. /\ u.address = Plan(w).address /\ u.role = Plan(w).role /\ u.asset = w.asset
      /\ u.greater = IF Plan(w).exact THEN w.amount - 1 ELSE None
      /\ u.less = IF Plan(w).exact THEN w.amount + 1 ELSE None
      /\ u.prefix = IF Plan(w).notePrefix THEN w.note ELSE None
  BY DEF SearchUrl
<1>2. w.amount \in Nat \ {0} /\ None \notin Nat
  BY ClientAssumption
<1>3. Plan(w).notePrefix => w.note # None
  BY DEF Plan
<1>4. /\ u.greater # None <=> Plan(w).exact
      /\ u.less # None <=> Plan(w).exact
      /\ u.prefix # None <=> Plan(w).notePrefix
  <2>1. w.amount - 1 \in Nat /\ w.amount + 1 \in Nat
    BY <1>2
  <2> QED
    BY <1>1, <1>2, <1>3, <2>1
<1>5. ASSUME Satisfies(t, w) PROVE Meets(t, u)
  <2>1. Plan(w).exact => t.amount > u.greater /\ t.amount < u.less
    BY <1>5, <1>1, <1>2 DEF Satisfies
  <2>2. Plan(w).notePrefix => t.note # None /\ IsPrefix(u.prefix, t.note)
    BY <1>5, <1>1 DEF Satisfies
  <2>3. /\ t.asset = u.asset
        /\ IF u.role = "sender" THEN u.address \in {t.sender, t.assetSender}
                                ELSE t.receiver = u.address
    BY <1>5, <1>1 DEF Satisfies
  <2> HIDE DEF u
  <2> QED
    BY <1>4, <2>1, <2>2, <2>3 DEF Meets
<1>6. ASSUME t.amount \in Nat, Meets(t, u) PROVE Satisfies(t, w)
  <2> HIDE DEF u
  <2>1. Plan(w).exact => t.amount = w.amount
    BY <1>6, <1>1, <1>2, <1>4 DEF Meets
  <2>2. Plan(w).notePrefix => t.note # None /\ IsPrefix(w.note, t.note)
    BY <1>6, <1>1, <1>4 DEF Meets
  <2>3. /\ t.asset = w.asset
        /\ IF Plan(w).role = "sender" THEN Plan(w).address \in {t.sender, t.assetSender}
                                      ELSE t.receiver = Plan(w).address
    BY <1>6, <1>1 DEF Meets
  <2> QED
    BY <2>1, <2>2, <2>3 DEF Satisfies
<1> QED
  BY <1>5, <1>6

(* What the parser believes the query selects. *)
LEMMA BelievedIsSelected ==
  ASSUME NEW w \in Watches \cup {ProbeWatch}, NEW t, NEW min, NEW max,
         Believed(t, w, min, max)
  PROVE  Selected(t, SearchUrl(w, min, max))
<1>1. SearchUrl(w, min, max).min = min /\ SearchUrl(w, min, max).max = max
  BY DEF SearchUrl
<1>2. t.round \in min..max
  BY DEF Believed
<1>3. CASE t.type = "axfer"
  BY <1>1, <1>2, <1>3, QueryMeansPlan DEF Believed, Selected
<1>4. CASE t.type # "axfer"
  <2>1. PICK i \in DOMAIN t.tree : t.tree[i].type = "axfer" /\ Satisfies(t.tree[i], w)
    BY <1>4 DEF Believed, InnerEvidence
  <2>2. Meets(t.tree[i], SearchUrl(w, min, max))
    BY <2>1, QueryMeansPlan
  <2> QED
    BY <1>1, <1>2, <2>2 DEF Selected
<1> QED
  BY <1>3, <1>4

(* What is on chain and selected the parser believes: clawbacks, close-outs *)
(* and application calls around a transfer included.                        *)
LEMMA SelectedIsBelieved ==
  ASSUME NEW w \in Watches \cup {ProbeWatch}, NEW t, NEW min, NEW max,
         OnChain(t), Selected(t, SearchUrl(w, min, max))
  PROVE  Believed(t, w, min, max)
<1> DEFINE u == SearchUrl(w, min, max)
<1>1. t.round \in min..max
  BY DEF SearchUrl, Selected
<1>2. WellFormed(t)
  BY DEF OnChain, WellFormed
<1>3. ASSUME t.type = "axfer" PROVE Transfer(t) /\ Satisfies(t, w)
  <2>1. Transfer(t)
    BY <1>3 DEF OnChain, Transfer
  <2>2. t.tree = <<>>
    BY <1>3 DEF OnChain
  <2>3. DOMAIN t.tree = {}
    BY <2>2
  <2>4. Meets(t, u)
    BY <2>3 DEF Selected
  <2>5. t.amount \in Nat
    BY DEF OnChain
  <2> QED
    BY <1>3, <2>1, <2>4, <2>5, QueryMeansPlan
<1>4. ASSUME t.type # "axfer" PROVE InnerEvidence(t, w, min, max)
  <2>1. PICK i \in DOMAIN t.tree : Meets(t.tree[i], u)
    BY <1>4 DEF Selected, Meets
  <2>2. Len(t.tree) \in 0..MaxInner /\ DOMAIN t.tree = 1..Len(t.tree) /\ MaxInner \in Nat
    BY ClientAssumption DEF OnChain
  <2>3. Len(t.tree) \in 1..MaxInner /\ t.tree # <<>>
    BY <2>1, <2>2
  <2>4. t.nested
    BY <2>3 DEF OnChain
  <2>5. t.tree[i].type = "axfer" /\ t.tree[i].amount \in Nat
    BY <2>1 DEF Meets, OnChain
  <2>6. Satisfies(t.tree[i], w)
    BY <2>1, <2>5, QueryMeansPlan
  <2>7. ASSUME NEW j \in DOMAIN t.tree
        PROVE  /\ t.tree[j].depth <= MaxDepth
               /\ WellFormed(t.tree[j])
               /\ t.tree[j].round \in min..max
               /\ t.tree[j].type = "axfer" => Transfer(t.tree[j])
    BY <1>1 DEF OnChain, WellFormed, Transfer
  <2> QED
    BY <2>3, <2>4, <2>5, <2>6, <2>7 DEF InnerEvidence
<1> QED
  BY <1>1, <1>2, <1>3, <1>4 DEF Believed

(* A transfer that is due in the window is one the query selects, in every  *)
(* variant, and matchesWatch accepts it.                                    *)
LEMMA DueIsSelected ==
  ASSUME NEW w \in Watches \cup {ProbeWatch}, NEW t, NEW min, NEW max,
         t.round \in min..max, Due(t, w)
  PROVE  Selected(t, SearchUrl(w, min, max)) /\ Kept(t) /\ MatchesWatch(t, w)
<1>1. Kept(t) /\ MatchesWatch(t, w)
  BY DEF Due, Kept, Direct, MatchesWatch
<1>2. Satisfies(t, w)
  <2>1. w.note # None => t.note = w.note /\ t.note # None /\ IsPrefix(w.note, t.note)
    BY ClientAssumption DEF Due, IsPrefix
  <2>2. Plan(w).notePrefix => w.note # None
    BY DEF Plan
  <2>3. IF Plan(w).role = "sender" THEN Plan(w).address \in {t.sender, t.assetSender}
                                   ELSE t.receiver = Plan(w).address
    BY DEF Plan, Due
  <2> QED
    BY <2>1, <2>2, <2>3 DEF Satisfies, Due
<1>3. Meets(t, SearchUrl(w, min, max))
  BY <1>2, QueryMeansPlan DEF Due
<1>4. SearchUrl(w, min, max).min = min /\ SearchUrl(w, min, max).max = max
  BY DEF SearchUrl
<1> QED
  BY <1>1, <1>3, <1>4 DEF Selected

(***************************************************************************)
(* The honest provider's pages.                                            *)
(***************************************************************************)

(* A set of positions that is not empty has a first and a last one.         *)
LEMMA FirstAndLast ==
  ASSUME NEW n \in Nat, NEW S \in SUBSET (1..n), S # {}
  PROVE  /\ \E i \in S : \A j \in S : i <= j
         /\ \E i \in S : \A j \in S : j <= i
<1>1. ASSUME NEW T \in SUBSET Nat, T # {}
      PROVE  \E i \in T : \A j \in T : i <= j
  <2>1. PICK i \in T : \A j \in T : <<j, i>> \notin OpToRel(<, Nat)
    BY <1>1, WFMin, NatLessThanWellFounded
  <2>2. ASSUME NEW j \in T, j < i PROVE FALSE
    <3>1. <<j, i>>[1] = j /\ <<j, i>>[2] = i /\ <<j, i>> \in Nat \X Nat
      BY <1>1
    <3>2. <<j, i>> \in OpToRel(<, Nat)
      BY <2>2, <3>1 DEF OpToRel
    <3> QED
      BY <2>1, <3>2
  <2>3. \A j \in T : i <= j
    BY <2>2, <1>1
  <2> QED
    BY <2>3
<1>2. \E i \in S : \A j \in S : i <= j
  BY <1>1
<1> DEFINE T == {n - i : i \in S}
<1>3. T \in SUBSET Nat /\ T # {}
  <2>1. \A i \in S : i \in 1..n
    OBVIOUS
  <2>2. \A i \in S : n - i \in Nat
    BY <2>1
  <2> QED
    BY <2>2
<1>4. PICK k \in T : \A j \in T : k <= j
  BY <1>3, <1>1
<1>5. PICK i \in S : k = n - i
  BY <1>4
<1>6. \A j \in S : n - j \in T
  OBVIOUS
<1>7. \A j \in S : j <= i
  BY <1>4, <1>5, <1>6
<1> QED
  BY <1>2, <1>7

(* The chain, as its assumption describes it. *)
LEMMA ChainKnown ==
  ASSUME chain \in Chains
  PROVE  /\ Len(chain) \in Nat /\ DOMAIN chain = 1..Len(chain)
         /\ \A i \in DOMAIN chain : OnChain(chain[i]) /\ chain[i].round \in Nat
  BY ChainAssumption, ClientAssumption

(* What remains is a set of positions, finite, and a page is part of it. *)
LEMMA PageOfPositions ==
  ASSUME chain \in Chains, NEW q, NEW view
  PROVE  /\ Rest(q, view) \subseteq 1..Len(chain)
         /\ OnPage(q, view) \subseteq Rest(q, view)
         /\ IsFiniteSet(Rest(q, view)) /\ IsFiniteSet(OnPage(q, view))
<1>1. Rest(q, view) \subseteq 1..Len(chain) /\ OnPage(q, view) \subseteq Rest(q, view)
  BY ChainKnown DEF Rest, OnPage
<1>2. IsFiniteSet(1..Len(chain))
  BY ChainKnown, FS_Interval
<1> QED
  BY <1>1, <1>2, FS_Subset

(* A page that is not the last one ends at a position up to which all that  *)
(* remained is on it.                                                       *)
LEMMA PageIsInitial ==
  ASSUME chain \in Chains, NEW q, NEW view, OnPage(q, view) # Rest(q, view)
  PROVE  /\ LastOf(OnPage(q, view)) \in OnPage(q, view)
         /\ \A i \in Rest(q, view) : i <= LastOf(OnPage(q, view)) => i \in OnPage(q, view)
<1> DEFINE R == Rest(q, view)
           P == OnPage(q, view)
<1>0. R \subseteq 1..Len(chain) /\ P \subseteq R /\ IsFiniteSet(R) /\ Len(chain) \in Nat
      /\ PageLimit \in Nat \ {0}
  BY PageOfPositions, ChainKnown, ClientAssumption
<1>1. \A i \in R : i \in P <=> Cardinality({j \in R : j < i}) < PageLimit
  BY DEF OnPage
<1> HIDE DEF R, P
<1>2. P # {}
  <2>1. R # {}
    BY <1>0 DEF R, P
  <2>2. PICK i \in R : \A j \in R : i <= j
    BY <1>0, <2>1, FirstAndLast
  <2>3. {j \in R : j < i} = {}
    <3>1. \A j \in R : j \in Int
      BY <1>0
    <3>2. \A j \in R : ~(j < i)
      BY <2>2, <3>1
    <3> QED
      BY <3>2
  <2>4. Cardinality({j \in R : j < i}) = 0
    BY <2>3, FS_EmptySet
  <2> QED
    BY <1>0, <1>1, <2>2, <2>4
<1>3. LastOf(P) \in P /\ \A j \in P : j <= LastOf(P)
  <2>1. \E i \in P : \A j \in P : j <= i
    BY <1>0, <1>2, FirstAndLast
  <2> QED
    BY <2>1 DEF LastOf
<1>4. ASSUME NEW i \in R, i <= LastOf(P) PROVE i \in P
  <2> DEFINE B == {j \in R : j < i}
             C == {j \in R : j < LastOf(P)}
  <2>1. B \subseteq C
    <3>0. LastOf(P) \in R /\ \A j \in R : j \in Int
      <4>1. LastOf(P) \in R
        BY <1>0, <1>3
      <4>2. \A j \in R : j \in 1..Len(chain)
        BY <1>0
      <4> QED
        BY <1>0, <4>1, <4>2
    <3>1. LastOf(P) \in Int /\ i \in Int /\ \A j \in R : j \in Int
      BY <3>0
    <3>2. \A j \in R : j < i => j < LastOf(P)
      BY <1>4, <3>1
    <3> QED
      BY <3>2
  <2>2. IsFiniteSet(C) /\ C \subseteq R
    BY <1>0, FS_Subset
  <2>3. Cardinality(B) <= Cardinality(C) /\ IsFiniteSet(B)
    BY <2>1, <2>2, FS_Subset
  <2>4. Cardinality(C) < PageLimit
    BY <1>0, <1>1, <1>3
  <2>5. Cardinality(B) \in Nat /\ Cardinality(C) \in Nat
    BY <2>2, <2>3, FS_CardinalityType
  <2>6. Cardinality(B) < PageLimit
    BY <1>0, <2>3, <2>4, <2>5
  <2> QED
    BY <1>1, <2>6
<1> QED
  BY <1>3, <1>4 DEF R, P

(* A page holds at most the limit. *)
LEMMA PageIsBounded ==
  ASSUME chain \in Chains, NEW q, NEW view
  PROVE  Cardinality(HonestItems(q, view)) <= PageLimit
<1> DEFINE R == Rest(q, view)
           P == OnPage(q, view)
<1>0. R \subseteq 1..Len(chain) /\ P \subseteq R /\ IsFiniteSet(R) /\ IsFiniteSet(P)
      /\ Len(chain) \in Nat /\ PageLimit \in Nat \ {0}
  BY PageOfPositions, ChainKnown, ClientAssumption
<1>1. \A i \in P : Cardinality({j \in R : j < i}) < PageLimit
  BY DEF OnPage
<1>2. HonestItems(q, view) = {chain[i] : i \in P}
  BY DEF HonestItems
<1> HIDE DEF R, P
<1>3. Cardinality(P) \in Nat /\ Cardinality(P) <= PageLimit
  <2>1. CASE P = {}
    BY <1>0, <2>1, FS_EmptySet
  <2>2. CASE P # {}
    <3>1. PICK m \in P : \A j \in P : j <= m
      BY <1>0, <2>2, FirstAndLast
    <3> DEFINE B == {j \in R : j < m}
    <3>2. IsFiniteSet(B) /\ m \notin B /\ P \subseteq B \cup {m}
      <4>1. B \subseteq R
        OBVIOUS
      <4>2. IsFiniteSet(B)
        BY <1>0, <4>1, FS_Subset
      <4>3. m \notin B
        BY <1>0
      <4>4. P \subseteq B \cup {m}
        BY <1>0, <3>1
      <4> QED
        BY <4>2, <4>3, <4>4
    <3>3. Cardinality(B \cup {m}) = Cardinality(B) + 1 /\ IsFiniteSet(B \cup {m})
      <4> HIDE DEF B
      <4> QED
        BY <3>2, FS_AddElement
    <3>4. Cardinality(P) <= Cardinality(B \cup {m})
      <4> HIDE DEF B
      <4> QED
        BY <3>2, <3>3, FS_Subset
    <3>5. Cardinality(B) < PageLimit
      BY <1>1
    <3>6. Cardinality(B) \in Nat /\ Cardinality(P) \in Nat
      BY <1>0, <3>2, FS_CardinalityType
    <3> QED
      BY <1>0, <3>3, <3>4, <3>5, <3>6
  <2> QED
    BY <2>1, <2>2
<1>4. Cardinality({chain[i] : i \in P}) <= Cardinality(P) /\ IsFiniteSet({chain[i] : i \in P})
  <2> DEFINE f == [i \in P |-> chain[i]]
             Q == {chain[i] : i \in P}
  <2>1. f \in Surjection(P, Q)
    BY DEF Surjection
  <2> HIDE DEF f, Q
  <2>2. Cardinality(Q) <= Cardinality(P) /\ IsFiniteSet(Q)
    BY <1>0, <2>1, FS_Surjection
  <2> QED
    BY <2>2 DEF Q
<1>5. Cardinality({chain[i] : i \in P}) \in Nat
  BY <1>4, FS_CardinalityType
<1> QED
  BY <1>0, <1>2, <1>3, <1>4, <1>5

(* An honest page is accepted as a whole. *)
LEMMA HonestIsAccepted ==
  ASSUME chain \in Chains, NEW q, NEW view,
         q.watch \in Watches \cup {ProbeWatch}, q.purpose = "scan-page",
         q.url = SearchUrl(q.watch, q.min, q.max)
  PROVE  /\ HonestPage(q, view).view = view
         /\ HonestPage(q, view).next = HonestNext(q, view)
         /\ HonestPage(q, view).items = HonestItems(q, view)
         /\ Outcome(q, HonestPage(q, view)).kind = "page"
         /\ Outcome(q, HonestPage(q, view)).next = HonestNext(q, view)
         /\ Outcome(q, HonestPage(q, view)).items = {t \in HonestItems(q, view) : Kept(t)}
<1> DEFINE r == HonestPage(q, view)
<1>1. /\ r.status = 200 /\ r.body = "whole" /\ r.items = HonestItems(q, view)
      /\ r.view = view /\ r.next = HonestNext(q, view)
  BY DEF HonestPage, Body
<1> HIDE DEF r
<1>2. Outcome(q, r) = Parsed(q, r)
  BY <1>1 DEF Outcome
<1>3. ASSUME NEW t \in r.items PROVE Believed(t, q.watch, q.min, q.max)
  <2>0. PICK i \in OnPage(q, view) : t = chain[i]
    BY <1>1, <1>3 DEF HonestItems
  <2>1. i \in DOMAIN chain /\ t = chain[i] /\ Selected(t, q.url)
    <3>1. i \in Rest(q, view)
      BY <2>0 DEF OnPage
    <3> QED
      BY <2>0, <3>1 DEF Rest
  <2>2. OnChain(t)
    BY <2>1, ChainKnown
  <2> QED
    BY <2>1, <2>2, SelectedIsBelieved
<1>4. Acceptable(q, r)
  BY <1>1, <1>3, PageIsBounded DEF Acceptable
<1>5. Parsed(q, r) = Answered("page", {t \in r.items : Kept(t)}, r.view, r.next)
  BY <1>4 DEF Parsed
<1> QED
  BY <1>1, <1>2, <1>5 DEF Answered, r

(***************************************************************************)
(* The conversation.                                                       *)
(***************************************************************************)

(* The requests the client sends: a scan page of some watch, in the words   *)
(* of the configured variant, or another request.                           *)
QueryKnown(q) ==
    \/ q.watch \in Watches \cup {ProbeWatch} /\ q = Scan(q.watch, q.min, q.max, q.token)
    \/ q.purpose # "scan-page"

(* The probe's state, and the request each of its steps waits for. *)
ProbeKnown ==
    /\ probe = [at |-> probe.at, tip |-> probe.tip, polling |-> probe.polling,
                reconciliation |-> probe.reconciliation]
    /\ probe.at = "tip" => query.purpose = "health"
    /\ probe.at = "lookup" => query.purpose = "lookup"
    /\ probe.at = "search" => query.purpose = "absence-proof"

(* The scan has found what is due up to position n. *)
FoundUpTo(n) ==
    \A i \in DOMAIN chain :
        i <= n /\ chain[i].round \in query.min..query.max /\ Due(chain[i], query.watch)
            => chain[i] \in matched

(* A scan answered honestly has found what is due up to the page it asks    *)
(* for, and with the answer up to the page it will ask for next.            *)
ScanKnown ==
    query # None /\ query.purpose = "scan-page" /\ probe.at = "idle" /\ honest =>
        /\ query.max \in Nat
        /\ query.token \in 0..Len(chain)
        /\ FoundUpTo(query.token)
        /\ result # None /\ result.kind = "page" =>
             \/ result.next = None /\ FoundUpTo(Len(chain))
             \/ result.next \in 1..Len(chain) /\ FoundUpTo(result.next)

(* What holds of every conversation. *)
ClientInv ==
    /\ variant \in Variants /\ chain \in Chains
    /\ query = None \/ QueryKnown(query)
    /\ query = None => reply = None /\ result = None
    /\ reply # None \/ result # None => result = Outcome(query, reply)
    /\ ProbeKnown
    /\ ScanKnown

(* It holds before the first request, when nothing was asked or answered.   *)
LEMMA ClientInvInit == ClientInit => ClientInv
<1> SUFFICES ASSUME ClientInit PROVE ClientInv
  OBVIOUS
<1>1. ProbeKnown
  BY DEF ClientInit, NoProbe, ProbeKnown
<1> QED
  BY <1>1 DEF ClientInit, ClientInv, ScanKnown

(* The queries the client forms are known. *)
LEMMA ScanIsKnown ==
  ASSUME NEW w \in Watches \cup {ProbeWatch}, NEW min, NEW max, NEW token
  PROVE  /\ QueryKnown(Scan(w, min, max, token))
         /\ Scan(w, min, max, token).purpose = "scan-page"
         /\ Scan(w, min, max, token).watch = w
         /\ Scan(w, min, max, token).min = min /\ Scan(w, min, max, token).max = max
         /\ Scan(w, min, max, token).token = token
         /\ Scan(w, min, max, token).url = SearchUrl(w, min, max)
  BY DEF Scan, QueryKnown

(* A known scan page is asked of the search its own watch is built from.    *)
LEMMA KnownScan ==
  ASSUME NEW q, QueryKnown(q), q.purpose = "scan-page"
  PROVE  /\ q.watch \in Watches \cup {ProbeWatch}
         /\ q.url = SearchUrl(q.watch, q.min, q.max)
<1>1. q.watch \in Watches \cup {ProbeWatch} /\ q = Scan(q.watch, q.min, q.max, q.token)
  BY DEF QueryKnown
<1>2. Scan(q.watch, q.min, q.max, q.token).url = SearchUrl(q.watch, q.min, q.max)
  BY DEF Scan
<1> QED
  BY <1>1, <1>2

(* So is every request that is no page of a scan.                           *)
LEMMA OtherIsKnown ==
  ASSUME NEW purpose, purpose # "scan-page", NEW round, NEW id
  PROVE  QueryKnown(Other(purpose, round, id)) /\ Other(purpose, round, id).purpose = purpose
  BY DEF Other, QueryKnown

(* A request keeps what is known, when it is one and the scan it belongs to *)
(* is known.                                                                *)
LEMMA AskingKeeps ==
  ASSUME ClientInv, NEW q, QueryKnown(q), Ask(q), ProbeKnown', ScanKnown'
  PROVE  ClientInv'
<1>1. query' = q /\ reply' = None /\ result' = None /\ variant' = variant /\ chain' = chain
  BY DEF Ask, settingVars
<1>2. QueryKnown(query)'
  BY <1>1 DEF QueryKnown, Scan, SearchUrl, Plan
<1> QED
  BY <1>1, <1>2 DEF ClientInv

(* What becomes of an answer depends on the query and the variant only. *)
LEMMA SameOutcome ==
  ASSUME variant' = variant, query' = query, NEW r, r' = r
  PROVE  Outcome(query, r)' = Outcome(query, r)
  BY DEF Outcome, HttpFailure, ZeroSenderRefused, Parsed, Acceptable, Believed, InnerEvidence,
         Satisfies, Plan, WellFormed, Transfer, Direct, Sought, Kept, Failed, Answered

(* A step of the probe that asks its next request, or ends the probe. *)
LEMMA ProbeStepKeeps ==
  ASSUME ClientInv, ProbeTip \/ ProbeScan \/ ProbeBlock \/ ProbeLookup \/ ProbeSearch
  PROVE  ClientInv'
<1> USE DEF ClientInv
<1>1. CASE ProbeTip
  <2>1. CASE result.kind = "round" /\ Ask(Scan(ProbeWatch, result.view, result.view, 0))
             /\ probe' = [probe EXCEPT !.at = "scan", !.tip = result.view]
    <3>1. ProbeKnown' /\ ScanKnown'
      BY <2>1 DEF ProbeKnown, ScanKnown
    <3> QED
      BY <2>1, <3>1, ScanIsKnown, AskingKeeps
  <2>2. CASE probe' = [probe EXCEPT !.at = "idle"] /\ UNCHANGED <<settingVars, query, reply, result>>
    <3>1. ProbeKnown' /\ ScanKnown'
      BY <1>1, <2>2 DEF ProbeTip, ProbeKnown, ScanKnown
    <3>2. (query = None \/ QueryKnown(query))'
      BY <2>2 DEF settingVars, QueryKnown, Scan, SearchUrl, Plan
    <3>3. Outcome(query, reply)' = Outcome(query, reply)
      BY <2>2, SameOutcome DEF settingVars
    <3> QED
      BY <2>2, <3>1, <3>2, <3>3 DEF settingVars
  <2> QED
    BY <1>1, <2>1, <2>2 DEF ProbeTip
<1>2. CASE ProbeScan
  <2>1. CASE ProbeGoesOn("block", Other("checkpoint", probe.tip, None))
    <3>1. ProbeKnown' /\ ScanKnown'
      BY <2>1 DEF ProbeGoesOn, ProbeKnown, ScanKnown
    <3> QED
      BY <2>1, <3>1, OtherIsKnown, AskingKeeps DEF ProbeGoesOn
  <2>2. CASE ProbeGoesOn("lookup", Other("lookup", 0, ProbeId))
    <3>1. ProbeKnown' /\ ScanKnown'
      BY <2>2, OtherIsKnown DEF ProbeGoesOn, Ask, ProbeKnown, ScanKnown
    <3> QED
      BY <2>2, <3>1, OtherIsKnown, AskingKeeps DEF ProbeGoesOn
  <2> QED
    BY <1>2, <2>1, <2>2 DEF ProbeScan
<1>3. CASE ProbeBlock
  <2>0. probe'.at = "lookup" /\ query'.purpose = "lookup"
    BY <1>3, OtherIsKnown DEF ProbeBlock, Ask, ProbeKnown
  <2>1. ProbeKnown' /\ ScanKnown'
    <3>1. ScanKnown'
      BY <2>0 DEF ScanKnown
    <3>2. (probe = [at |-> probe.at, tip |-> probe.tip, polling |-> probe.polling,
                    reconciliation |-> probe.reconciliation])'
      BY <1>3 DEF ProbeBlock, ProbeKnown
    <3> QED
      BY <2>0, <3>1, <3>2 DEF ProbeKnown
  <2> QED
    BY <1>3, <2>1, OtherIsKnown, AskingKeeps DEF ProbeBlock
<1>4. CASE ProbeLookup
  <2>1. CASE ProbeGoesOn("search", Other("absence-proof", 0, ProbeId))
    <3>1. ProbeKnown' /\ ScanKnown'
      BY <2>1, OtherIsKnown DEF ProbeGoesOn, Ask, ProbeKnown, ScanKnown
    <3> QED
      BY <2>1, <3>1, OtherIsKnown, AskingKeeps DEF ProbeGoesOn
  <2>2. CASE probe' = [probe EXCEPT !.at = "idle"] /\ UNCHANGED <<settingVars, query, reply, result>>
    <3>1. ProbeKnown' /\ ScanKnown'
      BY <1>4, <2>2 DEF ProbeLookup, ProbeKnown, ScanKnown
    <3>2. (query = None \/ QueryKnown(query))'
      BY <2>2 DEF settingVars, QueryKnown, Scan, SearchUrl, Plan
    <3>3. Outcome(query, reply)' = Outcome(query, reply)
      BY <2>2, SameOutcome DEF settingVars
    <3> QED
      BY <2>2, <3>1, <3>2, <3>3 DEF settingVars
  <2> QED
    BY <1>4, <2>1, <2>2 DEF ProbeLookup
<1>5. CASE ProbeSearch
  <2>1. ProbeKnown' /\ ScanKnown'
    BY <1>5 DEF ProbeSearch, ProbeKnown, ScanKnown
  <2>2. (query = None \/ QueryKnown(query))'
    BY <1>5 DEF ProbeSearch, settingVars, QueryKnown, Scan, SearchUrl, Plan
  <2>3. Outcome(query, reply)' = Outcome(query, reply)
    BY <1>5, SameOutcome DEF ProbeSearch, settingVars
  <2> QED
    BY <1>5, <2>1, <2>2, <2>3 DEF ProbeSearch, settingVars
<1> QED
  BY <1>1, <1>2, <1>3, <1>4, <1>5

(* Once the answer is taken in. *)
FoundNext(n) ==
    \A i \in DOMAIN chain :
        i <= n /\ chain[i].round \in query.min..query.max /\ Due(chain[i], query.watch)
            => chain[i] \in matched'

(* An answer taken in. *)
LEMMA ReceivingKeeps ==
  ASSUME ClientInv, Asking, NEW r \in SomeReplies \cup HonestReplies, Receive(r)
  PROVE  ClientInv'
<1> DEFINE res == Outcome(query, r)
<1>1. /\ variant' = variant /\ chain' = chain /\ query' = query /\ probe' = probe
      /\ reply' = r /\ result' = res /\ query # None
  BY DEF Receive, settingVars, Asking
<1>2. Outcome(query', r) = res /\ Outcome(query, reply)' = res
  BY <1>1, SameOutcome DEF Receive
<1>3. (query = None \/ QueryKnown(query))'
  BY <1>1 DEF ClientInv, QueryKnown, Scan, SearchUrl, Plan
<1>4. ProbeKnown'
  BY <1>1 DEF ClientInv, ProbeKnown
<1>5. ScanKnown'
  <2> SUFFICES ASSUME query.purpose = "scan-page", probe.at = "idle", honest'
               PROVE  ScanKnown'
    BY <1>1 DEF ScanKnown
  <2>1. honest /\ r \in HonestReplies /\ r.view >= query.max
    BY DEF Receive
  <2>2. query.max \in Nat /\ query.token \in 0..Len(chain) /\ FoundUpTo(query.token)
    BY <1>1, <2>1 DEF ClientInv, ScanKnown
  <2>3. query.watch \in Watches \cup {ProbeWatch}
        /\ query.url = SearchUrl(query.watch, query.min, query.max)
    BY <1>1, KnownScan DEF ClientInv
  <2>4. matched' = matched \cup {t \in res.items : MatchesWatch(t, query.watch)}
    BY <1>1 DEF Receive
  <2>5. FoundNext(query.token)
    BY <2>2, <2>4 DEF FoundUpTo, FoundNext
  <2>6. ASSUME res.kind = "page"
        PROVE  \/ res.next = None /\ FoundNext(Len(chain))
               \/ res.next \in 1..Len(chain) /\ FoundNext(res.next)
    <3>1. ~Refused(query.url)
      <4>1. ASSUME Refused(query.url) PROVE FALSE
        <5>1. r = Refusal("whole")
          BY <2>1, <4>1 DEF HonestReplies
        <5>2. r.status = 400
          BY <5>1 DEF Refusal, Body
        <5>3. res.kind = "failed"
          BY <5>2 DEF Outcome, HttpFailure, Failed
        <5> QED
          BY <2>6, <5>3
      <4> QED
        BY <4>1
    <3>2. PICK view \in 0..MaxRound : r = HonestPage(query, view)
      BY <2>1, <3>1 DEF HonestReplies
    <3> DEFINE R == Rest(query, view)
               P == OnPage(query, view)
    <3>3. /\ r.view = view /\ res.next = HonestNext(query, view)
          /\ res.items = {t \in HonestItems(query, view) : Kept(t)}
      BY <2>3, <3>2, HonestIsAccepted DEF ClientInv
    <3>4. R \subseteq 1..Len(chain) /\ P \subseteq R
      BY PageOfPositions DEF ClientInv
    <3>5. Len(chain) \in Nat /\ DOMAIN chain = 1..Len(chain)
          /\ \A i \in DOMAIN chain : chain[i].round \in Nat
      BY ChainKnown DEF ClientInv
    <3>6. ASSUME NEW n \in 0..Len(chain), \A i \in R : i <= n => i \in P
          PROVE  FoundNext(n)
      <4> SUFFICES ASSUME NEW i \in DOMAIN chain, i <= n,
                          chain[i].round \in query.min..query.max, Due(chain[i], query.watch)
                   PROVE  chain[i] \in matched'
        BY DEF FoundNext
      <4>1. CASE i <= query.token
        BY <2>2, <2>4, <4>1 DEF FoundUpTo
      <4>2. CASE ~(i <= query.token)
        <5>1. Selected(chain[i], query.url) /\ Kept(chain[i]) /\ MatchesWatch(chain[i], query.watch)
          BY <2>3, DueIsSelected
        <5>2. i > query.token
          BY <2>2, <3>5, <4>2
        <5>3. chain[i].round <= view
          <6>1. chain[i].round <= query.max
            BY <3>5, <2>2
          <6> QED
            BY <2>1, <2>2, <3>2, <3>3, <3>5, <6>1, ClientAssumption
        <5>4. i \in R
          BY <5>1, <5>2, <5>3 DEF Rest
        <5>5. i \in P
          BY <3>6, <5>4
        <5>6. chain[i] \in HonestItems(query, view)
          BY <5>5 DEF HonestItems
        <5> QED
          BY <2>4, <3>3, <5>1, <5>6
      <4> QED
        BY <4>1, <4>2
    <3>7. CASE P = R
      <4>1. res.next = None
        BY <3>3, <3>7 DEF HonestNext
      <4>2. FoundNext(Len(chain))
        BY <3>5, <3>6, <3>7
      <4> QED
        BY <4>1, <4>2
    <3>8. CASE P # R
      <4>1. res.next = LastOf(P)
        BY <3>3, <3>8 DEF HonestNext
      <4>2. LastOf(P) \in P /\ \A i \in R : i <= LastOf(P) => i \in P
        BY <3>8, PageIsInitial DEF ClientInv
      <4>3. LastOf(P) \in 1..Len(chain)
        BY <3>4, <4>2
      <4>4. FoundNext(LastOf(P))
        <5> HIDE DEF P, R
        <5>1. LastOf(P) \in 0..Len(chain)
          BY <3>5, <4>3
        <5> QED
          BY <3>6, <4>2, <5>1
      <4> QED
        BY <4>1, <4>3, <4>4
    <3> QED
      BY <3>7, <3>8
  <2> QED
    BY <1>1, <2>2, <2>5, <2>6 DEF ScanKnown, FoundUpTo, FoundNext
<1> QED
  BY <1>1, <1>2, <1>3, <1>4, <1>5 DEF ClientInv

(* Every step of the client keeps what is known. *)
LEMMA ClientInvNext == ClientInv /\ [ClientNext]_clientVars => ClientInv'
<1> SUFFICES ASSUME ClientInv, [ClientNext]_clientVars PROVE ClientInv'
  OBVIOUS
<1>1. CASE StartScan
  <2>1. PICK w \in Watches, min \in 1..MaxRound, max \in 1..MaxRound :
          Ask(Scan(w, min, max, 0))
    BY <1>1 DEF StartScan
  <2>2. probe' = probe /\ probe.at = "idle" /\ chain' = chain
    BY <1>1, <2>1 DEF StartScan, Fresh, Ask, settingVars
  <2>3. query' = Scan(w, min, max, 0) /\ result' = None
    BY <2>1 DEF Ask
  <2>4. query'.token = 0 /\ query'.max = max
    BY <2>3, ScanIsKnown
  <2>5. ScanKnown'
    <3>1. max \in Nat /\ Len(chain) \in Nat /\ DOMAIN chain = 1..Len(chain)
      BY ChainKnown, ClientAssumption DEF ClientInv
    <3>2. FoundUpTo(query.token)'
      BY <2>2, <2>4, <3>1 DEF FoundUpTo
    <3> QED
      BY <2>2, <2>3, <2>4, <3>1, <3>2 DEF ScanKnown
  <2>6. ProbeKnown'
    BY <2>2 DEF ClientInv, ProbeKnown
  <2> QED
    BY <2>1, <2>5, <2>6, ScanIsKnown, AskingKeeps
<1>2. CASE ContinueScan
  <2> DEFINE q == [query EXCEPT !.token = result.next]
  <2>1. /\ probe' = probe /\ probe.at = "idle" /\ chain' = chain
        /\ matched' = matched /\ honest' = honest /\ Ask(q)
        /\ query # None /\ query.purpose = "scan-page"
        /\ result # None /\ result.kind = "page" /\ result.next # None
    BY <1>2 DEF ContinueScan, Ask, settingVars, Asking
  <2>2. /\ query.watch \in Watches \cup {ProbeWatch}
        /\ query = Scan(query.watch, query.min, query.max, query.token)
    BY <2>1 DEF ClientInv, QueryKnown
  <2>3. q = Scan(query.watch, query.min, query.max, result.next)
    <3> DEFINE s == Scan(query.watch, query.min, query.max, query.token)
    <3>1. [s EXCEPT !.token = result.next] = Scan(query.watch, query.min, query.max, result.next)
      BY DEF Scan
    <3> HIDE DEF s
    <3>2. query = s
      BY <2>2 DEF s
    <3> QED
      BY <3>1, <3>2
  <2>4. query' = Scan(query.watch, query.min, query.max, result.next) /\ result' = None
    BY <2>1, <2>3 DEF Ask
  <2>5. /\ query'.token = result.next /\ query'.min = query.min /\ query'.max = query.max
        /\ query'.watch = query.watch /\ QueryKnown(q)
    BY <2>2, <2>3, <2>4, ScanIsKnown
  <2>6. ScanKnown'
    <3> SUFFICES ASSUME honest
                 PROVE  /\ query'.max \in Nat
                        /\ query'.token \in 0..Len(chain')
                        /\ FoundUpTo(query.token)'
      BY <2>1, <2>4 DEF ScanKnown
    <3>1. /\ query.max \in Nat
          /\ result.next \in 1..Len(chain) /\ FoundUpTo(result.next)
      BY <2>1 DEF ClientInv, ScanKnown
    <3>2. Len(chain) \in Nat
      BY ChainKnown DEF ClientInv
    <3> QED
      BY <2>1, <2>5, <3>1, <3>2 DEF FoundUpTo
  <2>7. ProbeKnown'
    BY <2>1 DEF ClientInv, ProbeKnown
  <2> QED
    BY <2>1, <2>5, <2>6, <2>7, AskingKeeps
<1>3. CASE StartLookup
  <2>1. PICK purpose \in {"lookup", "absence-proof"}, i \in DOMAIN chain :
          Ask(Other(purpose, 0, chain[i].id))
    BY <1>3 DEF StartLookup
  <2>2. query'.purpose # "scan-page" /\ probe' = probe /\ probe.at = "idle"
    BY <1>3, <2>1, OtherIsKnown DEF StartLookup, Ask, Fresh
  <2>3. ProbeKnown' /\ ScanKnown'
    BY <2>2 DEF ClientInv, ProbeKnown, ScanKnown
  <2> QED
    BY <2>1, <2>3, OtherIsKnown, AskingKeeps
<1>4. CASE StartRound
  <2>1. PICK purpose \in {"health", "checkpoint"}, round \in 1..MaxRound :
          Ask(Other(purpose, round, None))
    BY <1>4 DEF StartRound
  <2>2. query'.purpose # "scan-page" /\ probe' = probe /\ probe.at = "idle"
    BY <1>4, <2>1, OtherIsKnown DEF StartRound, Ask, Fresh
  <2>3. ProbeKnown' /\ ScanKnown'
    BY <2>2 DEF ClientInv, ProbeKnown, ScanKnown
  <2> QED
    BY <2>1, <2>3, OtherIsKnown, AskingKeeps
<1>5. CASE Receives
  BY <1>5, ReceivingKeeps DEF Receives
<1>6. CASE ProbeStart
  <2>1. Ask(Other("health", 0, None)) /\ probe' = [NoProbe EXCEPT !.at = "tip"]
    BY <1>6 DEF ProbeStart
  <2>2. query'.purpose = "health"
    BY <2>1, OtherIsKnown DEF Ask
  <2>3. ProbeKnown' /\ ScanKnown'
    BY <2>1, <2>2 DEF ProbeKnown, ScanKnown, NoProbe
  <2> QED
    BY <2>1, <2>3, OtherIsKnown, AskingKeeps
<1>7. CASE ProbeTip \/ ProbeScan \/ ProbeBlock \/ ProbeLookup \/ ProbeSearch
  BY <1>7, ProbeStepKeeps
<1>8. CASE UNCHANGED clientVars
  <2>1. Outcome(query, reply)' = Outcome(query, reply)
    BY <1>8, SameOutcome DEF clientVars, settingVars
  <2>2. (query = None \/ QueryKnown(query))'
    BY <1>8 DEF ClientInv, clientVars, settingVars, QueryKnown, Scan, SearchUrl, Plan
  <2> QED
    BY <1>8, <2>1, <2>2 DEF ClientInv, clientVars, settingVars, ProbeKnown, ScanKnown, FoundUpTo
<1> QED
  BY <1>1, <1>2, <1>3, <1>4, <1>5, <1>6, <1>7, <1>8 DEF ClientNext

(* The invariant the properties follow from. *)
LEMMA ClientInvHolds == ClientSpec => []ClientInv
  BY ClientInvInit, ClientInvNext, PTL DEF ClientSpec

(***************************************************************************)
(* The properties.                                                         *)
(***************************************************************************)

(* roundwatch-indexer.ts parseWatchTransaction: whatever the provider says, *)
(* a page the client accepts holds only what the query selects, and nothing *)
(* due on it is dropped.                                                    *)
THEOREM EvidenceAlwaysMatters == ClientSpec => []OnlyEvidenceIsUsed
<1>1. ClientInv => OnlyEvidenceIsUsed
  <2> SUFFICES ASSUME ClientInv, PageAccepted
               PROVE  /\ \A t \in reply.items : Selected(t, query.url)
                      /\ \A t \in reply.items : Due(t, query.watch) => t \in result.items
                      /\ \A t \in result.items : MatchesWatch(t, query.watch) => Due(t, query.watch)
    BY DEF OnlyEvidenceIsUsed
  <2>1. /\ query.purpose = "scan-page" /\ result.kind = "page"
        /\ QueryKnown(query) /\ result = Outcome(query, reply)
    BY DEF PageAccepted, ClientInv
  <2>2. result = Parsed(query, reply)
    BY <2>1 DEF Outcome, HttpFailure, Failed, Answered
  <2>3. Acceptable(query, reply) /\ result = Answered("page", {t \in reply.items : Kept(t)}, reply.view, reply.next)
    BY <2>1, <2>2 DEF Parsed, Failed
  <2>4. \A t \in reply.items : Believed(t, query.watch, query.min, query.max)
    BY <2>1, <2>3 DEF Acceptable
  <2>5. result.items = {t \in reply.items : Kept(t)}
    BY <2>3 DEF Answered
  <2>6. \A t \in reply.items : Selected(t, query.url)
    BY <2>1, <2>4, KnownScan, BelievedIsSelected
  <2>7. \A t \in reply.items : Due(t, query.watch) => t \in result.items
    BY <2>5 DEF Due, Kept, Direct
  <2>8. \A t \in result.items : MatchesWatch(t, query.watch) => Due(t, query.watch)
    BY <2>5 DEF Due, Kept, Direct, MatchesWatch
  <2> QED
    BY <2>6, <2>7, <2>8
<1> QED
  BY <1>1, ClientInvHolds, PTL

(* classifyIndexerHttpFailure and classifyPollingFailure: no answer ends a  *)
(* watch but one whose own sender is the zero address.                      *)
THEOREM RefusalAlwaysConcernsTheWatch == ClientSpec => []RefusalConcernsTheWatch
<1>1. ClientInv => RefusalConcernsTheWatch
  <2> SUFFICES ASSUME ClientInv, result # None, result.permanent
               PROVE  query.purpose = "scan-page" /\ variant # "D" /\ query.watch.sender = Zero
    BY DEF RefusalConcernsTheWatch
  <2>1. QueryKnown(query) /\ result = Outcome(query, reply)
    BY DEF ClientInv
  <2>2. ZeroSenderRefused(query, reply)
    BY <2>1 DEF Outcome, HttpFailure, Parsed, Failed, Answered
  <2>3. query.purpose = "scan-page" /\ query.url.address = Zero /\ query.url.role = "sender"
    BY <2>2 DEF ZeroSenderRefused
  <2>4. query.url = SearchUrl(query.watch, query.min, query.max)
    BY <2>1, <2>3, KnownScan
  <2>5. Plan(query.watch).role = "sender" /\ Plan(query.watch).address = Zero
    BY <2>3, <2>4 DEF SearchUrl
  <2> QED
    BY <2>3, <2>5 DEF Plan
<1> QED
  BY <1>1, ClientInvHolds, PTL

(* An honest page is never refused, whatever its transactions are: other    *)
(* transfers, clawbacks, close-outs, application calls.                     *)
THEOREM HonestPagesAlwaysAccepted == ClientSpec => []HonestPagesAreAccepted
<1>1. ClientInv => HonestPagesAreAccepted
  <2> SUFFICES ASSUME ClientInv, query # None, reply # None, query.purpose = "scan-page",
                      NEW view \in 0..MaxRound, reply = HonestPage(query, view)
               PROVE  result.kind = "page"
    BY DEF HonestPagesAreAccepted
  <2>1. chain \in Chains /\ QueryKnown(query) /\ result = Outcome(query, HonestPage(query, view))
    BY DEF ClientInv
  <2> QED
    BY <2>1, KnownScan, HonestIsAccepted
<1> QED
  BY <1>1, ClientInvHolds, PTL

(* Whichever query variant is configured, however the pages split and       *)
(* whatever else is on chain, a scan answered honestly to its end has       *)
(* matched every transfer due in its window.                                *)
THEOREM NothingDueIsEverLost == ClientSpec => []NothingDueIsLost
<1>1. ClientInv => NothingDueIsLost
  <2> SUFFICES ASSUME ClientInv, PageAccepted, probe.at = "idle", honest, result.next = None,
                      NEW i \in DOMAIN chain,
                      chain[i].round \in query.min..query.max, Due(chain[i], query.watch)
               PROVE  chain[i] \in matched
    BY DEF NothingDueIsLost
  <2>1. Len(chain) \in Nat /\ DOMAIN chain = 1..Len(chain)
    BY ChainKnown DEF ClientInv
  <2>2. FoundUpTo(Len(chain))
    <3>1. None \notin 1..Len(chain)
      BY <2>1, ClientAssumption
    <3> QED
      BY <3>1 DEF ClientInv, ScanKnown, PageAccepted
  <2> QED
    BY <2>1, <2>2 DEF FoundUpTo
<1> QED
  BY <1>1, ClientInvHolds, PTL
=============================================================================
