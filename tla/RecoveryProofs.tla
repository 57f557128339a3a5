--------------------------- MODULE RecoveryProofs ---------------------------
(***************************************************************************)
(* Theorems about the alerts of a wallet, for any number of handlers,      *)
(* enrolments, blocks and reorganisations.                                 *)
(***************************************************************************)
EXTENDS Recovery, FiniteSetTheorems, WellFoundedInduction, TLAPS

-----------------------------------------------------------------------------
(* Blocks, and what one shows of the operation.                            *)

LEMMA BlockFacts ==
  ASSUME NEW h \in Block
  PROVE  /\ h[1] \in 1..MaxHeight /\ h[2] \in 0..2 /\ h = <<h[1], h[2]>> /\ h \in Blocks
         /\ h \in Int \X Nat
BY RecoveryAssumption DEF Block, Blocks

LEMMA TipFacts ==
  ASSUME ChainOK
  PROVE  /\ Height \in 1..MaxHeight /\ Tip \in Block
         /\ \A n \in 1..Height : Hash(live, n) \in Block
<1>1. Height \in 1..MaxHeight /\ live \in 0..2 /\ 0 \in 0..2
  BY DEF ChainOK, Height
<1>2. ASSUME NEW n \in 1..Height PROVE Hash(live, n) \in Block
  <2>1. n \in 1..MaxHeight
    BY <1>1, RecoveryAssumption
  <2> QED
    BY <1>1, <2>1 DEF Hash, Block
<1>3. Tip \in Block
  BY <1>1, <1>2 DEF Tip
<1> QED
  BY <1>1, <1>2, <1>3

Shown == [at : Nat, time : Nat, end : {"open", "executed", "canceled", "removed"}]

LEMMA AtFacts ==
  ASSUME NEW h \in Block, NEW evs
  PROVE  /\ At(h, evs) \in Nat
         /\ At(h, evs) # 0 => branch[IF h[2] = 0 THEN live ELSE h[2]][At(h, evs)] \in evs
<1> DEFINE b == IF h[2] = 0 THEN live ELSE h[2]
           hits == {i \in 1..h[1] : branch[b][i] \in evs}
<1>1. At(h, evs) = IF hits = {} THEN 0 ELSE CHOOSE i \in hits : TRUE
  BY DEF At
<1>2. hits # {} => (CHOOSE i \in hits : TRUE) \in hits
  OBVIOUS
<1> QED
  BY <1>1, <1>2

LEMMA ViewType ==
  ASSUME NEW h \in Block
  PROVE  ViewAt(h) \in Shown /\ ViewAt(h).time = h[1]
<1> DEFINE ends == {"executed", "canceled", "removed"}
           b == IF h[2] = 0 THEN live ELSE h[2]
           e == At(h, ends)
<1>1. e \in Nat /\ (e # 0 => branch[b][e] \in ends)
  BY AtFacts
<1>2. At(h, {"schedule"}) \in Nat /\ h[1] \in Nat
  BY AtFacts, BlockFacts
<1>3. ViewAt(h) = [at |-> At(h, {"schedule"}), time |-> h[1],
                   end |-> IF e = 0 THEN "open" ELSE branch[b][e]]
  BY DEF ViewAt
<1> HIDE DEF e, b
<1> QED
  BY <1>1, <1>2, <1>3 DEF Shown

\* Whether an operation is under way does not depend on the row.
LEMMA StateFacts ==
  ASSUME NEW v \in Shown, NEW o
  PROVE  /\ StateFor(v, o) \in Active \cup Ended
         /\ StateFor(v, o) \in Active => IsCurrent(v) /\ StateFor(v, o) \notin Ended
         /\ \A p : StateFor(v, o) \in Active => StateFor(v, p) \in Active
<1>1. CASE v.at = 0
  BY <1>1 DEF StateFor, IsCurrent, Active, Ended
<1>2. CASE v.at > 0 /\ v.end # "open"
  BY <1>2 DEF StateFor, IsCurrent, Active, Ended, Shown
<1>3. CASE IsCurrent(v)
  <2>1. v.at > 0 /\ v.end = "open" /\ v.at # 0
    BY <1>3 DEF IsCurrent, Shown
  <2>2. StateFor(v, o) \in {"expired", "pending", "ready"}
    BY <1>3, <2>1 DEF StateFor
  <2>3. \A p : StateFor(v, p) = StateFor(v, o)
    BY <1>3, <2>1 DEF StateFor
  <2> QED
    BY <1>3, <2>2, <2>3 DEF Active, Ended
<1> QED
  BY <1>1, <1>2, <1>3 DEF IsCurrent, Shown

LEMMA RowFacts ==
  ASSUME NEW v \in Shown, NEW o \in Ops
  PROVE  RowFor(v, o) \in Ops /\ RowFor(v, o) # NoOp /\ RowFor(v, o).state = StateFor(v, o)
<1>1. StateFor(v, o) \in Active \cup Ended /\ StateFor(v, o) # "none"
  BY StateFacts DEF Active, Ended
<1>2. v.at \in Nat /\ Delay \in Nat /\ Expiration \in Nat /\ o.exec \in Nat /\ o.exp \in Nat
  BY RecoveryAssumption DEF Shown, Ops
<1> QED
  BY <1>1, <1>2 DEF RowFor, Ops, NoOp

LEMMA NoOpType == NoOp \in Ops
BY DEF NoOp, Ops

-----------------------------------------------------------------------------
(* The outbox grows, and what was superseded may be re-armed.              *)

LEMMA HasMax ==
  ASSUME NEW n \in Nat, NEW S \in SUBSET (1..n), S # {}
  PROVE  \E i \in S : \A j \in S : j <= i
<1> DEFINE R == {ss \in Nat \X Nat : ss[1] < ss[2]}
           T == {k \in Nat : n - k \in S}
<1>1. IsWellFoundedOn(R, Nat)
  BY NatLessThanWellFounded DEF OpToRel
<1>2. T \subseteq Nat /\ T # {}
  <2>1. PICK i \in S : TRUE
    OBVIOUS
  <2>2. n - i \in T
    BY <2>1
  <2> QED
    BY <2>2
<1> HIDE DEF T, R
<1>3. PICK k \in T : \A y \in T : ~(<<y, k>> \in R)
  BY <1>1, <1>2, WFMin
<1> USE DEF T, R
<1>4. n - k \in S /\ k \in Nat
  BY <1>3
<1>5. ASSUME NEW j \in S PROVE j <= n - k
  <2>1. n - j \in T /\ n - j \in Nat
    OBVIOUS
  <2>2. ~(n - j < k)
    BY <1>3, <1>4, <2>1
  <2> QED
    BY <1>4, <2>1, <2>2
<1> QED
  BY <1>4, <1>5

LEMMA NewestFacts ==
  ASSUME NEW q \in Seq(Notices), NEW ids \in SUBSET DOMAIN q
  PROVE  /\ Newest(ids) \in 0..Len(q)
         /\ ids = {} => Newest(ids) = 0
         /\ ids # {} => Newest(ids) \in ids
         /\ \A j \in ids : j <= Newest(ids)
<1>1. Len(q) \in Nat /\ ids \subseteq 1..Len(q)
  OBVIOUS
<1>2. CASE ids = {}
  BY <1>1, <1>2 DEF Newest
<1>3. CASE ids # {}
  <2>1. \E i \in ids : \A j \in ids : j <= i
    BY <1>1, <1>3, HasMax
  <2>2. Newest(ids) = CHOOSE i \in ids : \A j \in ids : j <= i
    BY <1>3 DEF Newest
  <2>3. Newest(ids) \in ids /\ \A j \in ids : j <= Newest(ids)
    BY <2>1, <2>2
  <2> QED
    BY <1>1, <1>3, <2>3
<1> QED
  BY <1>2, <1>3

\* r is q with notices of generation g and kinds K added, and some of what was
\* superseded pending again.
Grown(q, r, g, K) ==
  /\ r \in Seq(Notices) /\ Len(q) <= Len(r)
  /\ \A i \in 1..Len(q) :
       r[i] = q[i] \/ (q[i].st = "superseded" /\ r[i] = [q[i] EXCEPT !.st = "pending"])
  /\ \A i \in (Len(q) + 1)..Len(r) :
       /\ r[i].gen = g /\ r[i].kind \in K
       /\ r[i].st = "pending" /\ r[i].doing = "none"
       /\ r[i].kind \in AboutOp => r[i].via[1] < i

LEMMA GrownSame ==
  ASSUME NEW q \in Seq(Notices), NEW g, NEW K
  PROVE  Grown(q, q, g, K)
BY DEF Grown

LEMMA GrownTwice ==
  ASSUME NEW q \in Seq(Notices), NEW r, NEW s, NEW g, NEW K, NEW L,
         Grown(q, r, g, K), Grown(r, s, g, L)
  PROVE  Grown(q, s, g, K \cup L)
<1>1. r \in Seq(Notices) /\ s \in Seq(Notices) /\ Len(q) \in Nat /\ Len(r) \in Nat
      /\ Len(s) \in Nat /\ Len(q) <= Len(r) /\ Len(r) <= Len(s)
  BY DEF Grown
<1>2. ASSUME NEW i \in 1..Len(q)
      PROVE  s[i] = q[i] \/ (q[i].st = "superseded" /\ s[i] = [q[i] EXCEPT !.st = "pending"])
  <2>1. i \in 1..Len(r) /\ q[i] \in Notices
    BY <1>1
  <2>2. \/ r[i] = q[i]
        \/ q[i].st = "superseded" /\ r[i] = [q[i] EXCEPT !.st = "pending"] /\ r[i].st = "pending"
    BY <2>1 DEF Grown, Notices
  <2>3. s[i] = r[i] \/ (r[i].st = "superseded" /\ s[i] = [r[i] EXCEPT !.st = "pending"])
    BY <2>1 DEF Grown
  <2> QED
    BY <2>2, <2>3
<1>3. ASSUME NEW i \in (Len(q) + 1)..Len(s)
      PROVE  /\ s[i].gen = g /\ s[i].kind \in K \cup L
             /\ s[i].st = "pending" /\ s[i].doing = "none"
             /\ s[i].kind \in AboutOp => s[i].via[1] < i
  <2>1. CASE i \in (Len(q) + 1)..Len(r)
    <3>1. i \in 1..Len(r)
      BY <1>1, <2>1
    <3>2. r[i].st = "pending" /\ s[i] = r[i]
      BY <2>1, <3>1 DEF Grown
    <3> QED
      BY <2>1, <3>2 DEF Grown
  <2>2. CASE i \in (Len(r) + 1)..Len(s)
    BY <2>2 DEF Grown
  <2> QED
    BY <1>1, <2>1, <2>2
<1> QED
  BY <1>1, <1>2, <1>3 DEF Grown

\* A queued notice is the last one, unless its key was taken.
LEMMA QueueGrows ==
  ASSUME NEW q \in Seq(Notices), NEW g \in 1..MaxChallenges, NEW kind \in Kinds,
         NEW via \in Int \X Nat, kind \in AboutOp => via[1] <= Len(q)
  PROVE  /\ Grown(q, Queue(q, g, kind, via), g, {kind})
         /\ \/ \E i \in Of(q, g, {kind}) : q[i].via = via /\ Queue(q, g, kind, via) = q
            \/ /\ Len(Queue(q, g, kind, via)) = Len(q) + 1
               /\ Len(q) + 1 \in Of(Queue(q, g, kind, via), g, {kind})
               /\ Queue(q, g, kind, via)[Len(q) + 1].st = "pending"
               /\ Queue(q, g, kind, via)[Len(q) + 1].via = via
<1> DEFINE n == [gen |-> g, kind |-> kind, via |-> via, st |-> "pending",
                 doing |-> "none", mailed |-> FALSE]
           r == Append(q, n)
<1>1. CASE \E i \in Of(q, g, {kind}) : q[i].via = via
  <2>1. Queue(q, g, kind, via) = q
    BY <1>1 DEF Queue
  <2> QED
    BY <1>1, <2>1, GrownSame
<1>2. CASE ~\E i \in Of(q, g, {kind}) : q[i].via = via
  <2>1. Queue(q, g, kind, via) = r
    BY <1>2 DEF Queue
  <2>2. n \in Notices
    BY DEF Notices
  <2>3. /\ n.gen = g /\ n.kind = kind /\ n.via = via /\ n.st = "pending" /\ n.doing = "none"
    OBVIOUS
  <2> HIDE DEF n
  <2>4. /\ r \in Seq(Notices) /\ Len(r) = Len(q) + 1 /\ r[Len(q) + 1] = n
        /\ \A i \in 1..Len(q) : r[i] = q[i]
    BY <2>2
  <2> HIDE DEF r
  <2>5. Len(q) \in Nat /\ via[1] \in Int
    OBVIOUS
  <2>6. Grown(q, r, g, {kind})
    BY <2>3, <2>4, <2>5 DEF Grown
  <2>7. Len(q) + 1 \in Of(r, g, {kind})
    BY <2>3, <2>4, <2>5 DEF Of
  <2> QED
    BY <2>1, <2>3, <2>4, <2>6, <2>7
<1> QED
  BY <1>1, <1>2

\* What queueing a notice leaves of the outbox.
LEMMA QueueKeeps ==
  ASSUME NEW q \in Seq(Notices), NEW g \in 1..MaxChallenges, NEW kind \in Kinds,
         NEW via \in Int \X Nat, kind \in AboutOp => via[1] <= Len(q)
  PROVE  Grown(q, Queue(q, g, kind, via), g, {kind})
BY QueueGrows

\* Rearming keeps the outbox, and what it names and is not sent is pending.
LEMMA RearmedFacts ==
  ASSUME NEW q \in Seq(Notices), NEW ids, NEW g, NEW K
  PROVE  /\ Grown(q, Rearmed(q, ids), g, K)
         /\ \A i \in ids \cap DOMAIN q :
              q[i].st # "sent" => Rearmed(q, ids)[i].st = "pending"
<1> DEFINE r == Rearmed(q, ids)
<1>1. /\ DOMAIN r = 1..Len(q)
      /\ \A i \in 1..Len(q) : r[i] = IF i \in ids /\ q[i].st = "superseded"
                                     THEN [q[i] EXCEPT !.st = "pending"] ELSE q[i]
  BY DEF Rearmed
<1>2. ASSUME NEW i \in 1..Len(q) PROVE r[i] \in Notices
  <2>1. q[i] \in Notices
    OBVIOUS
  <2>2. [q[i] EXCEPT !.st = "pending"] \in Notices
    BY <2>1 DEF Notices
  <2> HIDE DEF r
  <2> QED
    BY <1>1, <2>1, <2>2
<1>3. r = [i \in 1..Len(q) |-> r[i]]
  BY DEF Rearmed
<1> HIDE DEF r
<1>4. r \in Seq(Notices) /\ Len(r) = Len(q)
  <2>1. r \in [1..Len(q) -> Notices]
    BY <1>2, <1>3
  <2> QED
    BY <1>1, <2>1
<1>5. Grown(q, r, g, K)
  BY <1>1, <1>4 DEF Grown
<1>6. ASSUME NEW i \in ids \cap DOMAIN q, q[i].st # "sent"
      PROVE  r[i].st = "pending"
  <2>1. q[i] \in Notices /\ i \in 1..Len(q)
    OBVIOUS
  <2> QED
    BY <1>1, <1>6, <2>1 DEF Notices
<1> QED
  BY <1>5, <1>6 DEF r

\* The notices about the operation are keyed by an earlier one.
Keyed(q) == \A i \in DOMAIN q : q[i].kind \in AboutOp => q[i].via[1] < i

LEMMA GrownMore ==
  ASSUME NEW q, NEW r, NEW g, NEW K, NEW L, K \subseteq L, Grown(q, r, g, K)
  PROVE  Grown(q, r, g, L)
BY DEF Grown

LEMMA GrownKeyed ==
  ASSUME NEW q \in Seq(Notices), NEW r, NEW g, NEW K, Grown(q, r, g, K), Keyed(q)
  PROVE  Keyed(r)
<1>1. r \in Seq(Notices) /\ Len(q) \in Nat /\ Len(r) \in Nat /\ DOMAIN q = 1..Len(q)
      /\ DOMAIN r = 1..Len(r)
  BY DEF Grown
<1>2. ASSUME NEW i \in 1..Len(q), r[i].kind \in AboutOp PROVE r[i].via[1] < i
  <2>1. q[i] \in Notices
    OBVIOUS
  <2>2. r[i].kind = q[i].kind /\ r[i].via = q[i].via
    BY <2>1 DEF Grown, Notices
  <2> QED
    BY <1>1, <1>2, <2>2 DEF Keyed
<1>3. ASSUME NEW i \in (Len(q) + 1)..Len(r), r[i].kind \in AboutOp PROVE r[i].via[1] < i
  BY <1>3 DEF Grown
<1> QED
  BY <1>1, <1>2, <1>3 DEF Keyed

\* What is pending or sent stays as it is.
LEMMA GrownKeeps ==
  ASSUME NEW q \in Seq(Notices), NEW r, NEW g, NEW K, Grown(q, r, g, K),
         NEW i \in 1..Len(q), q[i].st \in {"pending", "sent"}
  PROVE  i \in 1..Len(r) /\ r[i] = q[i]
<1>1. Len(q) \in Nat /\ Len(r) \in Nat /\ Len(q) <= Len(r)
  BY DEF Grown
<1>2. r[i] = q[i] \/ q[i].st = "superseded"
  BY DEF Grown
<1> QED
  BY <1>1, <1>2

\* The scheduled notice of the enrolment is pending or sent.
Told(q, g) == \E i \in Of(q, g, {"scheduled"}) : q[i].st \in {"pending", "sent"}

LEMMA ToldGrown ==
  ASSUME NEW q \in Seq(Notices), NEW r, NEW g, NEW K, Grown(q, r, g, K), Told(q, g)
  PROVE  Told(r, g)
<1>1. PICK i \in Of(q, g, {"scheduled"}) : q[i].st \in {"pending", "sent"}
  BY DEF Told
<1>2. i \in 1..Len(q)
  BY DEF Of
<1>3. i \in 1..Len(r) /\ r[i] = q[i]
  BY <1>1, <1>2, GrownKeeps
<1>4. DOMAIN r = 1..Len(r)
  BY DEF Grown
<1> QED
  BY <1>1, <1>3, <1>4 DEF Told, Of

\* A transition's key is new: its predecessor was the newest.
LEMMA TransitionFacts ==
  ASSUME NEW q \in Seq(Notices), NEW g \in 1..MaxChallenges, NEW kind \in AboutOp, Keyed(q)
  PROVE  /\ Grown(q, QueueTransition(q, g, kind), g, AboutOp)
         /\ kind = "scheduled" => Told(QueueTransition(q, g, kind), g)
<1> DEFINE n == Newest(Of(q, g, AboutOp))
           via == <<n, 0>>
           r == Queue(q, g, kind, via)
<1>0. Of(q, g, AboutOp) \in SUBSET DOMAIN q /\ kind \in Kinds
  BY DEF Of, Kinds
<1>1. n \in 0..Len(q) /\ \A j \in Of(q, g, AboutOp) : j <= n
  BY <1>0, NewestFacts
<1>2. via \in Int \X Nat /\ via[1] = n /\ n <= Len(q) /\ via[1] <= Len(q)
  BY <1>1
<1>3. ~\E i \in Of(q, g, {kind}) : q[i].via = via
  <2> SUFFICES ASSUME NEW i \in Of(q, g, {kind}), q[i].via = via PROVE FALSE
    OBVIOUS
  <2>1. i \in Of(q, g, AboutOp) /\ i \in DOMAIN q /\ q[i].kind \in AboutOp /\ i \in Nat
    BY DEF Of
  <2>2. q[i].via[1] < i /\ i <= n
    BY <1>1, <2>1 DEF Keyed
  <2> QED
    BY <1>1, <1>2, <2>1, <2>2
<1> HIDE DEF via, n
<1> HIDE DEF r
<1>a. /\ Grown(q, r, g, {kind})
      /\ \/ \E i \in Of(q, g, {kind}) : q[i].via = via /\ r = q
         \/ Len(q) + 1 \in Of(r, g, {kind}) /\ r[Len(q) + 1].st = "pending"
  BY <1>0, <1>2, QueueGrows DEF r
<1>4. /\ Grown(q, r, g, {kind}) /\ Len(q) + 1 \in Of(r, g, {kind})
      /\ r[Len(q) + 1].st = "pending"
  BY <1>3, <1>a
<1>5. Grown(q, r, g, AboutOp)
  BY <1>4, GrownMore
<1>6. kind = "scheduled" => Told(r, g)
  BY <1>4 DEF Told
<1>7. QueueTransition(q, g, kind) = r
  BY DEF QueueTransition, r, via, n
<1> QED
  BY <1>5, <1>6, <1>7

\* After queueUnsentActiveNotice the notice is pending or sent.
LEMMA QueueUnsentFacts ==
  ASSUME NEW q \in Seq(Notices), NEW g \in 1..MaxChallenges, NEW kind \in AboutOp
  PROVE  /\ Grown(q, QueueUnsent(q, g, kind), g, AboutOp)
         /\ kind = "scheduled" => Told(QueueUnsent(q, g, kind), g)
<1>1. CASE Notified(q, g, kind) \/ In(q, Of(q, g, {kind}), "pending") # {}
  <2>1. QueueUnsent(q, g, kind) = q
    BY <1>1 DEF QueueUnsent
  <2>2. \E i \in Of(q, g, {kind}) : q[i].st \in {"pending", "sent"}
    BY <1>1 DEF Notified, In
  <2> QED
    BY <2>1, <2>2, GrownSame DEF Told
<1>2. CASE ~(Notified(q, g, kind) \/ In(q, Of(q, g, {kind}), "pending") # {})
  <2> DEFINE r == Queue(q, g, kind, First)
             ids == {i \in Of(r, g, {kind}) : r[i].via = First}
             s == Rearmed(r, ids)
  <2>0. QueueUnsent(q, g, kind) = s
    BY <1>2 DEF QueueUnsent
  <2>1. First \in Int \X Nat /\ First[1] <= Len(q) /\ kind \in Kinds
    BY DEF First, Kinds
  <2>2. /\ Grown(q, r, g, {kind})
        /\ \/ \E i \in Of(q, g, {kind}) : q[i].via = First /\ r = q
           \/ Len(q) + 1 \in Of(r, g, {kind}) /\ r[Len(q) + 1].st = "pending"
              /\ r[Len(q) + 1].via = First
    <3> HIDE DEF s, ids
    <3>1. kind \in AboutOp => First[1] <= Len(q)
      BY <2>1
    <3>2. Grown(q, r, g, {kind})
      BY <2>1, <3>1, QueueGrows
    <3>3. CASE \E i \in Of(q, g, {kind}) : q[i].via = First
      BY <3>2, <3>3 DEF Queue
    <3>4. CASE ~\E i \in Of(q, g, {kind}) : q[i].via = First
      BY <2>1, <3>1, <3>2, <3>4, QueueGrows
    <3> QED
      BY <3>3, <3>4
  <2>3. \A i \in Of(q, g, {kind}) : q[i].st # "sent"
    BY <1>2 DEF Notified, In
  <2>4. PICK i \in ids : r[i].st # "sent"
    BY <2>2, <2>3
  <2>5. r \in Seq(Notices) /\ i \in DOMAIN r /\ r[i].gen = g /\ r[i].kind = kind
    BY <2>2 DEF Grown, Of
  <2> HIDE DEF r, ids
  <2>6. Grown(r, s, g, {kind}) /\ s[i].st = "pending"
    BY <2>4, <2>5, RearmedFacts
  <2>7. i \in DOMAIN s /\ s[i].gen = g /\ s[i].kind = kind
    <3>1. r[i] \in Notices /\ i \in 1..Len(r) /\ s \in Seq(Notices) /\ Len(r) <= Len(s)
          /\ Len(r) \in Nat /\ Len(s) \in Nat
      BY <2>5, <2>6 DEF Grown
    <3>2. s[i] = r[i] \/ s[i] = [r[i] EXCEPT !.st = "pending"]
      BY <2>6, <3>1 DEF Grown
    <3>3. s[i].gen = r[i].gen /\ s[i].kind = r[i].kind
      BY <3>1, <3>2 DEF Notices
    <3> HIDE DEF s
    <3>4. i \in DOMAIN s
      BY <3>1
    <3> QED
      BY <2>5, <3>3, <3>4
  <2> HIDE DEF s
  <2>8. Grown(q, s, g, {kind} \cup {kind})
    BY <2>2, <2>6, GrownTwice
  <2>9. Grown(q, s, g, AboutOp)
    BY <2>8, GrownMore
  <2>10. kind = "scheduled" => Told(s, g)
    BY <2>6, <2>7 DEF Told, Of
  <2> QED
    BY <2>0, <2>9, <2>10
<1> QED
  BY <1>1, <1>2

\* The first notice of a kind, where none about the operation was queued before.
LEMMA QueueFirst ==
  ASSUME NEW q \in Seq(Notices), NEW g \in 1..MaxChallenges, NEW kind \in AboutOp
  PROVE  /\ Grown(q, Queue(q, g, kind, First), g, AboutOp)
         /\ kind = "scheduled" /\ Of(q, g, AboutOp) = {} => Told(Queue(q, g, kind, First), g)
<1> DEFINE r == Queue(q, g, kind, First)
<1>1. First \in Int \X Nat /\ First[1] <= Len(q) /\ kind \in Kinds
  BY DEF First, Kinds
<1>2. /\ Grown(q, r, g, {kind})
      /\ \/ \E i \in Of(q, g, {kind}) : q[i].via = First /\ r = q
         \/ Len(q) + 1 \in Of(r, g, {kind}) /\ r[Len(q) + 1].st = "pending"
  BY <1>1, QueueGrows
<1> HIDE DEF r
<1>3. Grown(q, r, g, AboutOp)
  BY <1>2, GrownMore
<1>4. Of(q, g, {kind}) \subseteq Of(q, g, AboutOp)
  BY DEF Of
<1>5. kind = "scheduled" /\ Of(q, g, AboutOp) = {} => Told(r, g)
  BY <1>2, <1>4 DEF Told
<1> QED
  BY <1>3, <1>5 DEF r

LEMMA GrownStep ==
  ASSUME NEW q \in Seq(Notices), NEW r, NEW s, NEW g,
         Grown(q, r, g, AboutOp), Grown(r, s, g, AboutOp)
  PROVE  Grown(q, s, g, AboutOp)
<1>1. Grown(q, s, g, AboutOp \cup AboutOp)
  BY GrownTwice
<1> QED
  BY <1>1, GrownMore

\* recordSnapshot adds notices about the operation, and a recovery under way
\* is told after it.
LEMMA NoticedFacts ==
  ASSUME NEW v \in Shown, NEW o \in Ops, o = NoOp \/ o.state \in Active \cup Ended,
         NEW q \in Seq(Notices), Keyed(q), NEW g \in 1..MaxChallenges
  PROVE  /\ Grown(q, Noticed(v, o, q, g), g, AboutOp)
         /\ /\ StateFor(v, o) \in Active
            /\ o = NoOp => Of(q, g, AboutOp) = {}
            => Told(Noticed(v, o, q, g), g)
<1> DEFINE n == RowFor(v, o)
           s == n.state
           q1 == IF o # NoOp /\ o.state \in Active /\ s \in Active
                 THEN QueueUnsent(q, g, "scheduled") ELSE q
           q2 == IF o # NoOp /\ o.state = s /\ s \in Ended
                 THEN Rearmed(q1, Unnotified(q1, g, s)) ELSE q1
           q3 == IF o # NoOp /\ s \in Active /\ o.exec # n.exec
                 THEN QueueTransition(q2, g, "timing_changed") ELSE q2
           q4 == IF ~(o # NoOp) /\ s # "orphaned"
                 THEN Queue(q3, g, IF s \in Active THEN "scheduled" ELSE s, First) ELSE q3
           q5 == IF o # NoOp /\ o.state \in Ended /\ s \in Active
                 THEN QueueTransition(q4, g, "scheduled") ELSE q4
           q6 == IF o # NoOp /\ o.state # s /\ s \in Ended
                 THEN QueueTransition(q5, g, s) ELSE q5
           q7 == IF s = "pending" /\ v.time >= ReminderAt(n) /\ Notified(q6, g, "scheduled")
                 THEN QueueUnsent(q6, g, "reminder") ELSE q6
<1>0. Noticed(v, o, q, g) = q7
  BY DEF Noticed
<1>1. s = StateFor(v, o) /\ s \in Active \cup Ended /\ (s \in Active => s \notin Ended)
  BY RowFacts, StateFacts
<1>2. {"scheduled", "timing_changed", "reminder"} \subseteq AboutOp /\ Ended \subseteq AboutOp
  BY DEF AboutOp, Initiations
<1> HIDE DEF n, s
<1>3. Grown(q, q, g, AboutOp)
  BY GrownSame
<1>4. /\ q1 \in Seq(Notices) /\ Keyed(q1) /\ Grown(q, q1, g, AboutOp)
      /\ o # NoOp /\ o.state \in Active /\ s \in Active => Told(q1, g)
      /\ o = NoOp => q1 = q
  <2>1. Grown(q, q1, g, AboutOp)
    BY <1>2, <1>3, QueueUnsentFacts
  <2>2. o # NoOp /\ o.state \in Active /\ s \in Active => Told(q1, g)
    BY <1>2, QueueUnsentFacts
  <2>3. o = NoOp => q1 = q
    OBVIOUS
  <2> HIDE DEF q1
  <2> QED
    BY <2>1, <2>2, <2>3, GrownKeyed DEF Grown
<1> HIDE DEF q1
<1>5. /\ q2 \in Seq(Notices) /\ Keyed(q2) /\ Grown(q1, q2, g, AboutOp)
      /\ o = NoOp => q2 = q1
  <2>1. Grown(q1, q2, g, AboutOp)
    BY <1>4, GrownSame, RearmedFacts
  <2>2. o = NoOp => q2 = q1
    OBVIOUS
  <2> HIDE DEF q2
  <2> QED
    BY <1>4, <2>1, <2>2, GrownKeyed DEF Grown
<1> HIDE DEF q2
<1>6. /\ q3 \in Seq(Notices) /\ Keyed(q3) /\ Grown(q2, q3, g, AboutOp)
      /\ o = NoOp => q3 = q2
  <2>1. Grown(q2, q3, g, AboutOp)
    BY <1>2, <1>5, GrownSame, TransitionFacts
  <2>2. o = NoOp => q3 = q2
    OBVIOUS
  <2> HIDE DEF q3
  <2> QED
    BY <1>5, <2>1, <2>2, GrownKeyed DEF Grown
<1> HIDE DEF q3
<1>7. /\ q4 \in Seq(Notices) /\ Keyed(q4) /\ Grown(q3, q4, g, AboutOp)
      /\ o = NoOp /\ s \in Active /\ Of(q3, g, AboutOp) = {} => Told(q4, g)
  <2> DEFINE k == IF s \in Active THEN "scheduled" ELSE s
  <2>1. k \in AboutOp /\ k \in Kinds /\ (s \in Active => k = "scheduled")
    BY <1>1, <1>2 DEF Kinds
  <2>2. s \in Active => s # "orphaned"
    BY DEF Active
  <2> HIDE DEF k
  <2>5. /\ Grown(q3, Queue(q3, g, k, First), g, AboutOp)
        /\ k = "scheduled" /\ Of(q3, g, AboutOp) = {} => Told(Queue(q3, g, k, First), g)
    BY <1>6, <2>1, QueueFirst
  <2>6. q4 = IF o = NoOp /\ s # "orphaned" THEN Queue(q3, g, k, First) ELSE q3
    BY DEF k
  <2>7. Grown(q3, q4, g, AboutOp)
    BY <1>6, <2>5, <2>6, GrownSame
  <2>9. o = NoOp /\ s \in Active /\ Of(q3, g, AboutOp) = {} => Told(q4, g)
    BY <2>1, <2>2, <2>5, <2>6
  <2> HIDE DEF q4
  <2> QED
    BY <1>6, <2>7, <2>9, GrownKeyed DEF Grown
<1> HIDE DEF q4
<1>8. /\ q5 \in Seq(Notices) /\ Keyed(q5) /\ Grown(q4, q5, g, AboutOp)
      /\ o # NoOp /\ o.state \in Ended /\ s \in Active => Told(q5, g)
  <2>1. Grown(q4, q5, g, AboutOp)
    BY <1>2, <1>7, GrownSame, TransitionFacts
  <2>2. o # NoOp /\ o.state \in Ended /\ s \in Active => Told(q5, g)
    BY <1>2, <1>7, TransitionFacts
  <2> HIDE DEF q5
  <2> QED
    BY <1>7, <2>1, <2>2, GrownKeyed DEF Grown
<1> HIDE DEF q5
<1>9. /\ q6 \in Seq(Notices) /\ Keyed(q6) /\ Grown(q5, q6, g, AboutOp)
  <2>1. Grown(q5, q6, g, AboutOp)
    BY <1>2, <1>8, GrownSame, TransitionFacts
  <2> HIDE DEF q6
  <2> QED
    BY <1>8, <2>1, GrownKeyed DEF Grown
<1> HIDE DEF q6
<1>10. Grown(q6, q7, g, AboutOp)
  BY <1>2, <1>9, GrownSame, QueueUnsentFacts
<1> HIDE DEF q7
<1>11. Grown(q, q7, g, AboutOp)
  <2>1. Grown(q, q2, g, AboutOp)
    BY <1>4, <1>5, GrownStep
  <2>2. Grown(q, q3, g, AboutOp)
    BY <1>6, <2>1, GrownStep
  <2>3. Grown(q, q4, g, AboutOp)
    BY <1>7, <2>2, GrownStep
  <2>4. Grown(q, q5, g, AboutOp)
    BY <1>8, <2>3, GrownStep
  <2>5. Grown(q, q6, g, AboutOp)
    BY <1>9, <2>4, GrownStep
  <2> QED
    BY <1>10, <2>5, GrownStep
<1>12. ASSUME s \in Active, o = NoOp => Of(q, g, AboutOp) = {}
       PROVE  Told(q7, g)
  <2>1. CASE o # NoOp /\ o.state \in Active
    BY <1>4, <1>5, <1>6, <1>7, <1>8, <1>9, <1>10, <1>12, <2>1, ToldGrown
  <2>2. CASE o # NoOp /\ o.state \in Ended
    BY <1>8, <1>9, <1>10, <1>12, <2>2, ToldGrown
  <2>3. CASE o = NoOp
    BY <1>4, <1>5, <1>6, <1>7, <1>8, <1>9, <1>10, <1>12, <2>3, ToldGrown
  <2> QED
    BY <2>1, <2>2, <2>3
<1> QED
  BY <1>0, <1>1, <1>11, <1>12

-----------------------------------------------------------------------------
(* RecoveryInv is inductive.                                               *)

LEMMA RecoveryInit == Init => RecoveryInv
<1> SUFFICES ASSUME Init PROVE RecoveryInv
  OBVIOUS
<1>1. ChainOK
  <2>1. PICK e \in {"none"} \cup (Events \cap {"schedule"}) : branch = [b \in {1, 2} |-> <<e>>]
    BY DEF Init
  <2>2. <<e>> \in Seq({"none", "schedule", "canceled", "executed", "removed"}) /\ Len(<<e>>) = 1
    OBVIOUS
  <2>3. live \in {1, 2} /\ switches \in 0..MaxSwitches
    BY RecoveryAssumption DEF Init
  <2> QED
    BY <2>1, <2>2, <2>3, RecoveryAssumption DEF ChainOK
<1>2. EnrolledOK
  <2>1. NoSub \in Subs /\ ~NoSub.en /\ NoSub.gen = 0
    BY RecoveryAssumption DEF NoSub, Subs, Blocks
  <2>2. Cardinality({}) = 0
    BY FS_EmptySet
  <2>3. NoCall \in [ch : 0..MaxChallenges, head : Blocks]
    BY RecoveryAssumption DEF NoCall, Blocks
  <2> QED
    BY <2>1, <2>2, <2>3, NoOpType, RecoveryAssumption DEF Init, EnrolledOK
<1>3. TickOK
  BY RecoveryAssumption DEF Init, TickOK, Ticks, Idle, Blocks, Awaiting
<1>4. NoticesOK /\ FarewellOK /\ AnnouncedOK
  BY DEF Init, NoticesOK, FarewellOK, AnnouncedOK, Of
<1> QED
  BY <1>1, <1>2, <1>3, <1>4 DEF RecoveryInv

LEMMA InvKeyed ==
  ASSUME NoticesOK
  PROVE  outbox \in Seq(Notices) /\ Keyed(outbox)
BY DEF NoticesOK, Keyed

\* Notices that keep their enrolment, kind and key.
Alike(q, r) ==
  /\ r \in Seq(Notices) /\ Len(r) = Len(q)
  /\ \A i \in 1..Len(q) : r[i].gen = q[i].gen /\ r[i].kind = q[i].kind /\ r[i].via = q[i].via

LEMMA AlikeOf ==
  ASSUME NEW q \in Seq(Notices), NEW r, Alike(q, r), NEW g, NEW kinds
  PROVE  Of(r, g, kinds) = Of(q, g, kinds)
<1>1. DOMAIN r = 1..Len(q) /\ DOMAIN q = 1..Len(q)
  BY DEF Alike
<1> QED
  BY <1>1 DEF Of, Alike

\* What an enrolment's notices of other kinds add up to.
LEMMA GrownOf ==
  ASSUME NEW q \in Seq(Notices), NEW r, NEW g, NEW K, Grown(q, r, g, K),
         NEW h, NEW kinds, h # g \/ K \cap kinds = {}
  PROVE  Of(r, h, kinds) = Of(q, h, kinds)
<1>1. DOMAIN r = 1..Len(r) /\ DOMAIN q = 1..Len(q) /\ Len(q) \in Nat /\ Len(r) \in Nat
      /\ Len(q) <= Len(r)
  BY DEF Grown
<1>2. ASSUME NEW i \in 1..Len(q) PROVE r[i].gen = q[i].gen /\ r[i].kind = q[i].kind
  <2>1. q[i] \in Notices
    OBVIOUS
  <2> QED
    BY <2>1 DEF Grown, Notices
<1>3. ASSUME NEW i \in (Len(q) + 1)..Len(r) PROVE ~(r[i].gen = h /\ r[i].kind \in kinds)
  BY DEF Grown
<1> QED
  BY <1>1, <1>2, <1>3 DEF Of

\* What the outbox holds for the enrolments up to g.
Fine(n) == n.kind \in AboutOp /\ (n.st = "sent" \/ n.doing = "mail") => n.mailed
Kept(q, g) ==
  /\ q \in Seq(Notices)
  /\ \A i \in DOMAIN q :
       /\ q[i].gen <= g /\ (q[i].kind \in AboutOp => q[i].via[1] < i)
       /\ Fine(q[i])

LEMMA KeptGrown ==
  ASSUME NEW q, NEW r, NEW f \in Nat, NEW g \in Nat, f <= g, NEW K, Kept(q, f), Grown(q, r, g, K)
  PROVE  Kept(r, g)
<1>0. /\ q \in Seq(Notices) /\ r \in Seq(Notices) /\ DOMAIN r = 1..Len(r)
      /\ DOMAIN q = 1..Len(q) /\ Len(q) \in Nat /\ Len(r) \in Nat
  BY DEF Grown, Kept
<1>1. ASSUME NEW i \in 1..Len(q)
      PROVE  r[i].gen <= g /\ (r[i].kind \in AboutOp => r[i].via[1] < i) /\ Fine(r[i])
  <2>1. q[i] \in Notices /\ i \in DOMAIN q
    BY <1>0
  <2>2. /\ r[i].gen = q[i].gen /\ r[i].kind = q[i].kind
        /\ r[i].via = q[i].via /\ r[i].doing = q[i].doing
        /\ r[i].mailed = q[i].mailed
        /\ r[i].st = "sent" => q[i].st = "sent"
    <3>1. r[i] = q[i] \/ r[i] = [q[i] EXCEPT !.st = "pending"]
      BY DEF Grown
    <3> QED
      BY <2>1, <3>1 DEF Notices
  <2>3. q[i].gen <= f /\ q[i].gen \in Nat
    BY <2>1, RecoveryAssumption DEF Kept, Notices
  <2> QED
    BY <2>1, <2>2, <2>3 DEF Kept, Fine
<1>2. ASSUME NEW i \in (Len(q) + 1)..Len(r)
      PROVE  r[i].gen <= g /\ (r[i].kind \in AboutOp => r[i].via[1] < i) /\ Fine(r[i])
  BY DEF Grown, Fine
<1>3. \A i \in 1..Len(r) : i \in 1..Len(q) \/ i \in (Len(q) + 1)..Len(r)
  BY <1>0
<1> QED
  BY <1>0, <1>1, <1>2, <1>3 DEF Kept

LEMMA KeptAlike ==
  ASSUME NEW q, NEW r, NEW g, Kept(q, g), Alike(q, r), \A i \in 1..Len(q) : Fine(r[i])
  PROVE  Kept(r, g)
<1>1. q \in Seq(Notices) /\ r \in Seq(Notices) /\ DOMAIN q = 1..Len(q) /\ DOMAIN r = 1..Len(q)
  BY DEF Alike, Kept
<1> QED
  BY <1>1 DEF Alike, Kept

LEMMA InvKept ==
  ASSUME RecoveryInv
  PROVE  Kept(outbox, sub.gen) /\ outbox \in Seq(Notices) /\ sub.gen \in 0..MaxChallenges
BY DEF RecoveryInv, NoticesOK, EnrolledOK, Subs, Kept, Fine

\* What the writes of an update do to the tables.
TablesMove ==
  /\ sub' \in Subs /\ sub'.en = sub.en /\ sub'.gen = sub.gen /\ sub'.anchor = sub.anchor
  /\ op' \in Ops
  /\ \/ outbox' = outbox /\ op' = op
     \/ sub.en /\ Grown(outbox, outbox', sub.gen, {"reorg"}) /\ op' = op
     \/ /\ sub.en /\ Grown(outbox, outbox', sub.gen, AboutOp \cup {"reorg"})
        /\ op'.state \in Active \cup Ended

LEMMA ChainSame ==
  ASSUME ChainOK, UNCHANGED chainVars
  PROVE  ChainOK'
BY DEF ChainOK, chainVars

LEMMA UpdateStep ==
  ASSUME RecoveryInv, UNCHANGED <<chainVars, proofs>>, TablesMove, TickOK'
  PROVE  RecoveryInv'
<1>0. /\ ChainOK /\ EnrolledOK /\ NoticesOK /\ FarewellOK /\ AnnouncedOK
      /\ outbox \in Seq(Notices)
  BY DEF RecoveryInv, NoticesOK
<1>1. ChainOK'
  BY <1>0, ChainSame
<1>2. EnrolledOK'
  BY <1>0 DEF EnrolledOK, TablesMove, proofs
<1>3. CASE outbox' = outbox /\ op' = op
  <2>1. NoticesOK' /\ FarewellOK' /\ AnnouncedOK'
    BY <1>0, <1>3 DEF NoticesOK, FarewellOK, AnnouncedOK, TablesMove, Of
  <2> QED
    BY <1>1, <1>2, <2>1 DEF RecoveryInv
<1>4. ASSUME NEW K, sub.en, Grown(outbox, outbox', sub.gen, K), K \subseteq AboutOp \cup {"reorg"},
             (op' = op /\ K = {"reorg"}) \/ op'.state \in Active \cup Ended
      PROVE  RecoveryInv'
  <2>1. NoticesOK'
    <3>1. sub.gen \in Nat /\ sub'.gen = sub.gen
      BY <1>0 DEF TablesMove, EnrolledOK, Subs
    <3>2. Kept(outbox, sub.gen)
      BY <1>0 DEF NoticesOK, Kept, Fine
    <3>3. Kept(outbox', sub.gen)
      BY <1>4, <3>1, <3>2, KeptGrown
    <3> QED
      BY <3>1, <3>3 DEF NoticesOK, Kept, Fine
  <2>2. \A g : Of(outbox', g, {"disabled"}) = Of(outbox, g, {"disabled"})
    <3>1. K \cap {"disabled"} = {}
      BY <1>4 DEF AboutOp, Initiations, Ended
    <3> QED
      BY <1>0, <1>4, <3>1, GrownOf
  <2>3. FarewellOK'
    BY <1>0, <2>2 DEF FarewellOK, TablesMove
  <2>4. AnnouncedOK'
    <3>1. CASE op' = op /\ K = {"reorg"}
      <4>1. K \cap AboutOp = {}
        BY <3>1 DEF AboutOp, Initiations, Ended
      <4>2. Of(outbox', sub.gen, AboutOp) = Of(outbox, sub.gen, AboutOp)
        BY <1>0, <1>4, <4>1, GrownOf
      <4> QED
        BY <1>0, <3>1, <4>2 DEF AnnouncedOK, TablesMove
    <3>2. CASE op'.state \in Active \cup Ended
      BY <3>2 DEF AnnouncedOK, NoOp, Active, Ended
    <3> QED
      BY <1>4, <3>1, <3>2
  <2> QED
    BY <1>1, <1>2, <2>1, <2>3, <2>4 DEF RecoveryInv
<1> QED
  BY <1>3, <1>4 DEF TablesMove

\* The transaction of persistObservation.
LEMMA PersistFacts ==
  ASSUME RecoveryInv, NEW m \in Ticks, m.head \in Block, NEW extra \in BOOLEAN,
         NEW marked \in BOOLEAN, Persist(m, extra, marked)
  PROVE  TablesMove
<1> DEFINE v == ViewAt(m.head)
           q == IF m.reorg THEN Queue(outbox, sub.gen, "reorg", m.head) ELSE outbox
<1>0. /\ sub \in Subs /\ op \in Ops /\ (op = NoOp \/ op.state \in Active \cup Ended)
      /\ outbox \in Seq(Notices) /\ Keyed(outbox) /\ v \in Shown
  BY InvKeyed, ViewType DEF RecoveryInv, EnrolledOK
<1>1. CASE ~Fresh(m)
  BY <1>0, <1>1 DEF Persist, TablesMove, tables
<1>2. CASE Fresh(m)
  <2>0. sub.en /\ sub.gen \in 1..MaxChallenges
    BY <1>0, <1>2 DEF Fresh, RecoveryInv, EnrolledOK, Subs
  <2>1. /\ sub' = [sub EXCEPT !.rec = sub.rec \/ marked \/ Provisional(m, extra)]
        /\ IF Recorded(v, op, extra)
           THEN op' = RowFor(v, op) /\ outbox' = Noticed(v, op, q, sub.gen)
           ELSE op' = op /\ outbox' = q
    BY <1>2 DEF Persist
  <2>2. Grown(outbox, q, sub.gen, {"reorg"})
    <3>1. m.head \in Int \X Nat /\ "reorg" \in Kinds /\ "reorg" \notin AboutOp
      BY BlockFacts DEF Kinds, AboutOp, Initiations, Ended
    <3>2. Grown(outbox, Queue(outbox, sub.gen, "reorg", m.head), sub.gen, {"reorg"})
      BY <1>0, <2>0, <3>1, QueueGrows
    <3> QED
      BY <1>0, <3>2, GrownSame
  <2> HIDE DEF q, v
  <2>a. q \in Seq(Notices)
    BY <2>2 DEF Grown
  <2>3. q \in Seq(Notices) /\ Keyed(q)
    BY <1>0, <2>2, <2>a, GrownKeyed
  <2>4. (sub.rec \/ marked \/ Provisional(m, extra)) \in BOOLEAN
    OBVIOUS
  <2>5. sub' \in Subs /\ sub'.en = sub.en /\ sub'.gen = sub.gen /\ sub'.anchor = sub.anchor
    BY <1>0, <2>1, <2>4 DEF Subs
  <2>6. CASE Recorded(v, op, extra)
    <3>1. Grown(q, outbox', sub.gen, AboutOp)
      BY <1>0, <2>0, <2>1, <2>3, <2>6, NoticedFacts
    <3>2. Grown(outbox, outbox', sub.gen, {"reorg"} \cup AboutOp)
      BY <1>0, <2>2, <3>1, GrownTwice
    <3>3. Grown(outbox, outbox', sub.gen, AboutOp \cup {"reorg"})
      BY <3>2, GrownMore
    <3>4. op' \in Ops /\ op'.state \in Active \cup Ended
      BY <1>0, <2>1, <2>6, RowFacts, StateFacts
    <3> QED
      BY <2>0, <2>5, <3>3, <3>4 DEF TablesMove
  <2>7. CASE ~Recorded(v, op, extra)
    BY <1>0, <2>0, <2>1, <2>2, <2>5, <2>7 DEF TablesMove
  <2> QED
    BY <2>6, <2>7
<1> QED
  BY <1>1, <1>2

LEMMA TablesStay ==
  ASSUME RecoveryInv, UNCHANGED tables
  PROVE  TablesMove
BY DEF RecoveryInv, EnrolledOK, TablesMove, tables

LEMMA LowerFacts ==
  ASSUME NEW a \in Int, NEW b \in Int
  PROVE  Lower(a, b) \in {a, b} /\ Lower(a, b) <= a /\ Lower(a, b) <= b
BY DEF Lower

\* What an update carries across its awaits.
LEMMA TickFacts ==
  ASSUME RecoveryInv, mon.pc \in Awaiting \ {"head"}
  PROVE  /\ mon \in Ticks /\ mon.head \in Block /\ mon.anchor \in 1..MaxHeight
         /\ mon.cursor \in 0..MaxHeight /\ mon.head[1] \in 1..MaxHeight
         /\ End(mon) \in 1..mon.head[1] /\ End(mon) \in 1..MaxHeight
<1>1. /\ mon \in Ticks /\ mon.head \in Block /\ mon.anchor \in 1..MaxHeight
      /\ mon.cursor \in 0..MaxHeight /\ mon.head[1] \in 1..MaxHeight
  BY BlockFacts, RecoveryAssumption DEF RecoveryInv, TickOK, Ticks
<1>2. End(mon) \in 1..mon.head[1]
  BY <1>1, LowerFacts, RecoveryAssumption DEF End
<1>3. End(mon) \in 1..MaxHeight
  BY <1>1, <1>2, RecoveryAssumption
<1> QED
  BY <1>1, <1>2, <1>3

LEMMA DeliveringType == Delivering \in Ticks /\ Delivering.pc = "deliver" /\ Idle \in Ticks
                        /\ "deliver" \notin Awaiting
<1>1. Idle \in Ticks
  <2>1. 0 \in 0..MaxChallenges /\ 0 \in 0..MaxHeight /\ 0 \in Nat
    BY RecoveryAssumption
  <2>2. None \in Blocks
    BY DEF Blocks
  <2> QED
    BY <2>1, <2>2 DEF Idle, Ticks
<1>2. Delivering = [Idle EXCEPT !.pc = "deliver"]
  BY DEF Delivering
<1>3. Delivering \in Ticks /\ Delivering.pc = "deliver"
  BY <1>1, <1>2 DEF Ticks
<1> QED
  BY <1>1, <1>3 DEF Awaiting

LEMMA StartStep ==
  ASSUME RecoveryInv, TickStart \/ TickEnds
  PROVE  TablesMove /\ RecoveryInv'
<1>1. UNCHANGED <<chainVars, proofs, tables>>
  BY DEF TickStart, TickEnds
<1>2. TickOK'
  <2>1. CASE mon' = Delivering \/ mon' = Idle
    <3>1. Idle.pc = "idle" /\ "idle" \notin Awaiting
      BY DEF Idle, Awaiting
    <3> QED
      BY <2>1, <3>1, DeliveringType DEF TickOK
  <2>2. CASE sub.en /\ mon' = [Idle EXCEPT !.pc = "head", !.gen = sub.gen, !.cursor = sub.cursor,
                                           !.hash = sub.hash, !.anchor = sub.anchor,
                                           !.needs = sub.rec]
    <3>1. sub \in Subs /\ sub.anchor >= 1
      BY <2>2 DEF RecoveryInv, EnrolledOK
    <3>2. mon' \in Ticks /\ mon'.pc = "head" /\ mon'.anchor = sub.anchor
      BY <2>2, <3>1, DeliveringType DEF Ticks, Subs, Awaiting, Idle
    <3> QED
      BY <3>1, <3>2 DEF TickOK
  <2> QED
    BY <2>1, <2>2 DEF TickStart, TickEnds
<1> QED
  BY <1>1, <1>2, TablesStay, UpdateStep

\* A step of the update that only learns something.
LEMMA LearnStep ==
  ASSUME RecoveryInv, HeadAnswered \/ LogsAnswered \/ EndAnswered
  PROVE  TablesMove /\ RecoveryInv'
<1>1. UNCHANGED <<chainVars, proofs, tables>> /\ mon.pc \in Awaiting /\ mon.anchor >= 1 /\ mon \in Ticks
      /\ ChainOK
  BY DEF HeadAnswered, LogsAnswered, EndAnswered, RecoveryInv, TickOK, Awaiting
<1>2. Tip \in Block /\ Tip \in Blocks
  BY <1>1, TipFacts, BlockFacts
<1>3. CASE HeadAnswered
  <2> DEFINE b == sub.en /\ Unnotified(outbox, sub.gen, op.state) # {}
  <2>1. mon' = [mon EXCEPT !.pc = "snapshot", !.head = Tip, !.retry = b]
    BY <1>3 DEF HeadAnswered
  <2>2. b \in BOOLEAN
    BY DEF RecoveryInv, EnrolledOK, Subs
  <2> HIDE DEF b
  <2>3. mon' \in Ticks /\ mon'.head = Tip /\ mon'.anchor = mon.anchor
    BY <1>1, <1>2, <2>1, <2>2 DEF Ticks, Awaiting
  <2>4. TickOK'
    BY <1>1, <1>2, <2>3 DEF TickOK
  <2> QED
    BY <1>1, <2>4, TablesStay, UpdateStep
<1>4. CASE LogsAnswered
  <2>0. mon.pc \in Awaiting \ {"head"} /\ mon.head \in Block
    BY <1>4, TickFacts DEF LogsAnswered, Awaiting
  <2>1. PICK n \in Nat : mon' = [mon EXCEPT !.pc = "end", !.log = n]
    BY <1>2, <1>4, AtFacts DEF LogsAnswered
  <2>2. mon' \in Ticks /\ mon'.head = mon.head /\ mon'.anchor = mon.anchor
    BY <1>1, <2>1 DEF Ticks, Awaiting
  <2>3. TickOK'
    BY <1>1, <2>0, <2>2 DEF TickOK
  <2> QED
    BY <1>1, <2>3, TablesStay, UpdateStep
<1>5. CASE EndAnswered
  <2>0. mon.pc \in Awaiting \ {"head"} /\ mon.head \in Block /\ End(mon) \in 1..Height
    BY <1>1, <1>5, TickFacts, TipFacts DEF EndAnswered, Awaiting
  <2>1. mon' = [mon EXCEPT !.pc = "assert", !.endHash = Hash(live, End(mon))]
    BY <1>5 DEF EndAnswered
  <2>2. Hash(live, End(mon)) \in Blocks
    BY <1>1, <2>0, TipFacts, BlockFacts
  <2>3. mon' \in Ticks /\ mon'.head = mon.head /\ mon'.anchor = mon.anchor
    BY <1>1, <2>1, <2>2 DEF Ticks, Awaiting
  <2>4. TickOK'
    BY <1>1, <2>0, <2>3 DEF TickOK
  <2> QED
    BY <1>1, <2>4, TablesStay, UpdateStep
<1> QED
  BY <1>3, <1>4, <1>5

LEMMA TickFailsStep ==
  ASSUME RecoveryInv, TickFails
  PROVE  TablesMove /\ RecoveryInv'
<1>1. UNCHANGED <<chainVars, proofs>> /\ op' = op /\ outbox' = outbox /\ mon' = Delivering
      /\ sub' \in {sub, [sub EXCEPT !.status = "degraded"]}
  BY DEF TickFails
<1>2. sub \in Subs /\ op \in Ops
  BY DEF RecoveryInv, EnrolledOK
<1>3. sub' \in Subs /\ sub'.en = sub.en /\ sub'.gen = sub.gen /\ sub'.anchor = sub.anchor
  BY <1>1, <1>2 DEF Subs
<1>4. TablesMove
  BY <1>1, <1>2, <1>3 DEF TablesMove
<1>5. TickOK'
  BY <1>1, DeliveringType DEF TickOK
<1> QED
  BY <1>1, <1>4, <1>5, UpdateStep

LEMMA ObservedStep ==
  ASSUME RecoveryInv, SnapshotAnswered \/ ReconcileAnswered
  PROVE  TablesMove /\ RecoveryInv'
<1>1. /\ UNCHANGED <<chainVars, proofs>> /\ mon.pc \in Awaiting \ {"head"}
  BY DEF SnapshotAnswered, ReconcileAnswered, Awaiting
<1>2. mon \in Ticks /\ mon.head \in Block /\ mon.anchor \in 1..MaxHeight /\ mon.retry \in BOOLEAN
  BY <1>1, TickFacts DEF Ticks
<1>3. TablesMove
  BY <1>2, PersistFacts DEF SnapshotAnswered, ReconcileAnswered
<1>4. TickOK'
  <2>1. PICK b \in BOOLEAN, pc \in {"check", "logs"} : mon' = [mon EXCEPT !.pc = pc, !.needs = b]
    <3>1. CASE SnapshotAnswered
      <4> DEFINE b == mon.needs \/ (Fresh(mon) /\ Provisional(mon, mon.retry))
      <4>1. mon' = [mon EXCEPT !.pc = "check", !.needs = b]
        BY <3>1 DEF SnapshotAnswered
      <4>2. b \in BOOLEAN
        OBVIOUS
      <4> HIDE DEF b
      <4> QED
        BY <4>1, <4>2
    <3>2. CASE ReconcileAnswered
      <4>1. mon' = [mon EXCEPT !.pc = "logs"]
        BY <3>2 DEF ReconcileAnswered
      <4>2. mon.needs \in BOOLEAN /\ mon' = [mon EXCEPT !.pc = "logs", !.needs = mon.needs]
        BY <1>2, <4>1 DEF Ticks
      <4> QED
        BY <4>2
    <3> QED
      BY <3>1, <3>2
  <2>2. mon' \in Ticks /\ mon'.head = mon.head /\ mon'.anchor = mon.anchor
    BY <1>2, <2>1 DEF Ticks, Awaiting
  <2> QED
    BY <1>2, <2>2 DEF TickOK
<1> QED
  BY <1>1, <1>3, <1>4, UpdateStep

LEMMA AfterCheckFacts ==
  ASSUME RecoveryInv, NEW m \in Ticks, m.head \in Block, m.anchor \in 1..MaxHeight,
         NEW marked \in BOOLEAN, AfterCheck(m, marked)
  PROVE  TablesMove /\ TickOK'
<1>1. TickOK'
  <2>1. PICK b \in BOOLEAN, pc \in {"reconcile", "logs"} : mon' = [m EXCEPT !.rec = b, !.pc = pc]
    <3> DEFINE b == m.needs /\ op # NoOp
    <3>1. mon' = [m EXCEPT !.rec = b, !.pc = IF b THEN "reconcile" ELSE "logs"]
      BY DEF AfterCheck
    <3>2. b \in BOOLEAN
      OBVIOUS
    <3> HIDE DEF b
    <3> QED
      BY <3>1, <3>2
  <2>2. mon' \in Ticks /\ mon'.head = m.head /\ mon'.anchor = m.anchor
    BY <2>1 DEF Ticks, Awaiting
  <2> QED
    BY <2>2 DEF TickOK
<1>2. TablesMove
  <2>1. CASE Persist(m, m.retry, marked)
    <3>1. m.retry \in BOOLEAN
      BY DEF Ticks
    <3> QED
      BY <2>1, <3>1, PersistFacts
  <2>2. CASE sub' = [sub EXCEPT !.rec = sub.rec \/ marked] /\ UNCHANGED <<op, outbox>>
    <3>1. sub \in Subs /\ op \in Ops
      BY DEF RecoveryInv, EnrolledOK
    <3>2. sub' \in Subs /\ sub'.en = sub.en /\ sub'.gen = sub.gen /\ sub'.anchor = sub.anchor
      BY <2>2, <3>1 DEF Subs
    <3> QED
      BY <2>2, <3>1, <3>2 DEF TablesMove
  <2> QED
    BY <2>1, <2>2 DEF AfterCheck
<1> QED
  BY <1>1, <1>2

LEMMA CheckedStep ==
  ASSUME RecoveryInv, CursorHolds \/ CursorGone
  PROVE  TablesMove /\ RecoveryInv'
<1>1. UNCHANGED <<chainVars, proofs>> /\ mon.pc \in Awaiting \ {"head"}
  BY DEF CursorHolds, CursorGone, Awaiting
<1>2. mon \in Ticks /\ mon.head \in Block /\ mon.anchor \in 1..MaxHeight /\ mon.head[1] \in 1..MaxHeight
  BY <1>1, TickFacts
<1>3. CASE CursorHolds
  BY <1>1, <1>2, <1>3, AfterCheckFacts, UpdateStep DEF CursorHolds
<1>4. CASE CursorGone /\ Fresh(mon)
  <2> DEFINE n == Lower(mon.anchor - 1, mon.head[1] - 1)
             m == [mon EXCEPT !.reorg = TRUE, !.needs = TRUE, !.cursor = n]
  <2>1. AfterCheck(m, TRUE)
    BY <1>4 DEF CursorGone
  <2>2. n \in 0..MaxHeight
    BY <1>2, LowerFacts, RecoveryAssumption
  <2> HIDE DEF n
  <2>3. m \in Ticks /\ m.head = mon.head /\ m.anchor = mon.anchor
    BY <1>2, <2>2 DEF Ticks
  <2> HIDE DEF m
  <2> QED
    BY <1>1, <1>2, <2>1, <2>3, AfterCheckFacts, UpdateStep
<1>5. CASE CursorGone /\ ~Fresh(mon)
  <2>1. mon' = Delivering /\ UNCHANGED tables
    BY <1>5 DEF CursorGone
  <2>2. TickOK'
    BY <2>1, DeliveringType DEF TickOK
  <2> QED
    BY <1>1, <2>1, <2>2, TablesStay, UpdateStep
<1> QED
  BY <1>3, <1>4, <1>5

\* The final transaction of an update: the row it leaves and the notices it queues.
LEMMA CommitFacts ==
  ASSUME RecoveryInv, CommitUpdate, Fresh(mon)
  PROVE  /\ sub.en /\ sub' \in Subs /\ sub'.en = sub.en /\ sub'.gen = sub.gen
         /\ sub'.anchor = sub.anchor
         /\ op' \in Ops
         /\ op'.state \in Active \cup Ended \/ (op' = op /\ outbox' = outbox)
         /\ Grown(outbox, outbox', sub.gen, AboutOp)
         /\ op'.state \in Active => Told(outbox', sub.gen)
<1> DEFINE m == mon
           v == ViewAt(m.head)
           extra == m.retry \/ m.rec
           o1 == IF Recorded(v, op, extra) THEN RowFor(v, op) ELSE op
           q1 == IF Recorded(v, op, extra) THEN Noticed(v, op, outbox, sub.gen) ELSE outbox
           logs == m.log > 0 /\ v.at > 0
           s == StateFor(v, o1)
           kind == IF s \in Active THEN "scheduled" ELSE s
<1>1. mon.pc \in Awaiting \ {"head"}
  BY DEF CommitUpdate, Awaiting
<1>2. /\ mon \in Ticks /\ mon.head \in Block /\ End(mon) \in 0..MaxHeight
  BY <1>1, TickFacts
<1>3. /\ sub \in Subs /\ op \in Ops /\ (op = NoOp \/ op.state \in Active \cup Ended)
      /\ outbox \in Seq(Notices) /\ Keyed(outbox) /\ v \in Shown
  BY <1>2, InvKeyed, ViewType DEF RecoveryInv, EnrolledOK
<1>4. sub.en /\ sub.gen \in 1..MaxChallenges
  BY <1>3 DEF Fresh, RecoveryInv, EnrolledOK, Subs
<1>5. sub' \in Subs /\ sub'.en = sub.en /\ sub'.gen = sub.gen /\ sub'.anchor = sub.anchor
  <2>1. PICK st \in {"active", "catching_up"}, b \in BOOLEAN :
           sub' = [sub EXCEPT !.status = st, !.cursor = End(mon), !.hash = mon.endHash, !.rec = b]
    <3> DEFINE b == ~Covers(m) /\ (sub.rec \/ (logs /\ s \in Ended))
    <3>1. sub' = [sub EXCEPT !.status = IF Covers(m) THEN "active" ELSE "catching_up",
                             !.cursor = End(mon), !.hash = mon.endHash, !.rec = b]
      BY DEF CommitUpdate
    <3>2. b \in BOOLEAN
      OBVIOUS
    <3> HIDE DEF b
    <3> QED
      BY <3>1, <3>2
  <2>2. mon.endHash \in Blocks
    BY <1>2 DEF Ticks
  <2> QED
    BY <1>2, <1>3, <2>1, <2>2 DEF Subs
<1>6. /\ op' = IF logs THEN Logged(m, v, o1) ELSE o1
      /\ outbox' = IF logs /\ o1 = NoOp THEN Queue(q1, sub.gen, kind, First) ELSE q1
  BY DEF CommitUpdate
<1>7. /\ o1 \in Ops /\ (o1 = NoOp \/ o1.state \in Active \cup Ended)
      /\ Grown(outbox, q1, sub.gen, AboutOp)
      /\ o1.state \in Active => Told(q1, sub.gen)
  <2>1. CASE Recorded(v, op, extra)
    <3>1. o1 = RowFor(v, op) /\ q1 = Noticed(v, op, outbox, sub.gen)
      BY <2>1
    <3>2. op = NoOp => Of(outbox, sub.gen, AboutOp) = {}
      BY DEF RecoveryInv, AnnouncedOK
    <3> HIDE DEF o1, q1, v
    <3>3. /\ o1 \in Ops /\ o1.state = StateFor(v, op) /\ o1.state \in Active \cup Ended
      BY <1>3, <3>1, RowFacts, StateFacts
    <3>4. /\ Grown(outbox, q1, sub.gen, AboutOp)
          /\ o1.state \in Active => Told(q1, sub.gen)
      BY <1>3, <1>4, <3>1, <3>2, <3>3, NoticedFacts
    <3> QED
      BY <3>3, <3>4
  <2>2. CASE ~Recorded(v, op, extra)
    <3>1. o1 = op /\ q1 = outbox
      BY <2>2
    <3>2. op.state \notin Active
      BY <1>3, <2>2 DEF Recorded, NoOp, Active
    <3> HIDE DEF o1, q1
    <3> QED
      BY <1>3, <3>1, <3>2, GrownSame
  <2> QED
    BY <2>1, <2>2
<1> HIDE DEF q1
<1>8. CASE ~logs
  <2>1. op' = o1 /\ outbox' = q1
    BY <1>6, <1>8
  <2>2. o1.state \in Active \cup Ended \/ (op' = op /\ outbox' = outbox)
    BY <1>3, <2>1, <1>7, RowFacts DEF q1
  <2> QED
    BY <1>4, <1>5, <1>7, <2>1, <2>2
<1>9. CASE logs
  <2> HIDE DEF o1, v
  <2>1. s \in Active \cup Ended /\ (s \in Active => s \notin Ended)
    BY <1>3, StateFacts
  <2>2. op' = [state |-> s, exec |-> m.log + Delay, exp |-> o1.exp]
    BY <1>6, <1>9 DEF Logged
  <2>3. op' \in Ops /\ op'.state = s
    BY <1>2, <1>7, <2>1, <2>2, RecoveryAssumption DEF Ops, Ticks
  <2>4. CASE o1 = NoOp
    <3>1. outbox' = Queue(q1, sub.gen, kind, First)
      BY <1>6, <1>9, <2>4
    <3>2. kind \in AboutOp /\ kind \in Kinds /\ (s \in Active => kind = "scheduled")
      BY <2>1 DEF AboutOp, Kinds, Initiations
    <3> HIDE DEF kind, s, logs
    <3>3. First \in Int \X Nat /\ q1 \in Seq(Notices) /\ First[1] <= Len(q1)
      BY <1>7 DEF First, Grown
    <3>4. Grown(q1, outbox', sub.gen, {kind})
      <4>1. Grown(q1, Queue(q1, sub.gen, kind, First), sub.gen, {kind})
        BY <1>4, <3>2, <3>3, QueueKeeps
      <4> QED
        BY <3>1, <4>1
    <3>5. Grown(q1, outbox', sub.gen, AboutOp)
      BY <3>2, <3>4, GrownMore
    <3>6. Grown(outbox, outbox', sub.gen, AboutOp)
      BY <1>3, <1>7, <3>5, GrownStep
    <3>7. ASSUME s \in Active PROVE FALSE
      \* an operation under way is recorded, so that a row is there
      <4>1. IsCurrent(v)
        BY <1>3, <3>7, StateFacts DEF s
      <4>2. o1 = RowFor(v, op)
        BY <4>1 DEF o1, Recorded
      <4> QED
        BY <1>3, <2>4, <4>2, RowFacts
    <3> QED
      BY <1>4, <1>5, <2>1, <2>3, <3>6, <3>7
  <2>5. CASE o1 # NoOp
    <3>1. outbox' = q1
      BY <1>6, <2>5
    <3>2. s \in Active => o1.state \in Active
      <4>1. ASSUME s \in Active PROVE o1.state \in Active
        <5>1. IsCurrent(v) /\ StateFor(v, op) \in Active
          BY <1>3, <4>1, StateFacts
        <5>2. o1 = RowFor(v, op)
          BY <5>1 DEF o1, Recorded
        <5> QED
          BY <1>3, <5>1, <5>2, RowFacts
      <4> QED
        BY <4>1
    <3> HIDE DEF s, logs
    <3> QED
      BY <1>4, <1>5, <1>7, <2>1, <2>3, <3>1, <3>2
  <2> QED
    BY <2>4, <2>5
<1> QED
  BY <1>8, <1>9

LEMMA CommitStep ==
  ASSUME RecoveryInv, CommitUpdate
  PROVE  TablesMove /\ RecoveryInv'
<1>1. UNCHANGED <<chainVars, proofs>> /\ mon' = Delivering
  BY DEF CommitUpdate
<1>2. TickOK'
  BY <1>1, DeliveringType DEF TickOK
<1>3. CASE Fresh(mon)
  <2>1. Grown(outbox, outbox', sub.gen, AboutOp \cup {"reorg"})
    BY <1>3, CommitFacts, GrownMore
  <2>2. TablesMove
    BY <1>3, <2>1, CommitFacts DEF TablesMove
  <2> QED
    BY <1>1, <1>2, <2>2, UpdateStep
<1>4. CASE ~Fresh(mon)
  BY <1>1, <1>2, <1>4, TablesStay, UpdateStep DEF CommitUpdate
<1> QED
  BY <1>3, <1>4

-----------------------------------------------------------------------------
(* The chain, the delivery and the routes.                                 *)

LEMMA ChainStep ==
  ASSUME RecoveryInv, Environment
  PROVE  RecoveryInv'
<1>1. UNCHANGED <<tables, mon, proofs>>
  BY DEF Environment, Mine, Reorganise
<1>2. EnrolledOK' /\ TickOK' /\ NoticesOK' /\ FarewellOK' /\ AnnouncedOK'
  BY <1>1 DEF RecoveryInv, EnrolledOK, TickOK, NoticesOK, FarewellOK, AnnouncedOK, tables, proofs, Of
<1>3. ChainOK'
  <2> DEFINE E == {"none", "schedule", "canceled", "executed", "removed"}
  <2>0. ChainOK
    BY DEF RecoveryInv
  <2>1. CASE Reorganise
    BY <2>0, <2>1, RecoveryAssumption DEF Reorganise, ChainOK
  <2>2. ASSUME NEW e \in Events \cup {"none"}, Mine(e) PROVE ChainOK'
    <3>1. e \in E /\ branch \in [{1, 2} -> Seq(E)] /\ live \in {1, 2} /\ Len(branch[live]) < MaxHeight
      BY <2>0, <2>2, RecoveryAssumption DEF ChainOK, Mine, Height
    <3> HIDE DEF E
    <3>2. /\ Append(branch[live], e) \in Seq(E) /\ Len(Append(branch[live], e)) = Len(branch[live]) + 1
          /\ Len(branch[live]) \in Nat
      BY <3>1
    <3>3. branch' = [branch EXCEPT ![live] = Append(branch[live], e)] /\ live' = live /\ switches' = switches
      BY <2>2 DEF Mine
    <3>4. Len(branch[live]) + 1 \in 1..MaxHeight
      BY <3>1, <3>2, RecoveryAssumption
    <3>5. branch' \in [{1, 2} -> Seq(E)] /\ \A b \in {1, 2} : Len(branch'[b]) \in 1..MaxHeight
      BY <2>0, <3>1, <3>2, <3>3, <3>4 DEF ChainOK
    <3> QED
      BY <2>0, <3>3, <3>5 DEF ChainOK, E
  <2> QED
    BY <2>1, <2>2 DEF Environment
<1> QED
  BY <1>2, <1>3 DEF RecoveryInv

\* The notices are worked on, and nothing is queued.
LEMMA NoticeStep ==
  ASSUME RecoveryInv, UNCHANGED <<chainVars, sub, op>>, EnrolledOK', TickOK',
         Alike(outbox, outbox'), \A i \in 1..Len(outbox) : Fine(outbox'[i])
  PROVE  RecoveryInv'
<1>1. ChainOK'
  BY ChainSame DEF RecoveryInv
<1>2. NoticesOK'
  <2>1. Kept(outbox', sub.gen)
    BY InvKept, KeptAlike
  <2> QED
    BY <2>1 DEF Kept, Fine, NoticesOK
<1>3. \A g, kinds : Of(outbox', g, kinds) = Of(outbox, g, kinds)
  BY InvKept, AlikeOf
<1>4. FarewellOK' /\ AnnouncedOK'
  BY <1>3 DEF RecoveryInv, FarewellOK, AnnouncedOK
<1> QED
  BY <1>1, <1>2, <1>4 DEF RecoveryInv

\* A notice after a step of its delivery.
Turned(n, r) ==
  r \in Notices /\ r.gen = n.gen /\ r.kind = n.kind /\ r.via = n.via /\ Fine(r)

LEMMA TurnedFacts ==
  ASSUME NEW n \in Notices, Fine(n)
  PROVE  /\ Turned(n, Supersede(n)) /\ Turned(n, Mailing(n)) /\ Turned(n, Later(n))
         /\ n.st = "pending" => Turned(n, [n EXCEPT !.doing = "check"])
         /\ n.doing = "mail" =>
              Turned(n, [n EXCEPT !.doing = "none", !.st = IF @ = "pending" THEN "sent" ELSE @])
<1>0. n = [gen |-> n.gen, kind |-> n.kind, via |-> n.via, st |-> n.st, doing |-> n.doing,
           mailed |-> n.mailed]
  BY DEF Notices
<1>1. /\ n.gen \in 1..MaxChallenges /\ n.kind \in Kinds /\ n.via \in Int \X Nat
      /\ n.st \in {"pending", "sent", "superseded"} /\ n.doing \in {"none", "check", "mail"}
      /\ n.mailed \in BOOLEAN
  BY DEF Notices
<1>2. Turned(n, Later(n))
  BY <1>0, <1>1 DEF Turned, Later, Notices, Fine
<1>3. Turned(n, Supersede(n))
  BY <1>0, <1>1 DEF Turned, Supersede, Notices, Fine
<1>4. Turned(n, Mailing(n))
  <2>1. n.kind \in AboutOp => n.kind \notin {"enabled", "reorg"}
    BY DEF AboutOp, Initiations, Ended
  <2>2. /\ Mailing(n).mailed = (n.kind \notin {"enabled", "reorg"})
        /\ Mailing(n).gen = n.gen /\ Mailing(n).kind = n.kind /\ Mailing(n).via = n.via
    BY <1>0 DEF Mailing
  <2>3. Mailing(n) \in Notices
    <3>1. (n.kind \notin {"enabled", "reorg"}) \in BOOLEAN
      OBVIOUS
    <3> QED
      BY <3>1 DEF Mailing, Notices
  <2> QED
    BY <2>1, <2>2, <2>3 DEF Turned, Fine
<1>5. n.st = "pending" => Turned(n, [n EXCEPT !.doing = "check"])
  BY <1>0, <1>1 DEF Turned, Notices, Fine
<1>6. n.doing = "mail" =>
        Turned(n, [n EXCEPT !.doing = "none", !.st = IF @ = "pending" THEN "sent" ELSE @])
  BY <1>0, <1>1 DEF Turned, Notices, Fine
<1> QED
  BY <1>2, <1>3, <1>4, <1>5, <1>6

LEMMA DeliverStep ==
  ASSUME RecoveryInv, Deliver
  PROVE  RecoveryInv'
<1>1. PICK i \in DOMAIN outbox :
         DeliverStart(i) \/ DeliverChecked(i) \/ DeliverFails(i) \/ Delivered(i)
  BY DEF Deliver
<1> DEFINE n == outbox[i]
<1>2. /\ outbox \in Seq(Notices) /\ i \in 1..Len(outbox) /\ n \in Notices /\ Fine(n)
      /\ \A j \in 1..Len(outbox) : Fine(outbox[j])
  BY InvKept DEF Kept
<1>3. UNCHANGED <<chainVars, sub, op, mon, proofs>>
  BY <1>1 DEF DeliverStart, DeliverChecked, DeliverFails, Delivered
<1>4. PICK r : /\ outbox' = [outbox EXCEPT ![i] = r]
               /\ r \in Notices /\ r.gen = n.gen /\ r.kind = n.kind /\ r.via = n.via /\ Fine(r)
  <2>1. \E r : /\ outbox' = [outbox EXCEPT ![i] = r]
               /\ \/ r \in {Supersede(n), Mailing(n), Later(n)}
                  \/ n.st = "pending" /\ r = [n EXCEPT !.doing = "check"]
                  \/ n.doing = "mail" /\ r = [n EXCEPT !.doing = "none",
                                                       !.st = IF @ = "pending" THEN "sent" ELSE @]
    <3>1. CASE DeliverStart(i)
      BY <3>1 DEF DeliverStart, Set
    <3>2. CASE DeliverChecked(i)
      <4>1. PICK x \in {Supersede(n), Mailing(n), Later(n)} : outbox' = [outbox EXCEPT ![i] = x]
        <5> DEFINE v == ViewAt(Tip)
                   s == StateFor(v, op)
                   a == n.kind \in AboutOp /\ ~ValidNow(n.kind, s)
                   b == n.kind = "reminder" /\ s = "pending" /\ v.time < ReminderAt(RowFor(v, op))
                   x == CASE a -> Supersede(n) [] b -> Later(n) [] ~Addressed(n) -> Supersede(n)
                          [] OTHER -> Mailing(n)
        <5>1. outbox' = [outbox EXCEPT ![i] = x]
          BY <3>2 DEF DeliverChecked, Set
        <5> HIDE DEF a, b, n
        <5>2. x \in {Supersede(n), Mailing(n), Later(n)}
          <6>1. a \/ b \/ ~Addressed(n) \/ ~(a \/ b \/ ~Addressed(n))
            OBVIOUS
          <6> QED
            BY <6>1
        <5> HIDE DEF x
        <5> QED
          BY <5>1, <5>2
      <4> QED
        BY <4>1
    <3>3. CASE DeliverFails(i)
      BY <3>3 DEF DeliverFails, Set
    <3>4. CASE Delivered(i)
      BY <3>4 DEF Delivered, Set
    <3> QED
      BY <1>1, <3>1, <3>2, <3>3, <3>4
  <2>2. PICK r : /\ outbox' = [outbox EXCEPT ![i] = r]
                 /\ \/ r \in {Supersede(n), Mailing(n), Later(n)}
                    \/ n.st = "pending" /\ r = [n EXCEPT !.doing = "check"]
                    \/ n.doing = "mail" /\ r = [n EXCEPT !.doing = "none",
                                                       !.st = IF @ = "pending" THEN "sent" ELSE @]
    BY <2>1
  <2> HIDE DEF n
  <2>3. Turned(n, r)
    BY <1>2, <2>2, TurnedFacts
  <2> QED
    BY <2>2, <2>3 DEF Turned
<1> HIDE DEF n
<1>5. outbox' \in Seq(Notices) /\ Len(outbox') = Len(outbox)
  BY <1>2, <1>4
<1>6. \A j \in 1..Len(outbox) : outbox'[j] = IF j = i THEN r ELSE outbox[j]
  BY <1>2, <1>4
<1>7. Alike(outbox, outbox') /\ \A j \in 1..Len(outbox) : Fine(outbox'[j])
  BY <1>2, <1>4, <1>5, <1>6 DEF Alike, n
<1>8. EnrolledOK' /\ TickOK'
  BY <1>3 DEF RecoveryInv, EnrolledOK, TickOK, proofs
<1> QED
  BY <1>3, <1>7, <1>8, NoticeStep

LEMMA RestartStep ==
  ASSUME RecoveryInv, Restart
  PROVE  RecoveryInv'
<1>1. outbox \in Seq(Notices) /\ \A j \in 1..Len(outbox) : Fine(outbox[j])
  BY InvKept DEF Kept
<1>2. outbox' = [i \in 1..Len(outbox) |-> Later(outbox[i])]
  BY <1>1 DEF Restart
<1>3. ASSUME NEW i \in 1..Len(outbox)
      PROVE  /\ outbox'[i] \in Notices /\ Fine(outbox'[i]) /\ outbox'[i].gen = outbox[i].gen
             /\ outbox'[i].kind = outbox[i].kind /\ outbox'[i].via = outbox[i].via
  <2>1. outbox[i] \in Notices /\ Fine(outbox[i]) /\ outbox'[i] = [outbox[i] EXCEPT !.doing = "none"]
    BY <1>1, <1>2 DEF Later
  <2> QED
    BY <2>1 DEF Notices, Fine
<1>4. outbox' \in Seq(Notices) /\ Len(outbox') = Len(outbox)
  <2>1. outbox' \in [1..Len(outbox) -> Notices] /\ Len(outbox) \in Nat
    BY <1>1, <1>2, <1>3
  <2> QED
    BY <1>2, <2>1
<1>5. Alike(outbox, outbox')
  BY <1>3, <1>4 DEF Alike
<1>6. EnrolledOK'
  <2>1. NoCall \in [ch : 0..MaxChallenges, head : Blocks]
    BY RecoveryAssumption DEF NoCall, Blocks
  <2> QED
    BY <2>1 DEF RecoveryInv, EnrolledOK, Restart
<1>7. TickOK'
  <2>1. Idle.pc = "idle" /\ "idle" \notin Awaiting
    BY DEF Idle, Awaiting
  <2> QED
    BY <2>1, DeliveringType DEF Restart, TickOK
<1> QED
  BY <1>3, <1>5, <1>6, <1>7, NoticeStep DEF Restart

LEMMA SupersededFacts ==
  ASSUME RecoveryInv
  PROVE  Alike(outbox, Superseded(outbox)) /\ Kept(Superseded(outbox), sub.gen)
<1> DEFINE q == Superseded(outbox)
<1>1. outbox \in Seq(Notices) /\ Kept(outbox, sub.gen) /\ \A j \in 1..Len(outbox) : Fine(outbox[j])
  BY InvKept DEF Kept
<1>2. q = [i \in 1..Len(outbox) |-> IF outbox[i].st = "pending"
                                    THEN [outbox[i] EXCEPT !.st = "superseded"] ELSE outbox[i]]
  BY <1>1 DEF Superseded
<1> HIDE DEF q
<1>3. ASSUME NEW i \in 1..Len(outbox)
      PROVE  /\ q[i] \in Notices /\ Fine(q[i]) /\ q[i].gen = outbox[i].gen
             /\ q[i].kind = outbox[i].kind /\ q[i].via = outbox[i].via
  <2>1. /\ outbox[i] \in Notices /\ Fine(outbox[i])
        /\ q[i] = outbox[i] \/ q[i] = [outbox[i] EXCEPT !.st = "superseded"]
    BY <1>1, <1>2
  <2> QED
    BY <2>1 DEF Notices, Fine
<1>4. q \in Seq(Notices) /\ Len(q) = Len(outbox)
  <2>1. q \in [1..Len(outbox) -> Notices] /\ Len(outbox) \in Nat
    BY <1>1, <1>2, <1>3
  <2> QED
    BY <1>2, <2>1
<1>5. Alike(outbox, q)
  BY <1>3, <1>4 DEF Alike
<1>6. Kept(q, sub.gen)
  BY <1>1, <1>3, <1>5, KeptAlike
<1> QED
  BY <1>5, <1>6 DEF q

\* No notice of an enrolment is there before the enrolment.
LEMMA NoneOfTheNext ==
  ASSUME RecoveryInv, NEW g \in Nat, g > sub.gen, NEW kinds
  PROVE  Of(Superseded(outbox), g, kinds) = {}
<1>1. Kept(Superseded(outbox), sub.gen) /\ sub.gen \in Nat
  BY SupersededFacts, InvKept, RecoveryAssumption
<1> DEFINE q == Superseded(outbox)
<1> HIDE DEF q
<1>2. ASSUME NEW i \in DOMAIN q PROVE q[i].gen # g
  BY <1>1 DEF Kept, q
<1>3. Of(q, g, kinds) = {}
  BY <1>2 DEF Of
<1> QED
  BY <1>3 DEF q

LEMMA DisableStep ==
  ASSUME RecoveryInv, Disable
  PROVE  RecoveryInv'
<1> DEFINE q == Superseded(outbox)
           g == sub.gen
<1>1. /\ UNCHANGED <<chainVars, op, mon, proofs>> /\ sub.en
      /\ sub' = [sub EXCEPT !.en = FALSE, !.status = "disabled"]
      /\ outbox' = Queue(q, g, "disabled", First)
  BY DEF Disable
<1>2. /\ ChainOK /\ EnrolledOK /\ TickOK /\ FarewellOK /\ AnnouncedOK /\ sub \in Subs
      /\ g \in 1..MaxChallenges /\ g \in Nat /\ outbox \in Seq(Notices)
  BY <1>1, InvKept, RecoveryAssumption DEF RecoveryInv, EnrolledOK, Subs
<1>3. Alike(outbox, q) /\ Kept(q, g) /\ q \in Seq(Notices)
  BY SupersededFacts DEF Kept
<1>4. \A h, kinds : Of(q, h, kinds) = Of(outbox, h, kinds)
  BY <1>2, <1>3, AlikeOf
<1>5. Of(q, g, {"disabled"}) = {}
  BY <1>1, <1>2, <1>4 DEF FarewellOK
<1> HIDE DEF q
<1>6. "disabled" \in Kinds /\ "disabled" \notin AboutOp /\ First \in Int \X Nat
  BY DEF Kinds, AboutOp, Initiations, Ended, First
<1>7. Grown(q, outbox', g, {"disabled"}) /\ Len(outbox') = Len(q) + 1
  <2> HIDE DEF g
  <2>1. Grown(q, outbox', g, {"disabled"})
    BY <1>1, <1>2, <1>3, <1>6, QueueGrows
  <2>2. \E n : outbox' = Append(q, n)
    BY <1>1, <1>5 DEF Queue
  <2> QED
    BY <1>3, <2>1, <2>2
<1>8. sub' \in Subs /\ ~sub'.en /\ sub'.gen = g
  BY <1>1, <1>2 DEF Subs
<1>9. ChainOK' /\ TickOK'
  BY <1>1, <1>2, ChainSame DEF TickOK
<1>10. EnrolledOK'
  BY <1>1, <1>2, <1>8 DEF EnrolledOK, proofs
<1>11. NoticesOK'
  <2>1. Kept(outbox', g)
    BY <1>2, <1>3, <1>7, KeptGrown
  <2> QED
    BY <1>8, <2>1 DEF Kept, Fine, NoticesOK
<1>12. FarewellOK'
  <2>1. ASSUME NEW h \in 1..MaxChallenges, NEW i \in Of(outbox', h, {"disabled"}),
               NEW j \in Of(outbox', h, {"disabled"})
        PROVE  i = j
    <3>1. CASE h # g
      <4>1. Of(outbox', h, {"disabled"}) = Of(outbox, h, {"disabled"})
        BY <1>3, <1>4, <1>7, <3>1, GrownOf
      <4> QED
        BY <1>2, <4>1 DEF FarewellOK
    <3>2. CASE h = g
      <4>1. ASSUME NEW k \in Of(outbox', g, {"disabled"}) PROVE k = Len(q) + 1
        <5>1. k \in 1..Len(outbox') /\ outbox'[k].gen = g /\ outbox'[k].kind = "disabled"
          BY <1>7 DEF Of, Grown
        <5>2. k \notin 1..Len(q)
          <6> SUFFICES ASSUME k \in 1..Len(q) PROVE FALSE
            OBVIOUS
          <6>1. q[k] \in Notices
            BY <1>3
          <6>2. outbox'[k].gen = q[k].gen /\ outbox'[k].kind = q[k].kind
            BY <1>7, <6>1 DEF Grown, Notices
          <6>3. k \in Of(q, g, {"disabled"})
            BY <1>3, <5>1, <6>2 DEF Of
          <6> QED
            BY <1>5, <6>3
        <5>3. Len(q) \in Nat /\ k \in 1..(Len(q) + 1)
          BY <1>3, <1>7, <5>1
        <5> QED
          BY <5>2, <5>3
      <4> QED
        BY <2>1, <3>2, <4>1
    <3> QED
      BY <3>1, <3>2
  <2> QED
    BY <1>8, <2>1 DEF FarewellOK
<1>13. AnnouncedOK'
  <2>1. {"disabled"} \cap AboutOp = {}
    BY <1>6
  <2>2. Of(outbox', g, AboutOp) = Of(outbox, g, AboutOp)
    BY <1>3, <1>4, <1>7, <2>1, GrownOf
  <2> QED
    BY <1>1, <1>2, <1>8, <2>2 DEF AnnouncedOK
<1> QED
  BY <1>9, <1>10, <1>11, <1>12, <1>13 DEF RecoveryInv

\* A new enrolment: what its row, its operation and its notices are.
LEMMA EnrolStep ==
  ASSUME RecoveryInv, NEW c \in Calls, SubscribeDone(c), Consumable(call[c].ch) /\ ~sub.en
  PROVE  RecoveryInv'
<1> DEFINE h == call[c].head
           v == ViewAt(h)
           g == sub.gen + 1
           q0 == Superseded(outbox)
           q == Queue(q0, g, "enabled", First)
<1>1. /\ UNCHANGED <<chainVars, mon, issued>> /\ call[c] # NoCall
      /\ call' = [call EXCEPT ![c] = NoCall]
      /\ spent' = spent \cup {call[c].ch} /\ sub' = Enrolled(h)
      /\ op' = IF IsCurrent(v) THEN RowFor(v, NoOp) ELSE NoOp
      /\ outbox' = IF IsCurrent(v) THEN Noticed(v, NoOp, q, g) ELSE q
      /\ call[c].ch \notin spent
  BY DEF SubscribeDone, Consumable
<1>2. /\ ChainOK /\ EnrolledOK /\ TickOK /\ FarewellOK /\ AnnouncedOK /\ outbox \in Seq(Notices)
      /\ h \in Block /\ call[c].ch \in 1..issued /\ sub.gen \in Nat /\ issued \in 0..MaxChallenges
      /\ issued \in Nat
  BY <1>1, InvKept, RecoveryAssumption DEF RecoveryInv, EnrolledOK
<1>3. g \in 1..MaxChallenges /\ spent' \subseteq 1..issued /\ g <= Cardinality(spent') /\ g \in Nat
  <2>1. IsFiniteSet(1..issued) /\ Cardinality(1..issued) = issued
    <3>1. IsFiniteSet(1..issued) /\ Cardinality(1..issued) = IF 1 > issued THEN 0 ELSE issued - 1 + 1
      BY <1>2, FS_Interval
    <3> QED
      BY <1>2, <3>1
  <2>2. spent \subseteq 1..issued /\ spent' \subseteq 1..issued
    BY <1>1, <1>2 DEF EnrolledOK
  <2>3. IsFiniteSet(spent) /\ IsFiniteSet(spent') /\ Cardinality(spent') <= issued
    BY <2>1, <2>2, FS_Subset
  <2>4. Cardinality(spent') = Cardinality(spent) + 1
    BY <1>1, <2>3, FS_AddElement
  <2>5. Cardinality(spent) \in Nat /\ sub.gen <= Cardinality(spent)
    BY <1>2, <2>3, FS_CardinalityType DEF EnrolledOK
  <2> QED
    BY <1>2, <2>2, <2>3, <2>4, <2>5, RecoveryAssumption
<1>4. Alike(outbox, q0) /\ Kept(q0, sub.gen) /\ q0 \in Seq(Notices)
  BY SupersededFacts DEF Kept
<1>5. \A f, kinds : Of(q0, f, kinds) = Of(outbox, f, kinds)
  BY <1>2, <1>4, AlikeOf
<1>6. \A kinds : Of(q0, g, kinds) = {}
  BY <1>2, <1>3, NoneOfTheNext
<1>7. v \in Shown
  BY <1>2, ViewType
<1>8. sub' \in Subs /\ sub'.en /\ sub'.gen = g /\ sub'.anchor >= 1
  <2>1. h[1] \in 1..MaxHeight
    BY <1>2, BlockFacts
  <2>2. sub' = [en |-> TRUE, gen |-> g, cursor |-> h[1] - 1, hash |-> None, anchor |-> h[1],
                status |-> "catching_up",
                rec |-> StateFor(v, NoOp) \in Ended /\ IsCurrent(v)]
    BY <1>1 DEF Enrolled
  <2>3. (StateFor(v, NoOp) \in Ended /\ IsCurrent(v)) \in BOOLEAN
    BY DEF IsCurrent
  <2>4. h[1] - 1 \in 0..MaxHeight /\ h[1] \in 0..MaxHeight /\ g \in 0..MaxChallenges
    BY <1>3, <2>1, RecoveryAssumption
  <2> HIDE DEF g, h, v
  <2> QED
    BY <2>1, <2>2, <2>3, <2>4 DEF Subs, Blocks
<1> HIDE DEF q0, g, v, h
<1>9. Grown(q0, q, g, {"enabled"})
  <2>1. "enabled" \in Kinds /\ "enabled" \notin AboutOp /\ First \in Int \X Nat
    BY DEF Kinds, AboutOp, Initiations, Ended, First
  <2> QED
    BY <1>3, <1>4, <2>1, QueueGrows
<1> HIDE DEF q
<1>10. q \in Seq(Notices) /\ Keyed(q)
  <2>1. Keyed(q0)
    BY <1>4 DEF Kept, Keyed
  <2>2. q \in Seq(Notices)
    BY <1>9 DEF Grown
  <2> QED
    BY <1>4, <1>9, <2>1, <2>2, GrownKeyed
<1>11. /\ Grown(q, outbox', g, AboutOp) /\ op' \in Ops
       /\ \/ op' = NoOp /\ outbox' = q
          \/ op' # NoOp /\ op'.state \in Active \cup Ended
  <2>1. CASE IsCurrent(v)
    <3>1. Grown(q, Noticed(v, NoOp, q, g), g, AboutOp)
      BY <1>3, <1>7, <1>10, NoOpType, NoticedFacts
    <3>2. /\ RowFor(v, NoOp) \in Ops /\ RowFor(v, NoOp) # NoOp
          /\ RowFor(v, NoOp).state \in Active \cup Ended
      BY <1>7, NoOpType, RowFacts, StateFacts
    <3> QED
      BY <1>1, <2>1, <3>1, <3>2
  <2>2. CASE ~IsCurrent(v)
    <3>1. op' = NoOp /\ outbox' = q
      BY <1>1, <2>2
    <3>2. Grown(q, q, g, AboutOp)
      BY <1>10, GrownSame
    <3> QED
      BY <3>1, <3>2, NoOpType
  <2> QED
    BY <2>1, <2>2
<1>12. Grown(q0, outbox', g, {"enabled"} \cup AboutOp)
  BY <1>4, <1>9, <1>11, GrownTwice
<1>13. ChainOK' /\ TickOK'
  BY <1>1, <1>2, ChainSame DEF TickOK
<1>14. EnrolledOK'
  <2>1. NoCall \in [ch : 0..MaxChallenges, head : Blocks]
    BY RecoveryAssumption DEF NoCall, Blocks
  <2>2. /\ call' \in [Calls -> [ch : 0..MaxChallenges, head : Blocks]]
        /\ \A d \in Calls : call'[d] # NoCall => call'[d].ch \in 1..issued /\ call'[d].head \in Block
    BY <1>1, <1>2, <2>1 DEF EnrolledOK
  <2>3. sub'.en => sub'.gen >= 1 /\ sub'.anchor >= 1
    BY <1>3, <1>8
  <2>4. sub'.gen <= Cardinality(spent')
    BY <1>3, <1>8
  <2> QED
    BY <1>1, <1>2, <1>3, <1>8, <1>11, <2>2, <2>3, <2>4 DEF EnrolledOK
<1>15. NoticesOK'
  <2>1. Kept(outbox', g)
    <3>1. sub.gen <= g
      BY <1>2 DEF g
    <3> QED
      BY <1>2, <1>3, <1>4, <1>12, <3>1, KeptGrown
  <2> QED
    BY <1>8, <2>1 DEF Kept, Fine, NoticesOK
<1>16. \A f : Of(outbox', f, {"disabled"}) = Of(outbox, f, {"disabled"})
  <2>1. ({"enabled"} \cup AboutOp) \cap {"disabled"} = {}
    BY DEF AboutOp, Initiations, Ended
  <2> QED
    BY <1>4, <1>5, <1>12, <2>1, GrownOf
<1>17. FarewellOK'
  <2>1. Of(outbox', g, {"disabled"}) = {}
    BY <1>5, <1>6, <1>16
  <2> QED
    BY <1>2, <1>8, <1>16, <2>1 DEF FarewellOK
<1>18. AnnouncedOK'
  <2>1. CASE op' # NoOp
    BY <2>1 DEF AnnouncedOK
  <2>2. CASE op' = NoOp
    <3>1. outbox' = q
      BY <1>11, <2>2
    <3>2. {"enabled"} \cap AboutOp = {}
      BY DEF AboutOp, Initiations, Ended
    <3>3. Of(q, g, AboutOp) = Of(q0, g, AboutOp)
      BY <1>4, <1>9, <3>2, GrownOf
    <3> QED
      BY <1>6, <1>8, <3>1, <3>3 DEF AnnouncedOK
  <2> QED
    BY <2>1, <2>2
<1> QED
  BY <1>13, <1>14, <1>15, <1>17, <1>18 DEF RecoveryInv

\* The routes that touch no notice.
LEMMA RequestStep ==
  ASSUME RecoveryInv, UNCHANGED <<chainVars, tables, mon>>, EnrolledOK'
  PROVE  RecoveryInv'
<1>1. ChainOK' /\ TickOK'
  BY ChainSame DEF RecoveryInv, TickOK
<1>2. NoticesOK' /\ FarewellOK' /\ AnnouncedOK'
  BY DEF RecoveryInv, NoticesOK, FarewellOK, AnnouncedOK, tables, Of
<1> QED
  BY <1>1, <1>2 DEF RecoveryInv

LEMMA RoutesStep ==
  ASSUME RecoveryInv, Routes
  PROVE  RecoveryInv'
<1>0. ChainOK /\ EnrolledOK
  BY DEF RecoveryInv
<1>a. NoCall \in [ch : 0..MaxChallenges, head : Blocks]
  BY RecoveryAssumption DEF NoCall, Blocks
<1>1. CASE IssueChallenge
  <2>1. /\ UNCHANGED <<chainVars, tables, mon, call, spent>> /\ issued' = issued + 1
        /\ issued < MaxChallenges
    BY <1>1 DEF IssueChallenge
  <2>2. issued \in Nat /\ issued' \in 0..MaxChallenges /\ 1..issued \subseteq 1..issued'
    BY <1>0, <2>1, RecoveryAssumption DEF EnrolledOK
  <2>3. EnrolledOK'
    BY <1>0, <2>1, <2>2 DEF EnrolledOK, tables
  <2> QED
    BY <2>1, <2>3, RequestStep
<1>2. CASE Disable
  BY <1>2, DisableStep
<1>3. ASSUME NEW c \in Calls, NEW n \in 1..issued, SubscribeStart(c, n) PROVE RecoveryInv'
  <2>1. /\ UNCHANGED <<chainVars, tables, mon, issued, spent>>
        /\ call' = [call EXCEPT ![c] = [ch |-> n, head |-> Tip]]
    BY <1>3 DEF SubscribeStart
  <2>2. Tip \in Block /\ Tip \in Blocks
    BY <1>0, TipFacts, BlockFacts
  <2>3. n \in 0..MaxChallenges
    BY <1>0, RecoveryAssumption DEF EnrolledOK
  <2>4. EnrolledOK'
    BY <1>0, <2>1, <2>2, <2>3 DEF EnrolledOK, tables
  <2> QED
    BY <2>1, <2>4, RequestStep
<1>4. ASSUME NEW c \in Calls, SubscribeFails(c) PROVE RecoveryInv'
  <2>1. /\ UNCHANGED <<chainVars, tables, mon, issued, spent>>
        /\ call' = [call EXCEPT ![c] = NoCall]
    BY <1>4 DEF SubscribeFails
  <2>2. EnrolledOK'
    BY <1>0, <1>a, <2>1 DEF EnrolledOK, tables
  <2> QED
    BY <2>1, <2>2, RequestStep
<1>5. ASSUME NEW c \in Calls, SubscribeDone(c) PROVE RecoveryInv'
  <2>1. CASE Consumable(call[c].ch) /\ ~sub.en
    BY <1>5, <2>1, EnrolStep
  <2>2. CASE ~(Consumable(call[c].ch) /\ ~sub.en)
    <3>1. /\ UNCHANGED <<chainVars, tables, mon, issued, spent>>
          /\ call' = [call EXCEPT ![c] = NoCall]
      BY <1>5, <2>2 DEF SubscribeDone
    <3>2. EnrolledOK'
      BY <1>0, <1>a, <3>1 DEF EnrolledOK, tables
    <3> QED
      BY <3>1, <3>2, RequestStep
  <2> QED
    BY <2>1, <2>2
<1>6. CASE ChallengeExpires
  <2>1. PICK n \in 1..issued : n \notin spent /\ spent' = spent \cup {n}
    BY <1>6 DEF ChallengeExpires, OpenChallenges
  <2>2. UNCHANGED <<chainVars, tables, mon, call, issued>>
    BY <1>6 DEF ChallengeExpires
  <2>3. issued \in Nat /\ spent \subseteq 1..issued /\ sub.gen \in Nat /\ sub.gen <= Cardinality(spent)
    BY <1>0 DEF EnrolledOK, Subs
  <2>4. IsFiniteSet(spent)
    <3>1. IsFiniteSet(1..issued)
      BY <2>3, FS_Interval
    <3> QED
      BY <2>3, <3>1, FS_Subset
  <2>5. Cardinality(spent) \in Nat /\ Cardinality(spent') = Cardinality(spent) + 1
    BY <2>1, <2>4, FS_AddElement, FS_CardinalityType
  <2>6. spent' \subseteq 1..issued /\ sub.gen <= Cardinality(spent')
    BY <2>1, <2>3, <2>5
  <2>7. EnrolledOK'
    BY <1>0, <2>2, <2>6 DEF EnrolledOK, tables
  <2> QED
    BY <2>2, <2>7, RequestStep
<1> QED
  BY <1>1, <1>2, <1>3, <1>4, <1>5, <1>6 DEF Routes

\* The inductive invariant: enrolments use challenges up, what is announced is
\* on record, a notice is sent after it was handed over, and an enrolment ends
\* once.
THEOREM RecoveryInvariant == Spec => []RecoveryInv
<1>1. RecoveryInv /\ [Next]_vars => RecoveryInv'
  <2> SUFFICES ASSUME RecoveryInv, [Next]_vars PROVE RecoveryInv'
    OBVIOUS
  <2>1. CASE UNCHANGED vars
    BY <2>1 DEF RecoveryInv, ChainOK, EnrolledOK, TickOK, NoticesOK, FarewellOK, AnnouncedOK, Of, vars
  <2>2. CASE Environment
    BY <2>2, ChainStep
  <2>3. CASE Update
    BY <2>3, StartStep, TickFailsStep, LearnStep, ObservedStep, CheckedStep, CommitStep DEF Update
  <2>4. CASE Deliver
    BY <2>4, DeliverStep
  <2>5. CASE Routes
    BY <2>5, RoutesStep
  <2>6. CASE Restart
    BY <2>6, RestartStep
  <2> QED
    BY <2>1, <2>2, <2>3, <2>4, <2>5, <2>6 DEF Next
<1> QED
  BY <1>1, RecoveryInit, PTL DEF Spec

\* Every table, tick and handler has its type.
THEOREM TypeCorrect == Spec => []TypeOK
<1>1. RecoveryInv => TypeOK
  BY DEF RecoveryInv, ChainOK, EnrolledOK, TickOK, NoticesOK, TypeOK, Subs, Ops, Notices, Ticks
<1> QED
  BY <1>1, RecoveryInvariant, PTL

-----------------------------------------------------------------------------
(* The action properties.                                                  *)

LEMMA StaleIsUnchanged ==
  ASSUME RecoveryInv, NEW m, NEW marked, ~Fresh(m), ~marked, AfterCheck(m, marked)
  PROVE  UNCHANGED tables
<1>1. CASE Persist(m, m.retry, marked)
  BY <1>1 DEF Persist
<1>2. CASE sub' = [sub EXCEPT !.rec = sub.rec \/ marked] /\ UNCHANGED <<op, outbox>>
  <2>1. sub \in Subs
    BY DEF RecoveryInv, EnrolledOK
  <2>2. (sub.rec \/ marked) = sub.rec
    BY <2>1 DEF Subs
  <2>3. sub' = sub
    BY <1>2, <2>1, <2>2 DEF Subs
  <2> QED
    BY <1>2, <2>3 DEF tables
<1> QED
  BY <1>1, <1>2 DEF AfterCheck

\* An update that awaited an RPC while its enrolment was ended or replaced
\* leaves the tables as they are.
THEOREM StaleUpdateWritesNothingAlways == Spec => StaleUpdateWritesNothing
<1> DEFINE A == mon.pc \in Awaiting /\ ~SameEnrolment /\ mon' # mon /\ mon'.pc # "idle"
                  => UNCHANGED tables
<1>1. RecoveryInv /\ [Next]_vars => [A]_vars
  <2> SUFFICES ASSUME RecoveryInv, Next, mon.pc \in Awaiting, ~SameEnrolment, mon' # mon,
                      mon'.pc # "idle"
               PROVE  UNCHANGED tables
    OBVIOUS
  <2>0. ~Fresh(mon)
    BY DEF Fresh, SameEnrolment
  <2>1. CASE TickFails
    BY <2>0, <2>1 DEF TickFails, tables
  <2>2. CASE HeadAnswered \/ LogsAnswered \/ EndAnswered
    BY <2>2 DEF HeadAnswered, LogsAnswered, EndAnswered
  <2>3. CASE SnapshotAnswered \/ ReconcileAnswered
    BY <2>0, <2>3 DEF SnapshotAnswered, ReconcileAnswered, Persist
  <2>4. CASE CursorHolds
    BY <2>0, <2>4, StaleIsUnchanged DEF CursorHolds
  <2>5. CASE CursorGone
    BY <2>0, <2>5 DEF CursorGone
  <2>6. CASE CommitUpdate
    BY <2>0, <2>6 DEF CommitUpdate
  <2>7. CASE TickStart \/ TickEnds
    BY <2>7 DEF TickStart, TickEnds, Awaiting
  <2>8. CASE Environment \/ Deliver \/ Routes
    BY <2>8 DEF Environment, Mine, Reorganise, Deliver, DeliverStart, DeliverChecked, DeliverFails,
                Delivered, Routes, IssueChallenge, ChallengeExpires, Disable, SubscribeStart, SubscribeFails,
                SubscribeDone
  <2>9. CASE Restart
    BY <2>9 DEF Restart, Idle
  <2> QED
    BY <2>1, <2>2, <2>3, <2>4, <2>5, <2>6, <2>7, <2>8, <2>9 DEF Next, Update
<1> QED
  BY <1>1, RecoveryInvariant, PTL DEF Spec, StaleUpdateWritesNothing

\* Only a delivery hands a mail over.
LEMMA OnlyDelivery ==
  ASSUME RecoveryInv, Next, ~Deliver, NEW i \in DOMAIN outbox
  PROVE  outbox'[i].doing \in {outbox[i].doing, "none"}
<1>1. outbox \in Seq(Notices) /\ i \in 1..Len(outbox) /\ outbox[i] \in Notices
  BY InvKept
<1>2. ASSUME NEW q, NEW g, NEW K, Grown(q, outbox', g, K), q \in Seq(Notices), Len(q) = Len(outbox),
             q[i].doing = outbox[i].doing
      PROVE  outbox'[i].doing = outbox[i].doing
  <2>1. outbox'[i] = q[i] \/ outbox'[i] = [q[i] EXCEPT !.st = "pending"]
    BY <1>1, <1>2 DEF Grown
  <2>2. q[i] \in Notices
    BY <1>1, <1>2
  <2> QED
    BY <1>2, <2>1, <2>2 DEF Notices
<1>3. CASE Environment
  BY <1>3 DEF Environment, Mine, Reorganise, tables
<1>4. CASE Update
  <2>1. TablesMove
    BY <1>4, StartStep, TickFailsStep, LearnStep, ObservedStep, CheckedStep, CommitStep DEF Update
  <2>2. outbox' = outbox \/ \E g, K : Grown(outbox, outbox', g, K)
    BY <2>1 DEF TablesMove
  <2> QED
    BY <1>1, <1>2, <2>2
<1>5. CASE Routes
  <2> DEFINE q == Superseded(outbox)
  <2>0. /\ q \in Seq(Notices) /\ Keyed(q) /\ Len(q) = Len(outbox) /\ q[i].doing = outbox[i].doing
        /\ sub.gen \in 0..MaxChallenges /\ First \in Int \X Nat
    <3>1. Alike(outbox, q) /\ Kept(q, sub.gen)
      BY SupersededFacts
    <3>2. q[i].doing = outbox[i].doing
      BY <1>1 DEF Superseded, Notices
    <3> HIDE DEF q
    <3> QED
      BY <3>1, <3>2, InvKept DEF Alike, Kept, Keyed, First
  <2>1. CASE outbox' = outbox
    BY <2>1
  <2>2. CASE Disable
    <3>1. outbox' = Queue(q, sub.gen, "disabled", First) /\ sub.gen \in 1..MaxChallenges
      BY <2>2, <2>0 DEF Disable, RecoveryInv, EnrolledOK
    <3>2. "disabled" \in Kinds /\ "disabled" \notin AboutOp
      BY DEF Kinds, AboutOp, Initiations, Ended
    <3> HIDE DEF q
    <3>3. Grown(q, outbox', sub.gen, {"disabled"})
      BY <2>0, <3>1, <3>2, QueueGrows
    <3> QED
      BY <1>2, <2>0, <3>3
  <2>3. ASSUME NEW c \in Calls, SubscribeDone(c), outbox' # outbox
        PROVE  outbox'[i].doing = outbox[i].doing
    <3> DEFINE h == call[c].head
               v == ViewAt(h)
               g == sub.gen + 1
               r == Queue(q, g, "enabled", First)
    <3>1. outbox' = IF IsCurrent(v) THEN Noticed(v, NoOp, r, g) ELSE r
      BY <2>3 DEF SubscribeDone, tables
    <3>2. v \in Shown
      BY <2>3, ViewType DEF SubscribeDone, RecoveryInv, EnrolledOK
    <3>3. g \in 1..MaxChallenges
      <4>1. sub'.gen = g /\ EnrolledOK'
        <5>1. Consumable(call[c].ch) /\ ~sub.en /\ sub' = Enrolled(h)
          BY <2>3 DEF SubscribeDone, tables
        <5>2. RecoveryInv'
          BY <2>3, <5>1, EnrolStep
        <5> QED
          BY <5>1, <5>2 DEF RecoveryInv, Enrolled
      <4> QED
        BY <2>0, <4>1, RecoveryAssumption DEF EnrolledOK, Subs
    <3>4. "enabled" \in Kinds /\ "enabled" \notin AboutOp
      BY DEF Kinds, AboutOp, Initiations, Ended
    <3> HIDE DEF q, g, v, h
    <3>5. Grown(q, r, g, {"enabled"})
      BY <2>0, <3>3, <3>4, QueueGrows
    <3> HIDE DEF r
    <3>6. r \in Seq(Notices)
      BY <3>5 DEF Grown
    <3>7. Keyed(r)
      BY <2>0, <3>5, <3>6, GrownKeyed
    <3>8. Grown(r, outbox', g, AboutOp)
      <4>1. Grown(r, Noticed(v, NoOp, r, g), g, AboutOp)
        BY <3>2, <3>3, <3>6, <3>7, NoOpType, NoticedFacts
      <4>2. Grown(r, r, g, AboutOp)
        BY <3>6, GrownSame
      <4> QED
        BY <3>1, <4>1, <4>2
    <3>9. Grown(q, outbox', g, {"enabled"} \cup AboutOp)
      BY <2>0, <3>5, <3>8, GrownTwice
    <3> QED
      BY <1>2, <2>0, <3>9
  <2> QED
    BY <1>5, <2>1, <2>2, <2>3 DEF Routes, IssueChallenge, ChallengeExpires, SubscribeStart, SubscribeFails, tables
<1>6. CASE Restart
  BY <1>1, <1>6 DEF Restart, Later, Notices
<1> QED
  BY <1>3, <1>4, <1>5, <1>6 DEF Next

\* Once the mail that confirms the end of an enrolment was handed over, no alert
\* of that enrolment follows, whichever notices were being validated.
THEOREM FarewellIsLastAlways == Spec => FarewellIsLast
<1> DEFINE A == \A i \in DOMAIN outbox :
                  outbox[i].doing # "mail" /\ outbox'[i].doing = "mail"
                  => \A j \in Of(outbox, outbox[i].gen, {"disabled"}) : j = i \/ ~outbox[j].mailed
<1>1. RecoveryInv /\ [Next]_vars => [A]_vars
  <2> SUFFICES ASSUME RecoveryInv, Next, NEW i \in DOMAIN outbox,
                      outbox[i].doing # "mail", outbox'[i].doing = "mail",
                      NEW j \in Of(outbox, outbox[i].gen, {"disabled"})
               PROVE  j = i
    OBVIOUS
  <2>1. outbox \in Seq(Notices) /\ outbox[i] \in Notices
    BY InvKept
  <2>2. Deliver
    BY OnlyDelivery
  <2>3. PICK k \in DOMAIN outbox :
           DeliverStart(k) \/ DeliverChecked(k) \/ DeliverFails(k) \/ Delivered(k)
    BY <2>2 DEF Deliver
  <2>4. k = i /\ Addressed(outbox[i])
    <3>1. ASSUME NEW r, outbox' = [outbox EXCEPT ![k] = r], r.doing # "mail" PROVE FALSE
      BY <2>1, <3>1
    <3>2. ASSUME NEW r, outbox' = [outbox EXCEPT ![k] = r], k # i PROVE FALSE
      BY <2>1, <3>2
    <3>3. ASSUME NEW n \in Notices
          PROVE  /\ Supersede(n).doing = "none" /\ Later(n).doing = "none"
                 /\ [n EXCEPT !.doing = "check"].doing = "check"
                 /\ [n EXCEPT !.doing = "none",
                              !.st = IF @ = "pending" THEN "sent" ELSE @].doing = "none"
      BY DEF Supersede, Later, Notices
    <3> DEFINE n == outbox[k]
    <3>4. n \in Notices
      BY <2>1
    <3>5. CASE Addressed(n)
      <4>1. \E r : outbox' = [outbox EXCEPT ![k] = r]
        BY <2>3 DEF DeliverStart, DeliverChecked, DeliverFails, Delivered, Set
      <4> QED
        BY <3>2, <3>5, <4>1
    <3>6. CASE ~Addressed(n)
      <4>1. \E r \in {Supersede(n), Later(n), [n EXCEPT !.doing = "check"],
                      [n EXCEPT !.doing = "none", !.st = IF @ = "pending" THEN "sent" ELSE @]} :
              outbox' = [outbox EXCEPT ![k] = r]
        <5>1. CASE DeliverStart(k)
          BY <3>6, <5>1 DEF DeliverStart, Set
        <5>2. CASE DeliverChecked(k)
          <6> DEFINE v == ViewAt(Tip)
                     s == StateFor(v, op)
                     a == n.kind \in AboutOp /\ ~ValidNow(n.kind, s)
                     b == n.kind = "reminder" /\ s = "pending" /\ v.time < ReminderAt(RowFor(v, op))
                     x == CASE a -> Supersede(n) [] b -> Later(n) [] ~Addressed(n) -> Supersede(n)
                            [] OTHER -> Mailing(n)
          <6>1. outbox' = [outbox EXCEPT ![k] = x]
            BY <5>2 DEF DeliverChecked, Set
          <6> HIDE DEF a, b, n
          <6>2. x \in {Supersede(n), Later(n)}
            BY <3>6
          <6> HIDE DEF x
          <6> QED
            BY <6>1, <6>2
        <5>3. CASE DeliverFails(k)
          BY <5>3 DEF DeliverFails, Set
        <5>4. CASE Delivered(k)
          BY <5>4 DEF Delivered, Set
        <5> QED
          BY <2>3, <5>1, <5>2, <5>3, <5>4
      <4>2. PICK r : /\ outbox' = [outbox EXCEPT ![k] = r]
                     /\ r \in {Supersede(n), Later(n), [n EXCEPT !.doing = "check"],
                          [n EXCEPT !.doing = "none", !.st = IF @ = "pending" THEN "sent" ELSE @]}
        BY <4>1
      <4> HIDE DEF n
      <4>3. r.doing # "mail"
        BY <3>3, <3>4, <4>2
      <4> QED
        BY <3>1, <4>2, <4>3
    <3> QED
      BY <3>5, <3>6
  <2>5. CASE outbox[i].kind # "disabled"
    BY <2>4, <2>5 DEF Addressed, RecoveryInv, FarewellOK
  <2>6. CASE outbox[i].kind = "disabled"
    <3>1. i \in Of(outbox, outbox[i].gen, {"disabled"}) /\ outbox[i].gen \in 1..MaxChallenges
      BY <2>1, <2>6 DEF Of, Notices
    <3> QED
      BY <3>1 DEF RecoveryInv, FarewellOK
  <2> QED
    BY <2>5, <2>6
<1> QED
  BY <1>1, RecoveryInvariant, PTL DEF Spec, FarewellIsLast

\* Only the last transaction of an update ends it well.
LEMMA CommitsAre ==
  ASSUME RecoveryInv, Next, Commits
  PROVE  CommitUpdate /\ Fresh(mon)
<1>0. mon.pc = "assert" /\ mon'.pc = "deliver" /\ sub'.status # "degraded" /\ Fresh(mon) /\ mon' # mon
  BY DEF Commits, SameEnrolment, Fresh
<1>1. ~TickFails
  <2>1. sub \in Subs
    BY DEF RecoveryInv, EnrolledOK
  <2>2. ASSUME TickFails PROVE sub'.status = "degraded"
    BY <1>0, <2>1, <2>2 DEF TickFails, Subs
  <2> QED
    BY <1>0, <2>2
<1>2. ~Restart
  BY <1>0 DEF Restart, Idle
<1>3. ~Environment /\ ~Deliver /\ ~Routes
  BY <1>0 DEF Environment, Mine, Reorganise, Deliver, DeliverStart, DeliverChecked, DeliverFails,
              Delivered, Routes, IssueChallenge, ChallengeExpires, Disable, SubscribeStart, SubscribeFails,
              SubscribeDone
<1>4. Update => CommitUpdate
  BY <1>0, <1>1 DEF Update, TickStart, HeadAnswered, SnapshotAnswered, CursorHolds, CursorGone,
                    ReconcileAnswered, LogsAnswered, EndAnswered, TickEnds
<1> QED
  BY <1>0, <1>2, <1>3, <1>4 DEF Next

\* A recovery that is under way is announced: after every update that ends well,
\* a notice of this enrolment that it was initiated stands, whatever delivery,
\* forks and crashes did before.
THEOREM AlertNotLostAlways == Spec => AlertNotLost
<1> DEFINE A == Commits /\ op'.state \in Active
                  => \E i \in Standing(outbox', sub'.gen) : outbox'[i].kind \in Initiations
<1>1. RecoveryInv /\ RecoveryInv' /\ [Next]_vars => [A]_vars
  <2> SUFFICES ASSUME RecoveryInv, RecoveryInv', Next, Commits, op'.state \in Active
               PROVE  \E i \in Standing(outbox', sub'.gen) : outbox'[i].kind \in Initiations
    OBVIOUS
  <2>1. sub'.gen = sub.gen /\ Told(outbox', sub.gen)
    BY CommitsAre, CommitFacts
  <2>2. PICK i \in Of(outbox', sub'.gen, {"scheduled"}) : outbox'[i].st \in {"pending", "sent"}
    BY <2>1 DEF Told
  <2>3. /\ outbox'[i].kind = "scheduled" /\ "scheduled" \in Initiations /\ "scheduled" \in AboutOp
        /\ i \in DOMAIN outbox'
    BY DEF Of, Initiations, AboutOp
  <2>4. outbox'[i].st = "sent" => outbox'[i].mailed
    BY <2>3 DEF RecoveryInv, NoticesOK
  <2>5. i \in Standing(outbox', sub'.gen)
    BY <2>2, <2>3, <2>4 DEF Standing, Of
  <2> QED
    BY <2>3, <2>5
<1> QED
  BY <1>1, RecoveryInvariant, PTL DEF Spec, AlertNotLost
=============================================================================
