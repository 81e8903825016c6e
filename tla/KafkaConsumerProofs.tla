------------------------ MODULE KafkaConsumerProofs ------------------------
(***************************************************************************)
(* Proofs about KafkaConsumer: that the group never commits past a message *)
(* that was not pushed, and that the list stays within its bound, for      *)
(* every number of partitions and threads, every log and every schedule of *)
(* rollovers, rebalances and restarts.                                     *)
(***************************************************************************)
EXTENDS KafkaConsumer, FiniteSetTheorems, WellFoundedInduction, TLAPS

\* The places of a thread, the ones in the middle of a position pass, and the ones at
\* which it forwards what it reads, or will without looking at its positions again.
Places == {"off", "initial", "first pass", "wait pass", "loop", "loop pass", "poll", "paused",
           "dead", "done"}
Passes == {"first pass", "wait pass", "loop pass"}
Reading == {"loop", "loop pass", "poll", "paused"}

\* The types of the state of the threads, of the group and of the broker.
ConsumerTypeOK ==
    /\ start \in {"current", "from", "pinned"} /\ exitOnEof \in BOOLEAN
    /\ day \in Nat
    /\ owner \in [Partition -> Consumer \cup {None}]
    /\ committed \in [Partition -> Nat] /\ pos \in [Partition -> Nat]
    /\ stored \in [Partition -> Nat]
    /\ held \subseteq Partition /\ dirty \in BOOLEAN
    /\ queue \in Nat /\ pushed \subseteq Partition \X Nat
    /\ pc \in [Consumer -> Places]
    /\ positionTimestamp \in [Consumer -> Nat]
    /\ positioned \in [Consumer -> SUBSET Partition]
    /\ fresh \in [Consumer -> SUBSET Partition] /\ toResolve \in [Consumer -> SUBSET Partition]
    /\ resolved \in [Consumer -> [Partition -> Nat]]
    /\ total \in [Consumer -> Nat]
    /\ late \subseteq Partition \X Nat /\ overtaken \in BOOLEAN

\* A partition is a sequence of days.
LogTypeOK == log \in [Partition -> Seq(Nat)]

\* No offset is past the end of its partition.
OffsetsInLog ==
    \A p \in Partition :
        /\ committed[p] <= Len(log[p]) + 1
        /\ pos[p] <= Len(log[p]) + 1 /\ pos[p] >= 1
        /\ stored[p] <= Len(log[p]) + 1
        /\ \A c \in Consumer : resolved[c][p] <= Len(log[p]) + 1

\* A position pass is about the partitions of its thread that have no position yet, and
\* a replay never takes one.
PassesAgree ==
    \A c \in Consumer :
        /\ fresh[c] = IF pc[c] \in Passes THEN Owned(c) \ positioned[c] ELSE {}
        /\ toResolve[c] \subseteq fresh[c]
        /\ Replay => pc[c] \notin Passes

\* The instant a thread positions to never goes back.
InstantsAgree ==
    \A c \in Consumer : IF start = "current" THEN positionTimestamp[c] <= day
                                             ELSE positionTimestamp[c] = StartDay

\* A replay stores and commits nothing.
ReplayCommitsNothing == Replay => \A p \in Partition : committed[p] = 0 /\ stored[p] = 0

\* The offsets of p before which every wanted message was pushed, or came in late.
Reach(p) ==
    {n \in Nat : \A k \in DOMAIN log[p] : k < n /\ Wanted(p, k) => <<p, k>> \in pushed \cup late}

\* So are the offsets that the group has committed (NothingSkipped), and the stored ones.
StoredIsInReach ==
    \A p \in Partition : committed[p] \in Reach(p) /\ stored[p] \in Reach(p)

\* A thread reads on from such an offset, unless it is before its first message and has not
\* positioned the partition yet.
PositionIsInReach ==
    ~Replay => \A p \in Partition :
        owner[p] # None => \/ pos[p] \in Reach(p)
                           \/ pc[owner[p]] \notin Reading /\ p \notin positioned[owner[p]]

\* The offset that a pass is about to seek to, and to commit, is such an offset.
TargetIsInReach == \A c \in Consumer : \A p \in fresh[c] : Target(c, p) \in Reach(p)

\* A paused thread has paused all its partitions, and was at the end of a round.
PausedIsHeld ==
    ~overtaken => \A c \in Consumer :
        /\ pc[c] = "paused" => Owned(c) \subseteq held
        /\ pc[c] \in {"paused", "poll", "initial", "first pass", "wait pass"} => total[c] = 0
        /\ total[c] < CheckEvery

\* What the threads may still push before they look at the list again: message i of the
\* round of c.
May(c) == pc[c] = "poll" \/ (pc[c] \in {"loop", "loop pass"} /\ total[c] # 0)
Allowed == {x \in Consumer \X (1..CheckEvery) : May(x[1]) /\ x[2] > total[x[1]]}

\* The list, with all that may yet be pushed to it, is within the bound.
AllowedFits ==
    overtaken \/ queue + Cardinality(Allowed) <= MaxInQueue - 1 + CheckEvery * Cardinality(Consumer)

\* The inductive invariant of the consumer threads.
ConsumerInv ==
    /\ ConsumerTypeOK /\ LogTypeOK /\ OffsetsInLog /\ PassesAgree /\ InstantsAgree
    /\ ReplayCommitsNothing /\ StoredIsInReach /\ PositionIsInReach /\ TargetIsInReach
    /\ PausedIsHeld /\ AllowedFits

\* What the proofs need to know of the constants.
LEMMA ConsumerFacts ==
  /\ None \notin Consumer /\ IsFiniteSet(Consumer) /\ StartDay \in Nat /\ FirstDay \in Nat
  /\ StartDay <= FirstDay /\ MaxInQueue \in Nat /\ MaxInQueue > 0 /\ CheckEvery \in Nat /\ CheckEvery > 0
  BY ConsumerAssumption

\* A set of numbers that is not empty has a least one.
LEMMA LeastOf ==
  ASSUME NEW T \in SUBSET Nat, T # {}
  PROVE  \E x \in T : \A y \in T : x <= y
<1>1. PICK x \in T : \A y \in T : ~ (<<y, x>> \in OpToRel(<, Nat))
  BY NatLessThanWellFounded, WFMin
<1>2. \A y \in T : ~ (y < x)
  BY <1>1 DEF OpToRel
<1> QED
  BY <1>2

\* The count of messages comes round after CheckEvery of them.
LEMMA RoundStep ==
  ASSUME NEW n \in Nat, NEW b \in Nat, n < b
  PROVE  (n + 1) % b = IF n + 1 = b THEN 0 ELSE n + 1
<1>1. CASE n + 1 = b
  BY <1>1
<1>2. CASE n + 1 < b
  BY <1>2
<1> QED
  BY <1>1, <1>2

\* offsets_for_times: what is before the offset it finds, or all when it finds none, is
\* older than the instant.
LEMMA FirstProps ==
  ASSUME LogTypeOK, NEW p \in Partition, NEW t \in Nat
  PROVE  /\ FirstAtOrAfter(p, t) \in Nat /\ FirstAtOrAfter(p, t) <= Len(log[p])
         /\ \A k \in DOMAIN log[p] : FirstAtOrAfter(p, t) = End \/ k < FirstAtOrAfter(p, t)
                                       => log[p][k] < t
<1> DEFINE at == {k \in DOMAIN log[p] : log[p][k] >= t}
           f == FirstAtOrAfter(p, t)
<1>1. log[p] \in Seq(Nat) /\ Len(log[p]) \in Nat /\ DOMAIN log[p] = 1..Len(log[p])
  BY DEF LogTypeOK
<1>2. \A k \in DOMAIN log[p] : k \in Nat /\ log[p][k] \in Nat
  BY <1>1
<1>3. CASE at = {}
  <2>1. f = 0
    BY <1>3 DEF FirstAtOrAfter, End
  <2> QED
    BY <1>1, <1>2, <1>3, <2>1
<1>4. CASE at # {}
  <2>1. at \in SUBSET Nat
    BY <1>2
  <2>2. \E k \in at : \A j \in at : k <= j
    BY <1>4, <2>1, LeastOf
  <2>3. f \in at /\ \A j \in at : f <= j
    BY <1>4, <2>2 DEF FirstAtOrAfter
  <2>4. f \in Nat /\ f # 0 /\ f <= Len(log[p])
    BY <1>1, <2>3
  <2>5. ASSUME NEW k \in DOMAIN log[p], k < f PROVE log[p][k] < t
    <3>1. k \notin at
      BY <1>2, <2>3, <2>4, <2>5
    <3> QED
      BY <1>2, <3>1
  <2> QED
    BY <2>4, <2>5 DEF End
<1> QED
  BY <1>3, <1>4

\* What may be passed does not change with what it does not depend on.
LEMMA ReachSame ==
  ASSUME UNCHANGED <<log, pushed, late, positionTimestamp>>
  PROVE  \A p \in Partition : Reach(p)' = Reach(p)
  BY DEF Reach, Wanted

\* More that was pushed, or instants that are later, leave what may be passed.
LEMMA ReachGrows ==
  ASSUME ConsumerTypeOK, LogTypeOK, positionTimestamp' \in [Consumer -> Nat], log' = log,
         pushed \subseteq pushed', late \subseteq late',
         \A c \in Consumer : positionTimestamp[c] <= positionTimestamp'[c]
  PROVE  \A p \in Partition : Reach(p) \subseteq Reach(p)'
<1> SUFFICES ASSUME NEW p \in Partition, NEW n \in Reach(p) PROVE n \in Reach(p)'
  OBVIOUS
<1>1. n \in Nat
  BY DEF Reach
<1>2. ASSUME NEW k \in DOMAIN log[p], Wanted(p, k)' PROVE Wanted(p, k)
  <2>1. log[p][k] \in Nat
    BY DEF LogTypeOK
  <2>2. \A c \in Consumer : positionTimestamp[c] \in Nat /\ positionTimestamp'[c] \in Nat
    BY DEF ConsumerTypeOK
  <2> QED
    BY <1>2, <2>1, <2>2 DEF Wanted
<1> QED
  BY <1>1, <1>2 DEF Reach

\* Whatever is before an offset that may be passed may be.
LEMMA ReachDown ==
  ASSUME LogTypeOK, NEW p \in Partition, NEW n \in Reach(p), NEW m \in Nat, m <= n
  PROVE  m \in Reach(p)
<1>1. n \in Nat /\ \A k \in DOMAIN log[p] : k \in Nat
  BY DEF Reach, LogTypeOK
<1>2. \A k \in DOMAIN log[p] : k < m => k < n
  BY <1>1
<1> QED
  BY <1>2 DEF Reach

\* The beginning of a partition may be.
LEMMA ReachStart ==
  ASSUME LogTypeOK, NEW p \in Partition
  PROVE  0 \in Reach(p) /\ 1 \in Reach(p)
<1>1. \A k \in DOMAIN log[p] : k \in Nat /\ k >= 1
  BY DEF LogTypeOK
<1> QED
  BY <1>1 DEF Reach

\* A message that was pushed may be passed.
LEMMA ReachNext ==
  ASSUME LogTypeOK, log' = log, NEW p \in Partition, NEW n \in Reach(p)', <<p, n>> \in pushed'
  PROVE  n + 1 \in Reach(p)'
<1>1. n \in Nat /\ \A k \in DOMAIN log[p] : k \in Nat
  BY DEF Reach, LogTypeOK
<1>2. \A k \in DOMAIN log[p] : k < n + 1 => k < n \/ k = n
  BY <1>1
<1> QED
  BY <1>1, <1>2 DEF Reach

\* A message is appended.
LEMMA ProduceProps ==
  ASSUME ConsumerTypeOK, LogTypeOK, NEW p \in Partition, Produce(p)
  PROVE  /\ log' \in [Partition -> Seq(Nat)]
         /\ \A q \in Partition : q # p => log'[q] = log[q]
         /\ \A q \in Partition : Len(log[q]) \in Nat /\ Len(log'[q]) \in Nat
         /\ Len(log'[p]) = Len(log[p]) + 1
         /\ \A k \in DOMAIN log[p] : log'[p][k] = log[p][k]
         /\ DOMAIN log'[p] = DOMAIN log[p] \cup {Len(log[p]) + 1}
         /\ \A k \in DOMAIN log[p] : k \in Nat /\ k <= Len(log[p])
<1>1. log[p] \in Seq(Nat) /\ day \in Nat /\ log'[p] = Append(log[p], day)
  BY DEF Produce, ConsumerTypeOK, LogTypeOK
<1>2. Append(log[p], day) \in Seq(Nat)
  BY <1>1
<1>3. log' \in [Partition -> Seq(Nat)] /\ \A q \in Partition : q # p => log'[q] = log[q]
  BY <1>1, <1>2 DEF Produce, LogTypeOK
<1>4. \A q \in Partition : Len(log[q]) \in Nat /\ Len(log'[q]) \in Nat
  BY <1>3 DEF LogTypeOK
<1>5. /\ Len(log'[p]) = Len(log[p]) + 1
      /\ \A k \in DOMAIN log[p] : log'[p][k] = log[p][k] /\ k \in Nat /\ k <= Len(log[p])
  BY <1>1
<1>6. DOMAIN log'[p] = DOMAIN log[p] \cup {Len(log[p]) + 1}
  BY <1>1, <1>4
<1> QED
  BY <1>3, <1>4, <1>5, <1>6

\* What could be passed still can: a new message is behind it.
LEMMA ProduceReach ==
  ASSUME ConsumerTypeOK, LogTypeOK, NEW p \in Partition, Produce(p)
  PROVE  /\ \A q \in Partition : \A n \in Reach(q) : n <= Len(log[q]) + 1 => n \in Reach(q)'
         /\ Len(log[p]) + 1 \in Reach(p) /\ <<p, Len(log[p]) + 1>> \in late'
              => Len(log[p]) + 2 \in Reach(p)'
<1>1. /\ pushed' = pushed /\ late \subseteq late' /\ positionTimestamp' = positionTimestamp
  BY DEF Produce, thread, list
<1>2. \A k \in DOMAIN log[p] : Wanted(p, k)' = Wanted(p, k)
  BY <1>1, ProduceProps DEF Wanted
<1>3. ASSUME NEW q \in Partition, NEW n \in Reach(q), n <= Len(log[q]) + 1 PROVE n \in Reach(q)'
  <2>1. CASE q = p
    <3>1. n \in Nat /\ Len(log[p]) \in Nat
      BY ProduceProps DEF Reach
    <3>2. \A k \in DOMAIN log'[p] : k < n => k \in DOMAIN log[p]
      BY <1>3, <2>1, <3>1, ProduceProps
    <3> QED
      BY <1>1, <1>2, <2>1, <3>1, <3>2 DEF Reach
  <2>2. CASE q # p
    <3>1. log'[q] = log[q]
      BY <2>2, ProduceProps
    <3> QED
      BY <1>1, <3>1 DEF Reach, Wanted
  <2> QED
    BY <2>1, <2>2
<1>4. ASSUME Len(log[p]) + 1 \in Reach(p), <<p, Len(log[p]) + 1>> \in late'
      PROVE  Len(log[p]) + 2 \in Reach(p)'
  <2>1. Len(log[p]) \in Nat /\ Len(log[p]) + 2 \in Nat
    BY ProduceProps
  <2>2. \A k \in DOMAIN log[p] : k < Len(log[p]) + 1
    BY ProduceProps
  <2>3. \A k \in DOMAIN log'[p] : k \in DOMAIN log[p] \/ <<p, k>> \in late'
    BY <1>4, ProduceProps
  <2>4. \A k \in DOMAIN log[p] : Wanted(p, k) => <<p, k>> \in pushed \cup late
    BY <1>4, <2>2 DEF Reach
  <2> QED
    BY <1>1, <1>2, <2>1, <2>3, <2>4 DEF Reach
<1> QED
  BY <1>3, <1>4

\* A thread that has nothing to position goes on; any other begins a pass over the
\* partitions that have no position yet.
LEMMA BeginPassProps ==
  ASSUME ConsumerTypeOK, LogTypeOK, OffsetsInLog,
         NEW c \in Consumer, NEW pass \in Passes, NEW t \in Nat, BeginPass(c, pass, t)
  PROVE  /\ pc' \in [Consumer -> Places]
         /\ fresh' \in [Consumer -> SUBSET Partition] /\ toResolve' \in [Consumer -> SUBSET Partition]
         /\ resolved' \in [Consumer -> [Partition -> Nat]]
         /\ \A d \in Consumer : d # c => /\ pc'[d] = pc[d] /\ fresh'[d] = fresh[d]
                                         /\ toResolve'[d] = toResolve[d] /\ resolved'[d] = resolved[d]
         /\ \/ /\ Owned(c) \subseteq positioned[c] /\ pc'[c] = After(pass)
               /\ fresh' = fresh /\ toResolve' = toResolve /\ resolved' = resolved
            \/ /\ pc'[c] = pass /\ Owned(c) \ positioned[c] # {}
               /\ fresh'[c] = Owned(c) \ positioned[c] /\ toResolve'[c] \subseteq fresh'[c]
               /\ \A p \in Partition :
                    /\ resolved'[c][p] <= Len(log[p]) + 1
                    /\ p \in fresh'[c] => resolved'[c][p] = IF committed[p] # 0 THEN committed[p]
                                                       ELSE FirstAtOrAfter(p, t)
<1> DEFINE f == Owned(c) \ positioned[c]
<1>1. f \subseteq Partition
  BY DEF Owned
<1>2. pass \in Places /\ After(pass) \in Places
  BY DEF Passes, Places, After
<1>3. CASE f = {}
  <2>1. pc' = [pc EXCEPT ![c] = After(pass)] /\ fresh' = fresh /\ toResolve' = toResolve /\ resolved' = resolved
    BY <1>3 DEF BeginPass
  <2>2. pc' \in [Consumer -> Places] /\ pc'[c] = After(pass) /\ \A d \in Consumer : d # c => pc'[d] = pc[d]
    BY <1>2, <2>1 DEF ConsumerTypeOK
  <2>3. /\ fresh' \in [Consumer -> SUBSET Partition] /\ toResolve' \in [Consumer -> SUBSET Partition]
        /\ resolved' \in [Consumer -> [Partition -> Nat]]
    BY <2>1 DEF ConsumerTypeOK
  <2> QED
    BY <1>3, <2>1, <2>2, <2>3
<1>4. CASE f # {}
  <2> DEFINE new == [p \in Partition |-> IF p \notin f THEN End
                                         ELSE IF committed[p] # 0 THEN committed[p] ELSE FirstAtOrAfter(p, t)]
  <2>1. /\ pc' = [pc EXCEPT ![c] = pass]
        /\ fresh' = [fresh EXCEPT ![c] = f]
        /\ toResolve' = [toResolve EXCEPT ![c] = {p \in f : committed[p] = 0}]
        /\ resolved' = [resolved EXCEPT ![c] = new]
    BY <1>4 DEF BeginPass
  <2>2. pc' \in [Consumer -> Places] /\ pc'[c] = pass /\ \A d \in Consumer : d # c => pc'[d] = pc[d]
    BY <1>2, <2>1 DEF ConsumerTypeOK
  <2>3. /\ fresh' \in [Consumer -> SUBSET Partition] /\ toResolve' \in [Consumer -> SUBSET Partition]
        /\ fresh'[c] = f /\ toResolve'[c] \subseteq f
        /\ \A d \in Consumer : d # c => fresh'[d] = fresh[d] /\ toResolve'[d] = toResolve[d]
    BY <1>1, <2>1 DEF ConsumerTypeOK
  <2>4. \A p \in Partition : /\ committed[p] \in Nat /\ committed[p] <= Len(log[p]) + 1 /\ Len(log[p]) \in Nat
                             /\ FirstAtOrAfter(p, t) \in Nat /\ FirstAtOrAfter(p, t) <= Len(log[p])
    <3>1. \A p \in Partition : Len(log[p]) \in Nat
      BY DEF LogTypeOK
    <3>2. \A p \in Partition : committed[p] \in Nat
      BY DEF ConsumerTypeOK
    <3> QED
      BY <3>1, <3>2, FirstProps DEF OffsetsInLog
  <2>5. new \in [Partition -> Nat] /\ \A p \in Partition : new[p] <= Len(log[p]) + 1
    BY <2>4 DEF End
  <2>6. \A p \in f : new[p] = IF committed[p] # 0 THEN committed[p] ELSE FirstAtOrAfter(p, t)
    BY <1>1
  <2>7. new \in [Partition -> Nat] => /\ resolved' \in [Consumer -> [Partition -> Nat]] /\ resolved'[c] = new
                                      /\ \A d \in Consumer : d # c => resolved'[d] = resolved[d]
    <3> HIDE DEF new
    <3> QED
      BY <2>1 DEF ConsumerTypeOK
  <2> HIDE DEF new
  <2> QED
    BY <1>4, <2>2, <2>3, <2>5, <2>6, <2>7
<1> QED
  BY <1>3, <1>4

\* What a pass finds for the instant of its thread may be passed.
LEMMA FirstInReach ==
  ASSUME LogTypeOK, NEW c \in Consumer, NEW p \in Partition, NEW t \in Nat,
         positionTimestamp'[c] = t, log' = log
  PROVE  (IF FirstAtOrAfter(p, t) = End THEN Len(log[p]) + 1 ELSE FirstAtOrAfter(p, t)) \in Reach(p)'
<1> DEFINE f == FirstAtOrAfter(p, t)
           n == IF f = End THEN Len(log[p]) + 1 ELSE f
<1>1. Len(log[p]) \in Nat /\ \A k \in DOMAIN log[p] : log[p][k] \in Nat
  BY DEF LogTypeOK
<1>2. f \in Nat /\ \A k \in DOMAIN log[p] : f = End \/ k < f => log[p][k] < t
  BY FirstProps
<1>3. n \in Nat
  BY <1>1, <1>2
<1>4. \A k \in DOMAIN log[p] : k < n => log[p][k] < t
  BY <1>2
<1>5. \A k \in DOMAIN log[p] : k < n => ~Wanted(p, k)'
  BY <1>1, <1>4 DEF Wanted
<1> HIDE DEF n
<1>6. n \in Reach(p)'
  BY <1>3, <1>5 DEF Reach
<1> QED
  BY <1>6 DEF n

\* What the threads may still push is within a round of each of them.
LEMMA AllowedFinite ==
  /\ IsFiniteSet(Allowed) /\ Cardinality(Allowed) \in Nat
  /\ Cardinality(Allowed) <= CheckEvery * Cardinality(Consumer)
<1> DEFINE P == Consumer \X (1..CheckEvery)
<1>1. IsFiniteSet(1..CheckEvery) /\ Cardinality(1..CheckEvery) = CheckEvery
  BY ConsumerFacts, FS_Interval
<1>2. IsFiniteSet(P) /\ Cardinality(P) = Cardinality(Consumer) * Cardinality(1..CheckEvery)
  BY <1>1, ConsumerFacts, FS_Product
<1>3. Allowed \subseteq P
  BY DEF Allowed
<1>4. IsFiniteSet(Allowed) /\ Cardinality(Allowed) <= Cardinality(P)
  BY <1>2, <1>3, FS_Subset
<1>5. Cardinality(Allowed) \in Nat /\ Cardinality(Consumer) \in Nat
  BY <1>4, ConsumerFacts, FS_CardinalityType
<1>6. CheckEvery * Cardinality(Consumer) = Cardinality(Consumer) * CheckEvery
  BY <1>5, ConsumerFacts
<1> QED
  BY <1>1, <1>2, <1>4, <1>5, <1>6

\* A step after which no thread may push more than before keeps AllowedFits.
LEMMA FitsBelow ==
  ASSUME NEW q \in Nat, NEW r \in Nat, NEW a \in Nat, NEW b \in Nat, NEW m \in Nat, NEW x \in Nat,
         r <= q, b <= a, q + a <= x - 1 + m
  PROVE  r + b <= x - 1 + m
  OBVIOUS

\* A thread that has found the list below its limit may push as many as it does between two
\* looks.
LEMMA FitsAnew ==
  ASSUME NEW r \in Nat, NEW b \in Nat, NEW m \in Nat, NEW x \in Nat, r < x, b <= m
  PROVE  r + b <= x - 1 + m
  OBVIOUS

\* A push takes one from what is allowed.
LEMMA FitsSpent ==
  ASSUME NEW q \in Nat, NEW a \in Nat, NEW b \in Nat, NEW m \in Nat, NEW x \in Nat,
         b <= a - 1, q + a <= x - 1 + m
  PROVE  q + 1 + b <= x - 1 + m
  OBVIOUS

\* A step that pushes nothing and lets no thread push more keeps within the limit.
LEMMA AllowedKept ==
  ASSUME ConsumerTypeOK, AllowedFits, queue' \in Nat, queue' <= queue, overtaken => overtaken',
         total' \in [Consumer -> Nat],
         ~overtaken => \A d \in Consumer : May(d)' => May(d) /\ total[d] <= total'[d]
  PROVE  AllowedFits'
<1> SUFFICES ASSUME ~overtaken PROVE AllowedFits'
  BY DEF AllowedFits
<1>1. Allowed' \subseteq Allowed
  <2>1. \A d \in Consumer : total[d] \in Nat /\ total'[d] \in Nat
    BY DEF ConsumerTypeOK
  <2> QED
    BY <2>1 DEF Allowed
<1>2. Cardinality(Allowed') \in Nat /\ Cardinality(Allowed) \in Nat /\ Cardinality(Allowed') <= Cardinality(Allowed)
  BY <1>1, AllowedFinite, FS_Subset, FS_CardinalityType
<1>3. CheckEvery * Cardinality(Consumer) \in Nat
  BY ConsumerFacts, FS_CardinalityType
<1>4. queue \in Nat
  BY DEF ConsumerTypeOK
<1> DEFINE m == CheckEvery * Cardinality(Consumer)
           a == Cardinality(Allowed)
           b == Cardinality(Allowed')
<1>5. m \in Nat /\ a \in Nat /\ b \in Nat /\ b <= a
  BY <1>2, <1>3
<1>6. overtaken \/ queue + a <= MaxInQueue - 1 + m
  BY DEF AllowedFits
<1>7. queue + a <= MaxInQueue - 1 + m => queue' + b <= MaxInQueue - 1 + m
  BY <1>4, <1>5, FitsBelow, ConsumerFacts
<1> QED
  BY <1>6, <1>7 DEF AllowedFits

\* So does one after a look at a list that is below its limit.
LEMMA AllowedAnew ==
  ASSUME queue' \in Nat, queue' < MaxInQueue
  PROVE  AllowedFits'
<1> DEFINE m == CheckEvery * Cardinality(Consumer)
           b == Cardinality(Allowed')
<1>1. b \in Nat /\ m \in Nat /\ b <= m
  <2>1. (IsFiniteSet(Allowed) /\ Cardinality(Allowed) \in Nat
          /\ Cardinality(Allowed) <= CheckEvery * Cardinality(Consumer))'
    BY AllowedFinite, PTL
  <2>2. m \in Nat
    BY ConsumerFacts, FS_CardinalityType
  <2> QED
    BY <2>1, <2>2
<1>2. queue' + b <= MaxInQueue - 1 + m
  BY <1>1, FitsAnew, ConsumerFacts
<1> QED
  BY <1>2 DEF AllowedFits

\* A message that a thread pushes is one that it might.
LEMMA AllowedSpent ==
  ASSUME ConsumerTypeOK, AllowedFits, NEW c \in Consumer, ~overtaken, May(c), total[c] < CheckEvery,
         queue' = queue + 1, Allowed' \subseteq Allowed \ {<<c, total[c] + 1>>}
  PROVE  AllowedFits'
<1> DEFINE x == <<c, total[c] + 1>>
           m == CheckEvery * Cardinality(Consumer)
<1>1. total[c] \in Nat /\ queue \in Nat
  BY DEF ConsumerTypeOK
<1>2. x \in Allowed
  BY <1>1, ConsumerFacts DEF Allowed
<1>3. IsFiniteSet(Allowed) /\ Cardinality(Allowed) \in Nat
  BY AllowedFinite
<1>4. IsFiniteSet(Allowed \ {x}) /\ Cardinality(Allowed \ {x}) = Cardinality(Allowed) - 1
  BY <1>2, <1>3, FS_RemoveElement
<1>5. Cardinality(Allowed') \in Nat /\ Cardinality(Allowed') <= Cardinality(Allowed) - 1
  BY <1>4, FS_Subset, FS_CardinalityType
<1>6. m \in Nat
  BY ConsumerFacts, FS_CardinalityType
<1>7. queue + Cardinality(Allowed) <= MaxInQueue - 1 + m
  BY DEF AllowedFits
<1>8. queue' + Cardinality(Allowed') <= MaxInQueue - 1 + m
  BY <1>1, <1>3, <1>5, <1>6, <1>7, FitsSpent, ConsumerFacts
<1> QED
  BY <1>8 DEF AllowedFits

\* The numbers of a state are numbers.
LEMMA Numbers ==
  ASSUME ConsumerTypeOK, LogTypeOK
  PROVE  /\ day \in Nat /\ queue \in Nat
         /\ \A q \in Partition : /\ Len(log[q]) \in Nat /\ committed[q] \in Nat /\ pos[q] \in Nat
                                 /\ stored[q] \in Nat
                                 /\ \A d \in Consumer : resolved[d][q] \in Nat
         /\ \A d \in Consumer : total[d] \in Nat /\ positionTimestamp[d] \in Nat
  BY DEF ConsumerTypeOK, LogTypeOK

\* A pass that is not touched keeps its targets.
LEMMA TargetKept ==
  ASSUME ConsumerTypeOK, TargetIsInReach, log' = log,
         \A d \in Consumer : fresh'[d] = {} \/ (fresh'[d] = fresh[d] /\ resolved'[d] = resolved[d]),
         \A q \in Partition : Reach(q) \subseteq Reach(q)'
  PROVE  TargetIsInReach'
<1>1. \A d \in Consumer : fresh[d] \subseteq Partition
  BY DEF ConsumerTypeOK
<1> QED
  BY <1>1 DEF TargetIsInReach, Target

\* Nor does a thread lose its positions to a step that does not move them.
LEMMA PositionKept ==
  ASSUME ConsumerTypeOK, PositionIsInReach, UNCHANGED <<start, owner, pos>>,
         \A q \in Partition : Reach(q) \subseteq Reach(q)',
         \A d \in Consumer : positioned'[d] \subseteq positioned[d],
         \A d \in Consumer : \/ pc'[d] \in Reading => pc[d] \in Reading
                             \/ Owned(d) \subseteq positioned[d]
  PROVE  PositionIsInReach'
<1> SUFFICES ASSUME ~Replay, NEW q \in Partition, owner[q] # None, pos[q] \notin Reach(q)'
             PROVE  pc'[owner[q]] \notin Reading /\ q \notin positioned'[owner[q]]
  BY DEF PositionIsInReach, Replay
<1>1. owner[q] \in Consumer
  BY DEF ConsumerTypeOK
<1>2. pc[owner[q]] \notin Reading /\ q \notin positioned[owner[q]] /\ q \in Owned(owner[q])
  BY DEF PositionIsInReach, Owned
<1> QED
  BY <1>1, <1>2

\* A thread that begins a pass, or has none to make.
LEMMA PassBegun ==
  ASSUME ConsumerInv, NEW c \in Consumer, NEW pass \in Passes, NEW t \in Nat, BeginPass(c, pass, t),
         pc[c] \notin Passes, ~Replay, positionTimestamp'[c] = t,
         UNCHANGED <<start, log, owner, positioned>>,
         \A q \in Partition : Reach(q) \subseteq Reach(q)'
  PROVE  /\ PassesAgree' /\ TargetIsInReach'
         /\ \A q \in Partition, d \in Consumer : resolved'[d][q] <= Len(log[q]) + 1
<1>1. ConsumerTypeOK /\ LogTypeOK /\ OffsetsInLog /\ PassesAgree /\ TargetIsInReach /\ StoredIsInReach
  BY DEF ConsumerInv
<1>2. \A d \in Consumer : d # c => /\ pc'[d] = pc[d] /\ fresh'[d] = fresh[d]
                                   /\ toResolve'[d] = toResolve[d] /\ resolved'[d] = resolved[d]
  BY <1>1, BeginPassProps
<1>3. \A d \in Consumer : Owned(d)' = Owned(d)
  BY DEF Owned
<1>4. Replay' = Replay
  BY DEF Replay
<1>5. After(pass) \notin Passes
  BY DEF After, Passes
<1>6. CASE /\ Owned(c) \subseteq positioned[c] /\ pc'[c] = After(pass)
           /\ fresh' = fresh /\ toResolve' = toResolve /\ resolved' = resolved
  <2>1. PassesAgree'
    BY <1>1, <1>2, <1>3, <1>4, <1>5, <1>6 DEF PassesAgree
  <2>2. TargetIsInReach'
    BY <1>1, <1>6, TargetKept
  <2> QED
    BY <1>1, <1>6, <2>1, <2>2 DEF OffsetsInLog
<1>7. CASE /\ pc'[c] = pass
           /\ fresh'[c] = Owned(c) \ positioned[c] /\ toResolve'[c] \subseteq fresh'[c]
           /\ \A p \in Partition :
                /\ resolved'[c][p] <= Len(log[p]) + 1
                /\ p \in fresh'[c] => resolved'[c][p] = IF committed[p] # 0 THEN committed[p]
                                                        ELSE FirstAtOrAfter(p, t)
  <2>1. PassesAgree'
    BY <1>1, <1>2, <1>3, <1>4, <1>7 DEF PassesAgree
  <2>2. ASSUME NEW q \in fresh'[c] PROVE Target(c, q)' \in Reach(q)'
    <3>1. q \in Partition /\ committed[q] \in Reach(q)'
      BY <1>1, <1>7, <2>2 DEF StoredIsInReach, Owned
    <3>2. resolved'[c][q] = IF committed[q] # 0 THEN committed[q] ELSE FirstAtOrAfter(q, t)
      BY <1>7, <2>2, <3>1
    <3>3. Target(c, q)' = IF resolved'[c][q] = End THEN Len(log[q]) + 1 ELSE resolved'[c][q]
      BY DEF Target
    <3>4. CASE committed[q] # 0
      BY <3>1, <3>2, <3>3, <3>4 DEF End
    <3>5. CASE committed[q] = 0
      BY <1>1, <3>1, <3>2, <3>3, <3>5, FirstInReach
    <3> QED
      BY <3>4, <3>5
  <2>3. ASSUME NEW d \in Consumer, d # c, NEW q \in fresh'[d] PROVE Target(d, q)' \in Reach(q)'
    <3>1. q \in Partition /\ q \in fresh[d] /\ resolved'[d] = resolved[d]
      BY <1>1, <1>2, <2>3 DEF ConsumerTypeOK
    <3>2. Target(d, q)' = Target(d, q)
      BY <3>1 DEF Target
    <3> QED
      BY <1>1, <3>1, <3>2 DEF TargetIsInReach
  <2>4. TargetIsInReach'
    BY <2>2, <2>3 DEF TargetIsInReach
  <2>5. \A q \in Partition, d \in Consumer : resolved'[d][q] <= Len(log[q]) + 1
    BY <1>1, <1>2, <1>7 DEF OffsetsInLog
  <2> QED
    BY <2>1, <2>4, <2>5
<1> QED
  BY <1>1, <1>6, <1>7, BeginPassProps

\* The steps of the broker, the clock, the group and the process keep the invariant.
LEMMA OutsideStep == ConsumerInv /\ (Midnight \/ Rebalance \/ Drain \/ Boot \/ Crash \/ \E p \in Partition : Produce(p) \/ AutoCommit(p)) => ConsumerInv'
<1> SUFFICES ASSUME ConsumerInv, (Midnight \/ Rebalance \/ Drain \/ Boot \/ Crash \/ \E p \in Partition : Produce(p) \/ AutoCommit(p)) PROVE ConsumerInv'
  OBVIOUS
<1> USE ConsumerFacts DEF ConsumerInv, plan, broker, group, thread, list, history
<1>1. ASSUME NEW p \in Partition, Produce(p) PROVE ConsumerInv'
  <2>1. ConsumerTypeOK'
    <3>1. late' \subseteq Partition \X Nat
      <4>1. Len(log[p]) + 1 \in Nat
        BY Numbers
      <4>2. <<p, Len(log[p]) + 1>> \in Partition \X Nat
        BY <4>1
      <4> QED
        BY <1>1, <4>2 DEF Produce, ConsumerTypeOK
    <3>2. UNCHANGED <<start, exitOnEof, day, owner, committed, pos, stored, held, dirty,
        queue, pushed, pc, positionTimestamp, positioned, fresh, toResolve, resolved, total,
        overtaken>>
      BY <1>1 DEF Produce
    <3> QED
      BY <3>1, <3>2 DEF ConsumerTypeOK
  <2>2. LogTypeOK'
    BY <1>1, ProduceProps DEF LogTypeOK
  <2>3. OffsetsInLog'
    <3>1. \A q \in Partition : Len(log[q]) <= Len(log'[q]) /\ Len(log'[q]) \in Nat
      <4>1. Len(log'[p]) = Len(log[p]) + 1 /\ \A q \in Partition : q # p => log'[q] = log[q]
        BY <1>1, ProduceProps
      <4> QED
        BY <4>1, Numbers
    <3>2. UNCHANGED <<committed, pos, stored, resolved>>
      BY <1>1 DEF Produce
    <3>3. ASSUME NEW q \in Partition
          PROVE  /\ committed'[q] <= Len(log'[q]) + 1 /\ stored'[q] <= Len(log'[q]) + 1
                 /\ pos'[q] <= Len(log'[q]) + 1 /\ pos'[q] >= 1
      <4>1. /\ committed[q] \in Nat /\ stored[q] \in Nat /\ pos[q] \in Nat /\ Len(log[q]) \in Nat
            /\ committed[q] <= Len(log[q]) + 1 /\ stored[q] <= Len(log[q]) + 1
            /\ pos[q] <= Len(log[q]) + 1 /\ pos[q] >= 1
        BY Numbers DEF OffsetsInLog
      <4> QED
        BY <3>1, <3>2, <4>1
    <3>4. ASSUME NEW q \in Partition, NEW d \in Consumer PROVE resolved'[d][q] <= Len(log'[q]) + 1
      <4>1. resolved[d][q] \in Nat /\ resolved[d][q] <= Len(log[q]) + 1 /\ Len(log[q]) \in Nat
        BY Numbers DEF OffsetsInLog
      <4> QED
        BY <3>1, <3>2, <4>1
    <3> QED
      BY <3>3, <3>4 DEF OffsetsInLog
  <2>4. PassesAgree'
    BY <1>1 DEF Produce, PassesAgree, Owned, Replay
  <2>5. InstantsAgree'
    BY <1>1 DEF Produce, InstantsAgree
  <2>6. ReplayCommitsNothing'
    BY <1>1 DEF Produce, ReplayCommitsNothing, Replay
  <2>7. StoredIsInReach'
    BY <1>1, ProduceReach DEF Produce, OffsetsInLog, StoredIsInReach
  <2>8. PositionIsInReach'
    BY <1>1, ProduceReach DEF Produce, OffsetsInLog, PositionIsInReach, Replay
  <2>9. TargetIsInReach'
    <3> SUFFICES ASSUME NEW c \in Consumer, NEW q \in fresh[c] PROVE Target(c, q)' \in Reach(q)'
      BY <1>1 DEF Produce, TargetIsInReach
    <3>1. q \in Partition /\ Target(c, q) \in Reach(q) /\ resolved' = resolved
      BY <1>1 DEF Produce, TargetIsInReach, ConsumerTypeOK
    <3>2. Len(log[q]) \in Nat
      BY <3>1, Numbers
    <3>3. CASE resolved[c][q] # End
      <4>1. Target(c, q)' = Target(c, q) /\ Target(c, q) <= Len(log[q]) + 1
        BY <3>1, <3>3 DEF Target, OffsetsInLog
      <4> QED
        BY <1>1, <3>1, <4>1, ProduceReach
    <3>4. CASE resolved[c][q] = End
      <4>1. Target(c, q) = Len(log[q]) + 1 /\ Target(c, q)' = Len(log'[q]) + 1
        BY <3>1, <3>4 DEF Target
      <4>2. CASE q = p
        <5>1. <<p, Len(log[p]) + 1>> \in late'
          BY <1>1, <3>4, <4>2 DEF Produce
        <5>2. Len(log'[p]) + 1 = Len(log[p]) + 2
          BY <1>1, <3>2, <4>2, ProduceProps
        <5> QED
          BY <1>1, <3>1, <4>1, <4>2, <5>1, <5>2, ProduceReach
      <4>3. CASE q # p
        <5>1. Target(c, q)' = Target(c, q) /\ Target(c, q) <= Len(log[q]) + 1
          BY <1>1, <3>1, <3>2, <4>1, <4>3, ProduceProps
        <5> QED
          BY <1>1, <3>1, <5>1, ProduceReach
      <4> QED
        BY <4>2, <4>3
    <3> QED
      BY <3>3, <3>4
  <2>10. PausedIsHeld'
    BY <1>1 DEF Produce, PausedIsHeld, Owned
  <2>11. AllowedFits'
    BY <1>1 DEF Produce, AllowedFits, Allowed, May
  <2> QED
    BY <2>1, <2>2, <2>3, <2>4, <2>5, <2>6, <2>7, <2>8, <2>9, <2>10, <2>11 DEF ConsumerInv
<1>2. CASE Midnight
  <2>1. ConsumerTypeOK'
    <3>1. day' \in Nat
      BY <1>2 DEF Midnight, ConsumerTypeOK
    <3>2. dirty' \in BOOLEAN
      BY <1>2 DEF Midnight, ConsumerTypeOK
    <3>3. UNCHANGED <<start, exitOnEof, owner, committed, pos, stored, held, queue, pushed,
        pc, positionTimestamp, positioned, fresh, toResolve, resolved, total, late,
        overtaken>>
      BY <1>2 DEF Midnight
    <3> QED
      BY <3>1, <3>2, <3>3 DEF ConsumerTypeOK
  <2>2. LogTypeOK'
    BY <1>2 DEF Midnight, LogTypeOK
  <2>3. OffsetsInLog'
    BY <1>2 DEF Midnight, OffsetsInLog
  <2>4. PassesAgree'
    BY <1>2 DEF Midnight, PassesAgree, Owned, Replay
  <2>5. InstantsAgree'
    BY <1>2 DEF Midnight, ConsumerTypeOK, InstantsAgree
  <2>6. ReplayCommitsNothing'
    BY <1>2 DEF Midnight, ReplayCommitsNothing, Replay
  <2>7. StoredIsInReach'
    <3>1. \A q \in Partition : Reach(q)' = Reach(q)
      BY <1>2, ReachSame DEF Midnight
    <3> QED
      BY <1>2, <3>1 DEF Midnight, StoredIsInReach
  <2>8. PositionIsInReach'
    <3>1. \A q \in Partition : Reach(q)' = Reach(q)
      BY <1>2, ReachSame DEF Midnight
    <3> QED
      BY <1>2, <3>1 DEF Midnight, PositionIsInReach, Replay
  <2>9. TargetIsInReach'
    <3>1. \A q \in Partition : Reach(q)' = Reach(q)
      BY <1>2, ReachSame DEF Midnight
    <3> QED
      BY <1>2, <3>1, TargetKept DEF Midnight
  <2>10. PausedIsHeld'
    BY <1>2 DEF Midnight, PausedIsHeld, Owned
  <2>11. AllowedFits'
    BY <1>2 DEF Midnight, AllowedFits, Allowed, May
  <2> QED
    BY <2>1, <2>2, <2>3, <2>4, <2>5, <2>6, <2>7, <2>8, <2>9, <2>10, <2>11 DEF ConsumerInv
<1>3. CASE Rebalance
  <2>1. /\ log' = log /\ start' = start
        /\ \A q \in Partition : /\ committed'[q] = IF Replay THEN 0 ELSE Larger(committed[q], stored[q])
                                /\ stored'[q] = 0 /\ pos'[q] = Larger(1, committed'[q])
        /\ \A d \in Consumer : fresh'[d] = {} /\ toResolve'[d] = {}
        /\ \A d \in Consumer, q \in Partition : resolved'[d][q] = 0
    BY <1>3 DEF Rebalance, End
  <2>2. \A d \in Consumer : /\ pc[d] \in {"first pass", "wait pass"} => pc'[d] = "initial"
                            /\ pc[d] = "loop pass" => pc'[d] = "loop"
                            /\ pc[d] \notin Passes => pc'[d] = pc[d]
    BY <1>3 DEF Rebalance, Passes
  <2>3. \A d \in Consumer : pc'[d] \notin Passes
    BY <2>2 DEF Passes, ConsumerTypeOK
  <2>4. \A q \in Partition : /\ committed'[q] \in {0, committed[q], stored[q]}
                             /\ pos'[q] \in {1, committed'[q]} /\ pos'[q] >= 1 /\ pos'[q] \in Nat
    BY <2>1, Numbers DEF Larger
  <2>5. ConsumerTypeOK'
    <3>1. dirty' \in BOOLEAN
      BY <1>3 DEF Rebalance, ConsumerTypeOK
    <3>2. owner' \in [Partition -> Consumer \cup {None}]
      BY <1>3 DEF Rebalance, ConsumerTypeOK
    <3>3. committed' \in [Partition -> Nat]
      <4>1. \A q \in Partition : committed'[q] \in Nat
        BY <2>4, Numbers
      <4> QED
        BY <1>3, <4>1 DEF Rebalance
    <3>4. stored' \in [Partition -> Nat]
      BY <1>3 DEF Rebalance, ConsumerTypeOK
    <3>5. pos' \in [Partition -> Nat]
      BY <1>3, <2>4 DEF Rebalance
    <3>6. held' \subseteq Partition
      BY <1>3 DEF Rebalance, ConsumerTypeOK
    <3>7. fresh' \in [Consumer -> SUBSET Partition]
      BY <1>3 DEF Rebalance, ConsumerTypeOK
    <3>8. toResolve' \in [Consumer -> SUBSET Partition]
      BY <1>3 DEF Rebalance, ConsumerTypeOK
    <3>9. resolved' \in [Consumer -> [Partition -> Nat]]
      BY <1>3 DEF Rebalance, ConsumerTypeOK, End
    <3>10. pc' \in [Consumer -> Places]
      <4>1. \A d \in Consumer : pc'[d] \in Places
        BY <2>2 DEF Passes, Places, ConsumerTypeOK
      <4> QED
        BY <1>3, <4>1 DEF Rebalance
    <3>11. overtaken' \in BOOLEAN
      BY <1>3 DEF Rebalance, ConsumerTypeOK
    <3>12. UNCHANGED <<start, exitOnEof, day, queue, pushed, positionTimestamp, positioned,
        total, late>>
      BY <1>3 DEF Rebalance
    <3> QED
      BY <3>1, <3>2, <3>3, <3>4, <3>5, <3>6, <3>7, <3>8, <3>9, <3>10, <3>11, <3>12 DEF
          ConsumerTypeOK
  <2>6. LogTypeOK'
    BY <1>3 DEF Rebalance, LogTypeOK
  <2>7. OffsetsInLog'
    BY <2>1, <2>4, Numbers, SMTT(30) DEF OffsetsInLog
  <2>8. PassesAgree'
    BY <2>1, <2>3 DEF PassesAgree
  <2>9. InstantsAgree'
    BY <1>3 DEF Rebalance, InstantsAgree
  <2>10. ReplayCommitsNothing'
    BY <2>1 DEF ReplayCommitsNothing, Replay
  <2>11. StoredIsInReach'
    <3>1. \A q \in Partition : Reach(q)' = Reach(q)
      BY <1>3, ReachSame DEF Rebalance
    <3> QED
      BY <2>1, <2>4, <3>1, ReachStart DEF StoredIsInReach
  <2>12. PositionIsInReach'
    <3>1. \A q \in Partition : Reach(q)' = Reach(q)
      BY <1>3, ReachSame DEF Rebalance
    <3>2. \A q \in Partition : pos'[q] \in Reach(q)'
      BY <2>4, <3>1, ReachStart DEF StoredIsInReach
    <3> QED
      BY <3>2 DEF PositionIsInReach
  <2>13. TargetIsInReach'
    BY <2>1 DEF TargetIsInReach
  <2>14. PausedIsHeld'
    <3>1. /\ ~overtaken' => ~overtaken /\ \A d \in Consumer : pc[d] # "paused"
          /\ total' = total
      BY <1>3 DEF Rebalance
    <3>2. \A d \in Consumer : pc'[d] = "paused" => pc[d] = "paused"
      BY <2>2 DEF Passes, ConsumerTypeOK
    <3>3. \A d \in Consumer : pc'[d] \in {"poll", "initial", "first pass", "wait pass"}
                                => pc[d] \in {"poll", "initial", "first pass", "wait pass"}
      BY <2>2 DEF Passes, ConsumerTypeOK
    <3> QED
      BY <3>1, <3>2, <3>3 DEF PausedIsHeld
  <2>15. AllowedFits'
    <3>1. /\ queue' = queue /\ queue \in Nat /\ total' \in [Consumer -> Nat] /\ total' = total
          /\ overtaken => overtaken'
      BY <1>3 DEF Rebalance, ConsumerTypeOK
    <3>2. \A d \in Consumer : May(d)' => May(d)
      BY <2>2, <3>1 DEF May, Passes, ConsumerTypeOK
    <3> QED
      BY <3>1, <3>2, AllowedKept, Numbers
  <2> QED
    BY <2>5, <2>6, <2>7, <2>8, <2>9, <2>10, <2>11, <2>12, <2>13, <2>14, <2>15 DEF ConsumerInv
<1>4. ASSUME NEW p \in Partition, AutoCommit(p) PROVE ConsumerInv'
  <2>1. ConsumerTypeOK'
    <3>1. committed' \in [Partition -> Nat]
      BY <1>4 DEF AutoCommit, ConsumerTypeOK
    <3>2. UNCHANGED <<start, exitOnEof, day, owner, pos, stored, held, dirty, queue, pushed,
        pc, positionTimestamp, positioned, fresh, toResolve, resolved, total, late,
        overtaken>>
      BY <1>4 DEF AutoCommit
    <3> QED
      BY <3>1, <3>2 DEF ConsumerTypeOK
  <2>2. LogTypeOK'
    BY <1>4 DEF AutoCommit, LogTypeOK
  <2>3. OffsetsInLog'
    BY <1>4 DEF AutoCommit, ConsumerTypeOK, OffsetsInLog
  <2>4. PassesAgree'
    BY <1>4 DEF AutoCommit, PassesAgree, Owned, Replay
  <2>5. InstantsAgree'
    BY <1>4 DEF AutoCommit, InstantsAgree
  <2>6. ReplayCommitsNothing'
    BY <1>4 DEF AutoCommit, ConsumerTypeOK, ReplayCommitsNothing, Replay
  <2>7. StoredIsInReach'
    <3>1. \A q \in Partition : Reach(q)' = Reach(q)
      BY <1>4, ReachSame DEF AutoCommit
    <3> QED
      BY <1>4, <3>1 DEF AutoCommit, ConsumerTypeOK, StoredIsInReach
  <2>8. PositionIsInReach'
    <3>1. \A q \in Partition : Reach(q)' = Reach(q)
      BY <1>4, ReachSame DEF AutoCommit
    <3> QED
      BY <1>4, <3>1 DEF AutoCommit, PositionIsInReach, Replay
  <2>9. TargetIsInReach'
    <3>1. \A q \in Partition : Reach(q)' = Reach(q)
      BY <1>4, ReachSame DEF AutoCommit
    <3> QED
      BY <1>4, <3>1, TargetKept DEF AutoCommit
  <2>10. PausedIsHeld'
    BY <1>4 DEF AutoCommit, PausedIsHeld, Owned
  <2>11. AllowedFits'
    BY <1>4 DEF AutoCommit, AllowedFits, Allowed, May
  <2> QED
    BY <2>1, <2>2, <2>3, <2>4, <2>5, <2>6, <2>7, <2>8, <2>9, <2>10, <2>11 DEF ConsumerInv
<1>5. CASE Drain
  <2>1. ConsumerTypeOK'
    <3>1. queue' \in Nat
      BY <1>5 DEF Drain, ConsumerTypeOK
    <3>2. UNCHANGED <<start, exitOnEof, day, owner, committed, pos, stored, held, dirty,
        pushed, pc, positionTimestamp, positioned, fresh, toResolve, resolved, total, late,
        overtaken>>
      BY <1>5 DEF Drain
    <3> QED
      BY <3>1, <3>2 DEF ConsumerTypeOK
  <2>2. LogTypeOK'
    BY <1>5 DEF Drain, LogTypeOK
  <2>3. OffsetsInLog'
    BY <1>5 DEF Drain, OffsetsInLog
  <2>4. PassesAgree'
    BY <1>5 DEF Drain, PassesAgree, Owned, Replay
  <2>5. InstantsAgree'
    BY <1>5 DEF Drain, InstantsAgree
  <2>6. ReplayCommitsNothing'
    BY <1>5 DEF Drain, ReplayCommitsNothing, Replay
  <2>7. StoredIsInReach'
    <3>1. \A q \in Partition : Reach(q)' = Reach(q)
      BY <1>5, ReachSame DEF Drain
    <3> QED
      BY <1>5, <3>1 DEF Drain, StoredIsInReach
  <2>8. PositionIsInReach'
    <3>1. \A q \in Partition : Reach(q)' = Reach(q)
      BY <1>5, ReachSame DEF Drain
    <3> QED
      BY <1>5, <3>1 DEF Drain, PositionIsInReach, Replay
  <2>9. TargetIsInReach'
    <3>1. \A q \in Partition : Reach(q)' = Reach(q)
      BY <1>5, ReachSame DEF Drain
    <3> QED
      BY <1>5, <3>1, TargetKept DEF Drain
  <2>10. PausedIsHeld'
    BY <1>5 DEF Drain, PausedIsHeld, Owned
  <2>11. AllowedFits'
    <3>1. queue' \in Nat /\ queue' <= queue
      BY <1>5, Numbers DEF Drain
    <3>2. /\ total' = total /\ pc' = pc /\ overtaken' = overtaken
          /\ total' \in [Consumer -> Nat]
      BY <1>5 DEF Drain, ConsumerTypeOK
    <3>3. \A d \in Consumer : May(d)' => May(d)
      BY <3>2 DEF May
    <3> QED
      BY <3>1, <3>2, <3>3, AllowedKept, Numbers
  <2> QED
    BY <2>1, <2>2, <2>3, <2>4, <2>5, <2>6, <2>7, <2>8, <2>9, <2>10, <2>11 DEF ConsumerInv
<1>6. CASE Boot
  <2>1. /\ UNCHANGED <<start, log, owner, pos, pushed, late, fresh, toResolve, resolved, day>>
        /\ \A d \in Consumer : /\ pc[d] \in {"off", "dead", "done"} /\ pc'[d] = "initial"
                               /\ positioned'[d] = {} /\ total'[d] = 0
                               /\ positionTimestamp'[d] = IF start = "current" THEN day ELSE StartDay
    BY <1>6 DEF Boot, Alive
  <2>2. \A d \in Consumer : fresh[d] = {}
    BY <2>1 DEF PassesAgree, Passes
  <2>3. \A q \in Partition : Reach(q) \subseteq Reach(q)'
    <3>1. positionTimestamp' \in [Consumer -> Nat]
      BY <1>6, Numbers DEF Boot
    <3>2. \A d \in Consumer : positionTimestamp[d] <= positionTimestamp'[d]
      BY <2>1, Numbers DEF InstantsAgree
    <3> QED
      BY <2>1, <3>1, <3>2, ReachGrows
  <2>4. ConsumerTypeOK'
    <3>1. positionTimestamp' \in [Consumer -> Nat]
      BY <1>6 DEF Boot, Alive, ConsumerTypeOK
    <3>2. pc' \in [Consumer -> Places]
      BY <1>6 DEF Boot, Places
    <3>3. positioned' \in [Consumer -> SUBSET Partition]
      BY <1>6 DEF Boot, Alive, ConsumerTypeOK
    <3>4. total' \in [Consumer -> Nat]
      BY <1>6 DEF Boot, Alive, ConsumerTypeOK
    <3>5. dirty' \in BOOLEAN
      BY <1>6 DEF Boot, Alive, ConsumerTypeOK
    <3>6. UNCHANGED <<start, exitOnEof, day, owner, committed, pos, stored, held, queue,
        pushed, fresh, toResolve, resolved, late, overtaken>>
      BY <1>6 DEF Boot, Alive
    <3> QED
      BY <3>1, <3>2, <3>3, <3>4, <3>5, <3>6 DEF ConsumerTypeOK
  <2>5. LogTypeOK'
    BY <1>6 DEF Boot, LogTypeOK
  <2>6. OffsetsInLog'
    BY <1>6 DEF Boot, OffsetsInLog
  <2>7. PassesAgree'
    BY <2>1, <2>2 DEF PassesAgree, Passes, Replay
  <2>8. InstantsAgree'
    BY <2>1, Numbers DEF InstantsAgree
  <2>9. ReplayCommitsNothing'
    BY <1>6 DEF Boot, ReplayCommitsNothing, Replay
  <2>10. StoredIsInReach'
    BY <1>6, <2>3 DEF Boot, StoredIsInReach
  <2>11. PositionIsInReach'
    <3>1. \A d \in Consumer : pc'[d] \notin Reading /\ positioned'[d] \subseteq positioned[d]
      BY <2>1 DEF Reading
    <3> QED
      BY <2>1, <2>3, <3>1, PositionKept
  <2>12. TargetIsInReach'
    BY <2>1, <2>2, <2>3, TargetKept
  <2>13. PausedIsHeld'
    BY <2>1 DEF PausedIsHeld
  <2>14. AllowedFits'
    <3>1. queue' = queue /\ total' \in [Consumer -> Nat] /\ overtaken' = overtaken
      BY <1>6 DEF Boot
    <3>2. \A d \in Consumer : ~May(d)'
      BY <2>1 DEF May
    <3> QED
      BY <3>1, <3>2, AllowedKept, Numbers
  <2> QED
    BY <2>4, <2>5, <2>6, <2>7, <2>8, <2>9, <2>10, <2>11, <2>12, <2>13, <2>14 DEF ConsumerInv
<1>7. CASE Crash
  <2>1. /\ UNCHANGED <<start, log, committed, pos, queue, overtaken>>
        /\ \A d \in Consumer : /\ pc'[d] = "off" /\ total'[d] = 0
                               /\ fresh'[d] = {} /\ toResolve'[d] = {}
        /\ \A q \in Partition : owner'[q] = None /\ stored'[q] = 0
        /\ \A d \in Consumer, q \in Partition : resolved'[d][q] = 0
    BY <1>7 DEF Crash, End
  <2>2. ConsumerTypeOK'
    <3>1. pc' \in [Consumer -> Places]
      BY <1>7 DEF Crash, ConsumerTypeOK, Places
    <3>2. positioned' \in [Consumer -> SUBSET Partition]
      BY <1>7 DEF Crash, ConsumerTypeOK
    <3>3. total' \in [Consumer -> Nat]
      BY <1>7 DEF Crash, ConsumerTypeOK
    <3>4. fresh' \in [Consumer -> SUBSET Partition]
      BY <1>7 DEF Crash, ConsumerTypeOK
    <3>5. toResolve' \in [Consumer -> SUBSET Partition]
      BY <1>7 DEF Crash, ConsumerTypeOK
    <3>6. resolved' \in [Consumer -> [Partition -> Nat]]
      BY <1>7 DEF Crash, ConsumerTypeOK, End
    <3>7. owner' \in [Partition -> Consumer \cup {None}]
      BY <1>7 DEF Crash, ConsumerTypeOK
    <3>8. stored' \in [Partition -> Nat]
      BY <1>7 DEF Crash, ConsumerTypeOK
    <3>9. held' \subseteq Partition
      BY <1>7 DEF Crash, ConsumerTypeOK
    <3>10. UNCHANGED <<start, exitOnEof, day, committed, pos, dirty, queue, pushed,
        positionTimestamp, late, overtaken>>
      BY <1>7 DEF Crash
    <3> QED
      BY <3>1, <3>2, <3>3, <3>4, <3>5, <3>6, <3>7, <3>8, <3>9, <3>10 DEF ConsumerTypeOK
  <2>3. LogTypeOK'
    BY <1>7 DEF Crash, LogTypeOK
  <2>4. OffsetsInLog'
    BY <2>1, Numbers DEF OffsetsInLog
  <2>5. PassesAgree'
    BY <2>1 DEF PassesAgree, Passes
  <2>6. InstantsAgree'
    BY <1>7 DEF Crash, InstantsAgree
  <2>7. ReplayCommitsNothing'
    BY <2>1 DEF ReplayCommitsNothing, Replay
  <2>8. StoredIsInReach'
    <3>1. \A q \in Partition : Reach(q)' = Reach(q)
      BY <1>7, ReachSame DEF Crash
    <3> QED
      BY <2>1, <3>1, ReachStart DEF StoredIsInReach
  <2>9. PositionIsInReach'
    BY <2>1 DEF PositionIsInReach
  <2>10. TargetIsInReach'
    BY <2>1 DEF TargetIsInReach
  <2>11. PausedIsHeld'
    BY <2>1 DEF PausedIsHeld
  <2>12. AllowedFits'
    <3>1. total' \in [Consumer -> Nat]
      BY <1>7 DEF Crash
    <3>2. \A d \in Consumer : ~May(d)'
      BY <2>1 DEF May
    <3> QED
      BY <2>1, <3>1, <3>2, AllowedKept, Numbers
  <2> QED
    BY <2>2, <2>3, <2>4, <2>5, <2>6, <2>7, <2>8, <2>9, <2>10, <2>11, <2>12 DEF ConsumerInv
<1> QED
  BY <1>1, <1>2, <1>3, <1>4, <1>5, <1>6, <1>7

\* The steps of a thread keep it.
LEMMA ThreadStep ==
  ASSUME ConsumerInv, NEW c \in Consumer, Thread(c) \/ PositionFails(c) \/ ThreadFails(c)
  PROVE  ConsumerInv'
<1> USE ConsumerFacts DEF ConsumerInv, plan, broker, group, thread, list, history
<1>1. CASE NothingToReplay(c)
  <2>1. Replay /\ pc[c] = "initial" /\ pc'[c] = "done" /\ \A d \in Consumer : d # c => pc'[d] = pc[d]
    BY <1>1 DEF NothingToReplay, ConsumerTypeOK
  <2>2. ConsumerTypeOK'
    <3>1. pc' \in [Consumer -> Places]
      BY <1>1 DEF NothingToReplay, ConsumerTypeOK, Places
    <3>2. dirty' \in BOOLEAN
      BY <1>1 DEF NothingToReplay, ConsumerTypeOK
    <3>3. UNCHANGED <<start, exitOnEof, day, owner, committed, pos, stored, held, queue,
        pushed, positionTimestamp, positioned, fresh, toResolve, resolved, total, late,
        overtaken>>
      BY <1>1 DEF NothingToReplay
    <3> QED
      BY <3>1, <3>2, <3>3 DEF ConsumerTypeOK
  <2>3. LogTypeOK'
    BY <1>1 DEF NothingToReplay, LogTypeOK
  <2>4. OffsetsInLog'
    BY <1>1 DEF NothingToReplay, OffsetsInLog
  <2>5. PassesAgree'
    BY <1>1, <2>1 DEF NothingToReplay, PassesAgree, Passes, Owned, Replay
  <2>6. InstantsAgree'
    BY <1>1 DEF NothingToReplay, InstantsAgree
  <2>7. ReplayCommitsNothing'
    BY <1>1 DEF NothingToReplay, ReplayCommitsNothing, Replay
  <2>8. StoredIsInReach'
    <3>1. \A q \in Partition : Reach(q)' = Reach(q)
      BY <1>1, ReachSame DEF NothingToReplay
    <3> QED
      BY <1>1, <3>1 DEF NothingToReplay, StoredIsInReach
  <2>9. PositionIsInReach'
    BY <1>1, <2>1 DEF NothingToReplay, PositionIsInReach, Replay
  <2>10. TargetIsInReach'
    <3>1. \A q \in Partition : Reach(q)' = Reach(q)
      BY <1>1, ReachSame DEF NothingToReplay
    <3> QED
      BY <1>1, <3>1, TargetKept DEF NothingToReplay
  <2>11. PausedIsHeld'
    BY <1>1, <2>1 DEF NothingToReplay, PausedIsHeld, Owned
  <2>12. AllowedFits'
    <3>1. /\ queue' = queue /\ total' = total /\ overtaken' = overtaken
          /\ total' \in [Consumer -> Nat]
      BY <1>1 DEF NothingToReplay, ConsumerTypeOK
    <3>2. ~overtaken => \A d \in Consumer : May(d)' => May(d)
      BY <2>1, <3>1 DEF May
    <3> QED
      BY <3>1, <3>2, AllowedKept, Numbers
  <2> QED
    BY <2>2, <2>3, <2>4, <2>5, <2>6, <2>7, <2>8, <2>9, <2>10, <2>11, <2>12 DEF ConsumerInv
<1>2. CASE Position(c)
  <2>1. /\ UNCHANGED <<start, log, owner, stored, total, held, pushed, late, positionTimestamp, queue, overtaken>>
        /\ pc[c] \in Passes /\ ~Replay /\ fresh[c] = Owned(c) \ positioned[c] /\ toResolve[c] \subseteq fresh[c]
    BY <1>2 DEF Position, PassesAgree
  <2>2. /\ pc'[c] = After(pc[c]) /\ pc'[c] \notin Passes /\ fresh'[c] = {} /\ toResolve'[c] = {}
        /\ positioned'[c] = positioned[c] \cup fresh[c]
        /\ \A q \in Partition : resolved'[c][q] = 0
        /\ \A d \in Consumer : d # c => /\ pc'[d] = pc[d] /\ fresh'[d] = fresh[d]
                                        /\ toResolve'[d] = toResolve[d] /\ resolved'[d] = resolved[d]
                                        /\ positioned'[d] = positioned[d]
    BY <1>2 DEF Position, After, Passes, End, ConsumerTypeOK
  <2>3. \A q \in fresh[c] : /\ q \in Partition /\ Target(c, q) \in Nat /\ Target(c, q) >= 1
                            /\ Target(c, q) <= Len(log[q]) + 1 /\ Target(c, q) \in Reach(q)
    <3>1. fresh[c] \subseteq Partition
      BY DEF ConsumerTypeOK
    <3> QED
      BY <3>1, Numbers DEF Target, End, OffsetsInLog, TargetIsInReach
  <2>4. \A q \in Partition : /\ pos'[q] = IF q \in fresh[c] THEN Target(c, q) ELSE pos[q]
                             /\ committed'[q] = IF q \in toResolve[c] THEN Target(c, q) ELSE committed[q]
    BY <1>2 DEF Position
  <2>5. ConsumerTypeOK'
    <3>1. pos' \in [Partition -> Nat]
      <4>1. \A q \in Partition : pos'[q] \in Nat
        BY <2>3, <2>4, Numbers
      <4> QED
        BY <1>2, <4>1 DEF Position
    <3>2. committed' \in [Partition -> Nat]
      <4>1. \A q \in Partition : committed'[q] \in Nat
        BY <2>1, <2>3, <2>4, Numbers
      <4> QED
        BY <1>2, <4>1 DEF Position
    <3>3. positioned' \in [Consumer -> SUBSET Partition]
      BY <1>2 DEF Position, After, ConsumerTypeOK
    <3>4. fresh' \in [Consumer -> SUBSET Partition]
      BY <1>2 DEF Position, After, ConsumerTypeOK
    <3>5. toResolve' \in [Consumer -> SUBSET Partition]
      BY <1>2 DEF Position, After, ConsumerTypeOK
    <3>6. resolved' \in [Consumer -> [Partition -> Nat]]
      BY <1>2 DEF Position, After, ConsumerTypeOK, End
    <3>7. pc' \in [Consumer -> Places]
      BY <1>2 DEF Position, After, ConsumerTypeOK, Places
    <3>8. UNCHANGED <<start, exitOnEof, day, owner, stored, held, dirty, queue, pushed,
        positionTimestamp, total, late, overtaken>>
      BY <1>2 DEF Position, After
    <3> QED
      BY <3>1, <3>2, <3>3, <3>4, <3>5, <3>6, <3>7, <3>8 DEF ConsumerTypeOK
  <2>6. LogTypeOK'
    BY <1>2 DEF Position, LogTypeOK
  <2>7. OffsetsInLog'
    <3>1. ASSUME NEW q \in Partition
          PROVE  /\ committed'[q] <= Len(log'[q]) + 1 /\ stored'[q] <= Len(log'[q]) + 1
                 /\ pos'[q] <= Len(log'[q]) + 1 /\ pos'[q] >= 1
      <4>1. /\ committed[q] \in Nat /\ stored[q] \in Nat /\ pos[q] \in Nat /\ Len(log[q]) \in Nat
            /\ committed[q] <= Len(log[q]) + 1 /\ stored[q] <= Len(log[q]) + 1
            /\ pos[q] <= Len(log[q]) + 1 /\ pos[q] >= 1
        BY Numbers DEF OffsetsInLog
      <4> QED
        BY <2>1, <2>2, <2>3, <2>4, <4>1
    <3>2. ASSUME NEW q \in Partition, NEW d \in Consumer PROVE resolved'[d][q] <= Len(log'[q]) + 1
      <4>1. resolved[d][q] \in Nat /\ resolved[d][q] <= Len(log[q]) + 1 /\ Len(log[q]) \in Nat
        BY Numbers DEF OffsetsInLog
      <4> QED
        BY <2>1, <2>2, <2>3, <2>4, <4>1
    <3> QED
      BY <3>1, <3>2 DEF OffsetsInLog
  <2>8. PassesAgree'
    <3>1. \A d \in Consumer : Owned(d)' = Owned(d)
      BY <2>1 DEF Owned
    <3> QED
      BY <2>1, <2>2, <3>1 DEF PassesAgree, Replay
  <2>9. InstantsAgree'
    BY <1>2 DEF Position, InstantsAgree
  <2>10. ReplayCommitsNothing'
    BY <2>1 DEF ReplayCommitsNothing, Replay
  <2>11. StoredIsInReach'
    <3>1. \A q \in Partition : Reach(q)' = Reach(q)
      BY <2>1, ReachSame
    <3> QED
      BY <2>1, <2>3, <2>4, <3>1 DEF StoredIsInReach
  <2>12. PositionIsInReach'
    <3>1. \A q \in Partition : Reach(q)' = Reach(q)
      BY <2>1, ReachSame
    <3> SUFFICES ASSUME NEW q \in Partition, owner[q] # None, pos'[q] \notin Reach(q)
                 PROVE  pc'[owner[q]] \notin Reading /\ q \notin positioned'[owner[q]]
      BY <2>1, <3>1 DEF PositionIsInReach
    <3>2. q \notin fresh[c] /\ pos'[q] = pos[q]
      BY <2>3, <2>4
    <3>3. pc[owner[q]] \notin Reading /\ q \notin positioned[owner[q]]
      BY <2>1, <3>2 DEF PositionIsInReach
    <3>4. owner[q] \in Consumer /\ owner[q] # c
      BY <2>1, <3>2, <3>3 DEF Owned, ConsumerTypeOK
    <3> QED
      BY <2>2, <3>3, <3>4
  <2>13. TargetIsInReach'
    <3>1. \A q \in Partition : Reach(q)' = Reach(q)
      BY <2>1, ReachSame
    <3> QED
      BY <2>1, <2>2, <3>1, TargetKept
  <2>14. PausedIsHeld'
    <3>1. (pc[c] = "wait pass" /\ pc'[c] = "initial") \/ (pc[c] \in {"first pass", "loop pass"} /\ pc'[c] = "loop")
      BY <2>1, <2>2 DEF After, Passes
    <3> QED
      BY <2>1, <2>2, <3>1, ZenonT(60) DEF PausedIsHeld, Owned
  <2>15. AllowedFits'
    <3>1. total' \in [Consumer -> Nat]
      BY <2>1 DEF ConsumerTypeOK
    <3>2. (pc[c] = "wait pass" /\ pc'[c] = "initial") \/ (pc[c] \in {"first pass", "loop pass"} /\ pc'[c] = "loop")
      BY <2>1, <2>2 DEF After, Passes
    <3>3. ~overtaken => \A d \in Consumer : May(d)' => May(d)
      BY <2>1, <2>2, <3>2 DEF May, PausedIsHeld
    <3> QED
      BY <2>1, <3>1, <3>3, AllowedKept, Numbers
  <2> QED
    BY <2>5, <2>6, <2>7, <2>8, <2>9, <2>10, <2>11, <2>12, <2>13, <2>14, <2>15 DEF ConsumerInv
<1>3. CASE RolloverCheck(c)
  <2>1. /\ UNCHANGED <<start, log, owner, committed, stored, pos, held, positioned, total, pushed, late, queue, overtaken, day>>
        /\ pc[c] \in {"initial", "loop"} /\ ~Replay
    BY <1>3 DEF RolloverCheck
  <2>2. \E t \in Nat, pass \in Passes :
          /\ positionTimestamp' = [positionTimestamp EXCEPT ![c] = t] /\ positionTimestamp[c] <= t
          /\ IF start = "current" THEN t <= day ELSE t = StartDay
          /\ pass = (IF pc[c] = "initial" THEN "wait pass" ELSE "loop pass") /\ BeginPass(c, pass, t)
    <3> DEFINE t == IF subscribedDate[c] # day /\ start = "current" THEN day ELSE positionTimestamp[c]
               pass == IF pc[c] = "initial" THEN "wait pass" ELSE "loop pass"
    <3>1. t \in Nat /\ positionTimestamp[c] <= t /\ (IF start = "current" THEN t <= day ELSE t = StartDay)
      BY Numbers DEF InstantsAgree
    <3>2. pass \in Passes
      BY DEF Passes
    <3>3. positionTimestamp' = [positionTimestamp EXCEPT ![c] = t] /\ BeginPass(c, pass, t)
      BY <1>3 DEF RolloverCheck, Roll
    <3> HIDE DEF t
    <3> QED
      BY <3>1, <3>2, <3>3
  <2>3. PICK t \in Nat, pass \in Passes :
          /\ positionTimestamp' = [positionTimestamp EXCEPT ![c] = t] /\ positionTimestamp[c] <= t
          /\ IF start = "current" THEN t <= day ELSE t = StartDay
          /\ pass = (IF pc[c] = "initial" THEN "wait pass" ELSE "loop pass") /\ BeginPass(c, pass, t)
    BY <2>2
  <2>4. /\ positionTimestamp' \in [Consumer -> Nat] /\ positionTimestamp'[c] = t
        /\ \A d \in Consumer : d # c => positionTimestamp'[d] = positionTimestamp[d]
    BY <2>3 DEF ConsumerTypeOK
  <2>5. \A q \in Partition : Reach(q) \subseteq Reach(q)'
    <3>1. \A d \in Consumer : positionTimestamp[d] <= positionTimestamp'[d]
      <4>1. positionTimestamp[c] <= positionTimestamp'[c]
        BY <2>3, <2>4
      <4>2. \A d \in Consumer : d # c => positionTimestamp[d] <= positionTimestamp'[d]
        BY <2>4, Numbers
      <4> QED
        BY <4>1, <4>2
    <3> QED
      BY <2>1, <2>4, <3>1, ReachGrows
  <2>6. /\ PassesAgree' /\ TargetIsInReach'
        /\ \A q \in Partition, d \in Consumer : resolved'[d][q] <= Len(log[q]) + 1
    <3>1. pc[c] \notin Passes
      BY <2>1 DEF Passes
    <3> QED
      BY <2>1, <2>3, <2>4, <2>5, <3>1, PassBegun
  <2>7. /\ \A d \in Consumer : d # c => pc'[d] = pc[d]
        /\ (Owned(c) \subseteq positioned[c] /\ pc'[c] = After(pass)) \/ pc'[c] = pass
    BY <2>3, BeginPassProps, ZenonT(60)
  <2>8. \/ pc[c] = "initial" /\ pc'[c] \in {"initial", "wait pass"}
        \/ pc[c] = "loop" /\ pc'[c] \in {"loop", "loop pass"}
    BY <2>1, <2>3, <2>7 DEF After
  <2>9. ConsumerTypeOK'
    <3>1. positionTimestamp' \in [Consumer -> Nat]
      BY <2>4
    <3>2. dirty' \in BOOLEAN
      BY <1>3 DEF RolloverCheck, Roll, ConsumerTypeOK
    <3>3. pc' \in [Consumer -> Places]
      BY <2>3, BeginPassProps
    <3>4. fresh' \in [Consumer -> SUBSET Partition]
      BY <2>3, BeginPassProps
    <3>5. toResolve' \in [Consumer -> SUBSET Partition]
      BY <2>3, BeginPassProps
    <3>6. resolved' \in [Consumer -> [Partition -> Nat]]
      BY <2>3, BeginPassProps
    <3>7. UNCHANGED <<start, exitOnEof, day, owner, committed, pos, stored, held, queue,
        pushed, positioned, total, late, overtaken>>
      BY <1>3 DEF RolloverCheck, Roll
    <3> QED
      BY <3>1, <3>2, <3>3, <3>4, <3>5, <3>6, <3>7 DEF ConsumerTypeOK
  <2>10. LogTypeOK'
    BY <1>3 DEF RolloverCheck, Roll, LogTypeOK
  <2>11. OffsetsInLog'
    BY <2>1, <2>6 DEF OffsetsInLog
  <2>12. PassesAgree'
    BY <2>6
  <2>13. InstantsAgree'
    BY <2>1, <2>3, <2>4 DEF InstantsAgree
  <2>14. ReplayCommitsNothing'
    BY <1>3 DEF RolloverCheck, Roll, ReplayCommitsNothing, Replay
  <2>15. StoredIsInReach'
    BY <2>1, <2>5 DEF StoredIsInReach
  <2>16. PositionIsInReach'
    <3>1. \A d \in Consumer : pc'[d] \in Reading => pc[d] \in Reading
      BY <2>7, <2>8 DEF Reading
    <3> QED
      BY <2>1, <2>5, <3>1, PositionKept
  <2>17. TargetIsInReach'
    BY <2>6
  <2>18. PausedIsHeld'
    BY <2>1, <2>7, <2>8 DEF PausedIsHeld, Owned
  <2>19. AllowedFits'
    <3>1. total' \in [Consumer -> Nat]
      BY <2>1 DEF ConsumerTypeOK
    <3>2. ~overtaken => \A d \in Consumer : May(d)' => May(d)
      BY <2>1, <2>7, <2>8 DEF May, PausedIsHeld
    <3> QED
      BY <2>1, <3>1, <3>2, AllowedKept, Numbers
  <2> QED
    BY <2>9, <2>10, <2>11, <2>12, <2>13, <2>14, <2>15, <2>16, <2>17, <2>18, <2>19 DEF ConsumerInv
<1>4. CASE CheckQueue(c)
  <2>1. /\ pc[c] = "loop" /\ total[c] = 0 /\ \A d \in Consumer : d # c => pc'[d] = pc[d]
        /\ \/ queue < MaxInQueue /\ pc'[c] = "poll" /\ held' = held
           \/ pc'[c] = "paused" /\ held' = held \cup Owned(c)
    BY <1>4 DEF CheckQueue, ConsumerTypeOK
  <2>2. UNCHANGED <<start, log, owner, pos, positioned, fresh, toResolve, total, queue, overtaken, pushed, late, positionTimestamp>>
    BY <1>4 DEF CheckQueue
  <2>3. ConsumerTypeOK'
    <3>1. pc' \in [Consumer -> Places]
      BY <1>4, ZenonT(60) DEF CheckQueue, ConsumerTypeOK, Places
    <3>2. held' \subseteq Partition
      BY <2>1 DEF Owned, ConsumerTypeOK
    <3>3. UNCHANGED <<start, exitOnEof, day, owner, committed, pos, stored, dirty, queue,
        pushed, positionTimestamp, positioned, fresh, toResolve, resolved, total, late,
        overtaken>>
      BY <1>4 DEF CheckQueue
    <3> QED
      BY <3>1, <3>2, <3>3 DEF ConsumerTypeOK
  <2>4. LogTypeOK'
    BY <1>4 DEF CheckQueue, LogTypeOK
  <2>5. OffsetsInLog'
    BY <1>4 DEF CheckQueue, OffsetsInLog
  <2>6. PassesAgree'
    BY <2>1, <2>2 DEF PassesAgree, Passes, Owned, Replay
  <2>7. InstantsAgree'
    BY <1>4 DEF CheckQueue, InstantsAgree
  <2>8. ReplayCommitsNothing'
    BY <1>4 DEF CheckQueue, ReplayCommitsNothing, Replay
  <2>9. StoredIsInReach'
    <3>1. \A q \in Partition : Reach(q)' = Reach(q)
      BY <1>4, ReachSame DEF CheckQueue
    <3> QED
      BY <1>4, <3>1 DEF CheckQueue, StoredIsInReach
  <2>10. PositionIsInReach'
    <3>1. \A q \in Partition : Reach(q)' = Reach(q)
      BY <2>2, ReachSame
    <3>2. \A d \in Consumer : pc'[d] \in Reading => pc[d] \in Reading
      BY <2>1 DEF Reading
    <3> QED
      BY <2>2, <3>1, <3>2, PositionKept
  <2>11. TargetIsInReach'
    <3>1. \A q \in Partition : Reach(q)' = Reach(q)
      BY <1>4, ReachSame DEF CheckQueue
    <3> QED
      BY <1>4, <3>1, TargetKept DEF CheckQueue
  <2>12. PausedIsHeld'
    <3>1. \A d \in Consumer : d # c => Owned(d) \cap Owned(c) = {}
      BY DEF Owned
    <3>2. \A d \in Consumer : Owned(d)' = Owned(d)
      BY <2>2 DEF Owned
    <3> QED
      BY <2>1, <2>2, <3>1, <3>2 DEF PausedIsHeld
  <2>13. AllowedFits'
    <3>1. CASE queue < MaxInQueue
      BY <2>2, <3>1, AllowedAnew, Numbers
    <3>2. CASE pc'[c] = "paused"
      <4>1. \A d \in Consumer : May(d)' => May(d)
        BY <2>1, <2>2, <3>2 DEF May
      <4>2. total' \in [Consumer -> Nat]
        BY <2>2 DEF ConsumerTypeOK
      <4> QED
        BY <2>2, <4>1, <4>2, AllowedKept, Numbers
    <3> QED
      BY <2>1, <3>1, <3>2
  <2> QED
    BY <2>3, <2>4, <2>5, <2>6, <2>7, <2>8, <2>9, <2>10, <2>11, <2>12, <2>13 DEF ConsumerInv
<1>5. CASE Resume(c)
  <2>1. /\ pc[c] = "paused" /\ queue < MaxInQueue /\ pc'[c] = "poll" /\ held' = held \ Owned(c)
        /\ \A d \in Consumer : d # c => pc'[d] = pc[d]
    BY <1>5 DEF Resume, ConsumerTypeOK
  <2>2. UNCHANGED <<start, log, owner, pos, positioned, fresh, toResolve, total, queue, overtaken, pushed, late, positionTimestamp>>
    BY <1>5 DEF Resume
  <2>3. ConsumerTypeOK'
    <3>1. pc' \in [Consumer -> Places]
      BY <1>5 DEF Resume, ConsumerTypeOK, Places
    <3>2. held' \subseteq Partition
      BY <2>1 DEF Owned, ConsumerTypeOK
    <3>3. UNCHANGED <<start, exitOnEof, day, owner, committed, pos, stored, dirty, queue,
        pushed, positionTimestamp, positioned, fresh, toResolve, resolved, total, late,
        overtaken>>
      BY <1>5 DEF Resume
    <3> QED
      BY <3>1, <3>2, <3>3 DEF ConsumerTypeOK
  <2>4. LogTypeOK'
    BY <1>5 DEF Resume, LogTypeOK
  <2>5. OffsetsInLog'
    BY <1>5 DEF Resume, OffsetsInLog
  <2>6. PassesAgree'
    BY <2>1, <2>2 DEF PassesAgree, Passes, Owned, Replay
  <2>7. InstantsAgree'
    BY <1>5 DEF Resume, InstantsAgree
  <2>8. ReplayCommitsNothing'
    BY <1>5 DEF Resume, ReplayCommitsNothing, Replay
  <2>9. StoredIsInReach'
    <3>1. \A q \in Partition : Reach(q)' = Reach(q)
      BY <1>5, ReachSame DEF Resume
    <3> QED
      BY <1>5, <3>1 DEF Resume, StoredIsInReach
  <2>10. PositionIsInReach'
    <3>1. \A q \in Partition : Reach(q)' = Reach(q)
      BY <2>2, ReachSame
    <3>2. \A d \in Consumer : pc'[d] \in Reading => pc[d] \in Reading
      BY <2>1 DEF Reading
    <3> QED
      BY <2>2, <3>1, <3>2, PositionKept
  <2>11. TargetIsInReach'
    <3>1. \A q \in Partition : Reach(q)' = Reach(q)
      BY <1>5, ReachSame DEF Resume
    <3> QED
      BY <1>5, <3>1, TargetKept DEF Resume
  <2>12. PausedIsHeld'
    <3>1. \A d \in Consumer : d # c => Owned(d) \cap Owned(c) = {}
      BY DEF Owned
    <3>2. \A d \in Consumer : Owned(d)' = Owned(d)
      BY <2>2 DEF Owned
    <3> QED
      BY <2>1, <2>2, <3>1, <3>2 DEF PausedIsHeld
  <2>13. AllowedFits'
    BY <2>1, <2>2, AllowedAnew, Numbers
  <2> QED
    BY <2>3, <2>4, <2>5, <2>6, <2>7, <2>8, <2>9, <2>10, <2>11, <2>12, <2>13 DEF ConsumerInv
<1>6. CASE PollNothing(c)
  <2>1. /\ UNCHANGED <<start, log, owner, committed, stored, pos, held, positioned, total, pushed, late, queue,
                      positionTimestamp, overtaken>>
        /\ pc[c] \in {"poll", "loop"}
    BY <1>6 DEF PollNothing, AtPoll
  <2>2. \/ ~Replay /\ BeginPass(c, "loop pass", positionTimestamp[c])
        \/ /\ pc' = [pc EXCEPT ![c] = "loop"] \/ pc' = [pc EXCEPT ![c] = "done"]
           /\ UNCHANGED <<fresh, toResolve, resolved>>
    BY <1>6 DEF PollNothing
  <2>3. \A q \in Partition : Reach(q)' = Reach(q)
    BY <2>1, ReachSame
  <2>4. "loop pass" \in Passes /\ pc[c] \notin Passes /\ positionTimestamp[c] \in Nat
    BY <2>1, Numbers DEF Passes
  <2>5. \/ ~Replay /\ BeginPass(c, "loop pass", positionTimestamp[c]) /\ PassesAgree' /\ TargetIsInReach'
           /\ \A q \in Partition, d \in Consumer : resolved'[d][q] <= Len(log[q]) + 1
        \/ UNCHANGED <<fresh, toResolve, resolved>>
    BY <2>1, <2>2, <2>3, <2>4, PassBegun
  <2>6. pc' \in [Consumer -> Places]
    <3>1. CASE BeginPass(c, "loop pass", positionTimestamp[c])
      BY <2>4, <3>1, BeginPassProps
    <3>2. CASE pc' = [pc EXCEPT ![c] = "loop"] \/ pc' = [pc EXCEPT ![c] = "done"]
      BY <3>2 DEF Places, ConsumerTypeOK
    <3> QED
      BY <2>2, <3>1, <3>2
  <2>7. /\ \A d \in Consumer : d # c => pc'[d] = pc[d]
        /\ pc'[c] \in {"loop pass", "loop", "done"}
    <3>1. CASE BeginPass(c, "loop pass", positionTimestamp[c])
      BY <2>4, <3>1, BeginPassProps DEF After
    <3>2. CASE pc' = [pc EXCEPT ![c] = "loop"] \/ pc' = [pc EXCEPT ![c] = "done"]
      BY <3>2 DEF ConsumerTypeOK
    <3> QED
      BY <2>2, <3>1, <3>2
  <2>8. /\ fresh' \in [Consumer -> SUBSET Partition] /\ toResolve' \in [Consumer -> SUBSET Partition]
        /\ resolved' \in [Consumer -> [Partition -> Nat]]
    <3>1. CASE BeginPass(c, "loop pass", positionTimestamp[c])
      BY <2>4, <3>1, BeginPassProps
    <3>2. CASE UNCHANGED <<fresh, toResolve, resolved>>
      BY <3>2 DEF ConsumerTypeOK
    <3> QED
      BY <2>2, <3>1, <3>2
  <2>9. ConsumerTypeOK'
    <3>1. pc' \in [Consumer -> Places]
      BY <2>6
    <3>2. dirty' \in BOOLEAN
      BY <1>6 DEF PollNothing, AtPoll, ConsumerTypeOK
    <3>3. fresh' \in [Consumer -> SUBSET Partition]
      BY <2>8
    <3>4. toResolve' \in [Consumer -> SUBSET Partition]
      BY <2>8
    <3>5. resolved' \in [Consumer -> [Partition -> Nat]]
      BY <2>8
    <3>6. UNCHANGED <<start, exitOnEof, day, owner, committed, pos, stored, held, queue,
        pushed, positionTimestamp, positioned, total, late, overtaken>>
      BY <1>6 DEF PollNothing, AtPoll
    <3> QED
      BY <3>1, <3>2, <3>3, <3>4, <3>5, <3>6 DEF ConsumerTypeOK
  <2>10. LogTypeOK'
    BY <1>6 DEF PollNothing, LogTypeOK
  <2>11. OffsetsInLog'
    BY <2>1, <2>5 DEF OffsetsInLog
  <2>12. PassesAgree'
    <3>1. CASE /\ pc' = [pc EXCEPT ![c] = "loop"] \/ pc' = [pc EXCEPT ![c] = "done"]
               /\ UNCHANGED <<fresh, toResolve, resolved>>
      <4>1. pc'[c] \in {"loop", "done"} /\ pc[c] \notin Passes
        BY <2>1, <3>1 DEF Passes, ConsumerTypeOK
      <4>2. \A d \in Consumer : Owned(d)' = Owned(d)
        BY <2>1 DEF Owned
      <4>3. pc'[c] \notin Passes
        BY <4>1 DEF Passes
      <4> QED
        BY <2>1, <2>7, <3>1, <4>1, <4>2, <4>3 DEF PassesAgree, Replay
    <3>2. CASE ~Replay /\ BeginPass(c, "loop pass", positionTimestamp[c])
      BY <2>1, <2>3, <2>4, <3>2, PassBegun
    <3> QED
      BY <2>2, <3>1, <3>2
  <2>13. InstantsAgree'
    BY <1>6 DEF PollNothing, InstantsAgree
  <2>14. ReplayCommitsNothing'
    BY <1>6 DEF PollNothing, ReplayCommitsNothing, Replay
  <2>15. StoredIsInReach'
    <3>1. \A q \in Partition : Reach(q)' = Reach(q)
      BY <1>6, ReachSame DEF PollNothing
    <3> QED
      BY <1>6, <3>1 DEF PollNothing, StoredIsInReach
  <2>16. PositionIsInReach'
    <3>1. \A d \in Consumer : pc'[d] \in Reading => pc[d] \in Reading
      BY <2>1, <2>7 DEF Reading
    <3> QED
      BY <2>1, <2>3, <3>1, PositionKept
  <2>17. TargetIsInReach'
    BY <2>1, <2>3, <2>5, TargetKept
  <2>18. PausedIsHeld'
    BY <2>1, <2>7 DEF PausedIsHeld, Owned
  <2>19. AllowedFits'
    <3>1. total' \in [Consumer -> Nat]
      BY <2>1 DEF ConsumerTypeOK
    <3>2. ~overtaken => \A d \in Consumer : May(d)' => May(d)
      BY <2>1, <2>7 DEF May, PausedIsHeld
    <3> QED
      BY <2>1, <3>1, <3>2, AllowedKept, Numbers
  <2> QED
    BY <2>9, <2>10, <2>11, <2>12, <2>13, <2>14, <2>15, <2>16, <2>17, <2>18, <2>19 DEF ConsumerInv
<1>7. ASSUME NEW p \in Partition, FirstMessage(c, p) PROVE ConsumerInv'
  <2>1. /\ UNCHANGED <<start, log, owner, committed, stored, held, positioned, total, pushed, late, queue,
                      positionTimestamp, overtaken>>
        /\ pc[c] = "initial" /\ ~Replay /\ owner[p] = c /\ pos[p] <= Len(log[p])
        /\ BeginPass(c, "first pass", positionTimestamp[c])
        /\ pos' = IF p \in positioned[c] THEN pos ELSE [pos EXCEPT ![p] = pos[p] + 1]
    BY <1>7 DEF FirstMessage
  <2>2. \A q \in Partition : Reach(q)' = Reach(q)
    BY <2>1, ReachSame
  <2>3. "first pass" \in Passes /\ pc[c] \notin Passes /\ positionTimestamp[c] \in Nat
    BY <2>1, Numbers DEF Passes
  <2>4. /\ PassesAgree' /\ TargetIsInReach'
        /\ \A q \in Partition, d \in Consumer : resolved'[d][q] <= Len(log[q]) + 1
    BY <2>1, <2>2, <2>3, PassBegun
  <2>5. /\ \A d \in Consumer : d # c => pc'[d] = pc[d]
        /\ (Owned(c) \subseteq positioned[c] /\ pc'[c] = "loop") \/ pc'[c] = "first pass" 
    <3>1. After("first pass") = "loop"
      BY DEF After
    <3>2. BeginPass(c, "first pass", positionTimestamp[c])
      BY <2>1
    <3> QED
      BY <2>3, <3>1, <3>2, BeginPassProps
  <2>6. /\ pos' \in [Partition -> Nat]
        /\ \A q \in Partition : pos'[q] = pos[q] \/ (q = p /\ p \notin positioned[c] /\ pos'[q] = pos[q] + 1)
    <3>1. pos \in [Partition -> Nat] /\ pos[p] + 1 \in Nat
      BY Numbers DEF ConsumerTypeOK
    <3>2. CASE p \in positioned[c]
      BY <2>1, <3>1, <3>2
    <3>3. CASE p \notin positioned[c]
      <4>1. pos' = [pos EXCEPT ![p] = pos[p] + 1]
        BY <2>1, <3>3
      <4> QED
        BY <3>1, <3>3, <4>1
    <3> QED
      BY <3>2, <3>3
  <2>7. ConsumerTypeOK'
    <3>1. pos' \in [Partition -> Nat]
      BY <2>6
    <3>2. pc' \in [Consumer -> Places]
      BY <2>1, <2>3, BeginPassProps
    <3>3. fresh' \in [Consumer -> SUBSET Partition]
      BY <2>1, <2>3, BeginPassProps
    <3>4. toResolve' \in [Consumer -> SUBSET Partition]
      BY <2>1, <2>3, BeginPassProps
    <3>5. resolved' \in [Consumer -> [Partition -> Nat]]
      BY <2>1, <2>3, BeginPassProps
    <3>6. UNCHANGED <<start, exitOnEof, day, owner, committed, stored, held, dirty, queue,
        pushed, positionTimestamp, positioned, total, late, overtaken>>
      BY <1>7 DEF FirstMessage
    <3> QED
      BY <3>1, <3>2, <3>3, <3>4, <3>5, <3>6 DEF ConsumerTypeOK
  <2>8. LogTypeOK'
    BY <1>7 DEF FirstMessage, LogTypeOK
  <2>9. OffsetsInLog'
    <3>1. log' = log /\ committed' = committed /\ stored' = stored /\ pos[p] <= Len(log[p])
      BY <2>1
    <3>2. ASSUME NEW q \in Partition
          PROVE  /\ committed'[q] <= Len(log'[q]) + 1 /\ stored'[q] <= Len(log'[q]) + 1
                 /\ pos'[q] <= Len(log'[q]) + 1 /\ pos'[q] >= 1
      <4>1. /\ committed[q] \in Nat /\ stored[q] \in Nat /\ pos[q] \in Nat /\ Len(log[q]) \in Nat
            /\ committed[q] <= Len(log[q]) + 1 /\ stored[q] <= Len(log[q]) + 1
            /\ pos[q] <= Len(log[q]) + 1 /\ pos[q] >= 1
        BY Numbers DEF OffsetsInLog
      <4> QED
        BY <3>1, <2>4, <2>6, <4>1
    <3>3. ASSUME NEW q \in Partition, NEW d \in Consumer PROVE resolved'[d][q] <= Len(log'[q]) + 1
      <4>1. resolved[d][q] \in Nat /\ resolved[d][q] <= Len(log[q]) + 1 /\ Len(log[q]) \in Nat
        BY Numbers DEF OffsetsInLog
      <4> QED
        BY <3>1, <2>4, <2>6, <4>1
    <3> QED
      BY <3>2, <3>3 DEF OffsetsInLog
  <2>10. PassesAgree'
    BY <2>4
  <2>11. InstantsAgree'
    BY <1>7 DEF FirstMessage, InstantsAgree
  <2>12. ReplayCommitsNothing'
    BY <1>7 DEF FirstMessage, ReplayCommitsNothing, Replay
  <2>13. StoredIsInReach'
    <3>1. \A q \in Partition : Reach(q)' = Reach(q)
      BY <1>7, ReachSame DEF FirstMessage
    <3> QED
      BY <1>7, <3>1 DEF FirstMessage, StoredIsInReach
  <2>14. PositionIsInReach'
    <3> SUFFICES ASSUME NEW q \in Partition, owner[q] # None, pos'[q] \notin Reach(q)
                 PROVE  pc'[owner[q]] \notin Reading /\ q \notin positioned[owner[q]]
      BY <2>1, <2>2 DEF PositionIsInReach
    <3>1. owner[q] \in Consumer /\ q \in Owned(owner[q])
      BY DEF ConsumerTypeOK, Owned
    <3>2. q \notin positioned[owner[q]] /\ (owner[q] = c \/ pc[owner[q]] \notin Reading)
      BY <2>1, <2>6 DEF PositionIsInReach
    <3> QED
      BY <2>5, <3>1, <3>2 DEF Reading
  <2>15. TargetIsInReach'
    BY <2>4
  <2>16. PausedIsHeld'
    BY <2>1, <2>5 DEF PausedIsHeld, Owned
  <2>17. AllowedFits'
    <3>1. total' \in [Consumer -> Nat]
      BY <2>1 DEF ConsumerTypeOK
    <3>2. ~overtaken => \A d \in Consumer : May(d)' => May(d)
      BY <2>1, <2>5 DEF May, PausedIsHeld
    <3>3. queue' = queue /\ total' = total /\ overtaken' = overtaken
      BY <2>1
    <3> QED
      BY <3>1, <3>3, <3>2, AllowedKept, Numbers
  <2> QED
    BY <2>7, <2>8, <2>9, <2>10, <2>11, <2>12, <2>13, <2>14, <2>15, <2>16, <2>17 DEF ConsumerInv
<1>8. ASSUME NEW p \in Partition, FirstMessageOfReplay(c, p) PROVE ConsumerInv'
  <2>1. /\ Replay /\ pc[c] = "initial" /\ pc'[c] = "loop"
        /\ \A d \in Consumer : d # c => pc'[d] = pc[d]
        /\ UNCHANGED <<start, log, owner, committed, stored, positioned, fresh, toResolve, resolved, total, held, queue, overtaken>>
    BY <1>8 DEF FirstMessageOfReplay, ConsumerTypeOK
  <2>2. \A q \in Partition : pos'[q] \in Nat /\ pos'[q] >= 1 /\ pos'[q] <= Len(log[q]) + 1
    <3>1. \A q \in Partition : FirstAtOrAfter(q, StartDay) \in Nat /\ FirstAtOrAfter(q, StartDay) <= Len(log[q])
      BY FirstProps
    <3>2. \A q \in Partition :
            pos'[q] = IF owner[q] # c THEN pos[q]
                      ELSE IF FirstAtOrAfter(q, StartDay) = End THEN Len(log[q]) + 1 ELSE FirstAtOrAfter(q, StartDay)
      BY <1>8 DEF FirstMessageOfReplay
    <3> QED
      BY <3>1, <3>2, Numbers, SMTT(30) DEF OffsetsInLog, End
  <2>3. ConsumerTypeOK'
    <3>1. pos' \in [Partition -> Nat]
      BY <1>8, <2>2 DEF FirstMessageOfReplay
    <3>2. pc' \in [Consumer -> Places]
      BY <1>8 DEF FirstMessageOfReplay, ConsumerTypeOK, Places
    <3>3. UNCHANGED <<start, exitOnEof, day, owner, committed, stored, held, dirty, queue,
        pushed, positionTimestamp, positioned, fresh, toResolve, resolved, total, late,
        overtaken>>
      BY <1>8 DEF FirstMessageOfReplay
    <3> QED
      BY <3>1, <3>2, <3>3 DEF ConsumerTypeOK
  <2>4. LogTypeOK'
    BY <1>8 DEF FirstMessageOfReplay, LogTypeOK
  <2>5. OffsetsInLog'
    BY <2>1, <2>2 DEF OffsetsInLog
  <2>6. PassesAgree'
    BY <2>1 DEF PassesAgree, Passes, Owned, Replay
  <2>7. InstantsAgree'
    BY <1>8 DEF FirstMessageOfReplay, InstantsAgree
  <2>8. ReplayCommitsNothing'
    BY <1>8 DEF FirstMessageOfReplay, ReplayCommitsNothing, Replay
  <2>9. StoredIsInReach'
    <3>1. \A q \in Partition : Reach(q)' = Reach(q)
      BY <1>8, ReachSame DEF FirstMessageOfReplay
    <3> QED
      BY <1>8, <3>1 DEF FirstMessageOfReplay, StoredIsInReach
  <2>10. PositionIsInReach'
    BY <2>1 DEF PositionIsInReach, Replay
  <2>11. TargetIsInReach'
    <3>1. \A q \in Partition : Reach(q)' = Reach(q)
      BY <1>8, ReachSame DEF FirstMessageOfReplay
    <3> QED
      BY <1>8, <3>1, TargetKept DEF FirstMessageOfReplay
  <2>12. PausedIsHeld'
    BY <2>1 DEF PausedIsHeld, Owned
  <2>13. AllowedFits'
    <3>1. total' \in [Consumer -> Nat]
      BY <2>1 DEF ConsumerTypeOK
    <3>2. ~overtaken => \A d \in Consumer : May(d)' => May(d)
      BY <2>1 DEF May, PausedIsHeld
    <3> QED
      BY <2>1, <3>1, <3>2, AllowedKept, Numbers
  <2> QED
    BY <2>3, <2>4, <2>5, <2>6, <2>7, <2>8, <2>9, <2>10, <2>11, <2>12, <2>13 DEF ConsumerInv
<1>9. ASSUME NEW p \in Partition, Consume(c, p) PROVE ConsumerInv'
  <2>1. /\ UNCHANGED <<start, log, owner, committed, positioned, fresh, toResolve, resolved, held, late,
                      positionTimestamp, overtaken>>
        /\ owner[p] = c /\ p \notin held /\ pos[p] <= Len(log[p]) /\ queue' = queue + 1
        /\ pushed' = pushed \cup {<<p, pos[p]>>}
        /\ total' \in [Consumer -> Nat] /\ total'[c] = (total[c] + 1) % CheckEvery
        /\ \A d \in Consumer : d # c => total'[d] = total[d]
    <3>1. (total[c] + 1) % CheckEvery \in Nat
      BY Numbers
    <3> QED
      BY <1>9, <3>1 DEF Consume, Forward, ConsumerTypeOK
  <2>2. \A q \in Partition : /\ pos'[q] = IF q = p THEN pos[p] + 1 ELSE pos[q]
                             /\ stored'[q] = IF q = p /\ ~Replay THEN pos[p] + 1 ELSE stored[q]
    <3>1. pos \in [Partition -> Nat] /\ stored \in [Partition -> Nat]
      BY DEF ConsumerTypeOK
    <3> QED
      BY <1>9, <3>1 DEF Consume, Forward
  <2>3. /\ pc[c] \in Reading /\ pc[c] \in {"poll", "loop"} /\ May(c) /\ pc'[c] = "loop"
        /\ \A d \in Consumer : d # c => pc'[d] = pc[d]
    BY <1>9 DEF Consume, Forward, AtPoll, May, Reading, ConsumerTypeOK
  <2>4. \A q \in Partition : Reach(q) \subseteq Reach(q)'
    <3>1. positionTimestamp' \in [Consumer -> Nat] /\ \A d \in Consumer : positionTimestamp[d] <= positionTimestamp'[d]
      BY <2>1, Numbers DEF ConsumerTypeOK
    <3>2. log' = log /\ pushed \subseteq pushed' /\ late \subseteq late'
      BY <2>1
    <3> QED
      BY <3>1, <3>2, ReachGrows
  <2>5. ~Replay => pos[p] + 1 \in Reach(p)'
    <3>1. ~Replay => pos[p] \in Reach(p)'
      BY <2>1, <2>3, <2>4 DEF PositionIsInReach
    <3> QED
      BY <2>1, <3>1, ReachNext
  <2>6. ConsumerTypeOK'
    <3>1. queue' \in Nat
      BY <2>1, Numbers
    <3>2. pushed' \subseteq Partition \X Nat
      <4>1. <<p, pos[p]>> \in Partition \X Nat
        BY Numbers
      <4> QED
        BY <2>1, <4>1 DEF ConsumerTypeOK
    <3>3. pos' \in [Partition -> Nat]
      BY <1>9 DEF Consume, Forward, AtPoll, ConsumerTypeOK
    <3>4. stored' \in [Partition -> Nat]
      BY <1>9 DEF Consume, Forward, AtPoll, ConsumerTypeOK
    <3>5. total' \in [Consumer -> Nat]
      BY <2>1
    <3>6. pc' \in [Consumer -> Places]
      BY <1>9 DEF Consume, Forward, AtPoll, ConsumerTypeOK, Places
    <3>7. UNCHANGED <<start, exitOnEof, day, owner, committed, held, dirty,
        positionTimestamp, positioned, fresh, toResolve, resolved, late, overtaken>>
      BY <1>9 DEF Consume, Forward, AtPoll
    <3> QED
      BY <3>1, <3>2, <3>3, <3>4, <3>5, <3>6, <3>7 DEF ConsumerTypeOK
  <2>7. LogTypeOK'
    BY <1>9 DEF Consume, Forward, LogTypeOK
  <2>8. OffsetsInLog'
    <3>1. ASSUME NEW q \in Partition
          PROVE  /\ committed'[q] <= Len(log'[q]) + 1 /\ stored'[q] <= Len(log'[q]) + 1
                 /\ pos'[q] <= Len(log'[q]) + 1 /\ pos'[q] >= 1
      <4>1. /\ committed[q] \in Nat /\ stored[q] \in Nat /\ pos[q] \in Nat /\ Len(log[q]) \in Nat
            /\ committed[q] <= Len(log[q]) + 1 /\ stored[q] <= Len(log[q]) + 1
            /\ pos[q] <= Len(log[q]) + 1 /\ pos[q] >= 1
        BY Numbers DEF OffsetsInLog
      <4> QED
        BY <2>1, <2>2, <4>1
    <3>2. ASSUME NEW q \in Partition, NEW d \in Consumer PROVE resolved'[d][q] <= Len(log'[q]) + 1
      <4>1. resolved[d][q] \in Nat /\ resolved[d][q] <= Len(log[q]) + 1 /\ Len(log[q]) \in Nat
        BY Numbers DEF OffsetsInLog
      <4> QED
        BY <2>1, <2>2, <4>1
    <3> QED
      BY <3>1, <3>2 DEF OffsetsInLog
  <2>9. PassesAgree'
    BY <2>1, <2>3 DEF PassesAgree, Passes, Owned, Replay
  <2>10. InstantsAgree'
    BY <1>9 DEF Consume, Forward, InstantsAgree
  <2>11. ReplayCommitsNothing'
    BY <2>1, <2>2 DEF ReplayCommitsNothing, Replay
  <2>12. StoredIsInReach'
    BY <2>1, <2>2, <2>4, <2>5 DEF StoredIsInReach
  <2>13. PositionIsInReach'
    <3> SUFFICES ASSUME ~Replay, NEW q \in Partition, owner[q] # None, pos'[q] \notin Reach(q)'
                 PROVE  pc'[owner[q]] \notin Reading /\ q \notin positioned[owner[q]]
      BY <2>1 DEF PositionIsInReach, Replay
    <3>1. q # p /\ pos'[q] = pos[q] /\ owner[q] \in Consumer
      BY <2>2, <2>5 DEF ConsumerTypeOK
    <3>2. pc[owner[q]] \notin Reading /\ q \notin positioned[owner[q]]
      BY <2>4, <3>1 DEF PositionIsInReach
    <3> QED
      BY <2>3, <3>1, <3>2
  <2>14. TargetIsInReach'
    BY <2>1, <2>4, TargetKept
  <2>15. PausedIsHeld'
    <3> SUFFICES ASSUME ~overtaken PROVE PausedIsHeld'
      BY <2>1 DEF PausedIsHeld
    <3>1. total'[c] < CheckEvery
      <4>1. total[c] \in Nat /\ total[c] < CheckEvery
        BY Numbers DEF PausedIsHeld
      <4> QED
        BY <2>1, <4>1, RoundStep
    <3> QED
      BY <2>1, <2>3, <3>1 DEF PausedIsHeld, Owned
  <2>16. AllowedFits'
    <3> SUFFICES ASSUME ~overtaken PROVE AllowedFits'
      BY <2>1 DEF AllowedFits
    <3>1. total[c] \in Nat /\ total[c] < CheckEvery
      BY Numbers DEF PausedIsHeld
    <3>2. total'[c] = IF total[c] + 1 = CheckEvery THEN 0 ELSE total[c] + 1
      BY <2>1, <3>1, RoundStep
    <3>3. \A d \in Consumer : d # c => (May(d)' <=> May(d)) /\ total'[d] = total[d]
      BY <2>1, <2>3 DEF May
    <3>4. May(c)' => total'[c] = total[c] + 1
      BY <2>3, <3>2 DEF May
    <3>5. \A x \in Allowed' : x \in Allowed /\ x # <<c, total[c] + 1>>
      <4> SUFFICES ASSUME NEW d \in Consumer, NEW i \in 1..CheckEvery, May(d)', i > total'[d]
                   PROVE  May(d) /\ i > total[d] /\ ~(d = c /\ i = total[c] + 1)
        BY DEF Allowed
      <4>1. CASE d = c
        BY <2>3, <3>1, <3>4, <4>1
      <4>2. CASE d # c
        BY <3>3, <4>2
      <4> QED
        BY <4>1, <4>2
    <3>6. Allowed' \subseteq Allowed \ {<<c, total[c] + 1>>}
      BY <3>5
    <3> QED
      BY <2>1, <2>3, <3>1, <3>6, AllowedSpent
  <2> QED
    BY <2>6, <2>7, <2>8, <2>9, <2>10, <2>11, <2>12, <2>13, <2>14, <2>15, <2>16 DEF ConsumerInv
<1>10. ASSUME NEW p \in Partition, ForwardWhilePaused(c, p) PROVE ConsumerInv'
  <2>1. /\ UNCHANGED <<start, log, owner, committed, positioned, fresh, toResolve, resolved, held, late,
                      positionTimestamp, overtaken>>
        /\ owner[p] = c /\ p \notin held /\ pos[p] <= Len(log[p]) /\ queue' = queue + 1
        /\ pushed' = pushed \cup {<<p, pos[p]>>}
        /\ total' \in [Consumer -> Nat] /\ total'[c] = (total[c] + 1) % CheckEvery
        /\ \A d \in Consumer : d # c => total'[d] = total[d]
    <3>1. (total[c] + 1) % CheckEvery \in Nat
      BY Numbers
    <3> QED
      BY <1>10, <3>1 DEF ForwardWhilePaused, Forward, ConsumerTypeOK
  <2>2. \A q \in Partition : /\ pos'[q] = IF q = p THEN pos[p] + 1 ELSE pos[q]
                             /\ stored'[q] = IF q = p /\ ~Replay THEN pos[p] + 1 ELSE stored[q]
    <3>1. pos \in [Partition -> Nat] /\ stored \in [Partition -> Nat]
      BY DEF ConsumerTypeOK
    <3> QED
      BY <1>10, <3>1 DEF ForwardWhilePaused, Forward
  <2>3. pc[c] \in Reading /\ pc[c] = "paused" /\ pc' = pc
    BY <1>10 DEF ForwardWhilePaused, Forward, Reading, ConsumerTypeOK
  <2>4. \A q \in Partition : Reach(q) \subseteq Reach(q)'
    <3>1. positionTimestamp' \in [Consumer -> Nat] /\ \A d \in Consumer : positionTimestamp[d] <= positionTimestamp'[d]
      BY <2>1, Numbers DEF ConsumerTypeOK
    <3>2. log' = log /\ pushed \subseteq pushed' /\ late \subseteq late'
      BY <2>1
    <3> QED
      BY <3>1, <3>2, ReachGrows
  <2>5. ~Replay => pos[p] + 1 \in Reach(p)'
    <3>1. ~Replay => pos[p] \in Reach(p)'
      BY <2>1, <2>3, <2>4 DEF PositionIsInReach
    <3> QED
      BY <2>1, <3>1, ReachNext
  <2>6. ConsumerTypeOK'
    <3>1. queue' \in Nat
      BY <2>1, Numbers
    <3>2. pushed' \subseteq Partition \X Nat
      <4>1. <<p, pos[p]>> \in Partition \X Nat
        BY Numbers
      <4> QED
        BY <2>1, <4>1 DEF ConsumerTypeOK
    <3>3. pos' \in [Partition -> Nat]
      BY <1>10 DEF ForwardWhilePaused, Forward, ConsumerTypeOK
    <3>4. stored' \in [Partition -> Nat]
      BY <1>10 DEF ForwardWhilePaused, Forward, ConsumerTypeOK
    <3>5. total' \in [Consumer -> Nat]
      BY <2>1
    <3>6. UNCHANGED <<start, exitOnEof, day, owner, committed, held, dirty, pc,
        positionTimestamp, positioned, fresh, toResolve, resolved, late, overtaken>>
      BY <1>10 DEF ForwardWhilePaused, Forward
    <3> QED
      BY <3>1, <3>2, <3>3, <3>4, <3>5, <3>6 DEF ConsumerTypeOK
  <2>7. LogTypeOK'
    BY <1>10 DEF ForwardWhilePaused, Forward, LogTypeOK
  <2>8. OffsetsInLog'
    <3>1. ASSUME NEW q \in Partition
          PROVE  /\ committed'[q] <= Len(log'[q]) + 1 /\ stored'[q] <= Len(log'[q]) + 1
                 /\ pos'[q] <= Len(log'[q]) + 1 /\ pos'[q] >= 1
      <4>1. /\ committed[q] \in Nat /\ stored[q] \in Nat /\ pos[q] \in Nat /\ Len(log[q]) \in Nat
            /\ committed[q] <= Len(log[q]) + 1 /\ stored[q] <= Len(log[q]) + 1
            /\ pos[q] <= Len(log[q]) + 1 /\ pos[q] >= 1
        BY Numbers DEF OffsetsInLog
      <4> QED
        BY <2>1, <2>2, <4>1
    <3>2. ASSUME NEW q \in Partition, NEW d \in Consumer PROVE resolved'[d][q] <= Len(log'[q]) + 1
      <4>1. resolved[d][q] \in Nat /\ resolved[d][q] <= Len(log[q]) + 1 /\ Len(log[q]) \in Nat
        BY Numbers DEF OffsetsInLog
      <4> QED
        BY <2>1, <2>2, <4>1
    <3> QED
      BY <3>1, <3>2 DEF OffsetsInLog
  <2>9. PassesAgree'
    BY <2>1, <2>3 DEF PassesAgree, Owned, Replay
  <2>10. InstantsAgree'
    BY <1>10 DEF ForwardWhilePaused, Forward, InstantsAgree
  <2>11. ReplayCommitsNothing'
    BY <2>1, <2>2 DEF ReplayCommitsNothing, Replay
  <2>12. StoredIsInReach'
    BY <2>1, <2>2, <2>4, <2>5 DEF StoredIsInReach
  <2>13. PositionIsInReach'
    <3> SUFFICES ASSUME ~Replay, NEW q \in Partition, owner[q] # None, pos'[q] \notin Reach(q)'
                 PROVE  pc'[owner[q]] \notin Reading /\ q \notin positioned[owner[q]]
      BY <2>1 DEF PositionIsInReach, Replay
    <3>1. q # p /\ pos'[q] = pos[q] /\ owner[q] \in Consumer
      BY <2>2, <2>5 DEF ConsumerTypeOK
    <3>2. pc[owner[q]] \notin Reading /\ q \notin positioned[owner[q]]
      BY <2>4, <3>1 DEF PositionIsInReach
    <3> QED
      BY <2>3, <3>1, <3>2
  <2>14. TargetIsInReach'
    BY <2>1, <2>4, TargetKept
  <2>15. PausedIsHeld'
    <3>1. overtaken
      BY <2>1, <2>3 DEF PausedIsHeld, Owned
    <3> QED
      BY <2>1, <3>1 DEF PausedIsHeld
  <2>16. AllowedFits'
    <3>1. overtaken
      BY <2>1, <2>3 DEF PausedIsHeld, Owned
    <3> QED
      BY <2>1, <3>1 DEF AllowedFits
  <2> QED
    BY <2>6, <2>7, <2>8, <2>9, <2>10, <2>11, <2>12, <2>13, <2>14, <2>15, <2>16 DEF ConsumerInv
<1>11. CASE PositionFails(c)
  <2>1. UNCHANGED <<start, log, owner, committed, stored, pos, held, pushed, late, queue, positionTimestamp, overtaken, positioned, total>>
    BY <1>11 DEF PositionFails
  <2>2. /\ pc[c] \in Passes /\ pc'[c] = Retry(pc[c])
        /\ fresh'[c] = {} /\ toResolve'[c] = {} /\ \A q \in Partition : resolved'[c][q] = 0
        /\ \A d \in Consumer : d # c => /\ pc'[d] = pc[d] /\ fresh'[d] = fresh[d]
                                        /\ toResolve'[d] = toResolve[d] /\ resolved'[d] = resolved[d]
    BY <1>11 DEF PositionFails, End, PassesAgree, ConsumerTypeOK
  <2>3. \A q \in Partition : Reach(q)' = Reach(q)
    BY <2>1, ReachSame
  <2>4. pc'[c] \notin Passes /\ (pc'[c] \in Reading => pc[c] \in Reading) /\ pc'[c] \in {"loop", "initial"}
    BY <2>2 DEF Retry, Passes, Reading
  <2>5. ConsumerTypeOK'
    <3>1. fresh' \in [Consumer -> SUBSET Partition]
      BY <1>11 DEF PositionFails, Retry, ConsumerTypeOK
    <3>2. toResolve' \in [Consumer -> SUBSET Partition]
      BY <1>11 DEF PositionFails, Retry, ConsumerTypeOK
    <3>3. resolved' \in [Consumer -> [Partition -> Nat]]
      BY <1>11 DEF PositionFails, Retry, ConsumerTypeOK, End
    <3>4. pc' \in [Consumer -> Places]
      BY <1>11 DEF PositionFails, Retry, ConsumerTypeOK, Places
    <3>5. UNCHANGED <<start, exitOnEof, day, owner, committed, pos, stored, held, dirty,
        queue, pushed, positionTimestamp, positioned, total, late, overtaken>>
      BY <1>11 DEF PositionFails, Retry
    <3> QED
      BY <3>1, <3>2, <3>3, <3>4, <3>5 DEF ConsumerTypeOK
  <2>6. LogTypeOK'
    BY <1>11 DEF PositionFails, LogTypeOK
  <2>7. OffsetsInLog'
    BY <2>1, <2>2, Numbers DEF OffsetsInLog
  <2>8. PassesAgree'
    BY <2>1, <2>2, <2>4 DEF PassesAgree, Owned, Replay
  <2>9. InstantsAgree'
    BY <1>11 DEF PositionFails, InstantsAgree
  <2>10. ReplayCommitsNothing'
    BY <1>11 DEF PositionFails, ReplayCommitsNothing, Replay
  <2>11. StoredIsInReach'
    <3>1. \A q \in Partition : Reach(q)' = Reach(q)
      BY <1>11, ReachSame DEF PositionFails
    <3> QED
      BY <1>11, <3>1 DEF PositionFails, StoredIsInReach
  <2>12. PositionIsInReach'
    <3>1. \A d \in Consumer : positioned'[d] \subseteq positioned[d] /\ (pc'[d] \in Reading => pc[d] \in Reading)
      BY <2>1, <2>2, <2>4
    <3> QED
      BY <2>1, <2>3, <3>1, PositionKept
  <2>13. TargetIsInReach'
    BY <2>1, <2>2, <2>3, TargetKept
  <2>14. PausedIsHeld'
    <3>1. pc'[c] = "initial" => pc[c] \in {"first pass", "wait pass"}
      BY <2>2 DEF Retry, Passes
    <3> QED
      BY <2>1, <2>2, <2>4, <3>1 DEF PausedIsHeld, Owned
  <2>15. AllowedFits'
    <3>1. total' \in [Consumer -> Nat]
      BY <2>1 DEF ConsumerTypeOK
    <3>2. pc'[c] = "loop" => pc[c] = "loop pass"
      BY <2>2 DEF Retry, Passes
    <3>3. \A d \in Consumer : May(d)' => May(d)
      BY <2>1, <2>2, <2>4, <3>2 DEF May
    <3> QED
      BY <2>1, <3>1, <3>3, AllowedKept, Numbers
  <2> QED
    BY <2>5, <2>6, <2>7, <2>8, <2>9, <2>10, <2>11, <2>12, <2>13, <2>14, <2>15 DEF ConsumerInv
<1>12. CASE ThreadFails(c)
  <2>1. UNCHANGED <<start, log, owner, committed, stored, pos, held, pushed, late, queue, positionTimestamp, overtaken>>
    BY <1>12 DEF ThreadFails
  <2>2. /\ pc'[c] = "dead" 
        /\ fresh'[c] = {} /\ toResolve'[c] = {} /\ \A q \in Partition : resolved'[c][q] = 0
        /\ \A d \in Consumer : d # c => /\ pc'[d] = pc[d] /\ fresh'[d] = fresh[d]
                                        /\ toResolve'[d] = toResolve[d] /\ resolved'[d] = resolved[d]
        /\ positioned'[c] = {} /\ total'[c] = 0
        /\ \A d \in Consumer : d # c => positioned'[d] = positioned[d] /\ total'[d] = total[d]
    BY <1>12 DEF ThreadFails, End, PassesAgree, ConsumerTypeOK
  <2>3. \A q \in Partition : Reach(q)' = Reach(q)
    BY <2>1, ReachSame
  <2>4. pc'[c] \notin Passes /\ (pc'[c] \in Reading => pc[c] \in Reading)
    BY <2>2 DEF Retry, Passes, Reading
  <2>5. ConsumerTypeOK'
    <3>1. pc' \in [Consumer -> Places]
      BY <1>12 DEF ThreadFails, Alive, ConsumerTypeOK, Places
    <3>2. positioned' \in [Consumer -> SUBSET Partition]
      BY <1>12 DEF ThreadFails, Alive, ConsumerTypeOK
    <3>3. total' \in [Consumer -> Nat]
      BY <1>12 DEF ThreadFails, Alive, ConsumerTypeOK
    <3>4. fresh' \in [Consumer -> SUBSET Partition]
      BY <1>12 DEF ThreadFails, Alive, ConsumerTypeOK
    <3>5. toResolve' \in [Consumer -> SUBSET Partition]
      BY <1>12 DEF ThreadFails, Alive, ConsumerTypeOK
    <3>6. resolved' \in [Consumer -> [Partition -> Nat]]
      BY <1>12 DEF ThreadFails, Alive, ConsumerTypeOK, End
    <3>7. dirty' \in BOOLEAN
      BY <1>12 DEF ThreadFails, Alive, ConsumerTypeOK
    <3>8. UNCHANGED <<start, exitOnEof, day, owner, committed, pos, stored, held, queue,
        pushed, positionTimestamp, late, overtaken>>
      BY <1>12 DEF ThreadFails, Alive
    <3> QED
      BY <3>1, <3>2, <3>3, <3>4, <3>5, <3>6, <3>7, <3>8 DEF ConsumerTypeOK
  <2>6. LogTypeOK'
    BY <1>12 DEF ThreadFails, LogTypeOK
  <2>7. OffsetsInLog'
    BY <2>1, <2>2, Numbers DEF OffsetsInLog
  <2>8. PassesAgree'
    BY <2>1, <2>2, <2>4 DEF PassesAgree, Owned, Replay
  <2>9. InstantsAgree'
    BY <1>12 DEF ThreadFails, InstantsAgree
  <2>10. ReplayCommitsNothing'
    BY <1>12 DEF ThreadFails, ReplayCommitsNothing, Replay
  <2>11. StoredIsInReach'
    <3>1. \A q \in Partition : Reach(q)' = Reach(q)
      BY <1>12, ReachSame DEF ThreadFails
    <3> QED
      BY <1>12, <3>1 DEF ThreadFails, StoredIsInReach
  <2>12. PositionIsInReach'
    <3>1. \A d \in Consumer : positioned'[d] \subseteq positioned[d] /\ (pc'[d] \in Reading => pc[d] \in Reading)
      BY <2>1, <2>2, <2>4
    <3> QED
      BY <2>1, <2>3, <3>1, PositionKept
  <2>13. TargetIsInReach'
    BY <2>1, <2>2, <2>3, TargetKept
  <2>14. PausedIsHeld'
    BY <2>1, <2>2, ZenonT(60) DEF PausedIsHeld, Owned
  <2>15. AllowedFits'
    <3>1. total' \in [Consumer -> Nat]
      BY <1>12 DEF ThreadFails, ConsumerTypeOK
    <3>2. \A d \in Consumer : May(d)' => May(d) /\ total'[d] = total[d]
      BY <2>2 DEF May
    <3> QED
      BY <2>1, <3>1, <3>2, AllowedKept, Numbers
  <2> QED
    BY <2>5, <2>6, <2>7, <2>8, <2>9, <2>10, <2>11, <2>12, <2>13, <2>14, <2>15 DEF ConsumerInv
<1> QED
  BY <1>1, <1>2, <1>3, <1>4, <1>5, <1>6, <1>7, <1>8, <1>9, <1>10, <1>11, <1>12 DEF Thread

\* Every step keeps it.
LEMMA ConsumerStep == ConsumerInv /\ [Next]_vars => ConsumerInv'
<1> SUFFICES ASSUME ConsumerInv, [Next]_vars PROVE ConsumerInv'
  OBVIOUS
<1>1. CASE Next
  BY <1>1, OutsideStep, ThreadStep DEF Next
<1>2. CASE UNCHANGED vars
  <2> USE DEF vars, plan, broker, group, thread, list, history
  <2>1. ConsumerTypeOK' /\ LogTypeOK' /\ OffsetsInLog' /\ PassesAgree' /\ InstantsAgree' /\ ReplayCommitsNothing'
    BY <1>2 DEF ConsumerInv, ConsumerTypeOK, LogTypeOK, OffsetsInLog, PassesAgree, InstantsAgree,
       ReplayCommitsNothing, Owned, Replay
  <2>2. StoredIsInReach' /\ PositionIsInReach' /\ TargetIsInReach'
    <3>1. \A q \in Partition : Reach(q)' = Reach(q)
      BY <1>2, ReachSame
    <3> QED
      BY <1>2, <3>1 DEF ConsumerInv, ConsumerTypeOK, StoredIsInReach, PositionIsInReach,
         TargetIsInReach, Target, Replay
  <2>3. PausedIsHeld' /\ AllowedFits'
    BY <1>2 DEF ConsumerInv, PausedIsHeld, AllowedFits, Allowed, May, Owned
  <2> QED
    BY <2>1, <2>2, <2>3 DEF ConsumerInv
<1> QED
  BY <1>1, <1>2

\* It holds when nothing has run yet.
LEMMA ConsumerStart == Init => ConsumerInv
<1> SUFFICES ASSUME Init PROVE ConsumerInv
  OBVIOUS
<1> USE ConsumerFacts DEF Init
<1>1. ConsumerTypeOK
  <2>1. exitOnEof \in BOOLEAN
    BY DEF Replay
  <2>2. pc \in [Consumer -> Places] /\ resolved \in [Consumer -> [Partition -> Nat]]
    BY DEF Places, End
  <2> QED
    BY <2>1, <2>2 DEF ConsumerTypeOK
<1>2. LogTypeOK /\ \A p \in Partition : Len(log[p]) = 0
  BY DEF LogTypeOK
<1>3. OffsetsInLog
  BY <1>2 DEF OffsetsInLog, End
<1>4. PassesAgree /\ InstantsAgree /\ ReplayCommitsNothing
  BY DEF PassesAgree, InstantsAgree, ReplayCommitsNothing, Passes
<1>5. StoredIsInReach
  BY <1>2, ReachStart DEF StoredIsInReach
<1>6. PositionIsInReach /\ TargetIsInReach
  BY DEF PositionIsInReach, TargetIsInReach
<1>7. PausedIsHeld
  BY DEF PausedIsHeld
<1>8. AllowedFits
  <2>1. Allowed = {}
    BY DEF Allowed, May
  <2>2. Cardinality(Allowed) = 0
    BY <2>1, FS_EmptySet
  <2>3. CheckEvery * Cardinality(Consumer) \in Nat
    BY FS_CardinalityType
  <2>4. queue + Cardinality(Allowed) <= MaxInQueue - 1 + CheckEvery * Cardinality(Consumer)
    BY <2>2, <2>3, FitsAnew
  <2> QED
    BY <2>4 DEF AllowedFits
<1> QED
  BY <1>1, <1>2, <1>3, <1>4, <1>5, <1>6, <1>7, <1>8 DEF ConsumerInv

\* The inductive invariant of the threads of a kafka_consumer process.
THEOREM ConsumerInvariant == Spec => []ConsumerInv
BY ConsumerStart, ConsumerStep, PTL DEF Spec

\* For every number of threads, partitions, days, crashes and rebalances, the group never
\* commits past a wanted message that was not pushed: not when position_partitions commits
\* what it sought to, nor when store_offset_from_message is committed on a rebalance or by
\* the auto-commit.
THEOREM NothingIsSkipped == Spec => []NothingSkipped
<1>1. ConsumerInv => NothingSkipped
  BY DEF ConsumerInv, StoredIsInReach, Reach, NothingSkipped
<1> QED
  BY <1>1, ConsumerInvariant, PTL

\* The input list holds at most max_in_queue - 1 messages and what the threads may push
\* between two looks at it, whatever the order in which they look and push.
THEOREM QueueStaysBounded == Spec => []QueueBounded
<1>1. ConsumerInv => QueueBounded
  <2> SUFFICES ASSUME ConsumerInv, ~overtaken
               PROVE  queue <= MaxInQueue - 1 + CheckEvery * Cardinality(Consumer)
    BY DEF QueueBounded
  <2>1. queue + Cardinality(Allowed) <= MaxInQueue - 1 + CheckEvery * Cardinality(Consumer)
    BY DEF ConsumerInv, AllowedFits
  <2>2. queue \in Nat /\ Cardinality(Allowed) \in Nat /\ CheckEvery * Cardinality(Consumer) \in Nat
    BY Numbers, AllowedFinite, ConsumerFacts, FS_CardinalityType DEF ConsumerInv
  <2> QED
    BY <2>1, <2>2, ConsumerFacts
<1> QED
  BY <1>1, ConsumerInvariant, PTL
=============================================================================
