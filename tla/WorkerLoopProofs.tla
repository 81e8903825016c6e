-------------------------- MODULE WorkerLoopProofs --------------------------
(***************************************************************************)
(* Proofs about the loops of the worker threads, which share no state:     *)
(* Supervisor, that restarts stay within their budget; FilterLoop, that    *)
(* permissions are respected and a worker ends soon after TERM; and        *)
(* MilvusSink, that the newest embedding of an object is kept.  For all    *)
(* slots, filters, sinks, sizes, intervals and failures.                   *)
(***************************************************************************)
EXTENDS Supervisor, FilterLoop, MilvusSink, FiniteSetTheorems, SequenceTheorems,
        WellFoundedInduction, TLAPS

----------------------------------------------------------------------------
(* The supervision of a pool.                                              *)

\* The restarts of a slot are kept in order, those on record are the end of the history, and
\* what comes before them is older than the window.
CountedRestarts(s) ==
    LET before == Len(history[s]) - Len(respawns[s]) IN
    /\ before >= 0
    /\ \A i, j \in 1..Len(history[s]) : i <= j => history[s][i] >= history[s][j]
    /\ \A i \in 1..Len(respawns[s]) : /\ respawns[s][i] = history[s][before + i]
                                      /\ respawns[s][i] <= RESTART_WINDOW
    /\ \A i \in 1..before : history[s][i] > RESTART_WINDOW

\* The inductive invariant of the pool.
PoolInv ==
    /\ history \in [Slot -> Seq(Nat)] /\ respawns \in [Slot -> Seq(Nat)]
    /\ \A s \in Slot : CountedRestarts(s)
    /\ RestartsBounded

\* A set of numbers that is not empty has a least one.
LEMMA LeastOf ==
  ASSUME NEW T \in SUBSET Nat, T # {}
  PROVE  \E x \in T : \A y \in T : x <= y
<1>1. PICK x \in T : \A y \in T : ~ (<<y, x>> \in OpToRel(<, Nat))
  BY NatLessThanWellFounded, WFMin
<1>2. \A y \in T : ~ (y < x)
  BY <1>1 DEF OpToRel
<1> QED
  BY <1>2

\* What is left when the first n have been popped.
LEMMA FromFirstProps ==
  ASSUME NEW ages \in Seq(Nat), NEW n \in 0..Len(ages), NEW kept, kept = (n + 1)..Len(ages)
  PROVE  /\ FromFirst(kept, ages) \in Seq(Nat) /\ Len(FromFirst(kept, ages)) = Len(ages) - n
         /\ \A i \in 1..(Len(ages) - n) : FromFirst(kept, ages)[i] = ages[n + i]
<1>0. Len(ages) \in Nat
  OBVIOUS
<1>1. CASE n = Len(ages)
  <2>1. kept = {}
    BY <1>0, <1>1
  <2> QED
    BY <1>0, <1>1, <2>1 DEF FromFirst
<1>2. CASE n < Len(ages)
  <2>1. n + 1 \in kept /\ \A j \in kept : n + 1 <= j
    BY <1>0, <1>2
  <2>2. (CHOOSE i \in kept : \A j \in kept : i <= j) = n + 1
    <3> DEFINE first == CHOOSE i \in kept : \A j \in kept : i <= j
    <3>1. first \in kept /\ \A j \in kept : first <= j
      BY <2>1
    <3> HIDE DEF first
    <3>2. first <= n + 1 /\ n + 1 <= first /\ first \in Int
      BY <1>0, <2>1, <3>1
    <3>3. first = n + 1
      BY <3>2
    <3> QED
      BY <3>3 DEF first
  <2>3. FromFirst(kept, ages) = SubSeq(ages, n + 1, Len(ages))
    BY <2>1, <2>2 DEF FromFirst
  <2>4. /\ SubSeq(ages, n + 1, Len(ages)) \in Seq(Nat)
        /\ Len(SubSeq(ages, n + 1, Len(ages))) = Len(ages) - n
        /\ \A i \in 1..(Len(ages) - n) : SubSeq(ages, n + 1, Len(ages))[i] = ages[n + i]
    BY <1>0, <1>2, SubSeqProperties
  <2> QED
    BY <2>3, <2>4
<1> QED
  BY <1>0, <1>1, <1>2

\* Of restarts in order, those within the window are the last ones.
LEMMA WindowIsLast ==
  ASSUME NEW ages \in Seq(Nat), \A i, j \in 1..Len(ages) : i <= j => ages[i] >= ages[j]
  PROVE  \E n \in 0..Len(ages) : {i \in 1..Len(ages) : ages[i] <= RESTART_WINDOW} = (n + 1)..Len(ages)
<1> DEFINE young == {i \in 1..Len(ages) : ages[i] <= RESTART_WINDOW}
<1>0. Len(ages) \in Nat /\ RESTART_WINDOW \in Nat /\ \A i \in 1..Len(ages) : ages[i] \in Nat
  BY ConstantsAssumption
<1>1. CASE young = {}
  <2>1. young = (Len(ages) + 1)..Len(ages) /\ Len(ages) \in 0..Len(ages)
    BY <1>0, <1>1
  <2> QED
    BY <2>1
<1>2. CASE young # {}
  <2>1. young \in SUBSET Nat
    BY <1>0
  <2>2. PICK f \in young : \A j \in young : f <= j
    BY <1>2, <2>1, LeastOf
  <2>3. f \in 1..Len(ages) /\ ages[f] <= RESTART_WINDOW
    BY <2>2
  <2>4. ASSUME NEW j \in f..Len(ages) PROVE j \in young
    <3>1. j \in 1..Len(ages) /\ f <= j
      BY <1>0, <2>3
    <3>2. ages[f] >= ages[j] /\ ages[f] \in Nat /\ ages[j] \in Nat
      BY <1>0, <2>3, <3>1
    <3> QED
      BY <1>0, <2>3, <3>1, <3>2
  <2>5. young = f..Len(ages)
    BY <1>0, <2>2, <2>3, <2>4
  <2>6. f - 1 \in 0..Len(ages) /\ (f - 1) + 1 = f
    BY <1>0, <2>3
  <2> QED
    BY <2>5, <2>6
<1> QED
  BY <1>1, <1>2

\* Every restart on record is older by one.
LEMMA OlderProps ==
  ASSUME NEW ages \in Seq(Nat)
  PROVE  /\ Older(ages) \in Seq(Nat) /\ Len(Older(ages)) = Len(ages)
         /\ \A i \in 1..Len(ages) : Older(ages)[i] = ages[i] + 1
<1>0. Len(ages) \in Nat /\ \A i \in 1..Len(ages) : ages[i] \in Nat
  OBVIOUS
<1>1. Older(ages) \in [1..Len(ages) -> Nat]
  BY <1>0 DEF Older
<1> QED
  BY <1>0, <1>1 DEF Older

\* Time passes: restarts leave the record when they are older than the window.
LEMMA PassStep ==
  ASSUME PoolInv, Pass
  PROVE  PoolInv'
<1> DEFINE h(s) == Older(history[s])
           r(s) == Older(respawns[s])
<1>1. ASSUME NEW s \in Slot
      PROVE  /\ h(s) \in Seq(Nat) /\ WithinWindow(r(s)) \in Seq(Nat)
             /\ Len(WithinWindow(r(s))) <= Len(respawns[s])
             /\ LET before == Len(h(s)) - Len(WithinWindow(r(s))) IN
                /\ before >= 0
                /\ \A i, j \in 1..Len(h(s)) : i <= j => h(s)[i] >= h(s)[j]
                /\ \A i \in 1..Len(WithinWindow(r(s))) :
                     /\ WithinWindow(r(s))[i] = h(s)[before + i]
                     /\ WithinWindow(r(s))[i] <= RESTART_WINDOW
                /\ \A i \in 1..before : h(s)[i] > RESTART_WINDOW
  <2> DEFINE H == history[s]
             R == respawns[s]
             d == Len(H) - Len(R)
             w == WithinWindow(r(s))
  <2>0. /\ H \in Seq(Nat) /\ R \in Seq(Nat) /\ Len(H) \in Nat /\ Len(R) \in Nat /\ RESTART_WINDOW \in Nat
        /\ \A i \in 1..Len(H) : H[i] \in Nat
        /\ \A i \in 1..Len(R) : R[i] \in Nat
    BY ConstantsAssumption DEF PoolInv
  <2>1. /\ d >= 0
        /\ \A i, j \in 1..Len(H) : i <= j => H[i] >= H[j]
        /\ \A i \in 1..Len(R) : R[i] = H[d + i] /\ R[i] <= RESTART_WINDOW
        /\ \A i \in 1..d : H[i] > RESTART_WINDOW
    BY DEF PoolInv, CountedRestarts
  <2> HIDE DEF H, R
  <2>2. /\ h(s) \in Seq(Nat) /\ Len(h(s)) = Len(H) /\ \A i \in 1..Len(H) : h(s)[i] = H[i] + 1
        /\ r(s) \in Seq(Nat) /\ Len(r(s)) = Len(R) /\ \A i \in 1..Len(R) : r(s)[i] = R[i] + 1
    BY <2>0, OlderProps DEF H, R
  <2> HIDE DEF h, r
  <2>3. \A i, j \in 1..Len(r(s)) : i <= j => r(s)[i] >= r(s)[j]
    <3> SUFFICES ASSUME NEW i \in 1..Len(R), NEW j \in 1..Len(R), i <= j PROVE R[i] + 1 >= R[j] + 1
      BY <2>2
    <3>1. d + i \in 1..Len(H) /\ d + j \in 1..Len(H) /\ d + i <= d + j
      BY <2>0, <2>1, SMTT(30)
    <3>2. R[i] >= R[j] /\ R[i] \in Nat /\ R[j] \in Nat
      BY <2>0, <2>1, <3>1
    <3> QED
      BY <3>2
  <2>4. PICK n \in 0..Len(r(s)) : {i \in 1..Len(r(s)) : r(s)[i] <= RESTART_WINDOW} = (n + 1)..Len(r(s))
    BY <2>2, <2>3, WindowIsLast
  <2>5. /\ w \in Seq(Nat) /\ Len(w) = Len(R) - n /\ n \in 0..Len(R)
        /\ \A i \in 1..(Len(R) - n) : w[i] = r(s)[n + i]
    <3> DEFINE kept == {i \in 1..Len(r(s)) : r(s)[i] <= RESTART_WINDOW}
    <3>1. w = FromFirst(kept, r(s))
      BY DEF WithinWindow
    <3>2. kept = (n + 1)..Len(r(s))
      BY <2>4
    <3> HIDE DEF kept
    <3>3. /\ FromFirst(kept, r(s)) \in Seq(Nat) /\ Len(FromFirst(kept, r(s))) = Len(r(s)) - n
          /\ \A i \in 1..(Len(r(s)) - n) : FromFirst(kept, r(s))[i] = r(s)[n + i]
      <4> DEFINE q == r(s)
      <4>1. q \in Seq(Nat) /\ n \in 0..Len(q) /\ kept = (n + 1)..Len(q)
        BY <2>2, <2>4, <3>2
      <4> HIDE DEF q
      <4>2. /\ FromFirst(kept, q) \in Seq(Nat) /\ Len(FromFirst(kept, q)) = Len(q) - n
            /\ \A i \in 1..(Len(q) - n) : FromFirst(kept, q)[i] = q[n + i]
        BY <4>1, FromFirstProps
      <4> QED
        BY <4>2 DEF q
    <3> QED
      BY <2>2, <2>4, <3>1, <3>3
  <2> HIDE DEF w
  <2>6. \A i \in 1..Len(w) : /\ w[i] = h(s)[(Len(h(s)) - Len(w)) + i]
                             /\ w[i] <= RESTART_WINDOW
    <3> SUFFICES ASSUME NEW i \in 1..(Len(R) - n)
                 PROVE  w[i] = h(s)[(Len(H) - (Len(R) - n)) + i] /\ w[i] <= RESTART_WINDOW
      BY <2>2, <2>5
    <3>1. n + i \in 1..Len(R) /\ n + i \in (n + 1)..Len(r(s)) /\ d + (n + i) \in 1..Len(H)
          /\ (Len(H) - (Len(R) - n)) + i = d + (n + i)
      BY <2>0, <2>1, <2>2, <2>5
    <3>2. w[i] = r(s)[n + i] /\ r(s)[n + i] <= RESTART_WINDOW
      BY <2>4, <2>5, <3>1
    <3>3. r(s)[n + i] = R[n + i] + 1 /\ R[n + i] = H[d + (n + i)] /\ h(s)[d + (n + i)] = H[d + (n + i)] + 1
      BY <2>1, <2>2, <3>1
    <3> QED
      BY <3>1, <3>2, <3>3
  <2>7. \A i \in 1..(Len(h(s)) - Len(w)) : h(s)[i] > RESTART_WINDOW
    <3> SUFFICES ASSUME NEW i \in 1..(d + n) PROVE h(s)[i] > RESTART_WINDOW
      BY <2>0, <2>1, <2>2, <2>5
    <3>1. i \in 1..Len(H) /\ H[i] \in Nat
      BY <2>0, <2>1, <2>5
    <3>2. CASE i <= d
      <4>1. i \in 1..d
        BY <2>0, <2>1, <2>5, <3>2
      <4>2. H[i] > RESTART_WINDOW /\ h(s)[i] = H[i] + 1
        BY <2>1, <2>2, <3>1, <4>1
      <4> QED
        BY <2>0, <3>1, <4>2
    <3>3. CASE ~(i <= d)
      <4> DEFINE k == i - d
      <4>1. k \in 1..n /\ k \in 1..Len(R) /\ d + k = i
        <5>1. d \in Nat /\ n \in Nat /\ n <= Len(R) /\ Len(R) \in Nat /\ i \in Nat /\ i <= d + n /\ i > d
          BY <2>0, <2>1, <2>5, <3>1, <3>3
        <5> HIDE DEF d
        <5> QED
          BY <5>1
      <4>2. ~(k \in (n + 1)..Len(r(s))) /\ k \in 1..Len(r(s))
        BY <2>2, <2>5, <4>1
      <4> HIDE DEF k
      <4>3. ~(r(s)[k] <= RESTART_WINDOW)
        BY <2>4, <4>2
      <4>4. r(s)[k] = H[i] + 1 /\ h(s)[i] = H[i] + 1
        BY <2>1, <2>2, <3>1, <4>1
      <4> QED
        BY <2>0, <3>1, <4>3, <4>4
    <3> QED
      BY <3>2, <3>3
  <2>8. \A i, j \in 1..Len(h(s)) : i <= j => h(s)[i] >= h(s)[j]
    BY <2>0, <2>1, <2>2
  <2>9. Len(h(s)) - Len(w) >= 0 /\ Len(w) <= Len(R)
    BY <2>0, <2>1, <2>2, <2>5
  <2> QED
    BY <2>2, <2>5, <2>6, <2>7, <2>8, <2>9 DEF w, R
<1> HIDE DEF h, r
<1>2. /\ history' = [s \in Slot |-> h(s)] /\ respawns' = [s \in Slot |-> WithinWindow(r(s))]
  BY DEF Pass, h, r
<1>3. history' \in [Slot -> Seq(Nat)] /\ respawns' \in [Slot -> Seq(Nat)]
  BY <1>1, <1>2
<1>4. ASSUME NEW s \in Slot PROVE CountedRestarts(s)'
  <2>1. history'[s] = h(s) /\ respawns'[s] = WithinWindow(r(s))
    BY <1>2
  <2> QED
    BY <1>1, <2>1 DEF CountedRestarts
<1>5. RestartsBounded'
  <2> SUFFICES ASSUME NEW s \in Slot PROVE Len(respawns'[s]) <= MAX_RESTARTS_PER_WINDOW
    BY DEF RestartsBounded
  <2>1. Len(respawns'[s]) <= Len(respawns[s]) /\ Len(respawns'[s]) \in Nat /\ Len(respawns[s]) \in Nat
    BY <1>1, <1>2, <1>3 DEF PoolInv
  <2>2. Len(respawns[s]) <= MAX_RESTARTS_PER_WINDOW
    BY DEF PoolInv, RestartsBounded
  <2> QED
    BY <2>1, <2>2, ConstantsAssumption
<1> QED
  BY <1>3, <1>4, <1>5 DEF PoolInv

\* supervise: what it leaves of the history is what is on record, and a slot that it respawns
\* has room for one more.
LEMMA SuperviseStep ==
  ASSUME PoolInv, Supervise
  PROVE  PoolInv'
<1>1. ASSUME NEW s \in Slot
      PROVE  /\ Recent(history[s]) \in Seq(Nat) /\ Len(Recent(history[s])) = Len(respawns[s])
             /\ \A i \in 1..Len(respawns[s]) : Recent(history[s])[i] = respawns[s][i]
  <2> DEFINE H == history[s]
             R == respawns[s]
             d == Len(H) - Len(R)
             kept == {i \in 1..Len(H) : ~ Aged(H[i])}
  <2>0. /\ H \in Seq(Nat) /\ R \in Seq(Nat) /\ Len(H) \in Nat /\ Len(R) \in Nat /\ RESTART_WINDOW \in Nat
        /\ \A i \in 1..Len(H) : H[i] \in Nat
    BY ConstantsAssumption DEF PoolInv
  <2>1. /\ d >= 0
        /\ \A i \in 1..Len(R) : R[i] = H[d + i] /\ R[i] <= RESTART_WINDOW
        /\ \A i \in 1..d : H[i] > RESTART_WINDOW
    BY DEF PoolInv, CountedRestarts
  <2> HIDE DEF H, R
  <2>2. kept = (d + 1)..Len(H)
    <3>1. ASSUME NEW i \in (d + 1)..Len(H) PROVE i \in kept
      <4> DEFINE k == i - d
      <4>1. k \in 1..Len(R) /\ d + k = i /\ i \in 1..Len(H)
        BY <2>0, <2>1
      <4> HIDE DEF k
      <4>2. H[i] <= RESTART_WINDOW
        BY <2>1, <4>1
      <4> QED
        BY <2>0, <4>1, <4>2 DEF Aged
    <3>2. ASSUME NEW i \in 1..Len(H), ~(i \in (d + 1)..Len(H)) PROVE i \notin kept
      <4>1. i \in 1..d
        BY <2>0, <2>1, <3>2
      <4> QED
        BY <2>1, <4>1 DEF Aged
    <3> QED
      BY <2>0, <2>1, <3>1, <3>2
  <2>3. d \in 0..Len(H)
    BY <2>0, <2>1
  <2> HIDE DEF kept
  <2>4. /\ FromFirst(kept, H) \in Seq(Nat) /\ Len(FromFirst(kept, H)) = Len(H) - d
        /\ \A i \in 1..(Len(H) - d) : FromFirst(kept, H)[i] = H[d + i]
    BY <2>0, <2>2, <2>3, FromFirstProps
  <2>5. Len(H) - d = Len(R) /\ Recent(H) = FromFirst(kept, H)
    BY <2>0 DEF Recent, kept
  <2>6. Recent(H) \in Seq(Nat) /\ Len(Recent(H)) = Len(R) /\ \A i \in 1..Len(R) : Recent(H)[i] = R[i]
    BY <2>1, <2>4, <2>5
  <2> QED
    BY <2>6 DEF H, R
<1>2. ASSUME NEW s \in Slot
      PROVE  /\ history'[s] = IF Respawned(s) THEN Append(Recent(history[s]), 0) ELSE Recent(history[s])
             /\ respawns'[s] = IF Respawned(s) THEN Append(respawns[s], 0) ELSE respawns[s]
  BY DEF Supervise
<1> DEFINE Kept(s) == /\ history'[s] \in Seq(Nat) /\ respawns'[s] \in Seq(Nat) /\ CountedRestarts(s)'
                      /\ Len(respawns'[s]) <= MAX_RESTARTS_PER_WINDOW
<1>3. ASSUME NEW s \in Slot PROVE Kept(s)
  <2> DEFINE H == Recent(history[s])
             R == respawns[s]
  <2>0. /\ H \in Seq(Nat) /\ R \in Seq(Nat) /\ Len(R) \in Nat /\ Len(H) = Len(R)
        /\ \A i \in 1..Len(R) : H[i] = R[i] /\ H[i] \in Nat
        /\ Len(R) <= MAX_RESTARTS_PER_WINDOW
    BY <1>1 DEF PoolInv, RestartsBounded
  <2>1. \A i \in 1..Len(R) : R[i] <= RESTART_WINDOW
    BY DEF PoolInv, CountedRestarts
  <2>2. \A i, j \in 1..Len(R) : i <= j => R[i] >= R[j]
    <3> DEFINE d == Len(history[s]) - Len(R)
    <3>1. /\ d >= 0 /\ d \in Int
          /\ \A i, j \in 1..Len(history[s]) : i <= j => history[s][i] >= history[s][j]
          /\ \A i \in 1..Len(R) : R[i] = history[s][d + i]
      BY DEF PoolInv, CountedRestarts
    <3> SUFFICES ASSUME NEW i \in 1..Len(R), NEW j \in 1..Len(R), i <= j PROVE R[i] >= R[j]
      OBVIOUS
    <3>2. Len(history[s]) \in Nat /\ Len(R) \in Nat
      BY DEF PoolInv
    <3>4. d \in Nat /\ d + Len(R) = Len(history[s])
      BY <3>1, <3>2
    <3> HIDE DEF d
    <3>3. d + i \in 1..Len(history[s]) /\ d + j \in 1..Len(history[s]) /\ d + i <= d + j
      BY <3>2, <3>4
    <3> QED
      BY <3>1, <3>3
  <2> HIDE DEF H, R
  <2>3. CASE ~Respawned(s)
    <3>1. history'[s] = H /\ respawns'[s] = R
      BY <1>2, <2>3 DEF H, R
    <3>2. CountedRestarts(s)'
      <4>1. Len(H) - Len(R) = 0
        BY <2>0
      <4>2. /\ Len(H) - Len(R) >= 0
            /\ \A i, j \in 1..Len(H) : i <= j => H[i] >= H[j]
            /\ \A i \in 1..Len(R) : R[i] = H[(Len(H) - Len(R)) + i] /\ R[i] <= RESTART_WINDOW
            /\ \A i \in 1..(Len(H) - Len(R)) : H[i] > RESTART_WINDOW
        BY <2>0, <2>1, <2>2, <4>1
      <4> QED
        BY <3>1, <4>2 DEF CountedRestarts
    <3> QED
      BY <2>0, <3>1, <3>2
  <2>4. CASE Respawned(s)
    <3> DEFINE H1 == Append(H, 0)
               R1 == Append(R, 0)
    <3>1. history'[s] = H1 /\ respawns'[s] = R1
      BY <1>2, <2>4 DEF H, R
    <3>2. Len(H) < MAX_RESTARTS_PER_WINDOW
      BY <2>0, <2>4, ConstantsAssumption DEF Respawned, Exhausted, H
    <3>3. /\ H1 \in Seq(Nat) /\ R1 \in Seq(Nat) /\ Len(H1) = Len(R) + 1 /\ Len(R1) = Len(R) + 1
          /\ H1[Len(R) + 1] = 0 /\ R1[Len(R) + 1] = 0
          /\ \A i \in 1..Len(R) : H1[i] = H[i] /\ R1[i] = R[i]
      BY <2>0
    <3> HIDE DEF H1, R1
    <3>4. \A i \in 1..(Len(R) + 1) : i \in 1..Len(R) \/ i = Len(R) + 1
      BY <2>0
    <3>5. \A i \in 1..(Len(R) + 1) : H1[i] = R1[i] /\ H1[i] \in Nat /\ R1[i] <= RESTART_WINDOW
      <4>1. \A i \in 1..Len(R) : H1[i] = R1[i] /\ H1[i] \in Nat /\ R1[i] <= RESTART_WINDOW
        BY <2>0, <2>1, <3>3
      <4>2. H1[Len(R) + 1] = R1[Len(R) + 1] /\ H1[Len(R) + 1] \in Nat /\ R1[Len(R) + 1] <= RESTART_WINDOW
        BY <3>3, ConstantsAssumption
      <4> QED
        BY <3>4, <4>1, <4>2
    <3>6. ASSUME NEW i \in 1..(Len(R) + 1), NEW j \in 1..(Len(R) + 1), i <= j PROVE H1[i] >= H1[j]
      <4>1. CASE j = Len(R) + 1
        BY <3>3, <3>5, <4>1
      <4>2. CASE j \in 1..Len(R)
        <5>1. i \in 1..Len(R)
          BY <2>0, <3>6, <4>2
        <5> QED
          BY <2>0, <2>2, <3>3, <3>6, <4>2, <5>1
      <4> QED
        BY <3>4, <4>1, <4>2
    <3>7. CountedRestarts(s)'
      <4>1. Len(H1) - Len(R1) = 0
        BY <2>0, <3>3
      <4>2. /\ Len(H1) - Len(R1) >= 0
            /\ \A i, j \in 1..Len(H1) : i <= j => H1[i] >= H1[j]
            /\ \A i \in 1..Len(R1) : R1[i] = H1[(Len(H1) - Len(R1)) + i] /\ R1[i] <= RESTART_WINDOW
            /\ \A i \in 1..(Len(H1) - Len(R1)) : H1[i] > RESTART_WINDOW
        BY <2>0, <3>3, <3>5, <3>6, <4>1
      <4> QED
        BY <3>1, <4>2 DEF CountedRestarts
    <3>8. Len(R1) <= MAX_RESTARTS_PER_WINDOW
      BY <2>0, <3>2, <3>3, ConstantsAssumption
    <3> QED
      BY <3>1, <3>3, <3>7, <3>8
  <2> QED
    BY <2>3, <2>4
<1>4. history' \in [Slot -> Seq(Nat)] /\ respawns' \in [Slot -> Seq(Nat)]
  <2>1. history' = [s \in Slot |-> history'[s]] /\ respawns' = [s \in Slot |-> respawns'[s]]
    BY DEF Supervise
  <2> QED
    BY <1>3, <2>1
<1> QED
  BY <1>3, <1>4 DEF PoolInv, RestartsBounded

\* Initially no slot was restarted.
LEMMA PoolStart == PoolInit => PoolInv
<1> SUFFICES ASSUME PoolInit PROVE PoolInv
  OBVIOUS
<1>1. history \in [Slot -> Seq(Nat)] /\ respawns \in [Slot -> Seq(Nat)]
  BY DEF PoolInit
<1>2. \A s \in Slot : history[s] = <<>> /\ respawns[s] = <<>>
  BY DEF PoolInit
<1> QED
  BY <1>1, <1>2, ConstantsAssumption DEF PoolInv, CountedRestarts, RestartsBounded

\* Every step of the pool keeps PoolInv; only time and supervise touch the restarts.
LEMMA PoolStep == PoolInv /\ [PoolNext]_poolVars => PoolInv'
<1> SUFFICES ASSUME PoolInv, [PoolNext]_poolVars PROVE PoolInv'
  OBVIOUS
<1>1. ASSUME UNCHANGED <<history, respawns>> PROVE PoolInv'
  BY <1>1 DEF PoolInv, CountedRestarts, RestartsBounded
<1>2. CASE Pass
  BY <1>2, PassStep
<1>3. CASE Supervise
  BY <1>3, SuperviseStep
<1>4. ASSUME NEW s \in Slot, Dies(s) \/ Leave(s) PROVE PoolInv'
  BY <1>1, <1>4 DEF Dies, Leave, restart_states
<1>5. CASE DropPool \/ Join \/ UNCHANGED poolVars
  BY <1>1, <1>5 DEF DropPool, Join, poolVars, restart_states
<1> QED
  BY <1>2, <1>3, <1>4, <1>5 DEF PoolNext

\* No slot is restarted more often than MAX_RESTARTS_PER_WINDOW within RESTART_WINDOW
\* (supervise), for any number of slots, budget, window and backoff, however the deaths and
\* the ticks fall.
THEOREM RestartsStayBounded == PoolSpec => []RestartsBounded
<1>1. PoolInv => RestartsBounded
  BY DEF PoolInv
<1> QED
  BY <1>1, PoolStart, PoolStep, PTL DEF PoolSpec

----------------------------------------------------------------------------
(* The loop of a filter worker.                                            *)

\* The size of a batch is a number, and not zero for a batch that has an element.
LEMMA BatchSizes ==
  ASSUME NEW S \in SUBSET Alert
  PROVE  Cardinality(S) \in Nat /\ (S # {} => Cardinality(S) > 0)
<1>1. IsFiniteSet(S)
  BY LoopAssumption, FS_Subset
<1> QED
  BY <1>1, FS_CardinalityType, FS_EmptySet

\* The countdown stays within its range; it reaches zero, or it has counted the
\* whole batch.
LEMMA CountProps ==
  ASSUME NEW S \in SUBSET Alert, countdown \in 0 .. CommandInterval
  PROVE  /\ Count(S) \in 0 .. CommandInterval
         /\ Count(S) > 0 => Count(S) = countdown - Cardinality(S)
  BY BatchSizes, LoopAssumption DEF Count

\* The index by permission has the type of one.
LEMMA IndexType ==
  ASSUME NEW loaded \in [Filter -> SUBSET Program]
  PROVE  Index(loaded) \in [Program -> SUBSET Filter]
  BY DEF Index

\* Every step keeps the invariant.
LEMMA InvStep == IInv /\ [Next]_vars => IInv'
<1> SUFFICES ASSUME IInv, [Next]_vars PROVE IInv'
  OBVIOUS
<1> USE LoopAssumption
<1>1. CASE Refresh
  <2>1. (by_permission = Index(filters))'
    BY <1>1 DEF Refresh, IInv
  <2>2. passed' = {} /\ pc' = "command"
    BY <1>1 DEF Refresh, IInv
  <2>3. TypeOK'
    BY <1>1, IndexType DEF Refresh, IInv, TypeOK
  <2> QED
    BY <1>1, <2>1, <2>2, <2>3
    DEF Refresh, IInv, PermissionsRespected, TerminatesSoon
<1>2. CASE CheckCommand
  BY <1>2 DEF CheckCommand, IInv, TypeOK, PermissionsRespected, TerminatesSoon
<1>3. ASSUME NEW S \in SUBSET Alert, Pop(S) PROVE IInv'
  <2>0. /\ countdown \in 0 .. CommandInterval /\ countdown > 0
        /\ taken \in Nat
        /\ taken > 0 => taken + countdown <= CommandInterval
        /\ ~ term => taken = 0
    BY <1>3 DEF IInv, TypeOK, Pop
  <2>1. /\ countdown' \in 0 .. CommandInterval
        /\ countdown' > 0 => countdown' = countdown - Cardinality(S)
    BY <1>3, <2>0, CountProps DEF Pop
  <2>2. /\ Cardinality(S) \in Nat /\ Cardinality(S) <= BatchSize
        /\ taken' = IF term THEN taken + Cardinality(S) ELSE taken
        /\ term' = term
    BY <1>3, BatchSizes DEF Pop
  <2>3. /\ taken' \in Nat
        /\ taken' < CommandInterval + BatchSize
        /\ taken' > 0 /\ countdown' > 0 => taken' + countdown' <= CommandInterval
        /\ ~ term' => taken' = 0
    <3>1. CASE term
      <4>1. taken' = taken + Cardinality(S)
        BY <2>2, <3>1
      <4>2. taken + countdown <= CommandInterval
        BY <2>0
      <4> QED
        BY <2>0, <2>1, <2>2, <3>1, <4>1, <4>2
    <3>2. CASE ~ term
      BY <2>0, <2>1, <2>2, <3>2
    <3> QED
      BY <3>1, <3>2
  <2>4. TypeOK'
    BY <1>3, <2>1, <2>3 DEF IInv, TypeOK, Pop
  <2>5. /\ PermissionsRespected' /\ (by_permission = Index(filters))'
        /\ pc' # "pop" /\ passed' = {}
    BY <1>3 DEF IInv, Pop, PermissionsRespected, Index
  <2> QED
    BY <2>3, <2>4, <2>5 DEF IInv, TerminatesSoon
<1>4. ASSUME NEW matches \in SUBSET (Alert \X Filter), Process(matches) PROVE IInv'
  <2>1. PermissionsRespected'
    <3> SUFFICES ASSUME NEW m \in matches PROVE ProgramOf[m[1]] \in filters[m[2]]
      BY <1>4 DEF Process, PermissionsRespected
    <3>1. m[1] \in Alert /\ m[2] \in Filter /\ m[2] \in by_permission[ProgramOf[m[1]]]
      BY <1>4 DEF Process
    <3>2. ProgramOf[m[1]] \in Program /\ by_permission = Index(filters)
      BY <3>1 DEF IInv
    <3> QED
      BY <3>1, <3>2 DEF Index
  <2> QED
    BY <1>4, <2>1 DEF Process, IInv, TypeOK, TerminatesSoon
<1>5. CASE Send \/ Fail
  BY <1>5 DEF Send, Fail, IInv, TypeOK, PermissionsRespected, TerminatesSoon
<1>6. CASE Respawn
  <2>1. (by_permission = Index(filters))'
    BY <1>6 DEF Respawn
  <2>2. passed' = {} /\ pc' = "loop" /\ taken' = 0
    BY <1>6 DEF Respawn, IInv
  <2>3. TypeOK'
    <3>1. Index(saved) \in [Program -> SUBSET Filter]
      BY IndexType DEF IInv, TypeOK
    <3>2. CommandInterval \in 0 .. CommandInterval
      OBVIOUS
    <3> QED
      BY <1>6, <3>1, <3>2 DEF Respawn, IInv, TypeOK
  <2> QED
    BY <1>6, <2>1, <2>2, <2>3
    DEF Respawn, IInv, PermissionsRespected, TerminatesSoon
<1>7. ASSUME NEW a \in Alert, Arrive(a) PROVE IInv'
  BY <1>7 DEF Arrive, IInv, TypeOK, PermissionsRespected, TerminatesSoon
<1>8. ASSUME NEW f \in Filter, NEW permissions \in SUBSET Program, Save(f, permissions)
      PROVE  IInv'
  BY <1>8 DEF Save, IInv, TypeOK, PermissionsRespected, TerminatesSoon
<1>9. CASE RefreshDue \/ Terminate
  BY <1>9 DEF RefreshDue, Terminate, IInv, TypeOK, PermissionsRespected, TerminatesSoon
<1>10. CASE UNCHANGED vars
  BY <1>10 DEF vars, IInv, TypeOK, PermissionsRespected, TerminatesSoon
<1> QED
  BY <1>1, <1>2, <1>3, <1>4, <1>5, <1>6, <1>7, <1>8, <1>9, <1>10 DEF Next, Work

\* IInv is an inductive invariant of the filter worker's loop.
THEOREM FilterLoopInvariant == Spec => []IInv
<1>1. Init => IInv
  <2> SUFFICES ASSUME Init PROVE IInv
    OBVIOUS
  <2>1. Index(saved) \in [Program -> SUBSET Filter]
    BY IndexType DEF Init
  <2>2. CommandInterval \in 0 .. CommandInterval
    BY LoopAssumption
  <2>3. TypeOK
    BY <2>1, <2>2 DEF Init, TypeOK
  <2> QED
    BY <2>3, LoopAssumption DEF Init, IInv, PermissionsRespected, TerminatesSoon
<1> QED
  BY <1>1, InvStep, PTL DEF Spec

\* An alert never passes a filter that has no permission for its programid.
THEOREM PermissionsHold == Spec => []PermissionsRespected
<1>1. IInv => PermissionsRespected
  BY DEF IInv
<1> QED
  BY <1>1, FilterLoopInvariant, PTL

\* A worker that was sent TERM takes less than an interval and a batch of alerts.
THEOREM TerminationBounded == Spec => []TerminatesSoon
<1>1. IInv => TerminatesSoon
  BY DEF IInv
<1> QED
  BY <1>1, FilterLoopInvariant, PTL

----------------------------------------------------------------------------
(* The upload of embeddings.                                               *)

\* Where a sink may be, and where it has rows in hand.
SinkPlaces == {"off", "ready", "connect", "query", "upsert", "buffer", "take"}
Handling == {"connect", "query", "upsert", "buffer"}

\* The types of the collection, of the backup queue and of the sinks.
SinkTypeOK ==
    /\ vectors \in [Object -> Nat] /\ backup \in [Object -> Nat] /\ useBackup \in BOOLEAN
    /\ at \in [Sink -> SinkPlaces] /\ errand \in [Sink -> {"live", "replay", "idle"}]
    /\ hand \in [Sink -> SUBSET Row] /\ fresh \in [Sink -> SUBSET Row]
    /\ emitted \subseteq Row

\* Whatever is stored, queued or in hand was produced by enrichment.
AllEmitted ==
    /\ RowsOf(vectors) \subseteq emitted /\ RowsOf(backup) \subseteq emitted
    /\ \A s \in Sink : hand[s] \subseteq emitted

\* Only the newest row of an object is owed.
OwedIsNewest == owed \subseteq LatestPerObject(emitted)

\* A sink has rows in hand while it handles them, and has chosen what to upload when it
\* is about to.
HandsAgree ==
    \A s \in Sink : /\ at[s] \notin Handling => hand[s] = {}
                    /\ at[s] = "connect" /\ errand[s] # "live" => hand[s] = {}
                    /\ at[s] # "upsert" => fresh[s] = {}
                    /\ fresh[s] \subseteq LatestPerObject(hand[s])

\* Nobody is about to upload another row of an object whose newest row is owed and stored,
\* and an upload of the newest row that is in hand is about to store it.
UploadsAgree ==
    \A r \in owed, s \in Sink :
        /\ vectors[r[1]] = r[2] => r[1] \notin ObjectsOf(fresh[s])
        /\ at[s] = "upsert" /\ r \in hand[s] => r \in fresh[s] \/ vectors[r[1]] = r[2]

\* Every owed row itself is stored, queued or in hand.
OwedIsSomewhere ==
    \A r \in owed : \/ vectors[r[1]] = r[2] \/ backup[r[1]] = r[2]
                    \/ \E s \in Sink : r \in hand[s]

\* The inductive invariant of the sinks.
SinkInv ==
    /\ SinkTypeOK /\ AllEmitted /\ OwedIsNewest /\ HandsAgree /\ UploadsAgree /\ OwedIsSomewhere

\* A row is a pair of an object and a jd that is not Never.
LEMMA RowProps ==
  ASSUME NEW r \in Row
  PROVE  r[1] \in Object /\ r[2] \in Nat /\ r[2] > Never /\ r[2] # Never /\ r = <<r[1], r[2]>>
  BY SinkAssumption DEF Never

\* latest_per_object leaves one row of an object.
LEMMA LatestProps ==
  ASSUME NEW rows \in SUBSET Row
  PROVE  /\ LatestPerObject(rows) \subseteq rows
         /\ \A r, q \in LatestPerObject(rows) : r[1] = q[1] => r = q
<1>1. LatestPerObject(rows) \subseteq rows
  BY DEF LatestPerObject
<1>2. ASSUME NEW r \in LatestPerObject(rows), NEW q \in LatestPerObject(rows), r[1] = q[1]
      PROVE  r = q
  <2>1. r[2] <= q[2] /\ q[2] <= r[2]
    BY <1>2 DEF LatestPerObject
  <2>2. r \in Row /\ q \in Row
    BY <1>1, <1>2
  <2>3. r[2] \in Nat /\ q[2] \in Nat /\ r = <<r[1], r[2]>> /\ q = <<q[1], q[2]>>
    BY <2>2, RowProps
  <2>4. r[2] = q[2]
    BY <2>1, <2>3
  <2> QED
    BY <1>2, <2>3, <2>4
<1> QED
  BY <1>1, <1>2

\* What the jds of the objects stand for.
LEMMA RowsOfProps ==
  ASSUME NEW jds \in [Object -> Nat], RowsOf(jds) \subseteq emitted, NEW o \in Object,
         jds[o] # Never
  PROVE  <<o, jds[o]>> \in RowsOf(jds) /\ <<o, jds[o]>> \in emitted
  BY DEF RowsOf

\* Rows are written over what is there, if there is one of an object.
LEMMA WrittenProps ==
  ASSUME NEW jds \in [Object -> Nat], NEW rows \in SUBSET Row,
         \A r, q \in rows : r[1] = q[1] => r = q
  PROVE  /\ Written(jds, rows) \in [Object -> Nat]
         /\ \A r \in rows : Written(jds, rows)[r[1]] = r[2]
         /\ \A o \in Object : o \notin ObjectsOf(rows) => Written(jds, rows)[o] = jds[o]
         /\ RowsOf(Written(jds, rows)) \subseteq RowsOf(jds) \cup rows
<1> DEFINE w == Written(jds, rows)
<1>1. \A r \in rows : r[1] \in Object /\ r[2] \in Nat /\ r = <<r[1], r[2]>>
  BY RowProps
<1>2. ASSUME NEW r \in rows PROVE w[r[1]] = r[2]
  <2>1. \E q \in rows : q[1] = r[1]
    OBVIOUS
  <2>2. w[r[1]] = (CHOOSE q \in rows : q[1] = r[1])[2]
    BY <1>1, <2>1 DEF Written
  <2>3. (CHOOSE q \in rows : q[1] = r[1]) \in rows /\ (CHOOSE q \in rows : q[1] = r[1])[1] = r[1]
    BY <2>1
  <2> QED
    BY <2>2, <2>3
<1>3. ASSUME NEW o \in Object, o \notin ObjectsOf(rows) PROVE w[o] = jds[o]
  BY <1>3 DEF Written, ObjectsOf
<1>4. ASSUME NEW o \in Object PROVE w[o] \in Nat /\ (w[o] # jds[o] => <<o, w[o]>> \in rows)
  <2>1. CASE o \notin ObjectsOf(rows)
    BY <1>3, <2>1
  <2>2. ASSUME NEW r \in rows, r[1] = o PROVE w[o] = r[2] /\ r = <<o, w[o]>> /\ w[o] \in Nat
    BY <1>1, <1>2, <2>2
  <2> QED
    BY <2>1, <2>2 DEF ObjectsOf
<1>5. w \in [Object -> Nat]
  BY <1>4 DEF Written
<1>6. RowsOf(w) \subseteq RowsOf(jds) \cup rows
  BY <1>4 DEF RowsOf
<1> QED
  BY <1>2, <1>3, <1>5, <1>6

\* Rows are taken out of the queue.
LEMMA WithoutProps ==
  ASSUME NEW jds \in [Object -> Nat], NEW old \in SUBSET RowsOf(jds)
  PROVE  /\ Without(jds, old) \in [Object -> Nat]
         /\ RowsOf(Without(jds, old)) \subseteq RowsOf(jds)
         /\ \A o \in Object : Without(jds, old)[o] = jds[o] \/ <<o, jds[o]>> \in old
  BY DEF Without, RowsOf, Never

\* A newest row that is owed is as new as any that was produced of its object.
LEMMA OwedProps ==
  ASSUME SinkInv, NEW r \in owed
  PROVE  /\ r \in Row /\ r \in emitted
         /\ \A q \in emitted : q[1] = r[1] => q[2] <= r[2]
         /\ \A q \in emitted : q[1] = r[1] /\ q[2] >= r[2] => q = r
<1>1. r \in emitted /\ \A q \in emitted : q[1] = r[1] => q[2] <= r[2]
  BY DEF SinkInv, OwedIsNewest, LatestPerObject
<1>2. emitted \subseteq Row
  BY DEF SinkInv, SinkTypeOK
<1>3. ASSUME NEW q \in emitted, q[1] = r[1], q[2] >= r[2] PROVE q = r
  <2>1. q \in Row /\ r \in Row
    BY <1>1, <1>2
  <2>2. q[2] \in Nat /\ r[2] \in Nat /\ q = <<q[1], q[2]>> /\ r = <<r[1], r[2]>>
    BY <2>1, RowProps
  <2>3. q[2] = r[2]
    BY <1>1, <1>3, <2>2
  <2> QED
    BY <1>3, <2>2, <2>3
<1> QED
  BY <1>1, <1>2, <1>3

\* SinkInv says what NewestIsKept does.
LEMMA SinkInvIsKept == SinkInv => NewestIsKept
<1> SUFFICES ASSUME SinkInv, NEW r \in owed
             PROVE  \/ vectors[r[1]] >= r[2] \/ backup[r[1]] >= r[2]
                    \/ \E s \in Sink : \E q \in hand[s] : q[1] = r[1] /\ q[2] >= r[2]
  BY DEF NewestIsKept
<1>1. r[2] \in Nat
  BY OwedProps, RowProps
<1>2. r[2] >= r[2]
  BY <1>1
<1> QED
  BY <1>2 DEF SinkInv, OwedIsSomewhere

\* A step that moves only a sink which has nothing to upload, and takes from owed what it
\* takes from its hand or from the queue.
LEMMA SinkMoves ==
  ASSUME SinkInv, NEW s \in Sink,
         vectors' = vectors, emitted' = emitted, useBackup' = useBackup, owed' \subseteq owed,
         \A p \in Sink \ {s} : /\ at'[p] = at[p] /\ errand'[p] = errand[p]
                                /\ hand'[p] = hand[p] /\ fresh'[p] = fresh[p],
         at' \in [Sink -> SinkPlaces], errand' \in [Sink -> {"live", "replay", "idle"}],
         hand' \in [Sink -> SUBSET Row], fresh' \in [Sink -> SUBSET Row],
         backup' \in [Object -> Nat], RowsOf(backup)' \subseteq emitted, hand'[s] \subseteq emitted,
         at'[s] \notin Handling => hand'[s] = {},
         at'[s] = "connect" /\ errand'[s] # "live" => hand'[s] = {},
         at'[s] # "upsert", fresh'[s] = {},
         \A r \in owed' : /\ backup[r[1]] = r[2] => backup'[r[1]] = r[2] \/ r \in hand'[s]
                          /\ r \in hand[s] => \/ r \in hand'[s] \/ backup'[r[1]] = r[2]
                                              \/ vectors[r[1]] = r[2]
  PROVE  SinkInv'
<1>1. SinkTypeOK'
  BY DEF SinkInv, SinkTypeOK
<1>2. AllEmitted'
  BY DEF SinkInv, AllEmitted, RowsOf
<1>3. OwedIsNewest'
  BY DEF SinkInv, OwedIsNewest, LatestPerObject
<1>4. HandsAgree'
  <2> SUFFICES ASSUME NEW p \in Sink
               PROVE  /\ at'[p] \notin Handling => hand'[p] = {}
                      /\ at'[p] = "connect" /\ errand'[p] # "live" => hand'[p] = {}
                      /\ at'[p] # "upsert" => fresh'[p] = {}
                      /\ fresh'[p] \subseteq LatestPerObject(hand'[p])
    BY DEF HandsAgree
  <2>1. CASE p = s
    BY <2>1
  <2>2. CASE p # s
    BY <2>2 DEF SinkInv, HandsAgree
  <2> QED
    BY <2>1, <2>2
<1>5. UploadsAgree'
  <2> SUFFICES ASSUME NEW r \in owed', NEW p \in Sink
               PROVE  /\ vectors[r[1]] = r[2] => r[1] \notin ObjectsOf(fresh'[p])
                      /\ at'[p] = "upsert" /\ r \in hand'[p] => r \in fresh'[p] \/ vectors[r[1]] = r[2]
    BY DEF UploadsAgree, ObjectsOf
  <2>1. CASE p = s
    BY <2>1 DEF ObjectsOf
  <2>2. CASE p # s
    BY <2>2 DEF SinkInv, UploadsAgree
  <2> QED
    BY <2>1, <2>2
<1>6. OwedIsSomewhere'
  <2> SUFFICES ASSUME NEW r \in owed'
               PROVE  \/ vectors[r[1]] = r[2] \/ backup'[r[1]] = r[2]
                      \/ \E p \in Sink : r \in hand'[p]
    BY DEF OwedIsSomewhere
  <2>1. \/ vectors[r[1]] = r[2] \/ backup[r[1]] = r[2] \/ \E p \in Sink : r \in hand[p]
    BY DEF SinkInv, OwedIsSomewhere
  <2>2. ASSUME NEW p \in Sink, p # s, r \in hand[p] PROVE r \in hand'[p]
    BY <2>2
  <2> QED
    BY <2>1, <2>2
<1> QED
  BY <1>1, <1>2, <1>3, <1>4, <1>5, <1>6 DEF SinkInv

\* What the rows of the sink s, and the documents, are known to be.
LEMMA SinkFacts ==
  ASSUME SinkInv, NEW s \in Sink
  PROVE  /\ vectors \in [Object -> Nat] /\ backup \in [Object -> Nat]
         /\ at \in [Sink -> SinkPlaces] /\ errand \in [Sink -> {"live", "replay", "idle"}]
         /\ hand \in [Sink -> SUBSET Row] /\ fresh \in [Sink -> SUBSET Row]
         /\ hand[s] \in SUBSET Row /\ hand[s] \subseteq emitted /\ emitted \subseteq Row
         /\ RowsOf(backup) \subseteq emitted
         /\ at[s] \notin Handling => hand[s] = {}
         /\ at[s] = "connect" /\ errand[s] # "live" => hand[s] = {}
         /\ at[s] # "upsert" => fresh[s] = {}
         /\ fresh[s] \subseteq LatestPerObject(hand[s])
  BY DEF SinkInv, SinkTypeOK, AllEmitted, HandsAgree

\* The steps that change neither the queue nor what is owed.
LEMMA QuietSteps ==
  ASSUME SinkInv, NEW s \in Sink,
         \/ Start(s) \/ DrainWhenIdle(s) \/ Connect(s) \/ ConnectFails(s) \/ QueryFails(s)
         \/ TakeNothing(s)
  PROVE  SinkInv'
<1>0. /\ at \in [Sink -> SinkPlaces] /\ errand \in [Sink -> {"live", "replay", "idle"}]
      /\ hand \in [Sink -> SUBSET Row] /\ fresh \in [Sink -> SUBSET Row]
      /\ backup \in [Object -> Nat] /\ RowsOf(backup) \subseteq emitted /\ hand[s] \subseteq emitted
      /\ at[s] \notin Handling => hand[s] = {}
      /\ at[s] = "connect" /\ errand[s] # "live" => hand[s] = {}
      /\ at[s] # "upsert" => fresh[s] = {}
  BY SinkFacts
<1>1. UNCHANGED <<vectors, backup, useBackup, hand, emitted, owed>>
  BY DEF Start, DrainWhenIdle, Connect, ConnectFails, QueryFails, TakeNothing, RecordFailure
<1>2. at[s] # "upsert"
  BY DEF Start, DrainWhenIdle, Connect, ConnectFails, QueryFails, TakeNothing
<1>3. /\ at' \in [Sink -> SinkPlaces] /\ at'[s] # "upsert"
      /\ \A p \in Sink \ {s} : at'[p] = at[p]
  BY <1>0 DEF Start, DrainWhenIdle, Connect, ConnectFails, QueryFails, TakeNothing, RecordFailure,
     Step, SinkPlaces
<1>4. /\ fresh' \in [Sink -> SUBSET Row] /\ fresh'[s] = {}
      /\ \A p \in Sink \ {s} : fresh'[p] = fresh[p]
  BY <1>0, <1>2 DEF Start, DrainWhenIdle, Connect, ConnectFails, QueryFails, TakeNothing,
     RecordFailure
<1>5. errand' \in [Sink -> {"live", "replay", "idle"}] /\ \A p \in Sink \ {s} : errand'[p] = errand[p]
  BY <1>0 DEF Start, DrainWhenIdle, Connect, ConnectFails, QueryFails, TakeNothing
<1>6. at'[s] \notin Handling \/ (at'[s] = "connect" /\ errand'[s] # "live") => hand'[s] = {}
  <2>1. CASE Start(s) \/ DrainWhenIdle(s) \/ TakeNothing(s)
    BY <1>0, <1>1, <2>1 DEF Start, DrainWhenIdle, TakeNothing, Handling
  <2>2. CASE ConnectFails(s) \/ QueryFails(s)
    BY <1>0, <1>1, <2>2 DEF ConnectFails, QueryFails, RecordFailure, Step, Handling
  <2>3. CASE Connect(s)
    BY <1>0, <1>1, <2>3 DEF Connect, Step, Handling
  <2> QED
    BY <2>1, <2>2, <2>3
<1>7. RowsOf(backup)' \subseteq emitted
  BY <1>0, <1>1 DEF RowsOf
<1> QED
  BY <1>0, <1>1, <1>3, <1>4, <1>5, <1>6, <1>7, SinkMoves

\* A batch of new rows comes into the hand of a sink.
LEMMA DeliverStep ==
  ASSUME SinkInv, NEW s \in Sink, NEW rows \in SUBSET Row, Deliver(s, rows)
  PROVE  SinkInv'
<1>0. /\ at \in [Sink -> SinkPlaces] /\ errand \in [Sink -> {"live", "replay", "idle"}]
      /\ hand \in [Sink -> SUBSET Row] /\ at[s] = "ready" /\ hand[s] = {} /\ fresh[s] = {}
      /\ vectors \in [Object -> Nat] /\ backup \in [Object -> Nat] /\ emitted \subseteq Row
  BY SinkFacts DEF Deliver, Handling
<1>1. /\ emitted' = emitted \cup rows /\ rows \cap emitted = {} /\ rows \subseteq Row
      /\ owed' = LatestPerObject(emitted') \cap (owed \cup rows)
      /\ UNCHANGED <<vectors, backup, useBackup, fresh>>
  BY DEF Deliver
<1>2. /\ hand' \in [Sink -> SUBSET Row] /\ hand'[s] = rows
      /\ \A p \in Sink \ {s} : hand'[p] = hand[p]
  BY <1>0 DEF Deliver
<1>3. /\ at' \in [Sink -> SinkPlaces] /\ at'[s] \in {"buffer", "query", "connect"}
      /\ \A p \in Sink \ {s} : at'[p] = at[p]
  BY <1>0 DEF Deliver, Step, SinkPlaces
<1>4. /\ errand' \in [Sink -> {"live", "replay", "idle"}] /\ errand'[s] = "live"
      /\ \A p \in Sink \ {s} : errand'[p] = errand[p]
  BY <1>0 DEF Deliver
<1>5. SinkTypeOK'
  BY <1>0, <1>1, <1>2, <1>3, <1>4 DEF SinkInv, SinkTypeOK
<1>6. AllEmitted'
  BY <1>1, <1>2 DEF SinkInv, AllEmitted, RowsOf
<1>7. OwedIsNewest'
  BY <1>1 DEF OwedIsNewest
<1>8. HandsAgree'
  <2> SUFFICES ASSUME NEW p \in Sink
               PROVE  /\ at'[p] \notin Handling => hand'[p] = {}
                      /\ at'[p] = "connect" /\ errand'[p] # "live" => hand'[p] = {}
                      /\ at'[p] # "upsert" => fresh'[p] = {}
                      /\ fresh'[p] \subseteq LatestPerObject(hand'[p])
    BY DEF HandsAgree
  <2>1. CASE p = s
    BY <1>0, <1>1, <1>3, <1>4, <2>1 DEF Handling
  <2>2. CASE p # s
    BY <1>1, <1>2, <1>3, <1>4, <2>2 DEF SinkInv, HandsAgree
  <2> QED
    BY <2>1, <2>2
<1>9. ASSUME NEW r \in owed', r \notin owed
      PROVE  vectors[r[1]] # r[2] /\ r \in rows /\ \A p \in Sink : r \notin hand[p]
  <2>1. r \in rows /\ r \notin emitted /\ r \in Row
    BY <1>1, <1>9
  <2>2. r[1] \in Object /\ r[2] # Never /\ r = <<r[1], r[2]>>
    BY <2>1, RowProps
  <2>3. vectors[r[1]] # r[2]
    BY <1>0, <2>1, <2>2, RowsOfProps DEF SinkInv, AllEmitted
  <2> QED
    BY <2>1, <2>3 DEF SinkInv, AllEmitted
<1>10. UploadsAgree'
  <2> SUFFICES ASSUME NEW r \in owed', NEW p \in Sink
               PROVE  /\ vectors[r[1]] = r[2] => r[1] \notin ObjectsOf(fresh[p])
                      /\ at'[p] = "upsert" /\ r \in hand'[p] => r \in fresh[p] \/ vectors[r[1]] = r[2]
    BY <1>1 DEF UploadsAgree, ObjectsOf
  <2>1. CASE r \in owed
    BY <1>2, <1>3, <2>1 DEF SinkInv, UploadsAgree
  <2>2. CASE r \notin owed
    BY <1>2, <1>3, <1>9, <2>2
  <2> QED
    BY <2>1, <2>2
<1>11. OwedIsSomewhere'
  <2> SUFFICES ASSUME NEW r \in owed'
               PROVE  \/ vectors[r[1]] = r[2] \/ backup[r[1]] = r[2] \/ \E p \in Sink : r \in hand'[p]
    BY <1>1 DEF OwedIsSomewhere
  <2>1. CASE r \in owed
    BY <1>0, <1>2, <2>1 DEF SinkInv, OwedIsSomewhere
  <2>2. CASE r \notin owed
    BY <1>2, <1>9, <2>2
  <2> QED
    BY <2>1, <2>2
<1> QED
  BY <1>5, <1>6, <1>7, <1>8, <1>10, <1>11 DEF SinkInv

\* The stored jds are read: what is newest and not stored goes on to the upload.
LEMMA QueryStep ==
  ASSUME SinkInv, NEW s \in Sink, Query(s)
  PROVE  SinkInv'
<1> DEFINE rows == DropStale(LatestPerObject(hand[s]))
<1>0. /\ at \in [Sink -> SinkPlaces] /\ errand \in [Sink -> {"live", "replay", "idle"}]
      /\ hand \in [Sink -> SUBSET Row] /\ fresh \in [Sink -> SUBSET Row]
      /\ vectors \in [Object -> Nat] /\ backup \in [Object -> Nat] /\ emitted \subseteq Row
      /\ RowsOf(backup) \subseteq emitted /\ hand[s] \in SUBSET Row /\ hand[s] \subseteq emitted
      /\ at[s] = "query"
  BY SinkFacts DEF Query
<1>1. UNCHANGED <<vectors, backup, useBackup, errand, emitted, owed>>
  BY DEF Query
<1>2. rows \subseteq LatestPerObject(hand[s]) /\ rows \subseteq hand[s]
  BY DEF DropStale, LatestPerObject
<1>3. \A r \in owed : r \in hand[s] => r \in rows \/ vectors[r[1]] = r[2]
  <2> SUFFICES ASSUME NEW r \in owed, r \in hand[s], r \notin rows PROVE vectors[r[1]] = r[2]
    OBVIOUS
  <2>1. r \in LatestPerObject(hand[s])
    BY <1>0, OwedProps DEF LatestPerObject
  <2>2. ~(r[2] > vectors[r[1]])
    BY <2>1 DEF DropStale
  <2>3. r[1] \in Object /\ r[2] \in Nat /\ r[2] > Never /\ vectors[r[1]] \in Nat
    BY <1>0, OwedProps, RowProps
  <2>4. vectors[r[1]] # Never /\ vectors[r[1]] >= r[2]
    BY <2>2, <2>3 DEF Never
  <2>5. <<r[1], vectors[r[1]]>> \in emitted
    BY <1>0, <2>3, <2>4, RowsOfProps DEF SinkInv, AllEmitted
  <2>6. <<r[1], vectors[r[1]]>> = r
    BY <2>4, <2>5, OwedProps
  <2> QED
    BY <2>6
<1>4. ASSUME NEW r \in owed, vectors[r[1]] = r[2] PROVE r[1] \notin ObjectsOf(rows)
  <2> SUFFICES ASSUME NEW q \in rows, q[1] = r[1] PROVE FALSE
    BY DEF ObjectsOf
  <2>1. q \in emitted /\ q[2] > vectors[q[1]]
    BY <1>0, <1>2 DEF DropStale
  <2>2. q[2] <= r[2] /\ q[2] \in Nat /\ r[2] \in Nat
    BY <1>0, <2>1, OwedProps, RowProps
  <2> QED
    BY <1>4, <2>1, <2>2
<1>5. CASE rows = {}
  <2>1. RecordSuccess(s)
    BY <1>5 DEF Query
  <2>2. /\ hand' \in [Sink -> SUBSET Row] /\ hand'[s] = {} /\ \A p \in Sink \ {s} : hand'[p] = hand[p]
        /\ fresh' \in [Sink -> SUBSET Row] /\ fresh'[s] = {} /\ \A p \in Sink \ {s} : fresh'[p] = fresh[p]
    BY <1>0, <2>1 DEF RecordSuccess
  <2>3. /\ at' \in [Sink -> SinkPlaces] /\ at'[s] \in {"take", "ready"}
        /\ \A p \in Sink \ {s} : at'[p] = at[p]
    BY <1>0, <2>1 DEF RecordSuccess, Step, SinkPlaces
  <2>4. RowsOf(backup)' \subseteq emitted
    BY <1>0, <1>1 DEF RowsOf
  <2> QED
    BY <1>0, <1>1, <1>3, <1>5, <2>2, <2>3, <2>4, SinkMoves
<1>6. CASE rows # {}
  <2>1. /\ fresh' \in [Sink -> SUBSET Row] /\ fresh'[s] = rows
        /\ \A p \in Sink \ {s} : fresh'[p] = fresh[p]
    BY <1>0, <1>2, <1>6 DEF Query
  <2>2. /\ at' \in [Sink -> SinkPlaces] /\ at'[s] = "upsert" /\ UNCHANGED hand
        /\ \A p \in Sink \ {s} : at'[p] = at[p]
    BY <1>0, <1>6 DEF Query, Step, SinkPlaces
  <2>3. SinkTypeOK' /\ AllEmitted' /\ OwedIsNewest' /\ OwedIsSomewhere'
    BY <1>1, <2>1, <2>2 DEF SinkInv, SinkTypeOK, AllEmitted, RowsOf, OwedIsNewest, LatestPerObject,
       OwedIsSomewhere
  <2>4. HandsAgree'
    <3> SUFFICES ASSUME NEW p \in Sink
                 PROVE  /\ at'[p] \notin Handling => hand[p] = {}
                        /\ at'[p] = "connect" /\ errand[p] # "live" => hand[p] = {}
                        /\ at'[p] # "upsert" => fresh'[p] = {}
                        /\ fresh'[p] \subseteq LatestPerObject(hand[p])
      BY <1>1, <2>2 DEF HandsAgree, LatestPerObject
    <3>1. CASE p = s
      BY <1>2, <2>1, <2>2, <3>1 DEF Handling
    <3>2. CASE p # s
      BY <2>1, <2>2, <3>2 DEF SinkInv, HandsAgree
    <3> QED
      BY <3>1, <3>2
  <2>5. UploadsAgree'
    <3> SUFFICES ASSUME NEW r \in owed, NEW p \in Sink
                 PROVE  /\ vectors[r[1]] = r[2] => r[1] \notin ObjectsOf(fresh'[p])
                        /\ at'[p] = "upsert" /\ r \in hand[p] => r \in fresh'[p] \/ vectors[r[1]] = r[2]
      BY <1>1, <2>2 DEF UploadsAgree, ObjectsOf
    <3>1. CASE p = s
      BY <1>3, <1>4, <2>1, <3>1
    <3>2. CASE p # s
      BY <2>1, <2>2, <3>2 DEF SinkInv, UploadsAgree
    <3> QED
      BY <3>1, <3>2
  <2> QED
    BY <2>3, <2>4, <2>5 DEF SinkInv
<1> QED
  BY <1>5, <1>6

\* An upload is carried out: the rows that drop_stale let through are stored.
LEMMA LandStep ==
  ASSUME SinkInv, NEW s \in Sink, at[s] = "upsert", Land(s),
         UNCHANGED <<backup, useBackup, errand, emitted>>,
         at' \in [Sink -> SinkPlaces], at'[s] # "upsert", at'[s] # "connect",
         hand' \in [Sink -> SUBSET Row], hand'[s] \subseteq hand[s],
         at'[s] \notin Handling => hand'[s] = {},
         fresh' \in [Sink -> SUBSET Row], fresh'[s] = {},
         \A p \in Sink \ {s} : at'[p] = at[p] /\ hand'[p] = hand[p] /\ fresh'[p] = fresh[p]
  PROVE  SinkInv'
<1>0. /\ vectors \in [Object -> Nat] /\ emitted \subseteq Row /\ fresh[s] \in SUBSET Row
      /\ hand[s] \in SUBSET Row /\ hand[s] \subseteq emitted
      /\ fresh[s] \subseteq LatestPerObject(hand[s]) /\ RowsOf(vectors) \subseteq emitted
  BY SinkFacts DEF SinkInv, AllEmitted
<1>1. fresh[s] \subseteq hand[s] /\ \A r, q \in fresh[s] : r[1] = q[1] => r = q
  BY <1>0, LatestProps
<1>2. /\ vectors' = Written(vectors, fresh[s]) /\ owed' \subseteq owed
      /\ \A r \in owed' : r[1] \in ObjectsOf(fresh[s]) =>
           \A p \in Sink \ {s} : r[1] \notin ObjectsOf(fresh[p])
  BY DEF Land
<1>3. /\ vectors' \in [Object -> Nat]
      /\ \A r \in fresh[s] : vectors'[r[1]] = r[2]
      /\ \A o \in Object : o \notin ObjectsOf(fresh[s]) => vectors'[o] = vectors[o]
      /\ RowsOf(Written(vectors, fresh[s])) \subseteq RowsOf(vectors) \cup fresh[s]
  BY <1>0, <1>1, <1>2, WrittenProps
<1>4. SinkTypeOK'
  BY <1>3 DEF SinkInv, SinkTypeOK
<1>5. AllEmitted'
  <2>1. RowsOf(vectors)' \subseteq emitted
    BY <1>0, <1>1, <1>2, <1>3 DEF RowsOf
  <2>2. \A p \in Sink : hand'[p] \subseteq emitted
    BY <1>0 DEF SinkInv, AllEmitted
  <2> QED
    BY <2>1, <2>2 DEF SinkInv, AllEmitted, RowsOf
<1>6. OwedIsNewest'
  BY <1>2 DEF SinkInv, OwedIsNewest, LatestPerObject
<1>7. HandsAgree'
  <2> SUFFICES ASSUME NEW p \in Sink
               PROVE  /\ at'[p] \notin Handling => hand'[p] = {}
                      /\ at'[p] = "connect" /\ errand'[p] # "live" => hand'[p] = {}
                      /\ at'[p] # "upsert" => fresh'[p] = {}
                      /\ fresh'[p] \subseteq LatestPerObject(hand'[p])
    BY DEF HandsAgree
  <2>1. CASE p = s
    BY <2>1
  <2>2. CASE p # s
    BY <2>2 DEF SinkInv, HandsAgree
  <2> QED
    BY <2>1, <2>2
<1>8. ASSUME NEW r \in owed'
      PROVE  /\ r \in owed /\ r[1] \in Object
             /\ vectors[r[1]] = r[2] => vectors'[r[1]] = r[2] /\ r[1] \notin ObjectsOf(fresh[s])
             /\ r \in hand[s] => vectors'[r[1]] = r[2]
  <2>1. r \in owed /\ r[1] \in Object
    BY <1>2, <1>8, OwedProps, RowProps
  <2>2. vectors[r[1]] = r[2] => r[1] \notin ObjectsOf(fresh[s])
    BY <2>1 DEF SinkInv, UploadsAgree
  <2>3. vectors[r[1]] = r[2] => vectors'[r[1]] = r[2]
    BY <1>3, <2>1, <2>2
  <2>4. r \in hand[s] => r \in fresh[s] \/ vectors[r[1]] = r[2]
    BY <2>1 DEF SinkInv, UploadsAgree
  <2> QED
    BY <1>3, <2>1, <2>2, <2>3, <2>4
<1>9. UploadsAgree'
  <2> SUFFICES ASSUME NEW r \in owed', NEW p \in Sink
               PROVE  /\ vectors'[r[1]] = r[2] => r[1] \notin ObjectsOf(fresh'[p])
                      /\ at'[p] = "upsert" /\ r \in hand'[p] => r \in fresh'[p] \/ vectors'[r[1]] = r[2]
    BY DEF UploadsAgree, ObjectsOf
  <2>1. CASE p = s
    BY <2>1 DEF ObjectsOf
  <2>2. CASE p # s
    <3>1. fresh'[p] = fresh[p] /\ at'[p] = at[p] /\ hand'[p] = hand[p]
      BY <2>2
    <3>2. CASE r[1] \in ObjectsOf(fresh[s])
      <4>1. vectors[r[1]] # r[2] /\ r[1] \notin ObjectsOf(fresh[p])
        BY <1>2, <1>8, <2>2, <3>2
      <4> QED
        BY <1>8, <3>1, <4>1 DEF SinkInv, UploadsAgree
    <3>3. CASE r[1] \notin ObjectsOf(fresh[s])
      <4>1. vectors'[r[1]] = vectors[r[1]]
        BY <1>3, <1>8, <3>3
      <4> QED
        BY <1>8, <3>1, <4>1 DEF SinkInv, UploadsAgree
    <3> QED
      BY <3>2, <3>3
  <2> QED
    BY <2>1, <2>2
<1>10. OwedIsSomewhere'
  <2> SUFFICES ASSUME NEW r \in owed'
               PROVE  \/ vectors'[r[1]] = r[2] \/ backup[r[1]] = r[2] \/ \E p \in Sink : r \in hand'[p]
    BY DEF OwedIsSomewhere
  <2>1. \/ vectors[r[1]] = r[2] \/ backup[r[1]] = r[2] \/ \E p \in Sink : r \in hand[p]
    BY <1>8 DEF SinkInv, OwedIsSomewhere
  <2>2. ASSUME NEW p \in Sink, p # s, r \in hand[p] PROVE r \in hand'[p]
    BY <2>2
  <2> QED
    BY <1>8, <2>1, <2>2
<1> QED
  BY <1>4, <1>5, <1>6, <1>7, <1>9, <1>10 DEF SinkInv

\* The Upsert call, and one that fails, whether it was carried out or not.
LEMMA UploadSteps ==
  ASSUME SinkInv, NEW s \in Sink, Upsert(s) \/ UpsertFails(s)
  PROVE  SinkInv'
<1>0. /\ at \in [Sink -> SinkPlaces] /\ errand \in [Sink -> {"live", "replay", "idle"}]
      /\ hand \in [Sink -> SUBSET Row] /\ fresh \in [Sink -> SUBSET Row]
      /\ backup \in [Object -> Nat] /\ RowsOf(backup) \subseteq emitted /\ hand[s] \subseteq emitted
      /\ at[s] = "upsert"
  BY SinkFacts DEF Upsert, UpsertFails
<1>1. UNCHANGED <<backup, useBackup, errand, emitted>>
  BY DEF Upsert, UpsertFails
<1>2. /\ at' \in [Sink -> SinkPlaces] /\ at'[s] \in {"take", "ready", "buffer"}
      /\ \A p \in Sink \ {s} : at'[p] = at[p]
  BY <1>0 DEF Upsert, UpsertFails, RecordSuccess, RecordFailure, Step, SinkPlaces
<1>3. /\ fresh' \in [Sink -> SUBSET Row] /\ fresh'[s] = {}
      /\ \A p \in Sink \ {s} : fresh'[p] = fresh[p]
  BY <1>0 DEF Upsert, UpsertFails, RecordSuccess, RecordFailure
<1>4. /\ hand' \in [Sink -> SUBSET Row] /\ hand'[s] \subseteq hand[s]
      /\ \A p \in Sink \ {s} : hand'[p] = hand[p]
  BY <1>0 DEF Upsert, UpsertFails, RecordSuccess, RecordFailure
<1>5. at'[s] \notin Handling => hand'[s] = {}
  <2>1. CASE Upsert(s)
    BY <1>0, <2>1 DEF Upsert, RecordSuccess
  <2>2. CASE UpsertFails(s)
    BY <1>0, <2>2 DEF UpsertFails, RecordFailure, Step, Handling
  <2> QED
    BY <2>1, <2>2
<1>6. CASE Land(s)
  <2>1. at'[s] # "upsert" /\ at'[s] # "connect"
    BY <1>2
  <2> QED
    BY <1>0, <1>1, <1>2, <1>3, <1>4, <1>5, <1>6, <2>1, LandStep
<1>7. CASE UpsertFails(s) /\ UNCHANGED <<vectors, owed>>
  <2>1. hand' = hand
    BY <1>7 DEF UpsertFails, RecordFailure
  <2>2. RowsOf(backup)' \subseteq emitted
    BY <1>0, <1>1 DEF RowsOf
  <2>3. /\ vectors' = vectors /\ emitted' = emitted /\ useBackup' = useBackup /\ owed' \subseteq owed
        /\ at'[s] # "upsert" /\ hand'[s] \subseteq emitted
        /\ at'[s] = "connect" /\ errand'[s] # "live" => hand'[s] = {}
        /\ backup' \in [Object -> Nat] /\ errand' \in [Sink -> {"live", "replay", "idle"}]
    BY <1>0, <1>1, <1>2, <1>7, <2>1
  <2>4. \A p \in Sink \ {s} : /\ at'[p] = at[p] /\ errand'[p] = errand[p]
                              /\ hand'[p] = hand[p] /\ fresh'[p] = fresh[p]
    BY <1>1, <1>2, <1>3, <1>4
  <2>5. \A r \in owed' : /\ backup[r[1]] = r[2] => backup'[r[1]] = r[2] \/ r \in hand'[s]
                         /\ r \in hand[s] => \/ r \in hand'[s] \/ backup'[r[1]] = r[2]
                                             \/ vectors[r[1]] = r[2]
    BY <1>1, <2>1
  <2> QED
    BY <1>2, <1>3, <1>4, <1>5, <2>2, <2>3, <2>4, <2>5, SinkMoves
<1> QED
  BY <1>6, <1>7 DEF Upsert, UpsertFails

\* PUSH merges the rows in hand into the queue, and keeps every row that is owed.
LEMMA MergeProps ==
  ASSUME SinkInv, NEW s \in Sink
  PROVE  /\ Merge(hand[s]) \in [Object -> Nat] /\ RowsOf(Merge(hand[s])) \subseteq emitted
         /\ \A r \in owed : r \in hand[s] \/ backup[r[1]] = r[2] => Merge(hand[s])[r[1]] = r[2]
<1> DEFINE newer == {r \in LatestPerObject(hand[s]) : r[2] > backup[r[1]]}
           m == Merge(hand[s])
<1>0. /\ backup \in [Object -> Nat] /\ hand[s] \in SUBSET Row /\ hand[s] \subseteq emitted
      /\ RowsOf(backup) \subseteq emitted
  BY SinkFacts
<1>1. newer \in SUBSET Row /\ newer \subseteq hand[s] /\ \A r, q \in newer : r[1] = q[1] => r = q
  BY <1>0, LatestProps
<1>2. /\ m \in [Object -> Nat] /\ \A r \in newer : m[r[1]] = r[2]
      /\ \A o \in Object : o \notin ObjectsOf(newer) => m[o] = backup[o]
      /\ RowsOf(m) \subseteq RowsOf(backup) \cup newer
  <2>1. m = Written(backup, newer)
    BY DEF Merge
  <2> QED
    BY <1>0, <1>1, <2>1, WrittenProps
<1>3. ASSUME NEW r \in owed, backup[r[1]] = r[2] PROVE m[r[1]] = r[2]
  <2>1. r[1] \in Object /\ r[2] \in Nat
    BY OwedProps, RowProps
  <2>2. ASSUME NEW q \in newer, q[1] = r[1] PROVE FALSE
    <3>1. q[2] <= r[2] /\ q[2] \in Nat
      BY <1>0, <1>1, <2>2, OwedProps, RowProps
    <3>2. q[2] > r[2]
      BY <1>3, <2>2
    <3> QED
      BY <2>1, <3>1, <3>2
  <2>3. r[1] \notin ObjectsOf(newer)
    BY <2>2 DEF ObjectsOf
  <2> QED
    BY <1>2, <1>3, <2>1, <2>3
<1>4. ASSUME NEW r \in owed, r \in hand[s] PROVE m[r[1]] = r[2]
  <2>1. r[1] \in Object /\ r[2] \in Nat /\ r[2] > Never /\ backup[r[1]] \in Nat
    BY <1>0, OwedProps, RowProps
  <2>2. r \in LatestPerObject(hand[s])
    BY <1>0, <1>4, OwedProps DEF LatestPerObject
  <2>3. CASE r[2] > backup[r[1]]
    BY <1>2, <2>2, <2>3
  <2>4. CASE ~(r[2] > backup[r[1]])
    <3>1. backup[r[1]] # Never /\ backup[r[1]] >= r[2]
      BY <2>1, <2>4 DEF Never
    <3>2. <<r[1], backup[r[1]]>> \in emitted
      BY <1>0, <2>1, <3>1, RowsOfProps
    <3>3. <<r[1], backup[r[1]]>> = r
      BY <3>1, <3>2, OwedProps
    <3> QED
      BY <1>3, <3>3
  <2> QED
    BY <2>3, <2>4
<1>5. RowsOf(m) \subseteq emitted
  BY <1>0, <1>1, <1>2
<1> QED
  BY <1>2, <1>3, <1>4, <1>5

\* A row that is owed stays in the queue, or is among those taken out of it.
LEMMA QueueKeeps ==
  ASSUME SinkInv, NEW r \in owed, NEW jds \in [Object -> Nat], NEW old \in SUBSET RowsOf(jds),
         jds[r[1]] = r[2]
  PROVE  Without(jds, old)[r[1]] = r[2] \/ r \in old
<1>1. r[1] \in Object /\ r = <<r[1], r[2]>>
  BY OwedProps, RowProps
<1> QED
  BY <1>1, WithoutProps

\* The hand of a sink goes to the queue, or is given up.
LEMMA BufferSteps ==
  ASSUME SinkInv, NEW s \in Sink, Buffer(s) \/ BufferFails(s)
  PROVE  SinkInv'
<1>0. /\ at \in [Sink -> SinkPlaces] /\ errand \in [Sink -> {"live", "replay", "idle"}]
      /\ hand \in [Sink -> SUBSET Row] /\ fresh \in [Sink -> SUBSET Row]
      /\ backup \in [Object -> Nat] /\ RowsOf(backup) \subseteq emitted /\ fresh[s] = {}
  BY SinkFacts DEF Buffer, BufferFails
<1>1. UNCHANGED <<vectors, useBackup, errand, fresh, emitted>>
  BY DEF Buffer, BufferFails
<1>2. /\ at' \in [Sink -> SinkPlaces] /\ at'[s] = "ready"
      /\ \A p \in Sink \ {s} : at'[p] = at[p]
  BY <1>0 DEF Buffer, BufferFails, Step, SinkPlaces
<1>3. /\ hand' \in [Sink -> SUBSET Row] /\ hand'[s] = {}
      /\ \A p \in Sink \ {s} : hand'[p] = hand[p]
  BY <1>0 DEF Buffer, BufferFails
<1> DEFINE Buffered ==
             /\ owed' \subseteq owed /\ backup' \in [Object -> Nat] /\ RowsOf(backup)' \subseteq emitted
             /\ \A r \in owed' : backup[r[1]] = r[2] \/ r \in hand[s] => backup'[r[1]] = r[2]
<1>4. Buffered
  <2>1. CASE owed' = owed \ hand[s] /\ backup' = backup
    BY <1>0, <2>1 DEF RowsOf
  <2>2. ASSUME NEW old \in Oldest(Merge(hand[s]), Excess(Merge(hand[s]))),
               backup' = Without(Merge(hand[s]), old), owed' = owed \ old
        PROVE  Buffered
    <3> DEFINE m == Merge(hand[s])
    <3>1. old \in SUBSET RowsOf(m)
      BY DEF Oldest
    <3>2. m \in [Object -> Nat] /\ RowsOf(m) \subseteq emitted
      BY MergeProps
    <3>3. backup' \in [Object -> Nat] /\ RowsOf(Without(m, old)) \subseteq RowsOf(m)
      BY <2>2, <3>1, <3>2, WithoutProps
    <3>4. RowsOf(backup)' \subseteq emitted
      BY <2>2, <3>2, <3>3 DEF RowsOf
    <3>5. ASSUME NEW r \in owed', backup[r[1]] = r[2] \/ r \in hand[s] PROVE backup'[r[1]] = r[2]
      <4>1. r \in owed /\ r \notin old
        BY <2>2
      <4>2. m[r[1]] = r[2]
        BY <3>5, <4>1, MergeProps
      <4> QED
        BY <2>2, <3>1, <3>2, <4>1, <4>2, QueueKeeps
    <3> QED
      BY <2>2, <3>3, <3>4, <3>5
  <2> QED
    BY <2>1, <2>2 DEF Buffer, BufferFails
<1> QED
  <2>1. /\ vectors' = vectors /\ emitted' = emitted /\ useBackup' = useBackup
        /\ at'[s] # "upsert" /\ fresh'[s] = {} /\ hand'[s] \subseteq emitted
        /\ at'[s] \notin Handling => hand'[s] = {}
        /\ at'[s] = "connect" /\ errand'[s] # "live" => hand'[s] = {}
        /\ errand' \in [Sink -> {"live", "replay", "idle"}] /\ fresh' \in [Sink -> SUBSET Row]
    BY <1>0, <1>1, <1>2, <1>3
  <2>2. \A p \in Sink \ {s} : /\ at'[p] = at[p] /\ errand'[p] = errand[p]
                              /\ hand'[p] = hand[p] /\ fresh'[p] = fresh[p]
    BY <1>1, <1>2, <1>3
  <2> QED
    BY <1>2, <1>3, <1>4, <2>1, <2>2, SinkMoves

\* TAKE moves rows from the queue to the hand of a sink, or loses them.
LEMMA TakeSteps ==
  ASSUME SinkInv, NEW s \in Sink, Take(s) \/ TakeFails(s)
  PROVE  SinkInv'
<1>0. /\ at \in [Sink -> SinkPlaces] /\ errand \in [Sink -> {"live", "replay", "idle"}]
      /\ hand \in [Sink -> SUBSET Row] /\ fresh \in [Sink -> SUBSET Row] /\ emitted \subseteq Row
      /\ backup \in [Object -> Nat] /\ RowsOf(backup) \subseteq emitted
      /\ fresh[s] = {} /\ hand[s] = {}
  BY SinkFacts DEF Take, TakeFails, Handling
<1>1. UNCHANGED <<vectors, useBackup, fresh, emitted>>
  BY DEF Take, TakeFails
<1>2. /\ at' \in [Sink -> SinkPlaces] /\ at'[s] \in {"ready", "query"}
      /\ \A p \in Sink \ {s} : at'[p] = at[p]
  BY <1>0 DEF Take, TakeFails, Step, SinkPlaces
<1>3. errand' \in [Sink -> {"live", "replay", "idle"}] /\ \A p \in Sink \ {s} : errand'[p] = errand[p]
  BY <1>0 DEF Take, TakeFails
<1>4. ASSUME NEW old \in Drainable
      PROVE  /\ old \in SUBSET RowsOf(backup) /\ old \in SUBSET Row
             /\ Without(backup, old) \in [Object -> Nat] /\ RowsOf(Without(backup, old)) \subseteq emitted
             /\ \A r \in owed : backup[r[1]] = r[2] => Without(backup, old)[r[1]] = r[2] \/ r \in old
  <2>1. old \in SUBSET RowsOf(backup)
    BY DEF Drainable, Oldest
  <2>2. \A r \in owed : backup[r[1]] = r[2] => Without(backup, old)[r[1]] = r[2] \/ r \in old
    BY <1>0, <2>1, QueueKeeps
  <2>3. Without(backup, old) \in [Object -> Nat] /\ RowsOf(Without(backup, old)) \subseteq emitted
    BY <1>0, <2>1, WithoutProps
  <2> QED
    BY <1>0, <2>1, <2>2, <2>3
<1> DEFINE Taken ==
             /\ owed' \subseteq owed /\ backup' \in [Object -> Nat] /\ RowsOf(backup)' \subseteq emitted
             /\ hand' \in [Sink -> SUBSET Row] /\ hand'[s] \subseteq emitted
             /\ at'[s] \notin Handling => hand'[s] = {}
             /\ \A p \in Sink \ {s} : hand'[p] = hand[p]
             /\ \A r \in owed' : backup[r[1]] = r[2] => backup'[r[1]] = r[2] \/ r \in hand'[s]
<1>5. Taken
  <2>1. CASE Take(s)
    <3>1. PICK old \in Drainable : /\ backup' = Without(backup, old)
                                   /\ hand' = [hand EXCEPT ![s] = old]
      BY <2>1 DEF Take
    <3>2. owed' = owed /\ at'[s] = "query"
      BY <1>0, <2>1 DEF Take, Step
    <3>3. RowsOf(backup)' \subseteq emitted
      BY <1>4, <3>1 DEF RowsOf
    <3>4. hand' \in [Sink -> SUBSET Row] /\ hand'[s] = old /\ \A p \in Sink \ {s} : hand'[p] = hand[p]
      BY <1>0, <1>4, <3>1
    <3> QED
      BY <1>0, <1>4, <3>1, <3>2, <3>3, <3>4 DEF Handling
  <2>2. CASE TakeFails(s) /\ UNCHANGED <<backup, owed>>
    BY <1>0, <2>2 DEF TakeFails, RowsOf
  <2>3. ASSUME TakeFails(s), NEW old \in Drainable, backup' = Without(backup, old), owed' = owed \ old
        PROVE  Taken
    <3>1. hand' = hand
      BY <2>3 DEF TakeFails
    <3>2. RowsOf(backup)' \subseteq emitted
      BY <1>4, <2>3 DEF RowsOf
    <3> QED
      BY <1>0, <1>4, <2>3, <3>1, <3>2
  <2> QED
    BY <2>1, <2>2, <2>3 DEF TakeFails
<1> QED
  <2>1. /\ vectors' = vectors /\ emitted' = emitted /\ useBackup' = useBackup
        /\ at'[s] # "upsert" /\ fresh'[s] = {} /\ fresh' \in [Sink -> SUBSET Row]
        /\ at'[s] = "connect" /\ errand'[s] # "live" => hand'[s] = {}
    BY <1>0, <1>1, <1>2
  <2>2. \A p \in Sink \ {s} : /\ at'[p] = at[p] /\ errand'[p] = errand[p]
                              /\ hand'[p] = hand[p] /\ fresh'[p] = fresh[p]
    BY <1>1, <1>2, <1>3, <1>5
  <2>3. \A r \in owed' : /\ backup[r[1]] = r[2] => backup'[r[1]] = r[2] \/ r \in hand'[s]
                         /\ r \in hand[s] => \/ r \in hand'[s] \/ backup'[r[1]] = r[2]
                                             \/ vectors[r[1]] = r[2]
    BY <1>0, <1>5
  <2> QED
    BY <1>2, <1>3, <1>5, <2>1, <2>2, <2>3, SinkMoves

\* The thread of a sink dies with what it has in hand.
LEMMA DeathStep ==
  ASSUME SinkInv, NEW s \in Sink, ThreadDies(s)
  PROVE  SinkInv'
<1>0. /\ at \in [Sink -> SinkPlaces] /\ errand \in [Sink -> {"live", "replay", "idle"}]
      /\ hand \in [Sink -> SUBSET Row] /\ fresh \in [Sink -> SUBSET Row]
      /\ backup \in [Object -> Nat] /\ RowsOf(backup) \subseteq emitted
  BY SinkFacts
<1>1. /\ UNCHANGED <<vectors, backup, useBackup, emitted>> /\ owed' = owed \ hand[s]
      /\ RowsOf(backup)' \subseteq emitted
  BY <1>0 DEF ThreadDies, RowsOf
<1>2. /\ at' \in [Sink -> SinkPlaces] /\ at'[s] = "off"
      /\ errand' \in [Sink -> {"live", "replay", "idle"}]
      /\ hand' \in [Sink -> SUBSET Row] /\ hand'[s] = {}
      /\ fresh' \in [Sink -> SUBSET Row] /\ fresh'[s] = {}
  BY <1>0 DEF ThreadDies, Step, SinkPlaces
<1>3. \A p \in Sink \ {s} : /\ at'[p] = at[p] /\ errand'[p] = errand[p]
                            /\ hand'[p] = hand[p] /\ fresh'[p] = fresh[p]
  BY <1>0 DEF ThreadDies, Step
<1>4. \A r \in owed' : /\ backup[r[1]] = r[2] => backup'[r[1]] = r[2] \/ r \in hand'[s]
                       /\ r \in hand[s] => \/ r \in hand'[s] \/ backup'[r[1]] = r[2]
                                           \/ vectors[r[1]] = r[2]
  BY <1>1
<1> QED
  BY <1>0, <1>1, <1>2, <1>3, <1>4, SinkMoves

\* Every step of the sinks keeps SinkInv.
LEMMA SinkStep == SinkInv /\ [SinkNext]_sinkVars => SinkInv'
<1> SUFFICES ASSUME SinkInv, [SinkNext]_sinkVars PROVE SinkInv'
  OBVIOUS
<1>1. ASSUME UNCHANGED <<vectors, backup, useBackup, at, errand, hand, fresh, emitted, owed>>
      PROVE  SinkInv'
  BY <1>1 DEF SinkInv, SinkTypeOK, AllEmitted, RowsOf, OwedIsNewest, LatestPerObject, HandsAgree,
     UploadsAgree, ObjectsOf, OwedIsSomewhere
<1>2. CASE UNCHANGED sinkVars
  BY <1>1, <1>2 DEF sinkVars, sink
<1>3. ASSUME NEW s \in Sink, PauseEnds(s) PROVE SinkInv'
  BY <1>1, <1>3 DEF PauseEnds
<1>4. ASSUME NEW s \in Sink, Progress(s) PROVE SinkInv'
  BY <1>4, QuietSteps, QueryStep, UploadSteps, BufferSteps, TakeSteps DEF Progress
<1> QED
  BY <1>2, <1>3, <1>4, DeliverStep, QuietSteps, UploadSteps, BufferSteps, TakeSteps, DeathStep
     DEF SinkNext

\* At the start nothing is stored, queued, in hand or owed.
LEMMA SinkStart == SinkInit => SinkInv
<1> SUFFICES ASSUME SinkInit PROVE SinkInv
  OBVIOUS
<1>1. SinkTypeOK
  BY DEF SinkInit, SinkTypeOK, SinkPlaces, Never
<1>2. AllEmitted
  BY DEF SinkInit, AllEmitted, RowsOf
<1>3. HandsAgree
  BY DEF SinkInit, HandsAgree, Handling
<1> QED
  BY <1>1, <1>2, <1>3 DEF SinkInit, SinkInv, OwedIsNewest, UploadsAgree, OwedIsSomewhere

\* The types, the places of the rows and the agreement of the uploads with what is stored
\* hold throughout: of any number of sinks, however large the queue and whatever fails.
THEOREM SinkInvariant == SinkSpec => []SinkInv
<1> QED
  BY SinkStart, SinkStep, PTL DEF SinkSpec

\* The newest embedding of an object that was not given up is in the collection or on its way
\* there (sink.rs, insert.rs, backup.rs), whatever the number of sinks, the bound of the
\* queue, the size of a drain and the failures of Milvus and Valkey.
THEOREM NewestStaysKept == SinkSpec => []NewestIsKept
<1> QED
  BY SinkInvariant, SinkInvIsKept, PTL

=============================================================================
