---------------------------- MODULE PollerProofs ----------------------------
(***************************************************************************)
(* The safety invariants of Poller for any finite set of addresses, any     *)
(* browsers and any capacity of the semaphore.                              *)
(***************************************************************************)
EXTENDS Poller, FiniteSetTheorems, TLAPS

\* The badge is up exactly from SetPolling to MarkPoll, and a failed cycle
\* reaches its upserts after MarkPoll.
BadgeInv ==
    polling <=> \/ pc \in {"collect", "resolve", "fan", "mark"}
                \/ pc = "upsert" /\ ~failed

\* The semaphore and the WaitGroup count the goroutines that still have to give back a
\* slot and to end.
PoolInv ==
    /\ sem = Cardinality(With(Holding)) /\ sem <= Concurrent
    /\ wg = Cardinality(With(Working))
    /\ pc # "fan" => With(Working) = {}

\* A result is there from the moment its goroutine has sent it.
SentInv ==
    \A a \in Addresses : result[a] = "none" <=> worker[a] \in {"idle", "queued", "running"}

LoopInv == TypeOK /\ BadgeInv /\ PoolInv /\ SentInv

-----------------------------------------------------------------------------
\* Goroutines can be counted, and one that comes or goes counts once.
LEMMA Counting ==
    ASSUME PollerAssumption
    PROVE  /\ \A S \in SUBSET Addresses : IsFiniteSet(S) /\ Cardinality(S) \in Nat
           /\ \A S \in SUBSET Addresses : Cardinality(S) = 0 <=> S = {}
           /\ \A S \in SUBSET Addresses, a \in Addresses :
                a \notin S => Cardinality(S \cup {a}) = Cardinality(S) + 1
           /\ \A S, T \in SUBSET Addresses : S \subseteq T => Cardinality(S) <= Cardinality(T)
<1>1. \A S \in SUBSET Addresses : IsFiniteSet(S)
  BY FS_Subset DEF PollerAssumption
<1> QED BY <1>1, FS_CardinalityType, FS_EmptySet, FS_AddElement, FS_Subset

\* A goroutine that moves leaves or joins a set of places, or does neither.
LEMMA MovesWith ==
    ASSUME TypeOK, NEW a \in Addresses, NEW from, NEW to, Moves(a, from, to), NEW S
    PROVE  /\ With(S) \in SUBSET Addresses /\ With(S)' \in SUBSET Addresses
           /\ from \in S /\ to \in S => With(S)' = With(S)
           /\ from \notin S /\ to \notin S => With(S)' = With(S)
           /\ from \notin S /\ to \in S => a \notin With(S) /\ With(S)' = With(S) \cup {a}
           /\ from \in S /\ to \notin S => a \notin With(S)' /\ With(S) = With(S)' \cup {a}
<1>1. /\ worker[a] = from /\ worker'[a] = to
      /\ \A b \in Addresses : b # a => worker'[b] = worker[b]
  BY DEF Moves, TypeOK
<1> QED BY <1>1 DEF With

\* What a step that leaves the goroutines alone says about them stays true.
LEMMA SamePool ==
    ASSUME UNCHANGED pool
    PROVE  /\ \A S : With(S)' = With(S) /\ Sent(S)' = Sent(S)
           /\ UNCHANGED <<worker, result, sem, wg>>
BY DEF pool, With, Sent

\* A move between two places of a goroutine at work, for whatever becomes of the slots,
\* the WaitGroup and the result.
LEMMA MoveKeeps ==
    ASSUME LoopInv, NEW a \in Addresses, NEW from \in Working, NEW to \in {"gone"} \cup Working,
           Moves(a, from, to), sem' \in Nat, wg' \in Nat,
           result' \in [Addresses -> {"none"} \cup Results],
           \A b \in Addresses : b # a => result'[b] = result[b],
           result'[a] = "none" <=> to \in {"queued", "running"}
    PROVE  pc = "fan" /\ TypeOK' /\ BadgeInv' /\ SentInv'
<1> USE DEF LoopInv, TypeOK, Working, Holding
<1>1. pc = "fan"
  <2>1. a \in With(Working)
    BY DEF Moves, With
  <2> QED BY <2>1 DEF PoolInv
<1>2. /\ worker' = [worker EXCEPT ![a] = to]
      /\ UNCHANGED <<cancelled, pc, ticker, kick, polling, lastPollErr, failed, source, client, covered>>
  BY DEF Moves
<1>3. TypeOK'
  <2>1. worker' \in [Addresses -> {"idle", "gone"} \cup Working]
    BY <1>2
  <2>2. pc' = "fan"
    BY <1>1, <1>2
  <2> QED BY <1>2, <2>1, <2>2 DEF source, Steps
<1>4. BadgeInv'
  BY <1>2 DEF BadgeInv
<1>5. SentInv'
  <2> SUFFICES ASSUME NEW b \in Addresses
               PROVE  result'[b] = "none" <=> worker'[b] \in {"idle", "queued", "running"}
    BY DEF SentInv
  <2>1. CASE b = a
    <3>1. worker'[a] = to
      BY <1>2
    <3> QED BY <2>1, <3>1
  <2>2. CASE b # a
    <3>1. worker'[b] = worker[b] /\ result'[b] = result[b]
      BY <1>2, <2>2
    <3> QED BY <3>1 DEF SentInv
  <2> QED BY <2>1, <2>2
<1> QED BY <1>1, <1>3, <1>4, <1>5

\* The worker goroutines of Collect.
LEMMA WorkerKeeps ==
    ASSUME PollerAssumption, LoopInv, NEW a \in Addresses, Worker(a)
    PROVE  LoopInv'
<1>0. /\ TypeOK /\ PoolInv /\ SentInv
      /\ sem \in Nat /\ wg \in Nat /\ Concurrent \in Nat
      /\ result \in [Addresses -> {"none"} \cup Results]
  BY DEF LoopInv, TypeOK, PollerAssumption
<1> DEFINE H == With(Holding)
           W == With(Working)
<1>1. CASE GiveUp(a)
  <2>1. Moves(a, "queued", "leaving") /\ result' = [result EXCEPT ![a] = "cancelled"]
        /\ sem' = sem /\ wg' = wg
    BY <1>1 DEF GiveUp
  <2>2. H' = H /\ W' = W
    BY <1>0, <2>1, MovesWith DEF Holding, Working
  <2>3. pc = "fan" /\ TypeOK' /\ BadgeInv' /\ SentInv'
    <3>1. /\ result' \in [Addresses -> {"none"} \cup Results] /\ result'[a] = "cancelled"
          /\ \A b \in Addresses : b # a => result'[b] = result[b]
      BY <1>0, <2>1 DEF Results
    <3> QED BY <1>0, <2>1, <3>1, MoveKeeps DEF Working, Holding
  <2>4. pc' = "fan"
    BY <2>1, <2>3 DEF Moves
  <2> QED BY <1>0, <2>1, <2>2, <2>3, <2>4 DEF LoopInv, PoolInv
<1>2. CASE Acquire(a)
  <2>1. Moves(a, "queued", "running") /\ result' = result /\ sem < Concurrent
        /\ sem' = sem + 1 /\ wg' = wg
    BY <1>2 DEF Acquire
  <2>2. a \notin H /\ H' = H \cup {a} /\ W' = W /\ H \in SUBSET Addresses
    BY <1>0, <2>1, MovesWith DEF Holding, Working
  <2>3. pc = "fan" /\ TypeOK' /\ BadgeInv' /\ SentInv'
    <3>1. result'[a] = "none"
      BY <1>0, <2>1 DEF SentInv, Moves
    <3>2. sem' \in Nat
      BY <1>0, <2>1
    <3> QED BY <1>0, <2>1, <3>1, <3>2, MoveKeeps DEF Working, Holding
  <2>4. pc' = "fan"
    BY <2>1, <2>3 DEF Moves
  <2>5. Cardinality(H') = Cardinality(H) + 1
    BY <2>2, Counting
  <2> HIDE DEF H, W
  <2>6. sem' = Cardinality(H') /\ sem' <= Concurrent /\ wg' = Cardinality(W')
    BY <1>0, <2>1, <2>2, <2>5 DEF PoolInv, H, W
  <2> QED BY <2>3, <2>4, <2>6 DEF LoopInv, PoolInv, H, W
<1>3. CASE Finish(a)
  <2>1. PICK r \in {"ok", "error"} :
          Moves(a, "running", "answered") /\ result' = [result EXCEPT ![a] = r]
          /\ sem' = sem /\ wg' = wg
    BY <1>3 DEF Finish
  <2>2. H' = H /\ W' = W
    BY <1>0, <2>1, MovesWith DEF Holding, Working
  <2>3. pc = "fan" /\ TypeOK' /\ BadgeInv' /\ SentInv'
    <3>1. /\ result' \in [Addresses -> {"none"} \cup Results] /\ result'[a] # "none"
          /\ \A b \in Addresses : b # a => result'[b] = result[b]
      BY <1>0, <2>1 DEF Results
    <3> QED BY <1>0, <2>1, <3>1, MoveKeeps DEF Working, Holding
  <2>4. pc' = "fan"
    BY <2>1, <2>3 DEF Moves
  <2> QED BY <1>0, <2>1, <2>2, <2>3, <2>4 DEF LoopInv, PoolInv
<1>4. CASE Release(a)
  <2>1. Moves(a, "answered", "leaving") /\ result' = result /\ sem > 0
        /\ sem' = sem - 1 /\ wg' = wg
    BY <1>4 DEF Release
  <2>2. a \notin H' /\ H = H' \cup {a} /\ W' = W /\ H' \in SUBSET Addresses
    BY <1>0, <2>1, MovesWith DEF Holding, Working
  <2>3. pc = "fan" /\ TypeOK' /\ BadgeInv' /\ SentInv'
    <3>1. result'[a] # "none"
      BY <1>0, <2>1 DEF SentInv, Moves
    <3>2. sem' \in Nat
      BY <1>0, <2>1
    <3> QED BY <1>0, <2>1, <3>1, <3>2, MoveKeeps DEF Working, Holding
  <2>4. pc' = "fan"
    BY <2>1, <2>3 DEF Moves
  <2>5. Cardinality(H) = Cardinality(H') + 1 /\ Cardinality(H') \in Nat
    BY <2>2, Counting
  <2> HIDE DEF H, W
  <2>6. sem' = Cardinality(H') /\ sem' <= Concurrent /\ wg' = Cardinality(W')
    BY <1>0, <2>1, <2>2, <2>5 DEF PoolInv, H, W
  <2> QED BY <2>3, <2>4, <2>6 DEF LoopInv, PoolInv, H, W
<1>5. CASE Leave(a)
  <2>1. Moves(a, "leaving", "gone") /\ result' = result /\ sem' = sem /\ wg' = wg - 1
    BY <1>5 DEF Leave
  <2>2. a \notin W' /\ W = W' \cup {a} /\ H' = H /\ W' \in SUBSET Addresses
    BY <1>0, <2>1, MovesWith DEF Holding, Working
  <2>3. Cardinality(W) = Cardinality(W') + 1 /\ Cardinality(W') \in Nat
    BY <2>2, Counting
  <2>4. wg' \in Nat /\ wg' = Cardinality(W')
    BY <1>0, <2>1, <2>3 DEF PoolInv
  <2>5. pc = "fan" /\ TypeOK' /\ BadgeInv' /\ SentInv'
    <3>1. result'[a] # "none"
      BY <1>0, <2>1 DEF SentInv, Moves
    <3> QED BY <1>0, <2>1, <2>4, <3>1, MoveKeeps DEF Working, Holding
  <2>6. pc' = "fan"
    BY <2>1, <2>5 DEF Moves
  <2> QED BY <1>0, <2>1, <2>2, <2>4, <2>5, <2>6 DEF LoopInv, PoolInv
<1> QED BY <1>1, <1>2, <1>3, <1>4, <1>5 DEF Worker

\* The steps of Run's goroutine that leave the workers alone.
LEMMA RunnerKeeps ==
    ASSUME PollerAssumption, LoopInv, UNCHANGED pool,
           \/ StartTick \/ StartCollect \/ Collected \/ Upserted
           \/ MarkPoll \/ Retain \/ Prune \/ Stop \/ TakeTick \/ TakeKick
    PROVE  LoopInv'
<1>0. /\ \A S : With(S)' = With(S) /\ Sent(S)' = Sent(S)
      /\ UNCHANGED <<worker, result, sem, wg>>
  BY SamePool
<1>1. SentInv'
  BY <1>0 DEF LoopInv, SentInv
<1>2. ASSUME With(Working) # {} => pc' = "fan"
      PROVE  PoolInv'
  BY <1>0, <1>2 DEF LoopInv, PoolInv
<1> USE DEF LoopInv, TypeOK, BadgeInv, Steps, Results
<1>3. CASE StartTick
  <2>1. PoolInv'
    BY <1>2, <1>3 DEF StartTick, PoolInv
  <2> QED BY <1>0, <1>1, <1>3, <2>1 DEF StartTick, source
<1>4. CASE StartCollect
  <2>1. PoolInv'
    BY <1>2, <1>4 DEF StartCollect, PoolInv
  <2> QED BY <1>0, <1>1, <1>4, <2>1 DEF StartCollect, source
<1>5. CASE Collected
  <2>1. PoolInv'
    <3>1. Cardinality(With(Working)) = 0 /\ With(Working) \in SUBSET Addresses
      BY <1>5 DEF Collected, PoolInv, With
    <3>2. With(Working) = {}
      BY <3>1, Counting
    <3> QED BY <1>2, <3>2
  <2>2. ~failed' /\ pc' = "upsert"
    BY <1>5 DEF Collected, Usable, Sent
  <2> QED BY <1>0, <1>1, <1>5, <2>1, <2>2 DEF Collected, source
<1>6. CASE Upserted
  <2>1. PoolInv'
    BY <1>2, <1>6 DEF Upserted, PoolInv
  <2> QED BY <1>0, <1>1, <1>6, <2>1 DEF Upserted, source
<1>7. CASE MarkPoll
  <2>1. PoolInv'
    BY <1>2, <1>7 DEF MarkPoll, PoolInv
  <2> QED BY <1>0, <1>1, <1>7, <2>1 DEF MarkPoll, source
<1>8. CASE Retain
  <2>1. PoolInv'
    BY <1>2, <1>8 DEF Retain, PoolInv
  <2> QED BY <1>0, <1>1, <1>8, <2>1 DEF Retain, source
<1>9. CASE Prune
  <2>1. /\ pc = "prune" /\ pc' = "select" /\ failed' = FALSE
        /\ ticker' \in {ticker, "armed"} /\ discovered' \subseteq discovered
        /\ covered' = [c \in Clients |-> IF covered[c] = "scanned" THEN "done" ELSE covered[c]]
        /\ UNCHANGED <<cancelled, kick, polling, lastPollErr, scanned, due, forceRescan, client>>
    BY <1>9 DEF Prune
  <2>2. covered' \in [Clients -> {"none", "asked", "scanned", "done"}]
    BY <2>1
  <2>3. PoolInv'
    BY <1>2, <2>1 DEF PoolInv
  <2> QED BY <1>0, <1>1, <2>1, <2>2, <2>3
<1>10. CASE Stop
  <2>1. PoolInv'
    BY <1>2, <1>10 DEF Stop, PoolInv
  <2> QED BY <1>0, <1>1, <1>10, <2>1 DEF Stop, source
<1>11. CASE TakeTick
  <2>1. PoolInv'
    BY <1>2, <1>11 DEF TakeTick, PoolInv
  <2> QED BY <1>0, <1>1, <1>11, <2>1 DEF TakeTick, source
<1>12. CASE TakeKick
  <2>1. PoolInv'
    BY <1>2, <1>12 DEF TakeKick, PoolInv
  <2> QED BY <1>0, <1>1, <1>12, <2>1 DEF TakeKick, source
<1> QED BY <1>3, <1>4, <1>5, <1>6, <1>7, <1>8, <1>9, <1>10, <1>11, <1>12

\* resolveIPs starts the workers of a cycle, or none.
LEMMA ResolveKeeps ==
    ASSUME PollerAssumption, LoopInv, ResolveIPs
    PROVE  LoopInv'
<1> USE DEF LoopInv, TypeOK, Steps, Results
<1>1. PICK found \in SUBSET Addresses :
        /\ discovered' = discovered \cup found
        /\ LET ips == Static \cup discovered \cup found
           IN  /\ worker' = [a \in Addresses |-> IF a \in ips THEN "queued" ELSE "idle"]
               /\ wg' = Cardinality(ips)
               /\ failed' = (ips = {})
               /\ pc' = IF ips = {} THEN "mark" ELSE "fan"
  BY DEF ResolveIPs
<1> DEFINE ips == Static \cup discovered \cup found
<1>2. ips \in SUBSET Addresses /\ Cardinality(ips) \in Nat /\ Cardinality({}) = 0
  BY Counting DEF PollerAssumption
<1>3. /\ worker' = [a \in Addresses |-> IF a \in ips THEN "queued" ELSE "idle"]
      /\ result' = [a \in Addresses |-> "none"] /\ sem' = 0 /\ wg' = Cardinality(ips)
      /\ pc' = (IF ips = {} THEN "mark" ELSE "fan") /\ failed' = (ips = {})
  BY <1>1 DEF ResolveIPs
<1> HIDE DEF ips
<1>4. With(Holding)' = {} /\ With(Working)' = ips /\ Sent(Results)' = {}
  BY <1>2, <1>3 DEF With, Sent, Holding, Working
<1>5. TypeOK'
  <2>1. worker' \in [Addresses -> {"idle", "gone"} \cup Working]
        /\ result' \in [Addresses -> {"none"} \cup Results] /\ sem' \in Nat /\ wg' \in Nat
    BY <1>2, <1>3 DEF Working
  <2>2. discovered' \subseteq Addresses /\ failed' \in BOOLEAN /\ pc' \in Steps
    BY <1>1, <1>3
  <2> QED BY <1>4, <2>1, <2>2 DEF ResolveIPs, ShouldScan, PollerAssumption
<1>6. BadgeInv'
  BY <1>3 DEF ResolveIPs, BadgeInv
<1>7. PoolInv'
  BY <1>2, <1>3, <1>4 DEF PoolInv, PollerAssumption
<1>8. SentInv'
  BY <1>3 DEF SentInv
<1> QED BY <1>5, <1>6, <1>7, <1>8

\* One result goes into the store, after every goroutine is gone.
LEMMA UpsertKeeps ==
    ASSUME LoopInv, NEW a \in Addresses, Upsert(a)
    PROVE  LoopInv'
<1> USE DEF LoopInv, TypeOK, Steps, Results
<1>1. /\ With(Working) = {} /\ pc = "upsert" /\ sem' = sem /\ wg' = wg /\ pc' = pc
      /\ worker' = [worker EXCEPT ![a] = "idle"] /\ result' = [result EXCEPT ![a] = "none"]
  BY DEF Upsert, PoolInv
<1>2. With(Working)' = {} /\ With(Holding)' = {} /\ With(Holding) = {}
  <2>1. \A b \in Addresses : worker[b] \notin Working
    BY <1>1 DEF With
  <2>2. \A b \in Addresses : worker'[b] \notin Working
    BY <1>1, <2>1 DEF Working, Holding
  <2>3. Holding \subseteq Working
    BY DEF Working
  <2> QED BY <2>1, <2>2, <2>3 DEF With
<1>3. TypeOK'
  <2>1. worker' \in [Addresses -> {"idle", "gone"} \cup Working]
        /\ result' \in [Addresses -> {"none"} \cup Results]
    BY <1>1
  <2> QED BY <1>1, <2>1 DEF Upsert, source
<1>4. PoolInv'
  BY <1>1, <1>2 DEF PoolInv
<1>5. BadgeInv'
  BY DEF Upsert, BadgeInv
<1>6. SentInv'
  BY <1>1 DEF SentInv
<1> QED BY <1>3, <1>4, <1>5, <1>6

\* Handlers, browsers, time and signals.
LEMMA OthersKeep ==
    ASSUME LoopInv, UNCHANGED pool,
           \/ \E c \in Clients : RequestFlag(c) \/ RequestKick(c) \/ SeesIdle(c) \/ TimesOut(c)
           \/ TickerFires \/ IntervalPasses \/ Cancel
           \/ UNCHANGED vars
    PROVE  LoopInv'
<1> USE DEF LoopInv, TypeOK
<1>0. /\ \A S : With(S)' = With(S) /\ Sent(S)' = Sent(S)
      /\ UNCHANGED <<worker, result, sem, wg>>
  BY SamePool
<1>1. UNCHANGED <<pc, polling, failed>>
  BY DEF RequestFlag, RequestKick, SeesIdle, TimesOut, TickerFires, IntervalPasses, Cancel, vars
<1>2. BadgeInv' /\ PoolInv' /\ SentInv'
  BY <1>0, <1>1 DEF BadgeInv, PoolInv, SentInv
<1>3. TypeOK'
  <2>0. /\ Sent(Results)' # {} => pc' \in {"fan", "upsert"}
        /\ worker' \in [Addresses -> {"idle", "gone"} \cup Working]
        /\ result' \in [Addresses -> {"none"} \cup Results] /\ sem' \in Nat /\ wg' \in Nat
        /\ pc' \in Steps /\ polling' \in BOOLEAN /\ failed' \in BOOLEAN
    BY <1>0, <1>1
  <2>1. ASSUME NEW c \in Clients, RequestFlag(c) \/ RequestKick(c) PROVE TypeOK'
    <3>1. CASE RequestFlag(c)
      BY <2>0, <3>1 DEF RequestFlag
    <3>2. CASE RequestKick(c)
      BY <2>0, <3>2 DEF RequestKick, source
    <3> QED BY <2>1, <3>1, <3>2
  <2>2. CASE \E c \in Clients : SeesIdle(c) \/ TimesOut(c)
    BY <2>0, <2>2 DEF SeesIdle, TimesOut, source
  <2>3. CASE TickerFires \/ Cancel \/ UNCHANGED vars
    BY <2>0, <2>3, ZenonT(60) DEF TickerFires, Cancel, vars, source
  <2>4. CASE IntervalPasses
    BY <2>0, <2>4 DEF IntervalPasses
  <2> QED BY <2>1, <2>2, <2>3, <2>4
<1> QED BY <1>2, <1>3

\* The loop's invariant holds at every step.
LEMMA LoopInvariant == Spec => []LoopInv
<1> USE PollerAssumption
<1>1. Init => LoopInv
  <2> SUFFICES ASSUME Init PROVE LoopInv
    OBVIOUS
  <2>1. \A S \in {Holding, Working} : With(S) = {}
    BY DEF Init, With, Holding, Working
  <2>2. Sent(Results) = {}
    BY DEF Init, Sent, Results
  <2>3. Cardinality({}) = 0
    BY FS_EmptySet
  <2>4. TypeOK
    BY <2>2 DEF Init, TypeOK, Steps
  <2>5. PoolInv /\ SentInv /\ BadgeInv
    BY <2>1, <2>3 DEF Init, PoolInv, SentInv, BadgeInv, PollerAssumption
  <2> QED BY <2>4, <2>5 DEF LoopInv
<1>2. LoopInv /\ [Next]_vars => LoopInv'
  <2> SUFFICES ASSUME LoopInv, [Next]_vars PROVE LoopInv'
    OBVIOUS
  <2>1. CASE \E a \in Addresses : Worker(a)
    BY <2>1, WorkerKeeps
  <2>2. CASE \E a \in Addresses : Upsert(a)
    BY <2>2, UpsertKeeps
  <2>3. CASE ResolveIPs
    BY <2>3, ResolveKeeps
  <2>4. CASE StartTick \/ StartCollect \/ Collected \/ Upserted \/ MarkPoll
               \/ Retain \/ Prune \/ Stop \/ TakeTick \/ TakeKick
    <3>1. UNCHANGED pool
      BY <2>4 DEF StartTick, StartCollect, Collected, Upserted, MarkPoll, Retain, Prune, Stop,
                  TakeTick, TakeKick
    <3> QED BY <2>4, <3>1, RunnerKeeps
  <2>5. CASE \/ \E c \in Clients : RequestFlag(c) \/ RequestKick(c) \/ SeesIdle(c) \/ TimesOut(c)
             \/ TickerFires \/ IntervalPasses \/ Cancel \/ UNCHANGED vars
    <3>1. UNCHANGED pool
      BY <2>5 DEF RequestFlag, RequestKick, SeesIdle, TimesOut, TickerFires, IntervalPasses, Cancel, vars
    <3> QED BY <2>5, <3>1, OthersKeep
  <2> QED BY <2>1, <2>2, <2>3, <2>4, <2>5 DEF Next, Runner
<1> QED BY <1>1, <1>2, PTL DEF Spec

-----------------------------------------------------------------------------
\* Types, and that a cycle's results are in the store before its fleet is pruned.
THEOREM PollerType == Spec => []TypeOK
<1>1. LoopInv => TypeOK
  BY DEF LoopInv
<1> QED BY <1>1, LoopInvariant, PTL

\* The polling flag of /api/meta is up while Collect works and until the results of
\* a successful cycle are in the store, and down whenever the loop waits.
THEOREM PollerHonest == Spec => []PollingHonest
<1>1. LoopInv => PollingHonest
  BY DEF LoopInv, BadgeInv, PollingHonest
<1> QED BY <1>1, LoopInvariant, PTL

\* The slots of the semaphore are those of the goroutines that have one to give back, so
\* the polls that run at once are within its capacity, however each of them ends.
THEOREM PollerBounded == Spec => []PollsBounded
<1>1. LoopInv => PollsBounded
  <2> SUFFICES ASSUME LoopInv PROVE PollsBounded
    OBVIOUS
  <2>1. /\ With({"running"}) \subseteq With(Holding)
        /\ With({"running"}) \in SUBSET Addresses /\ With(Holding) \in SUBSET Addresses
    BY DEF With, Holding
  <2>2. Cardinality(With({"running"})) <= Cardinality(With(Holding))
        /\ Cardinality(With({"running"})) \in Nat /\ Cardinality(With(Holding)) \in Nat
    BY <2>1, PollerAssumption, Counting
  <2>3. Cardinality(With(Holding)) = sem /\ sem <= Concurrent /\ Concurrent \in Nat
    BY PollerAssumption DEF LoopInv, PoolInv, PollerAssumption
  <2> QED BY <2>2, <2>3 DEF PollsBounded
<1> QED BY <1>1, LoopInvariant, PTL

\* A cycle that has a goroutine or a result has not failed.
NotFailed == pc = "fan" \/ Sent(Results) # {} => ~failed

\* A cycle without addresses fails before it starts a goroutine; afterwards a result that
\* keeps a cycle from failing is there, since even one that was cut short does.
LEMMA ResultsCount ==
    ASSUME LoopInv, NotFailed, [Next]_vars
    PROVE  NotFailed'
<1>1. CASE \E a \in Addresses : Worker(a)
  <2>1. PICK a \in Addresses : Worker(a)
    BY <1>1
  <2>2. a \in With(Working) /\ UNCHANGED <<pc, failed>>
    BY <2>1 DEF Worker, GiveUp, Acquire, Finish, Release, Leave, Moves, With, Working, Holding
  <2>3. pc = "fan"
    BY <2>2 DEF LoopInv, PoolInv
  <2> QED BY <2>2, <2>3 DEF NotFailed
<1>2. CASE \E a \in Addresses : Upsert(a)
  <2>1. PICK a \in Addresses : Upsert(a)
    BY <1>2
  <2>2. UNCHANGED <<pc, failed>> /\ result' = [result EXCEPT ![a] = "none"] /\ "none" \notin Results
    BY <2>1 DEF Upsert, Results
  <2>3. Sent(Results)' \subseteq Sent(Results)
    BY <2>2 DEF Sent, LoopInv, TypeOK
  <2> QED BY <2>2, <2>3 DEF NotFailed
<1>3. CASE ResolveIPs
  <2>1. result' = [a \in Addresses |-> "none"] /\ (pc' = "fan" => ~failed')
    BY <1>3 DEF ResolveIPs
  <2>2. Sent(Results)' = {}
    BY <2>1 DEF Sent, Results
  <2> QED BY <2>1, <2>2 DEF NotFailed
<1>4. CASE StartCollect
  <2>1. pc = "collect" /\ pc' # "fan" /\ UNCHANGED pool
    BY <1>4 DEF StartCollect
  <2>2. Sent(Results)' = Sent(Results) /\ Sent(Results) = {}
    BY <2>1, SamePool DEF LoopInv, TypeOK
  <2> QED BY <2>1, <2>2 DEF NotFailed
<1>5. CASE Collected \/ Prune
  <2>1. ~failed'
    BY <1>5 DEF Collected, Usable, Sent, Prune
  <2> QED BY <2>1 DEF NotFailed
<1>6. ASSUME UNCHANGED <<pool, failed>>, pc' = "fan" => pc = "fan"
      PROVE  NotFailed'
  <2>1. Sent(Results)' = Sent(Results)
    BY <1>6, SamePool
  <2> QED BY <1>6, <2>1 DEF NotFailed
<1>7. CASE StartTick \/ Upserted \/ MarkPoll \/ Retain \/ Stop \/ TakeTick \/ TakeKick
  <2>1. UNCHANGED <<pool, failed>> /\ pc' # "fan"
    BY <1>7 DEF StartTick, Upserted, MarkPoll, Retain, Stop, TakeTick, TakeKick
  <2> QED BY <1>6, <2>1
<1>8. CASE \/ \E c \in Clients : RequestFlag(c) \/ RequestKick(c) \/ SeesIdle(c) \/ TimesOut(c)
           \/ TickerFires \/ IntervalPasses \/ Cancel \/ UNCHANGED vars
  <2>1. UNCHANGED <<pool, failed, pc>>
    BY <1>8 DEF RequestFlag, RequestKick, SeesIdle, TimesOut, TickerFires, IntervalPasses, Cancel, vars
  <2> QED BY <1>6, <2>1
<1> QED BY <1>1, <1>2, <1>3, <1>4, <1>5, <1>7, <1>8 DEF Next, Runner

\* Collect goes on when its goroutines are gone, has a result of every address and does
\* not fail if one is an answer, for any number of addresses, failures and cancellations.
THEOREM PollerComplete == Spec => []CycleComplete
<1>1. Init => NotFailed
  BY DEF Init, NotFailed
<1>2. LoopInv /\ NotFailed /\ [Next]_vars => NotFailed'
  BY ResultsCount
<1>3. LoopInv /\ NotFailed => CycleComplete
  <2> SUFFICES ASSUME LoopInv, NotFailed PROVE CycleComplete
    OBVIOUS
  <2>1. ASSUME pc # "fan", NEW a \in Addresses
        PROVE  \/ worker[a] = "idle" /\ result[a] = "none"
               \/ worker[a] = "gone" /\ result[a] \in Results
    <3>1. worker[a] \in {"idle", "gone"}
      BY <2>1 DEF LoopInv, TypeOK, PoolInv, With
    <3> QED BY <3>1 DEF LoopInv, TypeOK, SentInv
  <2>2. Sent({"ok"}) # {} => ~failed
    BY DEF NotFailed, Sent, Results
  <2> QED BY <2>1, <2>2 DEF CycleComplete
<1> QED BY <1>1, <1>2, <1>3, LoopInvariant, PTL DEF Spec

\* No request is lost between its flag and its kick, for any number of handlers.
THEOREM PollerNoLostRescan == Spec => []NoLostRescan
<1>1. Init => NoLostRescan
  BY DEF Init, NoLostRescan
<1>2. LoopInv /\ NoLostRescan /\ [Next]_vars => NoLostRescan'
  <2> SUFFICES ASSUME LoopInv, NoLostRescan, [Next]_vars PROVE NoLostRescan'
    OBVIOUS
  <2> USE DEF NoLostRescan, source
  <2>1. CASE \E a \in Addresses : Worker(a) \/ Upsert(a)
    <3>1. UNCHANGED <<cancelled, kick, pc, forceRescan, client>>
      BY <2>1 DEF Worker, GiveUp, Acquire, Finish, Release, Leave, Moves, Upsert
    <3> QED BY <3>1
  <2>2. CASE ResolveIPs
    BY <2>2 DEF ResolveIPs
  <2>3. CASE StartTick \/ StartCollect \/ TakeTick \/ TakeKick \/ Stop
    <3>1. CASE StartTick
      BY <3>1 DEF StartTick
    <3>2. CASE StartCollect
      BY <3>2 DEF StartCollect
    <3>3. CASE TakeTick \/ TakeKick
      BY <3>3 DEF TakeTick, TakeKick
    <3>4. CASE Stop
      BY <3>4 DEF Stop
    <3> QED BY <2>3, <3>1, <3>2, <3>3, <3>4
  <2>4. CASE Collected \/ Upserted \/ MarkPoll \/ Retain \/ Prune
    BY <2>4 DEF Collected, Upserted, MarkPoll, Retain, Prune
  <2>5. ASSUME NEW c \in Clients, RequestFlag(c) PROVE NoLostRescan'
    BY <2>5 DEF RequestFlag, LoopInv, TypeOK
  <2>6. ASSUME NEW c \in Clients, RequestKick(c) PROVE NoLostRescan'
    BY <2>6 DEF RequestKick
  <2>7. ASSUME NEW c \in Clients, SeesIdle(c) \/ TimesOut(c) PROVE NoLostRescan'
    <3>1. \A d \in Clients : client'[d] = "flagged" <=> client[d] = "flagged"
      BY <2>7 DEF SeesIdle, TimesOut, LoopInv, TypeOK
    <3> QED BY <2>7, <3>1 DEF SeesIdle, TimesOut
  <2>8. CASE TickerFires \/ IntervalPasses \/ Cancel \/ UNCHANGED vars
    BY <2>8 DEF TickerFires, IntervalPasses, Cancel, vars
  <2> QED BY <2>1, <2>2, <2>3, <2>4, <2>5, <2>6, <2>7, <2>8 DEF Next, Runner, Worker
<1> QED BY <1>1, <1>2, LoopInvariant, PTL DEF Spec
=============================================================================
