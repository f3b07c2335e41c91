------------------------------- MODULE Poller -------------------------------
(***************************************************************************)
(* The poll loop of internal/poller: Runner.Run and its ticks, AsicSource   *)
(* with its scan bookkeeping and its worker goroutines, the rescan requests *)
(* of HTTP handlers, and the browser that waits for its rescan              *)
(* (waitUntilIdle in web/static/app.js).                                    *)
(*                                                                          *)
(* resolveIPs holds AsicSource.mu from the decision to scan to the list of  *)
(* addresses, so it is one step; a handler that wants the lock meanwhile    *)
(* waits, which is the order handler-after-scan.  What the scan finds and   *)
(* how a poll ends are choices of the environment; the store is module      *)
(* Store, seen here as the addresses Prune returns.  pollMu is taken by     *)
(* Run's goroutine only: TryLock never fails and is left out.               *)
(***************************************************************************)
EXTENDS Integers, FiniteSets

CONSTANTS
    Addresses,      \* IP addresses a scan can find
    Static,         \* configured addresses, always polled
    ScanTargets,    \* TRUE if subnets or ranges are configured
    RescanEvery,    \* TRUE if rescan_interval is positive
    Concurrent,     \* capacity of the semaphore
    Clients         \* browsers that press Rescan

ASSUME PollerAssumption ==
    /\ IsFiniteSet(Addresses) /\ Static \subseteq Addresses
    /\ ScanTargets \in BOOLEAN /\ RescanEvery \in BOOLEAN
    /\ Concurrent \in Nat \ {0}

VARIABLES
    cancelled,      \* the context of Run is done
    pc,             \* where Run's goroutine is
    ticker,         \* "off" until the first tick returns, then "armed" or "fired"
    kick,           \* Runner.kick holds a token
    polling,        \* Store.polling
    lastPollErr,    \* Store.lastPollErr is not empty
    failed,         \* the current Collect returned an error
    discovered,     \* AsicSource.discovered
    scanned,        \* AsicSource.lastScan is not zero
    due,            \* rescan_interval has passed since lastScan
    forceRescan,    \* AsicSource.forceRescan
    worker,         \* address -> where its goroutine in this cycle is
    result,         \* address -> what its goroutine sent to Collect
    sem,            \* slots taken of the semaphore of this cycle
    wg,             \* the WaitGroup of this cycle
    client,         \* browser -> where its click handler is
    covered         \* history: browser -> how far the rescan it asked for has come

source == <<discovered, scanned, due, forceRescan>>
pool == <<worker, result, sem, wg>>
vars == <<cancelled, pc, ticker, kick, polling, lastPollErr, failed, source,
          pool, client, covered>>

Steps == {"tick", "collect", "resolve", "fan", "upsert", "mark", "retain", "prune",
          "select", "done"}
\* A goroutine that sent its result still has its slot, and one that gave the slot back
\* or never had one is still counted by the WaitGroup: Go runs deferred calls in turn.
Holding == {"running", "answered"}
Working == {"queued", "leaving"} \cup Holding
Results == {"ok", "error", "cancelled"}

With(state) == {a \in Addresses : worker[a] \in state}
Sent(kind) == {a \in Addresses : result[a] \in kind}

-----------------------------------------------------------------------------
(* tick *)

\* tick up to SetPolling: a cancelled context returns to the select.
StartTick ==
    /\ pc = "tick"
    /\ IF cancelled THEN pc' = "select" /\ UNCHANGED polling
                    ELSE pc' = "collect" /\ polling' = TRUE
    /\ ticker' = IF cancelled /\ ticker = "off" THEN "armed" ELSE ticker
    /\ UNCHANGED <<cancelled, kick, lastPollErr, failed, source, pool, client, covered>>

\* Collect: the first look at the context.
StartCollect ==
    /\ pc = "collect"
    /\ failed' = cancelled
    /\ pc' = IF cancelled THEN "mark" ELSE "resolve"
    /\ UNCHANGED <<cancelled, ticker, kick, polling, lastPollErr, source, pool, client, covered>>

\* shouldScanLocked, apart from its consuming forceRescan.
ShouldScan == ScanTargets /\ (forceRescan \/ ~scanned \/ (RescanEvery /\ due))

\* resolveIPs: a scan adds what it finds (an error in one subnet loses only that
\* subnet), and the cycle polls static and discovered addresses, if there are any, with
\* a semaphore and a WaitGroup of its own.
ResolveIPs ==
    /\ pc = "resolve"
    /\ \E found \in (IF ShouldScan THEN SUBSET Addresses ELSE {{}}) :
         /\ discovered' = discovered \cup found
         /\ LET ips == Static \cup discovered \cup found
            IN  /\ worker' = [a \in Addresses |-> IF a \in ips THEN "queued" ELSE "idle"]
                /\ wg' = Cardinality(ips)
                /\ failed' = (ips = {})
                /\ pc' = IF ips = {} THEN "mark" ELSE "fan"
    /\ result' = [a \in Addresses |-> "none"]
    /\ sem' = 0
    /\ scanned' = (scanned \/ ShouldScan)
    /\ due' = (due /\ ~ShouldScan)
    /\ forceRescan' = (forceRescan /\ ~ScanTargets)
    /\ covered' = [c \in Clients |-> IF ShouldScan /\ covered[c] = "asked" THEN "scanned"
                                     ELSE covered[c]]
    /\ UNCHANGED <<cancelled, ticker, kick, polling, lastPollErr, client>>

-----------------------------------------------------------------------------
(* The goroutine of an address in Collect. *)

\* It goes from one place to the next; the loop and everybody else stay where they are.
Moves(a, from, to) ==
    /\ worker[a] = from
    /\ worker' = [worker EXCEPT ![a] = to]
    /\ UNCHANGED <<cancelled, pc, ticker, kick, polling, lastPollErr, failed, source, client, covered>>

\* Mutant: the worker returns without a word.
GiveUpSilently(a) ==
    /\ cancelled
    /\ Moves(a, "queued", "leaving")
    /\ UNCHANGED <<result, sem, wg>>

\* Its select: the context ...
GiveUp(a) ==
    /\ cancelled
    /\ Moves(a, "queued", "leaving")
    /\ result' = [result EXCEPT ![a] = "cancelled"]
    /\ UNCHANGED <<sem, wg>>

\* ... or a slot of the semaphore.
Acquire(a) ==
    /\ sem < Concurrent
    /\ Moves(a, "queued", "running")
    /\ sem' = sem + 1
    /\ UNCHANGED <<result, wg>>

\* Mutant: the branch of a failed poll gives the slot back, and so does the defer.
FinishReleasing(a) ==
    /\ Moves(a, "running", "answered")
    /\ \E r \in {"ok", "error"} :
         /\ result' = [result EXCEPT ![a] = r]
         /\ sem' = IF r = "error" THEN sem - 1 ELSE sem
    /\ UNCHANGED wg

\* pollOne returns a detail or an error; the channel of results has room for every address.
Finish(a) ==
    /\ Moves(a, "running", "answered")
    /\ \E r \in {"ok", "error"} : result' = [result EXCEPT ![a] = r]
    /\ UNCHANGED <<sem, wg>>

\* Mutant: without the defer, a failed poll returns with its slot.
ReleaseOnSuccess(a) ==
    /\ sem > 0
    /\ Moves(a, "answered", "leaving")
    /\ sem' = IF result[a] = "ok" THEN sem - 1 ELSE sem
    /\ UNCHANGED <<result, wg>>

\* The deferred receive, which would wait for ever if the semaphore were empty.
Release(a) ==
    /\ sem > 0
    /\ Moves(a, "answered", "leaving")
    /\ sem' = sem - 1
    /\ UNCHANGED <<result, wg>>

\* The deferred wg.Done.
Leave(a) ==
    /\ Moves(a, "leaving", "gone")
    /\ wg' = wg - 1
    /\ UNCHANGED <<result, sem>>

-----------------------------------------------------------------------------
(* The loop's goroutine after the workers. *)

\* A detail counts as usable when its Error is empty; that of a cancelled worker is.
Usable == Sent({"ok", "cancelled"})

\* Collect after wg.Wait.
Collected ==
    /\ pc = "fan" /\ wg = 0
    /\ failed' = (Usable = {} /\ Sent({"cancelled"}) # {})
    /\ pc' = IF failed' THEN "mark" ELSE "upsert"
    /\ UNCHANGED <<cancelled, ticker, kick, polling, lastPollErr, source, pool, client, covered>>

Upsert(a) ==
    /\ pc = "upsert" /\ result[a] \in Results
    /\ worker' = [worker EXCEPT ![a] = "idle"]
    /\ result' = [result EXCEPT ![a] = "none"]
    /\ UNCHANGED <<sem, wg, cancelled, pc, ticker, kick, polling, lastPollErr, failed, source, client, covered>>

\* Mutant: the loop goes on before every result is in the store.
UpsertedEarly ==
    /\ pc = "upsert"
    /\ pc' = IF failed THEN "prune" ELSE "mark"
    /\ UNCHANGED <<cancelled, ticker, kick, polling, lastPollErr, failed, source, pool, client, covered>>

Upserted ==
    /\ pc = "upsert" /\ Sent(Results) = {}
    /\ pc' = IF failed THEN "prune" ELSE "mark"
    /\ UNCHANGED <<cancelled, ticker, kick, polling, lastPollErr, failed, source, pool, client, covered>>

\* Mutant: a failed cycle leaves the flag up.
MarkPollOnSuccess ==
    /\ pc = "mark"
    /\ polling' = (polling /\ failed)
    /\ lastPollErr' = failed
    /\ pc' = "retain"
    /\ UNCHANGED <<cancelled, ticker, kick, failed, source, pool, client, covered>>

\* MarkPoll under the lock; after a failed Collect it comes before the upserts.
MarkPoll ==
    /\ pc = "mark"
    /\ polling' = FALSE
    /\ lastPollErr' = failed
    /\ pc' = "retain"
    /\ UNCHANGED <<cancelled, ticker, kick, failed, source, pool, client, covered>>

\* The retention delete of MarkPoll, after it released the lock.
Retain ==
    /\ pc = "retain"
    /\ pc' = IF failed THEN "upsert" ELSE "prune"
    /\ UNCHANGED <<cancelled, ticker, kick, polling, lastPollErr, failed, source, pool, client, covered>>

\* prune and Forget: pruned addresses leave the discovered set, static ones do not.
Prune ==
    /\ pc = "prune"
    /\ \E gone \in SUBSET Addresses : discovered' = discovered \ (gone \ Static)
    /\ failed' = FALSE
    /\ ticker' = IF ticker = "off" THEN "armed" ELSE ticker
    /\ covered' = [c \in Clients |-> IF covered[c] = "scanned" THEN "done" ELSE covered[c]]
    /\ pc' = "select"
    /\ UNCHANGED <<cancelled, kick, polling, lastPollErr, scanned, due, forceRescan, pool, client>>

-----------------------------------------------------------------------------
(* Run's select; Go picks among the ready cases at random. *)

\* Mutant: the loop looks at the context only when there is nothing else to do.
StopWhenIdle ==
    /\ pc = "select" /\ cancelled /\ ~kick /\ ticker # "fired"
    /\ pc' = "done"
    /\ UNCHANGED <<cancelled, ticker, kick, polling, lastPollErr, failed, source, pool, client, covered>>

Stop ==
    /\ pc = "select" /\ cancelled
    /\ pc' = "done"
    /\ UNCHANGED <<cancelled, ticker, kick, polling, lastPollErr, failed, source, pool, client, covered>>

TakeTick ==
    /\ pc = "select" /\ ticker = "fired"
    /\ ticker' = "armed"
    /\ pc' = "tick"
    /\ UNCHANGED <<cancelled, kick, polling, lastPollErr, failed, source, pool, client, covered>>

TakeKick ==
    /\ pc = "select" /\ kick
    /\ kick' = FALSE
    /\ pc' = "tick"
    /\ UNCHANGED <<cancelled, ticker, polling, lastPollErr, failed, source, pool, client, covered>>

-----------------------------------------------------------------------------
(* RequestRescan on a handler's goroutine, and the browser behind it. *)

\* AsicSource.RequestRescan.
RequestFlag(c) ==
    /\ client[c] = "idle"
    /\ forceRescan' = TRUE
    /\ client' = [client EXCEPT ![c] = "flagged"]
    /\ covered' = [covered EXCEPT ![c] = "asked"]
    /\ UNCHANGED <<cancelled, pc, ticker, kick, polling, lastPollErr, failed, discovered, scanned, due, pool>>

\* Mutant: an unbuffered channel, the token is dropped unless the loop is waiting.
RequestKickUnbuffered(c) ==
    /\ client[c] = "flagged"
    /\ kick' = (kick \/ pc = "select")
    /\ client' = [client EXCEPT ![c] = "waiting"]
    /\ UNCHANGED <<cancelled, pc, ticker, polling, lastPollErr, failed, source, pool, covered>>

\* The kick: a token already there is enough.
RequestKick(c) ==
    /\ client[c] = "flagged"
    /\ kick' = TRUE
    /\ client' = [client EXCEPT ![c] = "waiting"]
    /\ UNCHANGED <<cancelled, pc, ticker, polling, lastPollErr, failed, source, pool, covered>>

\* waitUntilIdle reads /api/meta and finds polling false ...
SeesIdle(c) ==
    /\ client[c] = "waiting" /\ ~polling
    /\ client' = [client EXCEPT ![c] = "idle"]
    /\ UNCHANGED <<cancelled, pc, ticker, kick, polling, lastPollErr, failed, source, pool, covered>>

\* ... or gives up after its timeout.
TimesOut(c) ==
    /\ client[c] = "waiting"
    /\ client' = [client EXCEPT ![c] = "idle"]
    /\ covered' = [covered EXCEPT ![c] = "none"]
    /\ UNCHANGED <<cancelled, pc, ticker, kick, polling, lastPollErr, failed, source, pool>>

-----------------------------------------------------------------------------
(* Time and signals. *)

TickerFires ==
    /\ ticker = "armed"
    /\ ticker' = "fired"
    /\ UNCHANGED <<cancelled, pc, kick, polling, lastPollErr, failed, source, pool, client, covered>>

IntervalPasses ==
    /\ scanned /\ ~due
    /\ due' = TRUE
    /\ UNCHANGED <<cancelled, pc, ticker, kick, polling, lastPollErr, failed, discovered, scanned,
                   forceRescan, pool, client, covered>>

Cancel ==
    /\ ~cancelled
    /\ cancelled' = TRUE
    /\ UNCHANGED <<pc, ticker, kick, polling, lastPollErr, failed, source, pool, client, covered>>

Init ==
    /\ cancelled = FALSE /\ pc = "tick" /\ ticker = "off" /\ kick = FALSE
    /\ polling = FALSE /\ lastPollErr = FALSE /\ failed = FALSE
    /\ discovered = {} /\ scanned = FALSE /\ due = FALSE /\ forceRescan = FALSE
    /\ worker = [a \in Addresses |-> "idle"] /\ result = [a \in Addresses |-> "none"]
    /\ sem = 0 /\ wg = 0
    /\ client = [c \in Clients |-> "idle"]
    /\ covered = [c \in Clients |-> "none"]

Runner ==
    \/ StartTick \/ StartCollect \/ ResolveIPs \/ Collected \/ Upserted
    \/ (\E a \in Addresses : Upsert(a))
    \/ MarkPoll \/ Retain \/ Prune \/ Stop \/ TakeTick \/ TakeKick

Worker(a) == GiveUp(a) \/ Acquire(a) \/ Finish(a) \/ Release(a) \/ Leave(a)

Next ==
    \/ Runner
    \/ \E a \in Addresses : Worker(a)
    \/ \E c \in Clients : RequestFlag(c) \/ RequestKick(c) \/ SeesIdle(c) \/ TimesOut(c)
    \/ TickerFires \/ IntervalPasses \/ Cancel

(* Goroutines that can run do run, and polls end (ScanTimeoutSec); a select that  *)
(* is ready infinitely often for ctx.Done takes it, because Go chooses at random. *)
Fairness ==
    /\ WF_vars(Runner)
    /\ SF_vars(Stop)
    /\ \A a \in Addresses : WF_vars(Worker(a))
    /\ \A c \in Clients : WF_vars(RequestKick(c))

Spec == Init /\ [][Next]_vars
FairSpec == Spec /\ Fairness

-----------------------------------------------------------------------------
\* Types, and that results wait for nothing but their upserts.
TypeOK ==
    /\ cancelled \in BOOLEAN /\ pc \in Steps /\ ticker \in {"off", "armed", "fired"}
    /\ kick \in BOOLEAN /\ polling \in BOOLEAN /\ lastPollErr \in BOOLEAN /\ failed \in BOOLEAN
    /\ discovered \subseteq Addresses
    /\ scanned \in BOOLEAN /\ due \in BOOLEAN /\ forceRescan \in BOOLEAN
    /\ worker \in [Addresses -> {"idle", "gone"} \cup Working]
    /\ result \in [Addresses -> {"none"} \cup Results]
    /\ sem \in Nat /\ wg \in Nat
    /\ client \in [Clients -> {"idle", "flagged", "waiting"}]
    /\ covered \in [Clients -> {"none", "asked", "scanned", "done"}]
    /\ Sent(Results) # {} => pc \in {"fan", "upsert"}

\* /api/meta says polling from before Collect until every result of a successful
\* cycle is in the store, and never while the loop waits in its select.
PollingHonest ==
    /\ pc \in {"collect", "resolve", "fan"} \/ (pc = "upsert" /\ ~failed) => polling
    /\ pc \in {"select", "done"} => ~polling

\* Never more than Concurrent polls at once, however polls end and whoever gives up, and
\* no slot is lost: each one taken is that of a goroutine that has yet to give it back.
PollsBounded ==
    /\ Cardinality(With({"running"})) <= Concurrent
    /\ Cardinality(With(Holding)) = sem

\* When Collect goes on, no goroutine of its cycle is left to send or to take a slot, and
\* each address it polled has left its result, be it an answer, an error or none in time.
\* "Partial success is OK": whatever the other results are, a cycle with an answer does not
\* fail, so the answer is stored before MarkPoll (Collect, tick).
CycleComplete ==
    /\ pc # "fan" =>
         \A a \in Addresses : \/ (worker[a] = "idle" /\ result[a] = "none")
                             \/ (worker[a] = "gone" /\ result[a] \in Results)
    /\ Sent({"ok"}) # {} => ~failed

\* No rescan request is lost between its flag and its kick: once the handler has
\* done both, a set flag means that a token is in the channel or that a tick that
\* has not yet looked at the flag is under way.  The flag is set before the token
\* is sent, so the tick that takes the token sees the flag (poller.go:61-70).
NoLostRescan ==
    forceRescan /\ ScanTargets /\ ~cancelled /\ (\A c \in Clients : client[c] # "flagged")
        => kick \/ pc \in {"tick", "collect", "resolve"}

\* A requested scan is run, however it races the ticker and other requests.
RescanServed ==
    \A c \in Clients :
        ScanTargets /\ covered[c] = "asked" ~> covered[c] # "asked" \/ cancelled

\* After the signal the loop ends, even if tokens and ticks keep coming.
StopsAfterCancel == cancelled ~> pc = "done"

\* waitUntilIdle: "Wait until the backend poll cycle finishes (or timeout)".  The
\* click handler that did not time out leaves only when its rescan is in the store.
WaitsForRescan ==
    [][\A c \in Clients :
         client[c] = "waiting" /\ client'[c] = "idle" /\ covered'[c] # "none"
            => covered[c] = "done"]_vars

=============================================================================
