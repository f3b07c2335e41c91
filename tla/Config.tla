------------------------------- MODULE Config -------------------------------
(***************************************************************************)
(* internal/config: Load puts the settings of a run together from defaults, *)
(* the config file and the environment, and clamp makes them consistent.    *)
(*                                                                          *)
(* A setting in the file or the environment is a text: absent, bad, a bare  *)
(* number, or (kind "go") a Go duration such as 30m.  Durations are counted *)
(* in time.Duration's own unit; Second is a second in that unit and a bare  *)
(* number of seconds is multiplied by it in Width-bounded arithmetic.  The  *)
(* three target lists (IPs, subnets, ranges) are treated alike and stand    *)
(* here as one, in the order in which their aliases are read.  The listen   *)
(* address is a string passed through and left out.                         *)
(***************************************************************************)
EXTENDS Integers, SequencesExt

CONSTANTS
    Second,         \* one second, in time.Duration's unit
    MinPoll,        \* the least poll_interval
    Week,           \* the default of history_retention and miner_ttl
    DefaultPoll, DefaultRescan, DefaultTimeout, DefaultConcurrent,
    Modulus,        \* durations are integers modulo this, symmetric about 0
    Files,          \* the config files a run may find
    Environments,   \* the environments it may have
    DefaultPath     \* the default sqlite_path

VARIABLES
    stage,          \* the step of Load that comes next
    file, env,      \* what this run finds
    cfg,            \* the scalar settings
    sqlite,         \* SQLitePath
    targets         \* MinerIPs, MinerSubnets or MinerRanges

vars == <<stage, file, env, cfg, sqlite, targets>>

DurationFields == {"poll", "retention", "rescan", "ttl"}
CountFields == {"points", "timeout", "concurrent"}
Fields == DurationFields \cup CountFields

Text == [kind : {"absent", "bad", "number", "go"}, n : Int]

\* Every scalar setting is a text in the file and in the environment, a list one of strings.
ASSUME ConfigAssumption ==
    /\ Second \in Nat \ {0} /\ MinPoll \in Nat \ {0} /\ Modulus \in Nat \ {0}
    /\ Week \in Nat \ {0}
    /\ DefaultPoll \in Int /\ DefaultRescan \in Int
    /\ DefaultTimeout \in Int /\ DefaultConcurrent \in Int
    /\ \A x \in Files \cup Environments :
         x.texts \in [Fields -> Text] /\ x.targets \in Seq(STRING)

\* The signed value that remains of n.
Wrapped(n) == ((n + Modulus \div 2) % Modulus) - Modulus \div 2

\* The texts strconv.Atoi, or parseDuration, accepts for a field.
Valid(f, text) == text.kind = "number" \/ (text.kind = "go" /\ f \in DurationFields)

Parsed(f, text) ==
    IF f \in DurationFields /\ text.kind = "number" THEN Wrapped(text.n * Second) ELSE text.n

\* Mutant: a text that does not parse sets the field to zero.
ApplyTextsOrZero(c, texts) ==
    [f \in Fields |-> IF texts[f].kind = "absent" THEN c[f]
                      ELSE IF Valid(f, texts[f]) THEN Parsed(f, texts[f]) ELSE 0]

\* A field is set by a text that parses and kept otherwise.
ApplyTexts(c, texts) ==
    [f \in Fields |-> IF Valid(f, texts[f]) THEN Parsed(f, texts[f]) ELSE c[f]]

AppendUnique(dst, vals) ==
    LET add(s, v) == IF v = "" \/ v \in ToSet(s) THEN s ELSE Append(s, v)
    IN  FoldLeft(add, dst, vals)

Defaults ==
    [poll |-> DefaultPoll, retention |-> Week, rescan |-> DefaultRescan, ttl |-> Week,
     points |-> 0, timeout |-> DefaultTimeout, concurrent |-> DefaultConcurrent]

\* A file that was named or found but does not read or decode ends the run.
ReadFails ==
    /\ stage = "file" /\ ~file.readable
    /\ stage' = "failed"
    /\ UNCHANGED <<file, env, cfg, sqlite, targets>>

ApplyFile ==
    /\ stage = "file" /\ file.readable
    /\ cfg' = ApplyTexts(cfg, file.texts)
    /\ sqlite' = IF file.sqlite = "" THEN sqlite ELSE file.sqlite
    /\ targets' = AppendUnique(targets, file.targets)
    /\ stage' = "env"
    /\ UNCHANGED <<file, env>>

\* An SQLITE_PATH that is set wins even when it is blank: that is memory mode.
ApplyEnv ==
    /\ stage = "env"
    /\ cfg' = ApplyTexts(cfg, env.texts)
    /\ sqlite' = IF env.sqliteSet THEN env.sqlite ELSE sqlite
    /\ targets' = AppendUnique(targets, env.targets)
    /\ stage' = "clamp"
    /\ UNCHANGED <<file, env>>

AtLeast(n, m) == IF n < m THEN m ELSE n

\* The ring capacity that covers retention r at cadence p, plus a small buffer.
Needed(r, p) == AtLeast(r \div p + 2, 10)

\* Mutant: the ring is sized before the poll interval is clamped.
ClampedRingFirst(c) ==
    LET poll      == AtLeast(c.poll, MinPoll)
        retention == IF c.retention < poll THEN Week ELSE c.retention
    IN  [poll |-> poll, retention |-> retention, rescan |-> c.rescan,
         ttl |-> AtLeast(c.ttl, 0),
         points |-> AtLeast(c.points, Needed(c.retention, AtLeast(c.poll, 1))),
         timeout |-> AtLeast(c.timeout, 1),
         concurrent |-> AtLeast(c.concurrent, 1)]

\* Mutant: a retention that overflowed is kept.
ClampedKeepRetention(c) ==
    LET poll == AtLeast(c.poll, MinPoll)
    IN  [poll |-> poll, retention |-> c.retention, rescan |-> c.rescan,
         ttl |-> AtLeast(c.ttl, 0),
         points |-> AtLeast(c.points, Needed(c.retention, poll)),
         timeout |-> AtLeast(c.timeout, 1),
         concurrent |-> AtLeast(c.concurrent, 1)]

Clamped(c) ==
    LET poll      == AtLeast(c.poll, MinPoll)
        retention == IF c.retention < poll THEN Week ELSE c.retention
    IN  [poll |-> poll, retention |-> retention, rescan |-> c.rescan,
         ttl |-> AtLeast(c.ttl, 0),
         points |-> AtLeast(c.points, Needed(retention, poll)),
         timeout |-> AtLeast(c.timeout, 1),
         concurrent |-> AtLeast(c.concurrent, 1)]

Clamp ==
    /\ stage = "clamp"
    /\ cfg' = Clamped(cfg)
    /\ stage' = "ready"
    /\ UNCHANGED <<file, env, sqlite, targets>>

Init ==
    /\ file \in Files /\ env \in Environments
    /\ stage = IF file.present THEN "file" ELSE "env"
    /\ cfg = Defaults
    /\ sqlite = DefaultPath
    /\ targets = <<>>

Next == ReadFails \/ ApplyFile \/ ApplyEnv \/ Clamp

Spec == Init /\ [][Next]_vars

-----------------------------------------------------------------------------
\* clamp: "Ring capacity must cover retention at the poll cadence".  Whatever file and
\* environment say, overflow and bad texts included, the samples of a whole retention, one
\* for every interval, fit in a ring.  (The polls of rescans in between come on top of them
\* and may push the oldest out.)
RingCoversRetention ==
    stage = "ready" => cfg.points * cfg.poll > cfg.retention

\* What the poller and the store rely on: a ticker with a positive period, at least one
\* worker, a retention that does not delete what was just written, a TTL that Prune
\* reads as "never" or as a positive time.
Runnable ==
    stage = "ready" =>
        /\ cfg.poll >= MinPoll /\ cfg.retention > 0 /\ cfg.ttl >= 0
        /\ cfg.concurrent >= 1 /\ cfg.timeout >= 1

\* README: "defaults -> config file -> environment (env wins)".  A setting that a layer
\* gives as a readable text is never undone by a layer below it, nor by a text that does
\* not parse in a layer above it; lists add up, and no target is polled twice.
Precedence ==
    stage = "clamp" =>
        /\ \A f \in Fields :
             cfg[f] = IF Valid(f, env.texts[f]) THEN Parsed(f, env.texts[f])
                      ELSE IF file.present /\ Valid(f, file.texts[f]) THEN Parsed(f, file.texts[f])
                      ELSE Defaults[f]
        /\ IsInjective(targets)
        /\ ToSet(targets) = (ToSet(env.targets) \cup (IF file.present THEN ToSet(file.targets) ELSE {}))
                              \ {""}

=============================================================================
