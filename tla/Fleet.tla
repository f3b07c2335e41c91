------------------------------- MODULE Fleet -------------------------------
(***************************************************************************)
(* What the store promises of miners that have names and addresses of their *)
(* own, whatever ids their rows and samples are filed under: a miner is in  *)
(* the list from its answer to its TTL, and its history has one sample per  *)
(* answer, its own and no other's, until retention ends or, in memory mode, *)
(* the program.  Renames do not show.                                       *)
(***************************************************************************)
EXTENDS Integers

CONSTANTS
    Devices,      \* the physical miners
    Durable,      \* TRUE: the history outlives the program
    Lossy,        \* TRUE: a sample may fail to be saved
    TTL,          \* how long an answer keeps a miner in the list
    Retention     \* how long a durable history is kept

VARIABLES
    now,          \* wall clock
    answered,     \* device -> time of its last answer since the start, 0 if none
    listed,       \* the devices in the list
    named,        \* those of them that are listed by more than an address
    log,          \* device -> times of its samples
    filing        \* device -> time of the sample that is being saved

Nothing == [dev \in Devices |-> {}]

Init ==
    /\ now = 1
    /\ answered = [dev \in Devices |-> 0]
    /\ listed = {} /\ named = {}
    /\ log = Nothing /\ filing = Nothing

\* A miner answers: it is listed, by whatever it has shown of itself, and sampled.
Answer(dev) ==
    /\ filing = Nothing
    /\ answered' = [answered EXCEPT ![dev] = now]
    /\ listed' = listed \cup {dev}
    /\ named' \in {named \cup {dev}, named \ {dev}}
    /\ IF Durable
       THEN filing' = [filing EXCEPT ![dev] = {now}] /\ UNCHANGED log
       ELSE log' = [log EXCEPT ![dev] = @ \cup {now}] /\ UNCHANGED filing
    /\ UNCHANGED now

\* An address does not answer: its miner may come into the list, by the address only.
Fail(dev) ==
    /\ listed' = listed \cup {dev}
    /\ UNCHANGED <<now, answered, named, log, filing>>

Save ==
    /\ log' = [dev \in Devices |-> log[dev] \cup filing[dev]]
    /\ filing' = Nothing
    /\ UNCHANGED <<now, answered, listed, named>>

Lose ==
    /\ Lossy
    /\ filing' = Nothing
    /\ UNCHANGED <<now, answered, listed, named, log>>

Forget ==
    /\ Durable
    /\ log' = [dev \in Devices |-> {t \in log[dev] : t >= now - Retention}]
    /\ UNCHANGED <<now, answered, listed, named, filing>>

\* The list keeps who answered within the TTL, and nobody who did not, unless it has only
\* an address to tell by.
Expire ==
    LET fresh == {dev \in Devices : answered[dev] >= now - TTL}
    IN  /\ \E kept \in SUBSET listed : listed \cap fresh \subseteq kept /\ listed' = kept
        /\ \E kept \in SUBSET (named \cap fresh) : named' = kept
        /\ UNCHANGED <<now, answered, log, filing>>

Restart ==
    /\ answered' = [dev \in Devices |-> 0]
    /\ listed' = {} /\ named' = {} /\ filing' = Nothing
    /\ log' = IF Durable THEN log ELSE Nothing
    /\ UNCHANGED now

Tick ==
    /\ now' = now + 1
    /\ UNCHANGED <<answered, listed, named, log, filing>>

Next ==
    \/ \E dev \in Devices : Answer(dev) \/ Fail(dev)
    \/ Save \/ Lose \/ Forget \/ Expire \/ Restart \/ Tick

Spec == Init /\ [][Next]_<<now, answered, listed, named, log, filing>>
=============================================================================
