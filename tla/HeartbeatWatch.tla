--------------------------- MODULE HeartbeatWatch ---------------------------
(***************************************************************************)
(* The reaper of the cogs (cogs/reaper.rb): every two seconds it looks at   *)
(* each job in `working`, compares its heartbeat with the last one that it  *)
(* acknowledged, and counts in `death_timer` how often nothing new came.    *)
(* Meanwhile pipelines beat (seesaw/tasks.py) and jobs end, expire and come *)
(* back under the same key, between any two of its commands.                *)
(***************************************************************************)
EXTENDS Naturals, Sequences, FiniteSets, SequencesExt

CONSTANTS
  Ident,
  Threshold,    \* THRESHOLD
  MaxBeats,     \* bound: a heartbeat's value
  MaxTimer,     \* bound: checks of a silent job
  MaxLives,     \* bound: registrations
  MaxCrashes,   \* bound: restarts of the reaper
  None

VARIABLES
  key,       \* the record: whether it is there, `heartbeat`, LAH and DEATH_TIMER
  ttl,       \* records with a timer
  working,   \* the list `working`
  beats,     \* jobs whose pipeline sends heartbeats
  pc, todo,  \* check: "rest", "read" or "compare", and the idents to come
  old, new,  \* check_one: what HMGET gave
  lives, crashes,
  warned,    \* history: of jobs that "need to be reaped", how calm they were
  quiet,     \* history: checks that read the record since a heartbeat was sent
  calm,      \* history: `quiet` at the last HMGET
  recreated  \* history: keys that changed hands between a read and its write

jobs == <<ttl, working, beats, lives>>
check == <<pc, todo, old, new, calm, crashes>>
vars == <<key, jobs, check, warned, quiet, recreated>>

Gone == [there |-> FALSE, heartbeat |-> None, lah |-> None, timer |-> 0]
Value == Nat \cup {None}

TypeOK ==
  /\ key \in [Ident -> [there : BOOLEAN, heartbeat : Value, lah : Value, timer : Nat]]
  /\ ttl \subseteq Ident /\ working \subseteq Ident /\ beats \subseteq Ident
  /\ pc \in {"rest", "read", "compare"} /\ todo \in Seq(Ident)
  /\ old \in Value /\ new \in Value /\ lives \in 0..MaxLives
  /\ warned \subseteq [calm : Nat, sure : BOOLEAN] /\ quiet \in [Ident -> Nat] /\ calm \in Nat
  /\ crashes \in 0..MaxCrashes /\ recreated \subseteq Ident

Init ==
  /\ key = [i \in Ident |-> Gone] /\ ttl = {} /\ working = {} /\ beats = {}
  /\ pc = "rest" /\ todo = <<>> /\ old = None /\ new = None /\ lives = 0
  /\ crashes = 0 /\ calm = 0 /\ warned = {} /\ quiet = [i \in Ident |-> 0] /\ recreated = {}

-----------------------------------------------------------------------------
(* Jobs *)

\* Registration, which a key that is there prevents, queueing and reservation.
Start(i) ==
  /\ i \notin working /\ ~key[i].there /\ lives < MaxLives
  /\ lives' = lives + 1 /\ working' = working \cup {i} /\ beats' = beats \cup {i}
  /\ key' = [key EXCEPT ![i].there = TRUE]
  /\ UNCHANGED <<ttl, check, warned, quiet, recreated>>

\* HINCRBY
Beat(i) ==
  /\ i \in beats
  /\ LET last == IF key[i].heartbeat = None THEN 0 ELSE key[i].heartbeat IN
     /\ last < MaxBeats /\ key' = [key EXCEPT ![i].heartbeat = last + 1, ![i].there = TRUE]
  /\ quiet' = [quiet EXCEPT ![i] = 0]
  /\ UNCHANGED <<jobs, check, warned, recreated>>

\* The pipeline dies, or hangs.
Silence(i) ==
  /\ i \in beats /\ beats' = beats \ {i}
  /\ UNCHANGED <<key, ttl, working, lives, check, warned, quiet, recreated>>

\* MARK_DONE, or Job#fail
Finish(i) ==
  /\ i \in working /\ working' = working \ {i} /\ beats' = beats \ {i}
  /\ ttl' = ttl \cup {i}
  /\ UNCHANGED <<key, lives, check, warned, quiet, recreated>>

Expire(i) ==
  /\ i \in ttl /\ ttl' = ttl \ {i} /\ key' = [key EXCEPT ![i] = Gone]
  /\ quiet' = [quiet EXCEPT ![i] = 0]
  /\ recreated' = IF pc = "compare" /\ Head(todo) = i THEN recreated \cup {i}
                  ELSE recreated \ {i}
  /\ UNCHANGED <<working, beats, lives, check, warned>>

-----------------------------------------------------------------------------
(* Reaper *)

\* check: the idents of `working`, in some order.
List ==
  /\ pc = "rest" /\ working # {}
  /\ \E s \in SetToSeqs(working) : todo' = s
  /\ pc' = "read"
  /\ UNCHANGED <<key, jobs, old, new, calm, crashes, warned, quiet, recreated>>

Rest(rest) == todo' = rest /\ pc' = IF rest = <<>> THEN "rest" ELSE "read"

\* HMGET; a job without heartbeat is skipped.
Read ==
  /\ pc = "read"
  /\ LET i == Head(todo) IN
     /\ IF key[i].heartbeat = None
        THEN Rest(Tail(todo)) /\ UNCHANGED <<old, new, quiet, calm>>
        ELSE /\ old' = key[i].lah /\ new' = key[i].heartbeat
             /\ quiet' = [quiet EXCEPT ![i] = IF @ < MaxTimer THEN @ + 1 ELSE @]
             /\ calm' = quiet'[i]
             /\ pc' = "compare" /\ UNCHANGED todo
  /\ UNCHANGED <<key, jobs, crashes, warned, recreated>>

Done == Rest(Tail(todo)) /\ old' = None /\ new' = None /\ calm' = 0 /\ UNCHANGED crashes

\* HSET of LAH
AcknowledgeFirst ==
  /\ pc = "compare" /\ old = None
  /\ key' = [key EXCEPT ![Head(todo)].lah = new, ![Head(todo)].there = TRUE]
  /\ Done /\ UNCHANGED <<jobs, warned, quiet, recreated>>

Limbo == old # None /\ new <= old

\* HINCRBY of DEATH_TIMER; the reaper only says that the job is to be reaped.
CountDown ==
  /\ pc = "compare" /\ Limbo
  /\ LET i == Head(todo)
         count == key[i].timer + 1
     IN  /\ key' = [key EXCEPT ![i].timer = IF count > MaxTimer THEN @ ELSE count,
                               ![i].there = TRUE]
         /\ warned' = IF count >= Threshold
                      THEN warned \cup {[calm |-> calm, sure |-> i \notin recreated]}
                      ELSE warned
  /\ Done /\ UNCHANGED <<jobs, quiet, recreated>>

\* Mutant of Acknowledge: the timer goes on.
AcknowledgeOnly ==
  /\ pc = "compare" /\ old # None /\ ~Limbo
  /\ key' = [key EXCEPT ![Head(todo)].lah = new, ![Head(todo)].there = TRUE]
  /\ Done /\ UNCHANGED <<jobs, warned, quiet, recreated>>

\* HMSET of LAH and DEATH_TIMER
Acknowledge ==
  /\ pc = "compare" /\ old # None /\ ~Limbo
  /\ key' = [key EXCEPT ![Head(todo)].lah = new, ![Head(todo)].timer = 0,
                        ![Head(todo)].there = TRUE]
  /\ Done /\ UNCHANGED <<jobs, warned, quiet, recreated>>

\* An error of Redis ends the actor; its supervisor starts another.
Restart ==
  /\ pc # "rest" /\ crashes < MaxCrashes /\ crashes' = crashes + 1
  /\ pc' = "rest" /\ todo' = <<>> /\ old' = None /\ new' = None /\ calm' = 0
  /\ UNCHANGED <<key, jobs, warned, quiet, recreated>>

Reaper == List \/ Read \/ AcknowledgeFirst \/ CountDown \/ Acknowledge

Next == \/ Reaper \/ Restart
        \/ \E i \in Ident : Start(i) \/ Beat(i) \/ Silence(i) \/ Finish(i) \/ Expire(i)

Spec == Init /\ [][Next]_vars

-----------------------------------------------------------------------------
(* Properties *)

\* A job needs to be reaped only when so many checks in a row found nothing new,
\* however beats and checks interleave; and the reaper makes no key of its own,
\* which would lock its URL for good.  Excepted are keys that were deleted between
\* the reaper's read and its write.
ReaperIsSound ==
  /\ \A w \in warned : w.sure => w.calm > Threshold
  /\ \A i \in Ident : key[i].there => i \in working \cup ttl \cup recreated
=============================================================================
