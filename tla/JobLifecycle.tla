---------------------------- MODULE JobLifecycle ----------------------------
(***************************************************************************)
(* The life of a job: an IRC handler registers it in Redis and pushes its  *)
(* ident on a pending queue (bot/brain.rb, lib/job.rb), a pipeline moves   *)
(* the ident to the `working' list, crawls it and marks it done            *)
(* (pipeline/archivebot), an operator reaps the jobs of dead pipelines, and*)
(* Redis deletes the records whose timer has run out.                      *)
(*                                                                         *)
(* A step is one Redis command, one MULTI block or one Lua script: what    *)
(* Redis runs without interleaving.  Handler threads, pipelines, operator  *)
(* and timers interleave freely between steps.                             *)
(***************************************************************************)
EXTENDS Naturals, FiniteSets

CONSTANTS
  Ident,         \* job idents: one per normalised URL (Job#ident)
  Handler,       \* the bot's handler threads (Cinch runs one per message)
  Worker,        \* item slots of the pipelines
  NamedQueue,    \* the pending:NICK queues
  Nick,          \* Nick[w]: the named queues whose suffix occurs in w's nick
  AoOnly, Large, \* the workers started with AO_ONLY and with LARGE set
  Op,            \* the handlers that serve a user with ops
  PendingLimit,  \* 5 in the code
  Faults,        \* what may go wrong: a subset of FaultKind
  MaxFaults,     \* bound: faults in a behaviour
  MaxRequests,   \* bound: archive requests in a behaviour
  MaxCommands,   \* bound: !abort and !expire commands
  MaxReaps,      \* bound: jobs reaped
  None           \* no ident

FaultKind ==
  { "overlap",       \* two handlers work on the same ident at the same time
    "handler_fail",  \* a handler dies between Job#register and Job#queue
    "lost_take",     \* the connection breaks while a job is reserved
    "task_fail",     \* a pipeline task raises; the item fails
    "crash",         \* a pipeline process dies
    "lost_done",     \* MARK_DONE runs, its reply is lost
    "reap_any" }     \* the operator also reaps jobs that are not dead

Fixed == {"pending", "pending-large", "pending-ao"}
Queue == NamedQueue \cup Fixed

ASSUME QueuesAssumption == NamedQueue \cap Fixed = {}
ASSUME WorkersAssumption ==
  /\ Nick \in [Worker -> SUBSET NamedQueue]
  /\ AoOnly \subseteq Worker
  /\ Large \subseteq Worker
ASSUME NoneAssumption == None \notin Ident
ASSUME BoundsAssumption ==
  /\ Faults \subseteq FaultKind
  /\ MaxFaults \in Nat /\ MaxRequests \in Nat
  /\ MaxCommands \in Nat /\ MaxReaps \in Nat
  /\ PendingLimit \in Nat

VARIABLES
  hash,      \* hash[i]: the fields of the job's Redis hash; {} when no key
  ttl,       \* ttl[i]: the running expiry timer of that key, or "none"
  pending,   \* the pending queues: entries, the oldest has the least ticket
  working,   \* working[i]: how often the `working' list holds i
  tally,     \* the counters jobs_completed, jobs_aborted and jobs_failed
  notified,  \* finish notifications pushed, by the `aborted' label in them
  handler, worker, reaper,      \* the processes' local states
  beat,      \* beat[w]: idents whose heartbeat callback ticks in w
  reg,       \* history: reg[i] numbers the current registration of i
  pushed, registered,           \* history: queue pushes, registrations
  asked, cmds, reaps, faults    \* how much of each bound is used

jobVars == <<hash, ttl, pending, working, tally, notified, reg>>
bounds  == <<asked, cmds, reaps, faults>>
vars    == <<jobVars, handler, worker, reaper, beat, pushed, registered, bounds>>

Field == {"url", "queued_at", "started_at", "finished_at", "aborted",
          "abort_requested", "failed", "heartbeat"}
Timer   == {"none", "short", "long"}
Outcome == {"completed", "aborted", "failed"}
Verdict == {"completed", "aborted"}   \* what MARK_DONE tells apart
Entry   == [queue : Queue, ident : Ident, ticket : Nat]

HandlerState ==
  [pc    : {"idle", "check", "register", "queue", "abort", "ttl", "expire"},
   ident : Ident \cup {None}, queue : Queue]
WorkerState ==
  [pc    : {"idle", "dequeue", "reserve", "prepare", "crawl", "relabel",
            "move", "mark"},
   ident : Ident \cup {None}, left : SUBSET Queue, label : Verdict,
   ticket : Nat, reg : Nat]
ReaperState ==
  [pc : {"idle", "mark", "pending", "working", "expire"},
   ident : Ident \cup {None}]

IdleHandler == [pc |-> "idle", ident |-> None, queue |-> "pending"]
IdleWorker  == [pc |-> "idle", ident |-> None, left |-> {}, label |-> "completed",
                ticket |-> 0, reg |-> 0]
IdleReaper  == [pc |-> "idle", ident |-> None]

Init ==
  /\ hash = [i \in Ident |-> {}]
  /\ ttl = [i \in Ident |-> "none"]
  /\ pending = {}
  /\ working = [i \in Ident |-> 0]
  /\ tally = [o \in Outcome |-> 0]
  /\ notified = [v \in Verdict |-> 0]
  /\ handler = [h \in Handler |-> IdleHandler]
  /\ worker = [w \in Worker |-> IdleWorker]
  /\ reaper = IdleReaper
  /\ beat = [w \in Worker |-> {}]
  /\ reg = [i \in Ident |-> 0]
  /\ pushed = 0 /\ registered = 0
  /\ asked = 0 /\ cmds = 0 /\ reaps = 0 /\ faults = 0

-----------------------------------------------------------------------------
(* Redis commands *)

\* HSET, HMSET, HINCRBY: the key springs up if it is missing, a timer stays.
HSet(i, fields) == [hash EXCEPT ![i] = @ \cup fields]

\* EXPIRE has no effect on a missing key.
Exists(i) == hash[i] # {}
Expire(i, timer) == [ttl EXCEPT ![i] = IF Exists(i) THEN timer ELSE "none"]

\* LREM working 1 i and LREM working 0 i.
LremOne(i) == [working EXCEPT ![i] = IF @ > 0 THEN @ - 1 ELSE 0]
LremAll(i) == [working EXCEPT ![i] = 0]

Llen(q) == Cardinality({e \in pending : e.queue = q})
Oldest(q) ==
  {e \in pending :
     /\ e.queue = q
     /\ \A f \in pending : f.queue = q => e.ticket <= f.ticket}

Fault(kind) ==
  /\ kind \in Faults
  /\ faults < MaxFaults
  /\ faults' = faults + 1

-----------------------------------------------------------------------------
(* The bot's handlers: bot/brain.rb *)

\* Nothing in the bot keeps two handlers off one ident; whether users do it
\* is up to "overlap".
Alone(i) == "overlap" \in Faults \/ \A g \in Handler : handler[g].ident # i

Route(q, deep) ==   \* where Job#queue puts a job with these options
  /\ q = "pending-ao" => ~deep
  /\ q \in {"pending", "pending-large"} => deep

Admitted(h, deep) == deep => h \in Op \/ Llen("pending") < PendingLimit

RequestArchive(h, i, q, deep) ==
  /\ handler[h].pc = "idle"
  /\ asked < MaxRequests
  /\ Alone(i)
  /\ Route(q, deep)
  /\ Admitted(h, deep)
  /\ handler' = [handler EXCEPT ![h] = [pc |-> "check", ident |-> i, queue |-> q]]
  /\ asked' = asked + 1
  /\ UNCHANGED <<jobVars, worker, reaper, beat, pushed, registered, cmds, reaps, faults>>

CheckExists(h) ==
  /\ handler[h].pc = "check"
  /\ IF Exists(handler[h].ident)
       THEN handler' = [handler EXCEPT ![h] = IdleHandler]
       ELSE handler' = [handler EXCEPT ![h].pc = "register"]
  /\ UNCHANGED <<jobVars, worker, reaper, beat, pushed, registered, bounds>>

Register(h) ==
  LET i == handler[h].ident IN
  /\ handler[h].pc = "register"
  /\ hash' = HSet(i, {"url"})
  /\ registered' = registered + 1
  /\ reg' = [reg EXCEPT ![i] = registered + 1]
  /\ handler' = [handler EXCEPT ![h].pc = "queue"]
  /\ UNCHANGED <<ttl, pending, working, tally, notified, worker, reaper, beat,
                 pushed, bounds>>

\* The options between registration and queueing (note, delay, hooks, the
\* global ignore set from CouchDB) raise.
HandlerFails(h) ==
  /\ handler[h].pc = "queue"
  /\ Fault("handler_fail")
  /\ handler' = [handler EXCEPT ![h] = IdleHandler]
  /\ UNCHANGED <<jobVars, worker, reaper, beat, pushed, registered, asked, cmds, reaps>>

QueueJob(h) ==
  LET i == handler[h].ident IN
  /\ handler[h].pc = "queue"
  /\ pending' = pending \cup
       {[queue |-> handler[h].queue, ident |-> i, ticket |-> pushed + 1]}
  /\ pushed' = pushed + 1
  /\ hash' = HSet(i, {"queued_at"})
  /\ handler' = [handler EXCEPT ![h] = IdleHandler]
  /\ UNCHANGED <<ttl, working, tally, notified, reg, worker, reaper, beat,
                 registered, bounds>>

\* !abort IDENT and !expire IDENT start by looking the job up.
FindJob(h, i, command) ==
  /\ handler[h].pc = "idle"
  /\ cmds < MaxCommands
  /\ Alone(i)
  /\ "url" \in hash[i]
  /\ handler' = [handler EXCEPT ![h].pc = command, ![h].ident = i]
  /\ cmds' = cmds + 1
  /\ UNCHANGED <<jobVars, worker, reaper, beat, pushed, registered, asked, reaps, faults>>

InitiateAbort(h) ==
  /\ handler[h].pc = "abort"
  /\ hash' = HSet(handler[h].ident, {"abort_requested"})
  /\ handler' = [handler EXCEPT ![h] = IdleHandler]
  /\ UNCHANGED <<ttl, pending, working, tally, notified, reg, worker, reaper,
                 beat, pushed, registered, bounds>>

HasTimerAlways(i) == TRUE   \* mutant of HasTimer
HasTimer(i) == ttl[i] # "none"

ReadTtl(h) ==
  /\ handler[h].pc = "ttl"
  /\ IF HasTimer(handler[h].ident)
       THEN handler' = [handler EXCEPT ![h].pc = "expire"]
       ELSE handler' = [handler EXCEPT ![h] = IdleHandler]
  /\ UNCHANGED <<jobVars, worker, reaper, beat, pushed, registered, bounds>>

\* EXPIRE key 0 deletes the key at once.
Delete(i) ==
  /\ hash' = [hash EXCEPT ![i] = {}]
  /\ ttl' = [ttl EXCEPT ![i] = "none"]

ExpireJob(h) ==
  /\ handler[h].pc = "expire"
  /\ Delete(handler[h].ident)
  /\ handler' = [handler EXCEPT ![h] = IdleHandler]
  /\ UNCHANGED <<pending, working, tally, notified, reg, worker, reaper, beat,
                 pushed, registered, bounds>>

-----------------------------------------------------------------------------
(* Reaping from the console: Job#fail, one command after the other *)

Holding == {"reserve", "prepare", "crawl", "relabel", "move", "mark"}
Holds(w, i) == worker[w].pc \in Holding /\ worker[w].ident = i
Dead(i) == working[i] > 0 /\ \A w \in Worker : ~Holds(w, i)

FindForReaping(i) ==
  /\ reaper.pc = "idle"
  /\ reaps < MaxReaps
  /\ "url" \in hash[i]
  /\ "reap_any" \in Faults \/ Dead(i)
  /\ reaper' = [pc |-> "mark", ident |-> i]
  /\ reaps' = reaps + 1
  /\ UNCHANGED <<jobVars, handler, worker, beat, pushed, registered, asked, cmds,
                 faults>>

FailMark ==
  /\ reaper.pc = "mark"
  /\ hash' = HSet(reaper.ident, {"failed"})
  /\ tally' = [tally EXCEPT !["failed"] = @ + 1]
  /\ reaper' = [reaper EXCEPT !.pc = "pending"]
  /\ UNCHANGED <<ttl, pending, working, notified, reg, handler, worker, beat,
                 pushed, registered, bounds>>

FailLremPending ==
  /\ reaper.pc = "pending"
  /\ pending' = {e \in pending : ~(e.queue = "pending" /\ e.ident = reaper.ident)}
  /\ reaper' = [reaper EXCEPT !.pc = "working"]
  /\ UNCHANGED <<hash, ttl, working, tally, notified, reg, handler, worker, beat,
                 pushed, registered, bounds>>

FailLremWorking ==
  /\ reaper.pc = "working"
  /\ working' = LremAll(reaper.ident)
  /\ reaper' = [reaper EXCEPT !.pc = "expire"]
  /\ UNCHANGED <<hash, ttl, pending, tally, notified, reg, handler, worker, beat,
                 pushed, registered, bounds>>

FailExpire ==
  /\ reaper.pc = "expire"
  /\ ttl' = Expire(reaper.ident, "short")
  /\ reaper' = IdleReaper
  /\ UNCHANGED <<hash, pending, working, tally, notified, reg, handler, worker,
                 beat, pushed, registered, bounds>>

-----------------------------------------------------------------------------
(* A pipeline's item slot: archivebot/control.py and seesaw/tasks.py *)

Candidates(w, named) ==
  IF w \in AoOnly
    THEN {"pending-ao"} \cup (IF w \in Large THEN {"pending-large"} ELSE {})
    ELSE (named \cap Nick[w]) \cup {"pending", "pending-ao"}
           \cup (IF w \in Large THEN {"pending-large"} ELSE {})

\* The order of candidate_queues; the named queues come in any order.
Rank(w, q) ==
  CASE q \in NamedQueue     -> 0
    [] q = "pending-large"  -> 1
    [] q = "pending"        -> 2
    [] q = "pending-ao"     -> IF w \in AoOnly THEN 0 ELSE 3

ScanQueues(w) ==
  /\ worker[w].pc = "idle"
  /\ worker' = [worker EXCEPT
       ![w].pc = "dequeue",
       ![w].left = Candidates(w, {e.queue : e \in pending} \cap NamedQueue)]
  /\ UNCHANGED <<jobVars, handler, reaper, beat, pushed, registered, bounds>>

NextQueue(w, q) ==
  /\ worker[w].pc = "dequeue"
  /\ q \in worker[w].left
  /\ \A r \in worker[w].left : Rank(w, q) <= Rank(w, r)

DequeueGivesUp(w, q) ==   \* mutant of DequeueNothing
  /\ NextQueue(w, q)
  /\ Oldest(q) = {}
  /\ worker' = [worker EXCEPT ![w] = IdleWorker]
  /\ UNCHANGED <<jobVars, handler, reaper, beat, pushed, registered, bounds>>

DequeueNothing(w, q) ==
  /\ NextQueue(w, q)
  /\ Oldest(q) = {}
  /\ IF worker[w].left = {q}
       THEN worker' = [worker EXCEPT ![w] = IdleWorker]
       ELSE worker' = [worker EXCEPT ![w].left = @ \ {q}]
  /\ UNCHANGED <<jobVars, handler, reaper, beat, pushed, registered, bounds>>

CopyToWorking(e) ==   \* mutant of MoveToWorking
  pending' = pending /\ working' = [working EXCEPT ![e.ident] = @ + 1]

\* RPOPLPUSH queue working
MoveToWorking(e) ==
  /\ pending' = pending \ {e}
  /\ working' = [working EXCEPT ![e.ident] = @ + 1]

DequeueItem(w, q) ==
  /\ NextQueue(w, q)
  /\ \E e \in Oldest(q) :
       /\ MoveToWorking(e)
       /\ worker' = [worker EXCEPT ![w].pc = "reserve", ![w].left = {},
                                   ![w].ident = e.ident, ![w].ticket = e.ticket]
  /\ UNCHANGED <<hash, ttl, tally, notified, reg, handler, reaper, beat, pushed,
                 registered, bounds>>

\* The reply of RPOPLPUSH is lost: the task retries and takes another job.
DequeueReplyLost(w, q) ==
  /\ NextQueue(w, q)
  /\ Fault("lost_take")
  /\ \E e \in Oldest(q) : MoveToWorking(e)
  /\ worker' = [worker EXCEPT ![w] = IdleWorker]
  /\ UNCHANGED <<hash, ttl, tally, notified, reg, handler, reaper, beat, pushed,
                 registered, asked, cmds, reaps>>

CompleteReservation(w) ==
  LET i == worker[w].ident IN
  /\ worker[w].pc = "reserve"
  /\ hash' = HSet(i, {"started_at"})
  /\ worker' = [worker EXCEPT ![w].pc = "prepare", ![w].reg = reg[i]]
  /\ UNCHANGED <<ttl, pending, working, tally, notified, reg, handler, reaper,
                 beat, pushed, registered, bounds>>

\* The reservation's HMSET or HGETALL fails: the task retries with another job.
ReservationLost(w) ==
  /\ worker[w].pc = "reserve"
  /\ Fault("lost_take")
  /\ hash' \in {hash, HSet(worker[w].ident, {"started_at"})}
  /\ worker' = [worker EXCEPT ![w] = IdleWorker]
  /\ UNCHANGED <<ttl, pending, working, tally, notified, reg, handler, reaper,
                 beat, pushed, registered, asked, cmds, reaps>>

\* StartHeartbeat, SetFetchDepth, PreparePaths, WriteInfo, DownloadUrlFile
Prepare(w) ==
  /\ worker[w].pc = "prepare"
  /\ beat' = [beat EXCEPT ![w] = @ \cup {worker[w].ident}]
  /\ worker' = [worker EXCEPT ![w].pc = "crawl"]
  /\ UNCHANGED <<jobVars, handler, reaper, pushed, registered, bounds>>

SendHeartbeat(w, i) ==
  /\ i \in beat[w]
  /\ hash' = HSet(i, {"heartbeat"})
  /\ UNCHANGED <<ttl, pending, working, tally, notified, reg, handler, worker,
                 reaper, beat, pushed, registered, bounds>>

WpullExits(w) ==
  /\ worker[w].pc = "crawl"
  /\ worker' = [worker EXCEPT ![w].pc = "relabel"]
  /\ UNCHANGED <<jobVars, handler, reaper, beat, pushed, registered, bounds>>

\* wpull sees the abort request in its settings, marks the job and stops.
MarkAborted(w) ==
  LET i == worker[w].ident IN
  /\ worker[w].pc = "crawl"
  /\ "abort_requested" \in hash[i]
  /\ hash' = HSet(i, {"aborted"})
  /\ worker' = [worker EXCEPT ![w].pc = "relabel"]
  /\ UNCHANGED <<ttl, pending, working, tally, notified, reg, handler, reaper,
                 beat, pushed, registered, bounds>>

VerdictOn(i) == IF "aborted" \in hash[i] THEN "aborted" ELSE "completed"

RelabelNever(w) ==   \* mutant of RelabelIfAborted
  /\ worker[w].pc = "relabel"
  /\ worker' = [worker EXCEPT ![w].pc = "move"]
  /\ UNCHANGED <<jobVars, handler, reaper, beat, pushed, registered, bounds>>

RelabelIfAborted(w) ==
  /\ worker[w].pc = "relabel"
  /\ worker' = [worker EXCEPT ![w].pc = "move",
                              ![w].label = VerdictOn(worker[w].ident)]
  /\ UNCHANGED <<jobVars, handler, reaper, beat, pushed, registered, bounds>>

\* CompressLogIfFailed, WriteInfo, MoveFiles, StopHeartbeat
MoveFiles(w) ==
  /\ worker[w].pc = "move"
  /\ beat' = [beat EXCEPT ![w] = @ \ {worker[w].ident}]
  /\ worker' = [worker EXCEPT ![w].pc = "mark"]
  /\ UNCHANGED <<jobVars, handler, reaper, pushed, registered, bounds>>

\* A task of the item raises: seesaw drops the item, the heartbeat ticks on.
TaskFails(w) ==
  /\ worker[w].pc \in {"prepare", "move"}
  /\ Fault("task_fail")
  /\ beat' = [beat EXCEPT ![w] = @ \cup {worker[w].ident}]
  /\ worker' = [worker EXCEPT ![w] = IdleWorker]
  /\ UNCHANGED <<jobVars, handler, reaper, pushed, registered, asked, cmds, reaps>>

MarkDoneKeepsAborted(i, label) ==   \* mutant of MarkDoneScript
  /\ hash' = HSet(i, {"finished_at"})
  /\ working' = LremOne(i)
  /\ tally' = [tally EXCEPT ![VerdictOn(i)] = @ + 1]
  /\ ttl' = [ttl EXCEPT ![i] = IF VerdictOn(i) = "aborted" THEN @ ELSE "long"]
  /\ notified' = [notified EXCEPT ![label] = @ + 1]

\* The Lua script MARK_DONE_SCRIPT
MarkDoneScript(i, label) ==
  /\ hash' = HSet(i, {"finished_at"})
  /\ working' = LremOne(i)
  /\ tally' = [tally EXCEPT ![VerdictOn(i)] = @ + 1]
  /\ ttl' = [ttl EXCEPT ![i] = IF VerdictOn(i) = "aborted" THEN "short" ELSE "long"]
  /\ notified' = [notified EXCEPT ![label] = @ + 1]

MarkItemAsDone(w) ==
  /\ worker[w].pc = "mark"
  /\ MarkDoneScript(worker[w].ident, worker[w].label)
  /\ worker' = [worker EXCEPT ![w] = IdleWorker]
  /\ UNCHANGED <<pending, reg, handler, reaper, beat, pushed, registered, bounds>>

\* The reply is lost: the task runs the script again in five seconds.
MarkDoneReplyLost(w) ==
  /\ worker[w].pc = "mark"
  /\ Fault("lost_done")
  /\ MarkDoneScript(worker[w].ident, worker[w].label)
  /\ UNCHANGED <<pending, reg, handler, worker, reaper, beat, pushed, registered,
                 asked, cmds, reaps>>

Crash(w) ==
  /\ worker[w] # IdleWorker \/ beat[w] # {}
  /\ Fault("crash")
  /\ worker' = [worker EXCEPT ![w] = IdleWorker]
  /\ beat' = [beat EXCEPT ![w] = {}]
  /\ UNCHANGED <<jobVars, handler, reaper, pushed, registered, asked, cmds, reaps>>

\* Redis deletes a key whose timer has run out.
TimerFires(i) ==
  /\ HasTimer(i)
  /\ Delete(i)
  /\ UNCHANGED <<pending, working, tally, notified, reg, handler, worker, reaper,
                 beat, pushed, registered, bounds>>

-----------------------------------------------------------------------------
HandlerStarts(h) ==
  \/ \E i \in Ident, q \in Queue, deep \in BOOLEAN : RequestArchive(h, i, q, deep)
  \/ \E i \in Ident, command \in {"abort", "ttl"} : FindJob(h, i, command)

HandlerStep(h) ==
  CheckExists(h) \/ Register(h) \/ QueueJob(h) \/ InitiateAbort(h)
    \/ ReadTtl(h) \/ ExpireJob(h)

ReaperStep == FailMark \/ FailLremPending \/ FailLremWorking \/ FailExpire

WorkerStep(w) ==
  \/ ScanQueues(w)
  \/ \E q \in Queue : DequeueNothing(w, q) \/ DequeueItem(w, q)
  \/ CompleteReservation(w) \/ Prepare(w)
  \/ WpullExits(w) \/ MarkAborted(w)
  \/ RelabelIfAborted(w) \/ MoveFiles(w) \/ MarkItemAsDone(w)

WorkerFault(w) ==
  \/ \E q \in Queue : DequeueReplyLost(w, q)
  \/ ReservationLost(w) \/ TaskFails(w) \/ MarkDoneReplyLost(w) \/ Crash(w)

Next ==
  \/ \E h \in Handler : HandlerStarts(h) \/ HandlerStep(h) \/ HandlerFails(h)
  \/ (\E i \in Ident : FindForReaping(i)) \/ ReaperStep
  \/ \E w \in Worker : WorkerStep(w) \/ WorkerFault(w)
                         \/ \E i \in Ident : SendHeartbeat(w, i)
  \/ \E i \in Ident : TimerFires(i)

Spec == Init /\ [][Next]_vars

\* Threads run, Redis answers, wpull ends, timers fire.
Fairness ==
  /\ \A h \in Handler : WF_vars(HandlerStep(h))
  /\ \A w \in Worker : WF_vars(WorkerStep(w))
  /\ \A i \in Ident : WF_vars(TimerFires(i))
  /\ WF_vars(ReaperStep)

FairSpec == Spec /\ Fairness

-----------------------------------------------------------------------------
(* Properties *)

Queued(i) == \E e \in pending : e.ident = i
Ended(i)  == hash[i] \cap {"finished_at", "failed"} # {}
Active(i) == "url" \in hash[i] /\ ~Ended(i)

\* The variables hold what the code puts there.
TypeOK ==
  /\ hash \in [Ident -> SUBSET Field]
  /\ ttl \in [Ident -> Timer]
  /\ pending \subseteq Entry
  /\ working \in [Ident -> Nat]
  /\ tally \in [Outcome -> Nat]
  /\ notified \in [Verdict -> Nat]
  /\ handler \in [Handler -> HandlerState]
  /\ \A h \in Handler : handler[h].pc # "idle" => handler[h].ident # None
  /\ worker \in [Worker -> WorkerState]
  /\ \A w \in Worker : worker[w].pc \in Holding => worker[w].ident # None
  /\ reaper \in ReaperState
  /\ reaper.pc # "idle" => reaper.ident # None
  /\ beat \in [Worker -> SUBSET Ident]
  /\ reg \in [Ident -> Nat]
  /\ pushed \in Nat /\ registered \in Nat
  /\ asked \in Nat /\ cmds \in Nat /\ reaps \in Nat /\ faults \in Nat

\* RPOPLPUSH hands every push to at most one pipeline: no two live items stem
\* from one LPUSH, and the push of a live item has left the queues.  Holds
\* under every fault.
NoDoubleDelivery ==
  \A v \in Worker : worker[v].pc \in Holding =>
    /\ \A e \in pending : e.ticket # worker[v].ticket
    /\ \A w \in Worker :
         worker[w].pc \in Holding /\ worker[w].ticket = worker[v].ticket => v = w

\* An ident is at one place: at most one entry of one queue, or once in
\* `working'.
OneCopy ==
  \A i \in Ident :
    /\ \A e, f \in pending : e.ident = i /\ f.ident = i => e = f
    /\ working[i] <= 1
    /\ Queued(i) => working[i] = 0

\* A job is crawled by one pipeline at a time.
MutualExclusion ==
  \A v, w \in Worker, i \in Ident : Holds(v, i) /\ Holds(w, i) => v = w

\* A pipeline that crawls a job finds it where it left it: in `working', with
\* its record complete and without a timer, and it is still the registration
\* that was reserved.
CrawlIsCurrent ==
  \A w \in Worker, i \in Ident : Holds(w, i) =>
    /\ working[i] > 0
    /\ Active(i)
    /\ ttl[i] = "none"
    /\ worker[w].pc # "reserve" => worker[w].reg = reg[i]

\* The files, the finish notification and the counter tell the same story: as
\* many notifications say "aborted" as jobs_aborted counts.
LabelsMatchCounters ==
  \A v \in Verdict : notified[v] = tally[v]

\* No job gets lost or counted twice: every registration is active or has been
\* counted as completed, aborted or failed.
EveryJobAccounted ==
  registered = tally["completed"] + tally["aborted"] + tally["failed"]
                 + Cardinality({i \in Ident : Active(i)})

\* Neither the timers nor !expire drop the record of an active job.
OnlyEndedRecordsVanish ==
  [][\A i \in Ident : "url" \in hash[i] /\ "url" \notin hash'[i] => Ended(i)]_vars

\* A request is never registered over the record of another request.
NoReRegistration ==
  [][\A i \in Ident : reg'[i] # reg[i] => "url" \notin hash[i]]_vars

\* A job that is on a queue some pipeline serves ends.
Served(q) == \E w \in Worker : q \in Candidates(w, NamedQueue)
QueuedJobEnds ==
  \A i \in Ident :
    (\E e \in pending : e.ident = i /\ Served(e.queue)) ~> ("finished_at" \in hash[i])

\* An ended job's URL becomes free for a new request.
EndedJobVanishes ==
  \A i \in Ident : Ended(i) ~> ~Exists(i)

-----------------------------------------------------------------------------
(* The inductive invariant behind OneCopy, MutualExclusion, CrawlIsCurrent, *)
(* LabelsMatchCounters and the refinement.  It holds as long as handlers    *)
(* keep off each other's idents, MARK_DONE's replies arrive and only dead   *)
(* jobs are reaped.                                                         *)

Careful == Faults \cap {"overlap", "lost_done", "reap_any"} = {}

Nowhere(i) ==
  /\ ~Queued(i)
  /\ working[i] = 0
  /\ reaper.ident # i

HandlersApart ==
  \A g, h \in Handler :
    g # h /\ handler[g].ident \in Ident => handler[g].ident # handler[h].ident

\* What a handler at pc has found out about i stays true until it acts on it.
Found(pc, i) ==
  /\ pc = "register" => "url" \notin hash[i] /\ ttl[i] = "none" /\ Nowhere(i)
  /\ pc = "queue" => Active(i) /\ ttl[i] = "none" /\ Nowhere(i)
  /\ pc = "expire" => ~Active(i) /\ Nowhere(i)

HandlerInv == \A h \in Handler : Found(handler[h].pc, handler[h].ident)

QueueInv ==
  \A e \in pending :
    /\ Active(e.ident) /\ ttl[e.ident] = "none"
    /\ working[e.ident] = 0
    /\ reaper.ident # e.ident
    /\ \A f \in pending : f.ident = e.ident => f = e

WorkingInv ==
  \A i \in Ident :
    /\ working[i] \in {0, 1}
    /\ working[i] = 1 =>
         /\ "url" \in hash[i] /\ "finished_at" \notin hash[i]
         /\ ttl[i] = "none"
         /\ "failed" \in hash[i] => reaper.ident = i

WorkerSafe(w) ==
  LET i == worker[w].ident IN
  /\ working[i] = 1
  /\ Active(i)
  /\ reaper.ident # i
  /\ worker[w].pc # "reserve" => worker[w].reg = reg[i]
  /\ worker[w].pc \in {"move", "mark"} => worker[w].label = VerdictOn(i)

WorkerInv ==
  /\ MutualExclusion
  /\ \A w \in Worker : worker[w].pc \in Holding => WorkerSafe(w)

ReaperInv ==
  LET i == reaper.ident IN
  /\ reaper.pc = "idle" => i = None
  /\ reaper.pc # "idle" => ttl[i] = "none" /\ ~Queued(i) /\ "url" \in hash[i]
  /\ reaper.pc = "mark" => working[i] = 1 /\ Active(i)
  /\ reaper.pc \in {"pending", "working"} => working[i] = 1
  /\ reaper.pc \in {"pending", "working", "expire"} => "failed" \in hash[i]
  /\ reaper.pc = "expire" => working[i] = 0

RecordInv ==
  \A i \in Ident :
    /\ ttl[i] # "none" => "url" \in hash[i] /\ Ended(i) /\ Nowhere(i)
    /\ "url" \notin hash[i] => hash[i] \subseteq {"heartbeat", "abort_requested"}

CarefulInv ==
  /\ HandlersApart /\ HandlerInv /\ QueueInv /\ WorkingInv /\ WorkerInv
  /\ ReaperInv /\ RecordInv /\ LabelsMatchCounters

\* Strengthens NoDoubleDelivery; holds under every fault.
TicketInv ==
  /\ \A e \in pending : e.ticket <= pushed
  /\ \A e, f \in pending : e.ticket = f.ticket => e = f
  /\ \A w \in Worker : worker[w].pc \in Holding => worker[w].ticket <= pushed
  /\ NoDoubleDelivery

-----------------------------------------------------------------------------
(* Refinement: where a job is, read off Redis *)

StatusOf(i) ==
  CASE "url" \notin hash[i]                              -> "unknown"
    [] "url" \in hash[i] /\ Ended(i)                     -> "ended"
    [] Active(i) /\ working[i] > 0                       -> "taken"
    [] Active(i) /\ working[i] = 0 /\ Queued(i)          -> "waiting"
    [] Active(i) /\ working[i] = 0 /\ ~Queued(i)         -> "accepted"

Board == INSTANCE JobBoard WITH status <- [i \in Ident |-> StatusOf(i)]

\* As long as handlers keep off each other's idents, MARK_DONE's replies arrive
\* and the operator reaps dead jobs only, the machinery implements the board.
BoardSpec == Board!BoardSpec

=============================================================================
