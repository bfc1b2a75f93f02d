------------------------- MODULE JobLifecycleProofs -------------------------
(* Theorems about JobLifecycle, for all values of its constants. *)
EXTENDS JobLifecycle, FiniteSetTheorems, TLAPS

(***************************************************************************)
(* Type correctness.                                                       *)
(***************************************************************************)
LEMMA FixedQueues == "pending" \in Queue
  BY DEF Queue, Fixed

LEMMA FaultType ==
  ASSUME NEW kind, faults \in Nat, Fault(kind)
  PROVE  faults' \in Nat
  BY DEF Fault

LEMMA OldestType ==
  ASSUME NEW q, NEW e \in Oldest(q)
  PROVE  e \in pending
  BY DEF Oldest

LEMMA CandidatesType ==
  ASSUME NEW w \in Worker, NEW named \in SUBSET NamedQueue
  PROVE  Candidates(w, named) \subseteq Queue
  BY WorkersAssumption DEF Candidates, Queue, Fixed

\* MARK_DONE_SCRIPT keeps the types of what it writes.
LEMMA ScriptType ==
  ASSUME TypeOK, NEW i \in Ident, NEW label \in Verdict, MarkDoneScript(i, label)
  PROVE  /\ hash' \in [Ident -> SUBSET Field]
         /\ working' \in [Ident -> Nat]
         /\ tally' \in [Outcome -> Nat]
         /\ ttl' \in [Ident -> Timer]
         /\ notified' \in [Verdict -> Nat]
  BY DEF TypeOK, MarkDoneScript, HSet, LremOne, VerdictOn, Field, Timer, Outcome,
         Verdict

LEMMA IdleWorkerType == IdleWorker \in WorkerState /\ IdleWorker.pc = "idle"
  BY DEF IdleWorker, WorkerState, Verdict

LEMMA HandlerUpdate ==
  ASSUME NEW f \in [Handler -> HandlerState], NEW h \in Handler
  PROVE  /\ \A p \in {"idle", "check", "register", "queue", "abort", "ttl", "expire"} :
              [f EXCEPT ![h].pc = p] \in [Handler -> HandlerState]
         /\ \A i \in Ident \cup {None} :
              [f EXCEPT ![h].ident = i] \in [Handler -> HandlerState]
  BY DEF HandlerState

LEMMA WorkerUpdate ==
  ASSUME NEW f \in [Worker -> WorkerState], NEW w \in Worker
  PROVE  /\ \A p \in {"idle", "dequeue", "prepare", "crawl", "relabel", "move", "mark"}
                \cup Holding :
              [f EXCEPT ![w].pc = p] \in [Worker -> WorkerState]
         /\ \A i \in Ident \cup {None} :
              [f EXCEPT ![w].ident = i] \in [Worker -> WorkerState]
         /\ \A S \in SUBSET Queue :
              [f EXCEPT ![w].left = S] \in [Worker -> WorkerState]
         /\ \A v \in Verdict :
              [f EXCEPT ![w].label = v] \in [Worker -> WorkerState]
         /\ \A n \in Nat : [f EXCEPT ![w].ticket = n] \in [Worker -> WorkerState]
         /\ \A n \in Nat : [f EXCEPT ![w].reg = n] \in [Worker -> WorkerState]
  BY DEF WorkerState, Holding

\* The variables keep the types the code gives them: every action preserves
\* TypeOK, under every fault.
THEOREM TypeCorrect == Spec => []TypeOK
<1>1. Init => TypeOK
  BY FixedQueues DEF Init, TypeOK, IdleHandler, IdleWorker, IdleReaper,
     HandlerState, WorkerState, ReaperState, Outcome, Verdict, Timer, Holding
<1>2. TypeOK /\ [Next]_vars => TypeOK'
  <2> SUFFICES ASSUME TypeOK, [Next]_vars PROVE TypeOK'
    OBVIOUS
  <2> USE DEF TypeOK
  <2>1. ASSUME NEW h \in Handler, HandlerStarts(h) PROVE TypeOK'
    <3>1. ASSUME NEW i \in Ident, NEW q \in Queue, NEW deep \in BOOLEAN,
                 RequestArchive(h, i, q, deep)
          PROVE  TypeOK'
      BY <3>1, NoneAssumption DEF RequestArchive, jobVars, HandlerState
    <3>2. ASSUME NEW i \in Ident, NEW command \in {"abort", "ttl"},
                 FindJob(h, i, command)
          PROVE  TypeOK'
      <4> DEFINE f == [handler EXCEPT ![h].pc = command]
      <4>1. handler' \in [Handler -> HandlerState]
        <5>1. f \in [Handler -> HandlerState]
          BY HandlerUpdate
        <5>2. handler' = [f EXCEPT ![h].ident = i]
          BY <3>2 DEF FindJob
        <5> QED BY <5>1, <5>2, HandlerUpdate
      <4>2. \A g \in Handler : handler'[g].pc # "idle" => handler'[g].ident # None
        BY <3>2, NoneAssumption DEF FindJob, jobVars, HandlerState
      <4> QED BY <4>1, <4>2, <3>2, NoneAssumption DEF FindJob, jobVars, HandlerState
    <3> QED BY <2>1, <3>1, <3>2 DEF HandlerStarts
  <2>2. ASSUME NEW h \in Handler, HandlerStep(h) PROVE TypeOK'
    <3> USE FixedQueues DEF HandlerState, IdleHandler
    <3> handler[h].pc # "idle" => handler[h].ident \in Ident
      OBVIOUS
    <3>1. CASE CheckExists(h)
      <4>1. handler' \in [Handler -> HandlerState]
        BY <3>1 DEF CheckExists, jobVars, bounds
      <4>2. \A g \in Handler : handler'[g].pc # "idle" => handler'[g].ident # None
        BY <3>1 DEF CheckExists, jobVars, bounds
      <4> QED BY <4>1, <4>2, <3>1 DEF CheckExists, jobVars, bounds
    <3>2. CASE Register(h)
      BY <3>2 DEF Register, bounds, HSet, Field
    <3>3. CASE QueueJob(h)
      BY <3>3 DEF QueueJob, bounds, HSet, Field, Entry
    <3>4. CASE InitiateAbort(h)
      BY <3>4 DEF InitiateAbort, bounds, HSet, Field
    <3>5. CASE ReadTtl(h)
      BY <3>5 DEF ReadTtl, jobVars, bounds
    <3>6. CASE ExpireJob(h)
      BY <3>6 DEF ExpireJob, Delete, bounds, Timer
    <3> QED BY <2>2, <3>1, <3>2, <3>3, <3>4, <3>5, <3>6 DEF HandlerStep
  <2>3. ASSUME NEW h \in Handler, HandlerFails(h) PROVE TypeOK'
    BY <2>3, FixedQueues, FaultType
    DEF HandlerFails, jobVars, HandlerState, IdleHandler
  <2>4. ASSUME NEW i \in Ident, FindForReaping(i) PROVE TypeOK'
    BY <2>4, NoneAssumption DEF FindForReaping, jobVars, ReaperState
  <2>5. CASE ReaperStep
    <3> USE DEF ReaperState, IdleReaper
    <3> reaper.pc # "idle" => reaper.ident \in Ident
      OBVIOUS
    <3>1. CASE FailMark
      BY <3>1 DEF FailMark, HSet, Field, Outcome, bounds
    <3>2. CASE FailLremPending
      BY <3>2 DEF FailLremPending, bounds
    <3>3. CASE FailLremWorking
      BY <3>3 DEF FailLremWorking, LremAll, bounds
    <3>4. CASE FailExpire
      BY <3>4 DEF FailExpire, Expire, Timer, bounds
    <3> QED BY <2>5, <3>1, <3>2, <3>3, <3>4 DEF ReaperStep
  <2>6. ASSUME NEW w \in Worker, WorkerStep(w) PROVE TypeOK'
    <3> USE DEF WorkerState, IdleWorker, Holding
    <3> worker[w].pc \in Holding => worker[w].ident \in Ident
      OBVIOUS
    <3>1. CASE ScanQueues(w)
      <4>1. worker' \in [Worker -> WorkerState]
        <5> DEFINE f == [worker EXCEPT ![w].pc = "dequeue"]
                   S == Candidates(w, {e.queue : e \in pending} \cap NamedQueue)
        <5>1. f \in [Worker -> WorkerState]
          BY WorkerUpdate
        <5>2. worker' = [f EXCEPT ![w].left = S]
          BY <3>1 DEF ScanQueues
        <5>3. S \in SUBSET Queue
          BY CandidatesType
        <5> QED BY <5>1, <5>2, <5>3, WorkerUpdate
      <4>2. \A v \in Worker : worker'[v].pc \in Holding => worker'[v].ident # None
        BY <3>1, CandidatesType DEF ScanQueues, jobVars, bounds
      <4> QED BY <4>1, <4>2, <3>1, CandidatesType DEF ScanQueues, jobVars, bounds
    <3>2. ASSUME NEW q \in Queue, DequeueNothing(w, q) PROVE TypeOK'
      <4>1. worker' \in [Worker -> WorkerState]
        <5>1. worker[w].left \ {q} \in SUBSET Queue
          BY DEF WorkerState
        <5>2. [worker EXCEPT ![w].left = @ \ {q}] \in [Worker -> WorkerState]
          BY <5>1, WorkerUpdate
        <5> QED BY <3>2, <5>2, IdleWorkerType DEF DequeueNothing
      <4>2. \A v \in Worker : worker'[v].pc \in Holding => worker'[v].ident # None
        BY <3>2 DEF DequeueNothing, NextQueue, jobVars, bounds
      <4> QED BY <4>1, <4>2, <3>2 DEF DequeueNothing, NextQueue, jobVars, bounds
    <3>3. ASSUME NEW q \in Queue, DequeueItem(w, q) PROVE TypeOK'
      <4>1. worker' \in [Worker -> WorkerState]
        <5> PICK e \in Oldest(q) :
              worker' = [worker EXCEPT ![w].pc = "reserve", ![w].left = {},
                                       ![w].ident = e.ident, ![w].ticket = e.ticket]
          BY <3>3 DEF DequeueItem
        <5> e.ident \in Ident /\ e.ticket \in Nat
          BY OldestType DEF Entry
        <5> DEFINE f == [worker EXCEPT ![w].pc = "reserve"]
                   g == [f EXCEPT ![w].left = {}]
                   k == [g EXCEPT ![w].ident = e.ident]
        <5>1. f \in [Worker -> WorkerState]
          BY WorkerUpdate
        <5>2. g \in [Worker -> WorkerState]
          BY <5>1, WorkerUpdate
        <5>3. k \in [Worker -> WorkerState]
          BY <5>2, WorkerUpdate
        <5>4. worker' = [k EXCEPT ![w].ticket = e.ticket]
          OBVIOUS
        <5>5. \A n \in Nat : [k EXCEPT ![w].ticket = n] \in [Worker -> WorkerState]
          BY <5>3, WorkerUpdate
        <5>6. [k EXCEPT ![w].ticket = e.ticket] \in [Worker -> WorkerState]
          BY <5>5
        <5> QED BY <5>4, <5>6
      <4>2. \A v \in Worker : worker'[v].pc \in Holding => worker'[v].ident # None
        BY <3>3, OldestType, NoneAssumption DEF DequeueItem, MoveToWorking, Entry, bounds
      <4> QED BY <4>1, <4>2, <3>3, OldestType, NoneAssumption DEF DequeueItem,
                 MoveToWorking, Entry, bounds
    <3>4. CASE CompleteReservation(w)
      <4>1. worker' \in [Worker -> WorkerState]
        <5> DEFINE f == [worker EXCEPT ![w].pc = "prepare"]
        <5>1. f \in [Worker -> WorkerState]
          BY WorkerUpdate
        <5>2. worker' = [f EXCEPT ![w].reg = reg[worker[w].ident]]
          BY <3>4 DEF CompleteReservation
        <5>3. reg[worker[w].ident] \in Nat
          BY <3>4 DEF CompleteReservation
        <5> QED BY <5>1, <5>2, <5>3, WorkerUpdate
      <4>2. \A v \in Worker : worker'[v].pc \in Holding => worker'[v].ident # None
        BY <3>4 DEF CompleteReservation, HSet, Field, bounds
      <4> QED BY <4>1, <4>2, <3>4 DEF CompleteReservation, HSet, Field, bounds
    <3>5. CASE Prepare(w)
      BY <3>5 DEF Prepare, jobVars, bounds
    <3>6. CASE WpullExits(w)
      BY <3>6 DEF WpullExits, jobVars, bounds
    <3>7. CASE MarkAborted(w)
      <4>1. worker' \in [Worker -> WorkerState]
        BY <3>7 DEF MarkAborted, HSet, Field, bounds
      <4>2. \A v \in Worker : worker'[v].pc \in Holding => worker'[v].ident # None
        BY <3>7 DEF MarkAborted, HSet, Field, bounds
      <4> QED BY <4>1, <4>2, <3>7 DEF MarkAborted, HSet, Field, bounds
    <3>8. CASE RelabelIfAborted(w)
      <4>1. worker' \in [Worker -> WorkerState]
        <5> DEFINE f == [worker EXCEPT ![w].pc = "move"]
        <5>1. f \in [Worker -> WorkerState]
          BY WorkerUpdate
        <5>2. worker' = [f EXCEPT ![w].label = VerdictOn(worker[w].ident)]
          BY <3>8 DEF RelabelIfAborted
        <5>3. VerdictOn(worker[w].ident) \in Verdict
          BY DEF VerdictOn, Verdict
        <5> QED BY <5>1, <5>2, <5>3, WorkerUpdate
      <4>2. \A v \in Worker : worker'[v].pc \in Holding => worker'[v].ident # None
        BY <3>8 DEF RelabelIfAborted, VerdictOn, Verdict, jobVars, bounds
      <4> QED BY <4>1, <4>2, <3>8 DEF RelabelIfAborted, VerdictOn, Verdict, jobVars, bounds
    <3>9. CASE MoveFiles(w)
      BY <3>9 DEF MoveFiles, jobVars, bounds
    <3>10. CASE MarkItemAsDone(w)
      BY <3>10, ScriptType, IdleWorkerType DEF MarkItemAsDone, bounds
    <3> QED BY <2>6, <3>1, <3>2, <3>3, <3>4, <3>5, <3>6, <3>7, <3>8, <3>9, <3>10
            DEF WorkerStep
  <2>7. ASSUME NEW w \in Worker, WorkerFault(w) PROVE TypeOK'
    <3> USE FaultType, IdleWorkerType DEF Holding
    <3> worker[w].pc \in Holding => worker[w].ident \in Ident
      BY DEF WorkerState
    <3>1. ASSUME NEW q \in Queue, DequeueReplyLost(w, q) PROVE TypeOK'
      BY <3>1, OldestType DEF DequeueReplyLost, MoveToWorking, Entry
    <3>2. CASE ReservationLost(w)
      BY <3>2 DEF ReservationLost, HSet, Field
    <3>3. CASE TaskFails(w)
      BY <3>3 DEF TaskFails, jobVars
    <3>4. CASE MarkDoneReplyLost(w)
      <4>1. faults' \in Nat
        BY <3>4 DEF MarkDoneReplyLost
      <4>2. worker[w].label \in Verdict
        BY DEF WorkerState
      <4> QED BY <3>4, <4>1, <4>2, ScriptType DEF MarkDoneReplyLost
    <3>5. CASE Crash(w)
      BY <3>5 DEF Crash, jobVars
    <3> QED BY <2>7, <3>1, <3>2, <3>3, <3>4, <3>5 DEF WorkerFault
  <2>8. ASSUME NEW w \in Worker, NEW i \in Ident, SendHeartbeat(w, i) PROVE TypeOK'
    BY <2>8 DEF SendHeartbeat, HSet, Field, bounds
  <2>9. ASSUME NEW i \in Ident, TimerFires(i) PROVE TypeOK'
    BY <2>9 DEF TimerFires, Delete, Timer, bounds
  <2>10. CASE UNCHANGED vars
    BY <2>10 DEF vars, jobVars, bounds
  <2> QED BY <2>1, <2>2, <2>3, <2>4, <2>5, <2>6, <2>7, <2>8, <2>9, <2>10
          DEF Next
<1> QED BY <1>1, <1>2, PTL DEF Spec


(***************************************************************************)
(* Delivery.                                                               *)
(***************************************************************************)

\* A step that pushes nothing and gives no pipeline a job keeps TicketInv.
LEMMA NobodyTakes ==
  ASSUME TicketInv, pending' \subseteq pending, pushed' = pushed,
         \A w \in Worker : worker'[w].pc \in Holding =>
           worker[w].pc \in Holding /\ worker'[w].ticket = worker[w].ticket
  PROVE  TicketInv'
  BY DEF TicketInv, NoDoubleDelivery

\* No two live items stem from one push of Job#queue, and the push of a live
\* item has left the queues, whatever fails: RPOPLPUSH is atomic.
THEOREM Delivery == Spec => []NoDoubleDelivery
<1>1. Init => TicketInv
  BY DEF Init, TicketInv, NoDoubleDelivery, IdleWorker, Holding
<1>2. TypeOK /\ TypeOK' /\ TicketInv /\ [Next]_vars => TicketInv'
  <2> SUFFICES ASSUME TypeOK, TypeOK', TicketInv, [Next]_vars PROVE TicketInv'
    OBVIOUS
  <2> pushed \in Nat /\ worker \in [Worker -> WorkerState] /\ pending \subseteq Entry
    BY DEF TypeOK
  <2>1. ASSUME NEW h \in Handler, HandlerStarts(h) PROVE TicketInv'
    BY <2>1, NobodyTakes DEF HandlerStarts, RequestArchive, FindJob, jobVars
  <2>2. ASSUME NEW h \in Handler, HandlerStep(h) PROVE TicketInv'
    <3>1. CASE QueueJob(h)
      BY <3>1 DEF QueueJob, TicketInv, NoDoubleDelivery, WorkerState, Entry
    <3>2. CASE ~QueueJob(h)
      BY <2>2, <3>2, NobodyTakes DEF HandlerStep, CheckExists, Register,
         InitiateAbort, ReadTtl, ExpireJob, jobVars
    <3> QED BY <3>1, <3>2
  <2>3. ASSUME NEW h \in Handler, HandlerFails(h) PROVE TicketInv'
    BY <2>3, NobodyTakes DEF HandlerFails, jobVars
  <2>4. ASSUME NEW i \in Ident, FindForReaping(i) PROVE TicketInv'
    BY <2>4, NobodyTakes DEF FindForReaping, jobVars
  <2>5. CASE ReaperStep
    BY <2>5, NobodyTakes DEF ReaperStep, FailMark, FailLremPending,
       FailLremWorking, FailExpire
  <2>6. ASSUME NEW w \in Worker, WorkerStep(w) PROVE TicketInv'
    <3>1. ASSUME NEW q \in Queue, DequeueItem(w, q) PROVE TicketInv'
      <4> PICK e \in Oldest(q) :
            /\ MoveToWorking(e)
            /\ worker' = [worker EXCEPT ![w].pc = "reserve", ![w].left = {},
                                        ![w].ident = e.ident, ![w].ticket = e.ticket]
        BY <3>1 DEF DequeueItem
      <4>1. e \in pending
        BY OldestType
      <4>2. worker'[w].ticket = e.ticket
        BY DEF WorkerState
      <4>3. \A v \in Worker : v # w => worker'[v] = worker[v]
        OBVIOUS
      <4>4. pending' = pending \ {e} /\ pushed' = pushed
        BY <3>1 DEF DequeueItem, MoveToWorking
      <4> QED BY <4>1, <4>2, <4>3, <4>4 DEF TicketInv, NoDoubleDelivery
    <3>2. ASSUME NEW q \in Queue, DequeueNothing(w, q) PROVE TicketInv'
      BY <3>2, NobodyTakes, IdleWorkerType
      DEF DequeueNothing, NextQueue, jobVars, Holding, WorkerState
    <3>3. CASE ScanQueues(w) \/ CompleteReservation(w) \/ Prepare(w)
      BY <3>3, NobodyTakes
      DEF ScanQueues, CompleteReservation, Prepare, jobVars, Holding, WorkerState
    <3>4. CASE WpullExits(w) \/ MarkAborted(w) \/ RelabelIfAborted(w) \/ MoveFiles(w)
      BY <3>4, NobodyTakes
      DEF WpullExits, MarkAborted, RelabelIfAborted, MoveFiles, jobVars, Holding,
          WorkerState
    <3>5. CASE MarkItemAsDone(w)
      BY <3>5, NobodyTakes, IdleWorkerType DEF MarkItemAsDone, Holding, WorkerState
    <3> QED BY <2>6, <3>1, <3>2, <3>3, <3>4, <3>5 DEF WorkerStep
  <2>7. ASSUME NEW w \in Worker, WorkerFault(w) PROVE TicketInv'
    <3>1. ASSUME NEW q \in Queue, DequeueReplyLost(w, q) PROVE TicketInv'
      BY <3>1, NobodyTakes, IdleWorkerType
      DEF DequeueReplyLost, MoveToWorking, Holding, WorkerState
    <3>2. CASE ReservationLost(w) \/ TaskFails(w) \/ MarkDoneReplyLost(w) \/ Crash(w)
      BY <3>2, NobodyTakes, IdleWorkerType
      DEF ReservationLost, TaskFails, MarkDoneReplyLost, Crash, jobVars, Holding,
          WorkerState
    <3> QED BY <2>7, <3>1, <3>2 DEF WorkerFault
  <2>8. ASSUME NEW w \in Worker, NEW i \in Ident, SendHeartbeat(w, i) PROVE TicketInv'
    BY <2>8, NobodyTakes DEF SendHeartbeat
  <2>9. ASSUME NEW i \in Ident, TimerFires(i) PROVE TicketInv'
    BY <2>9, NobodyTakes DEF TimerFires
  <2>10. CASE UNCHANGED vars
    BY <2>10, NobodyTakes DEF vars, jobVars
  <2> QED BY <2>1, <2>2, <2>3, <2>4, <2>5, <2>6, <2>7, <2>8, <2>9, <2>10 DEF Next
<1>3. TicketInv => NoDoubleDelivery
  BY DEF TicketInv
<1> QED BY <1>1, <1>2, <1>3, TypeCorrect, PTL DEF Spec

-----------------------------------------------------------------------------
(***************************************************************************)
(* What holds of JobLifecycle as long as handlers keep off each other's    *)
(* idents, MARK_DONE's replies arrive and only dead jobs are reaped.       *)
(***************************************************************************)
LEMMA CarefulInit == Init => CarefulInv
  BY NoneAssumption DEF Init, CarefulInv, HandlersApart, HandlerInv, Found, QueueInv,
     WorkingInv,
     WorkerInv, WorkerSafe, MutualExclusion, Holds, Holding, ReaperInv, RecordInv,
     LabelsMatchCounters, IdleHandler, IdleWorker, IdleReaper, Verdict, Outcome, Nowhere,
     Queued, Active, Ended

\* A handler picks up an ident nobody else works on.
LEMMA CarefulStart ==
  ASSUME Careful, TypeOK, CarefulInv, NEW h \in Handler,
         HandlerStarts(h) \/ HandlerFails(h)
  PROVE  CarefulInv'
<1> USE NoneAssumption DEF TypeOK, CarefulInv, HandlerState, IdleHandler
<1> USE DEF HandlerStarts, HandlerFails, RequestArchive, FindJob, jobVars
<1>1. handler[h].pc = "idle" \/ handler[h].pc = "queue"
  OBVIOUS
<1>2. PICK x \in HandlerState :
        /\ handler' = [handler EXCEPT ![h] = x]
        /\ x.pc \in {"idle", "check", "abort", "ttl"}
        /\ x.ident \in Ident => \A g \in Handler \ {h} : handler[g].ident # x.ident
  BY FixedQueues DEF Careful, Alone
<1>3. UNCHANGED <<hash, ttl, pending, working, tally, notified, reg, worker, reaper>>
  OBVIOUS
<1> HIDE DEF HandlerStarts, HandlerFails, RequestArchive, FindJob, jobVars, CarefulInv
<1>4. handler'[h] = x /\ \A g \in Handler \ {h} : handler'[g] = handler[g]
  BY <1>2
<1> HIDE DEF TypeOK, HandlerState
<1>5. HandlersApart'
  BY <1>2, <1>4 DEF CarefulInv, HandlersApart
<1> USE DEF CarefulInv
<1>6. HandlerInv'
  <2> SUFFICES ASSUME NEW g \in Handler
               PROVE  Found(handler[g].pc, handler[g].ident)'
    BY DEF HandlerInv
  <2>1. CASE g = h
    BY <1>2, <1>4, <2>1 DEF Found
  <2>2. CASE g # h
    <3>1. Found(handler[g].pc, handler[g].ident)
      BY DEF HandlerInv
    <3> QED BY <1>3, <1>4, <2>2, <3>1 DEF Found, Nowhere, Queued, Active, Ended
  <2> QED BY <2>1, <2>2
<1>7. QueueInv' /\ WorkingInv'
  BY <1>3 DEF QueueInv, WorkingInv, Active, Ended
<1>8. WorkerInv'
  BY <1>3 DEF WorkerInv, WorkerSafe, MutualExclusion, Holds, Active, Ended, VerdictOn
<1>9. ReaperInv' /\ RecordInv' /\ LabelsMatchCounters'
  BY SMTT(20), <1>3 DEF ReaperInv, RecordInv, LabelsMatchCounters, Nowhere, Queued, Active,
     Ended
<1> QED BY <1>5, <1>6, <1>7, <1>8, <1>9

LEMMA CarefulHandler ==
  ASSUME TypeOK, CarefulInv, NEW h \in Handler, HandlerStep(h)
  PROVE  CarefulInv'
<1> USE NoneAssumption DEF CarefulInv, TypeOK, HandlerState, IdleHandler
<1> DEFINE i == handler[h].ident
<1>1. i \in Ident
  BY DEF HandlerStep, CheckExists, Register, QueueJob, InitiateAbort, ReadTtl, ExpireJob
<1>2. \A g \in Handler : g # h => handler[g].ident # i
  BY <1>1 DEF HandlersApart
<1>3. \A g \in Handler : g # h => handler'[g] = handler[g]
  BY DEF HandlerStep, CheckExists, Register, QueueJob, InitiateAbort, ReadTtl, ExpireJob
<1>4. \A j \in Ident : j # i => /\ hash'[j] = hash[j] /\ ttl'[j] = ttl[j] /\ reg'[j] = reg[j]
                                /\ Queued(j)' = Queued(j)
  BY DEF HandlerStep, CheckExists, Register, QueueJob, InitiateAbort, ReadTtl, ExpireJob,
     HSet, Delete, Queued, jobVars
<1>5. UNCHANGED <<working, tally, notified, reaper, worker>>
  BY DEF HandlerStep, CheckExists, Register, QueueJob, InitiateAbort, ReadTtl, ExpireJob,
     jobVars
<1>6. HandlersApart'
  BY DEF HandlerStep, CheckExists, Register, QueueJob, InitiateAbort, ReadTtl, ExpireJob,
     HandlersApart
<1> USE DEF Nowhere, Queued, Active, Ended
<1>7. HandlerInv'
  <2>1. Found(handler[h].pc, handler[h].ident)'
    <3> USE DEF HandlerInv, Found, QueueInv, WorkingInv, ReaperInv, RecordInv
    <3>1. CASE CheckExists(h)
      BY <3>1, <1>1 DEF CheckExists, Exists, jobVars, bounds
    <3>2. CASE Register(h)
      <4>1. /\ handler'[h].pc = "queue" /\ handler'[h].ident = i
            /\ hash'[i] = hash[i] \cup {"url"}
            /\ UNCHANGED <<ttl, pending, working, reaper>>
        BY <3>2, <1>1 DEF Register, HSet
      <4>2. "url" \notin hash[i] /\ ttl[i] = "none" /\ Nowhere(i)
        BY <3>2 DEF Register
      <4>3. hash[i] \subseteq {"heartbeat", "abort_requested"}
        BY <1>1, <4>2
      <4>4. Active(i)'
        BY <4>1, <4>3
      <4>5. Nowhere(i)'
        BY <4>1, <4>2
      <4> QED BY <4>1, <4>2, <4>4, <4>5
    <3>3. CASE QueueJob(h)
      BY <3>3 DEF QueueJob
    <3>4. CASE InitiateAbort(h)
      BY <3>4 DEF InitiateAbort
    <3>5. CASE ReadTtl(h)
      BY <3>5 DEF ReadTtl, jobVars, HasTimer
    <3>6. CASE ExpireJob(h)
      BY <3>6 DEF ExpireJob
    <3> QED BY <3>1, <3>2, <3>3, <3>4, <3>5, <3>6 DEF HandlerStep
  <2>2. ASSUME NEW g \in Handler, g # h PROVE Found(handler[g].pc, handler[g].ident)'
    <3> DEFINE j == handler[g].ident
    <3>1. handler'[g].pc = handler[g].pc /\ handler'[g].ident = j /\ j # i
      BY <1>2, <1>3, <2>2
    <3>2. handler[g].pc # "idle" => j \in Ident
      OBVIOUS
    <3>3. Found(handler[g].pc, j)
      BY DEF HandlerInv
    <3> QED BY <3>1, <3>2, <3>3, <1>4, <1>5 DEF Found
  <2> QED BY <2>1, <2>2 DEF HandlerInv
<1> USE <1>1, <1>5 DEF HandlerStep, CheckExists, Register, QueueJob, InitiateAbort,
      ReadTtl, ExpireJob, HSet, Delete, jobVars, bounds, HandlerInv, Found
<1>8. QueueInv'
  BY DEF QueueInv, Entry
<1>9. WorkingInv'
  BY DEF WorkingInv
<1>10. WorkerInv'
  BY DEF WorkerInv, WorkerSafe, MutualExclusion, Holds, WorkerState, VerdictOn, Holding
<1>11. ReaperInv'
  <2>1. reaper.pc # "idle" => reaper.ident \in Ident
    BY DEF ReaperState
  <2>2. reaper.pc # "idle" /\ reaper.ident = i => handler[h].pc \notin {"register", "queue", "expire"}
    OBVIOUS
  <2>3. reaper.pc # "idle" => \A j \in Ident : reaper.ident = j =>
          /\ ttl'[j] = "none" /\ hash[j] \subseteq hash'[j] 
          /\ hash'[j] \subseteq hash[j] \cup {"abort_requested"} /\ ~Queued(j)'
    BY <2>2, <1>4 DEF ReaperInv
  <2> QED BY <2>1, <2>3 DEF ReaperInv
<1>12. RecordInv'
  BY DEF RecordInv
<1>13. LabelsMatchCounters'
  BY <1>5 DEF LabelsMatchCounters
<1> QED BY <1>6, <1>7, <1>8, <1>9, <1>10, <1>11, <1>12, <1>13

LEMMA CarefulReaper ==
  ASSUME Careful, TypeOK, CarefulInv,
         (\E i \in Ident : FindForReaping(i)) \/ ReaperStep
  PROVE  CarefulInv'
<1> USE NoneAssumption DEF CarefulInv, TypeOK, Careful, ReaperState, IdleReaper
<1> USE DEF FindForReaping, ReaperStep, FailMark, FailLremPending, FailLremWorking,
      FailExpire, HSet, LremAll, Expire, Exists, jobVars, bounds
<1> USE DEF Nowhere, Queued, Active, Ended
<1>1. PICK i \in Ident :
        /\ reaper'.ident \in {i, None}
        /\ reaper.ident \in {i, None}
        /\ working[i] = 1 \/ reaper.ident = i
        /\ \A j \in Ident : j # i => /\ hash'[j] = hash[j] /\ ttl'[j] = ttl[j]
                                     /\ working'[j] = working[j]
        /\ UNCHANGED <<handler, worker, reg>>
        /\ VerdictOn(i)' = VerdictOn(i)
        /\ pending' = pending
  <2>1. ASSUME NEW i \in Ident, FindForReaping(i) PROVE working[i] = 1 /\ reaper.ident = None
    BY <2>1 DEF WorkingInv, Dead, ReaperInv
  <2>2. CASE FailLremPending
    BY <2>2 DEF ReaperInv, VerdictOn
  <2> QED BY <2>1, <2>2 DEF VerdictOn
<1>2. HandlersApart'
  BY <1>1 DEF HandlersApart
<1>3. HandlerInv'
  <2> SUFFICES ASSUME NEW g \in Handler PROVE Found(handler[g].pc, handler[g].ident)'
    BY DEF HandlerInv
  <2> DEFINE j == handler[g].ident
  <2>1. handler'[g] = handler[g] /\ Found(handler[g].pc, j)
    BY <1>1 DEF HandlerInv
  <2>2. handler[g].pc # "idle" => j \in Ident
    BY DEF HandlerState
  <2>3. CASE j = i
    BY <2>1, <2>3, <1>1 DEF Found
  <2>4. CASE j # i
    BY <2>1, <2>2, <2>4, <1>1 DEF Found
  <2> QED BY <2>3, <2>4
<1>4. QueueInv'
  BY <1>1 DEF QueueInv, Entry
<1>5. WorkingInv'
  BY <1>1 DEF WorkingInv, ReaperInv
<1>6. WorkerInv'
  BY <1>1 DEF WorkerInv, WorkerSafe, MutualExclusion, Holds, WorkerState, Holding,
     VerdictOn, Dead, ReaperInv
<1>7. ReaperInv'
  <2>1. ASSUME NEW k \in Ident, FindForReaping(k) PROVE ReaperInv'
    BY <2>1 DEF ReaperInv, WorkingInv, QueueInv, Dead
  <2>2. CASE FailMark
    BY <2>2 DEF ReaperInv
  <2>3. CASE FailLremPending
    BY <2>3 DEF ReaperInv
  <2>4. CASE FailLremWorking
    BY <2>4 DEF ReaperInv
  <2>5. CASE FailExpire
    BY <2>5 DEF ReaperInv
  <2> QED BY <2>1, <2>2, <2>3, <2>4, <2>5
<1>8. RecordInv'
  BY <1>1 DEF RecordInv, ReaperInv
<1>9. LabelsMatchCounters'
  BY DEF LabelsMatchCounters, Outcome, Verdict
<1> QED BY <1>2, <1>3, <1>4, <1>5, <1>6, <1>7, <1>8, <1>9


LEMMA CarefulWorker ==
  ASSUME Careful, TypeOK, CarefulInv, NEW w \in Worker, 
         WorkerStep(w) \/ WorkerFault(w)
  PROVE  CarefulInv'
<1> USE NoneAssumption DEF CarefulInv, TypeOK, Careful
<1> USE DEF Nowhere, Queued, Active, Ended
\* no job taken or finished
<1>1. CASE \/ ScanQueues(w) \/ (\E q \in Queue : DequeueNothing(w, q)) 
           \/ CompleteReservation(w) \/ ReservationLost(w) 
           \/ Prepare(w) \/ WpullExits(w) \/ MarkAborted(w) \/ RelabelIfAborted(w)
           \/ MoveFiles(w) \/ TaskFails(w) \/ Crash(w)
  <2> DEFINE i == worker[w].ident
  <2> USE <1>1 DEF ScanQueues, DequeueNothing, NextQueue, CompleteReservation, ReservationLost, Prepare,
             WpullExits, MarkAborted, RelabelIfAborted, MoveFiles, TaskFails, Crash, HSet, jobVars, bounds
  <2>1. \A v \in Worker : v # w => worker'[v] = worker[v]
    BY DEF WorkerState, Holding
  <2>2. worker'[w].pc \in Holding => 
          /\ worker[w].pc \in Holding /\ worker'[w].ident = i
          /\ worker'[w].pc # "reserve"
          /\ \/ worker[w].pc = "reserve" /\ worker'[w].reg = reg[i] 
             \/ worker[w].pc # "reserve" /\ worker'[w].reg = worker[w].reg
          /\ \/ worker'[w].pc = "move" /\ worker[w].pc = "relabel" /\ worker'[w].label = VerdictOn(i)
             \/ worker'[w].pc = "mark" /\ worker[w].pc = "move" /\ worker'[w].label = worker[w].label
             \/ worker'[w].pc \notin {"move", "mark"}
    BY IdleWorkerType DEF WorkerState, Holding
  <2>3. /\ hash' \in {hash, HSet(i, {"started_at"}), HSet(i, {"aborted"})}
        /\ UNCHANGED <<ttl, pending, working, tally, notified, handler, reaper, reg>>
    OBVIOUS
  <2>4. hash' # hash => worker[w].pc \in {"reserve", "crawl"} /\ i \in Ident
    BY DEF WorkerState, Holding
  <2>5. \A j \in Ident :
          /\ hash[j] \subseteq hash'[j]
          /\ hash'[j] \subseteq hash[j] \cup {"started_at", "aborted"}
          /\ hash'[j] # hash[j] => j = i /\ worker[w].pc \in {"reserve", "crawl"}
    BY <2>3, <2>4
  <2>6. HandlersApart' /\ LabelsMatchCounters'
    BY SMTT(20), <2>3 DEF HandlersApart, LabelsMatchCounters
  <2>7. HandlerInv'
    <3> SUFFICES ASSUME NEW g \in Handler PROVE Found(handler[g].pc, handler[g].ident)'
      BY DEF HandlerInv
    <3>1. Found(handler[g].pc, handler[g].ident)
      BY DEF HandlerInv
    <3>2. handler[g].pc # "idle" => handler[g].ident \in Ident
      BY DEF HandlerState
    <3> QED BY <3>1, <3>2, <2>3, <2>5 DEF Found
  <2>8. QueueInv' /\ WorkingInv' /\ ReaperInv'
    BY <2>3, <2>5 DEF QueueInv, WorkingInv, ReaperInv, Entry, ReaperState
  <2>9. WorkerInv'
    <3>1. MutualExclusion'
      BY <2>1, <2>2 DEF WorkerInv, WorkerSafe, MutualExclusion, Holds
    <3>2. ASSUME NEW v \in Worker, worker'[v].pc \in Holding, v # w 
          PROVE  hash'[worker[v].ident] = hash[worker[v].ident]
      <4>1. worker[v].pc \in Holding /\ worker[v].ident \in Ident
        BY <2>1, <3>2 DEF WorkerState
      <4>2. worker[w].pc \in {"reserve", "crawl"} => worker[w].pc \in Holding
        BY DEF Holding
      <4>3. worker[w].pc \in {"reserve", "crawl"} => worker[v].ident # i
        BY <3>2, <4>1, <4>2 DEF WorkerInv, MutualExclusion, Holds
      <4> QED BY <4>1, <4>3, <2>5
    <3>3. worker[w].pc \in {"relabel", "move"} => hash' = hash
      BY SMTT(20), <2>4
    <3>4. ASSUME NEW v \in Worker, worker'[v].pc \in Holding, v # w 
          PROVE  WorkerSafe(v)'
      <4>1. worker'[v] = worker[v] /\ WorkerSafe(v)
        BY SMTT(20), <2>1, <3>4 DEF WorkerInv
      <4> QED BY <4>1, <2>3, <3>2, <3>4 DEF WorkerSafe, VerdictOn
    <3>5. ASSUME worker'[w].pc \in Holding
          PROVE  WorkerSafe(w)'
      <4>1. WorkerSafe(w) /\ i \in Ident
        BY <2>2, <3>5 DEF WorkerInv, WorkerState
      <4>2. Active(i) /\ worker'[w].ident = i => Active(worker[w].ident)'
        BY <4>1, <2>5
      <4>3. worker[w].pc \in {"relabel", "move"} /\ worker'[w].ident = i =>
              VerdictOn(worker[w].ident)' = VerdictOn(i)
        BY <3>3 DEF VerdictOn
      <4> QED BY <2>2, <2>3, <3>5, <4>1, <4>2, <4>3 DEF WorkerSafe
    <3> QED BY <3>1, <3>4, <3>5 DEF WorkerInv
  <2>10. RecordInv'
    <3>1. hash' # hash => "url" \in hash[i]
      BY <2>4 DEF WorkerInv, WorkerSafe, Holding
    <3> QED BY <3>1, <2>3, <2>5 DEF RecordInv
  <2> QED BY <2>6, <2>7, <2>8, <2>9, <2>10
<1>2. ASSUME NEW q \in Queue, DequeueItem(w, q) \/ DequeueReplyLost(w, q) PROVE CarefulInv'
  <2> PICK e \in Oldest(q) :
        /\ MoveToWorking(e)
        /\ worker'[w].pc \in Holding => worker'[w].pc = "reserve" /\ worker'[w].ident = e.ident
    <3>1. CASE DequeueReplyLost(w, q)
      BY <3>1, IdleWorkerType DEF DequeueReplyLost, Holding
    <3>2. CASE DequeueItem(w, q)
      BY <3>2 DEF DequeueItem, WorkerState
    <3> QED BY <1>2, <3>1, <3>2
  <2> DEFINE i == e.ident
  <2>1. e \in pending /\ i \in Ident
    BY OldestType DEF Entry
  <2>2. /\ pending' = pending \ {e}
        /\ working' = [working EXCEPT ![i] = @ + 1]
        /\ UNCHANGED <<hash, ttl, tally, notified, reg, handler, reaper>>
    BY <1>2 DEF DequeueItem, DequeueReplyLost, MoveToWorking
  <2>3. Active(i) /\ ttl[i] = "none" /\ working[i] = 0 /\ reaper.ident # i /\ Queued(i)
    BY <2>1 DEF QueueInv
  <2>4. ~ Queued(i)' /\ \A j \in Ident : j # i => working'[j] = working[j] /\ Queued(j)' = Queued(j)
    BY <2>1, <2>2 DEF QueueInv
  <2>5. \A v \in Worker : worker[v].pc \in Holding => worker[v].ident # i
    BY <2>3 DEF WorkerInv, WorkerSafe
  <2>6. HandlersApart' /\ LabelsMatchCounters'
    BY <2>2 DEF HandlersApart, LabelsMatchCounters
  <2>7. HandlerInv'
    BY <2>2, <2>3, <2>4 DEF HandlerInv, Found, HandlerState
  <2>8. QueueInv' /\ WorkingInv' /\ ReaperInv'
    BY <2>1, <2>2, <2>3, <2>4 DEF QueueInv, WorkingInv, ReaperInv, Entry, ReaperState
  <2>9. WorkerInv'
    <3>1. worker'[w].pc \in Holding => worker'[w].pc = "reserve" /\ worker'[w].ident = i
      OBVIOUS
    <3>2. \A v \in Worker : v # w => worker'[v] = worker[v]
      BY <1>2 DEF DequeueItem, DequeueReplyLost
    <3>3. MutualExclusion'
      BY <3>1, <3>2, <2>5 DEF WorkerInv, WorkerSafe, MutualExclusion, Holds
    <3>4. ASSUME NEW v \in Worker, worker'[v].pc \in Holding, v # w 
          PROVE  WorkerSafe(v)'
      BY <3>2, <3>4, <2>2, <2>4, <2>5 DEF WorkerInv, WorkerSafe, WorkerState, VerdictOn
    <3>5. ASSUME worker'[w].pc \in Holding PROVE WorkerSafe(w)'
      BY <3>1, <3>5, <2>1, <2>2, <2>3 DEF WorkerSafe
    <3> QED BY <3>3, <3>4, <3>5 DEF WorkerInv
  <2>10. RecordInv'
    BY <2>1, <2>2, <2>3, <2>4 DEF RecordInv
  <2> QED BY <2>6, <2>7, <2>8, <2>9, <2>10
<1>3. CASE MarkItemAsDone(w)
  <2> PICK i \in Ident : i = worker[w].ident
    BY <1>3 DEF MarkItemAsDone, WorkerState, Holding
  <2>1. i = worker[w].ident /\ worker[w].pc = "mark" /\ worker[w].pc \in Holding /\ worker[w].label = VerdictOn(i)
    BY <1>3 DEF MarkItemAsDone, WorkerState, Holding, WorkerInv, WorkerSafe
  <2>2. working[i] = 1 /\ Active(i) /\ reaper.ident # i /\ ~Queued(i)
    BY <2>1 DEF WorkerInv, WorkerSafe, QueueInv
  <2>3. \A j \in Ident : /\ hash'[j] = IF j = i THEN hash[i] \cup {"finished_at"} ELSE hash[j]
                         /\ working'[j] = IF j = i THEN 0 ELSE working[j]
                         /\ j # i => ttl'[j] = ttl[j]
    BY <1>3, <2>1, <2>2 DEF MarkItemAsDone, MarkDoneScript, HSet, LremOne
  <2>4. \A v \in Worker : v # w => worker'[v] = worker[v]
    BY <1>3 DEF MarkItemAsDone
  <2>5. UNCHANGED <<pending, reg, handler, reaper>> /\ worker'[w].pc = "idle"
    BY <1>3, IdleWorkerType DEF MarkItemAsDone
  <2>6. HandlersApart' 
    BY <2>5 DEF HandlersApart
  <2>7. LabelsMatchCounters'
    BY <1>3, <2>1 DEF MarkItemAsDone, MarkDoneScript, LabelsMatchCounters, VerdictOn,
       Verdict, Outcome
  <2>8. HandlerInv'
    BY <2>1, <2>2, <2>3, <2>5 DEF HandlerInv, Found, HandlerState
  <2>9. QueueInv' /\ WorkingInv' /\ ReaperInv'
    BY <2>1, <2>2, <2>3, <2>5 DEF QueueInv, WorkingInv, ReaperInv, Entry, ReaperState
  <2>10. WorkerInv'
    <3>1. "idle" \notin Holding
      BY DEF Holding
    <3>2. \A v \in Worker : worker'[v].pc \in Holding => 
            /\ v # w /\ worker'[v] = worker[v] /\ worker[v].ident # i
      BY <2>1, <2>4, <2>5, <3>1 DEF WorkerInv, WorkerSafe, MutualExclusion, Holds,
         WorkerState
    <3>3. MutualExclusion'
      BY <3>2 DEF WorkerInv, WorkerSafe, MutualExclusion, Holds
    <3>4. ASSUME NEW v \in Worker, worker'[v].pc \in Holding PROVE WorkerSafe(v)'
      BY <3>2, <3>4, <2>3, <2>5 DEF WorkerInv, WorkerSafe, WorkerState, VerdictOn
    <3> QED BY <3>3, <3>4 DEF WorkerInv
  <2>11. RecordInv'
    <3>1. \A j \in Ident : j # i => Queued(j)' = Queued(j) /\ Ended(j)' = Ended(j)
      BY <2>3, <2>5
    <3>2. "url" \in hash'[i] /\ Ended(i)' /\ Nowhere(i)'
      BY <2>1, <2>2, <2>3, <2>5
    <3> QED BY <3>1, <3>2, <2>3, <2>5 DEF RecordInv
  <2> QED BY <2>6, <2>7, <2>8, <2>9, <2>10, <2>11
<1>4. CASE MarkDoneReplyLost(w)
  BY <1>4 DEF MarkDoneReplyLost, Fault
<1> QED BY <1>1, <1>2, <1>3, <1>4 DEF WorkerStep, WorkerFault

LEMMA CarefulTimer ==
  ASSUME TypeOK, CarefulInv, NEW i \in Ident,
         TimerFires(i) \/ \E w \in Worker : SendHeartbeat(w, i)
  PROVE  CarefulInv'
<1> USE NoneAssumption DEF CarefulInv, TypeOK, TimerFires, SendHeartbeat, HasTimer, Delete, HSet, bounds
<1> USE DEF Nowhere, Queued, Active, Ended
<1>1. UNCHANGED <<pending, working, tally, notified, reg, handler, worker, reaper>>
  OBVIOUS
<1>2. HandlersApart' /\ LabelsMatchCounters'
  BY <1>1 DEF HandlersApart, LabelsMatchCounters
<1>3. HandlerInv'
  BY <1>1 DEF HandlerInv, Found, HandlerState
<1>4. QueueInv'
  BY <1>1 DEF QueueInv, Entry
<1>5. WorkingInv'
  BY <1>1 DEF WorkingInv
<1>6. ReaperInv'
  BY <1>1 DEF ReaperInv, ReaperState, RecordInv
<1>7. WorkerInv'
  BY SMTT(20), <1>1 DEF WorkerInv, WorkerSafe, RecordInv, MutualExclusion, Holds, VerdictOn,
     Holding, WorkerState
<1>8. RecordInv'
  BY <1>1 DEF RecordInv
<1> QED BY <1>2, <1>3, <1>4, <1>5, <1>6, <1>7, <1>8

THEOREM CarefulCorrect == Careful => (Spec => []CarefulInv)
<1> SUFFICES ASSUME Careful PROVE Spec => []CarefulInv
  OBVIOUS
<1>1. TypeOK /\ CarefulInv /\ [Next]_vars => CarefulInv'
  <2> SUFFICES ASSUME TypeOK, CarefulInv, [Next]_vars PROVE CarefulInv'
    OBVIOUS
  <2>1. CASE Next
    BY <2>1, CarefulStart, CarefulHandler, CarefulReaper, CarefulWorker,
       CarefulTimer DEF Next
  <2>2. CASE UNCHANGED vars
    <3>1. UNCHANGED <<hash, ttl, pending, working, tally, notified, reg, handler, worker, reaper>>
      BY <2>2 DEF vars, jobVars
    <3>2. HandlersApart' /\ HandlerInv' /\ ReaperInv' /\ RecordInv' /\ LabelsMatchCounters'
      BY <3>1 DEF CarefulInv, HandlersApart, HandlerInv, Found, ReaperInv, RecordInv,
         LabelsMatchCounters, 
              Nowhere, Queued, Active, Ended
    <3>3. QueueInv' /\ WorkingInv'
      BY <3>1 DEF CarefulInv, QueueInv, WorkingInv, Active, Ended
    <3>4. WorkerInv'
      BY <3>1 DEF CarefulInv, WorkerInv, WorkerSafe, MutualExclusion, Holds, VerdictOn,
         Active, Ended
    <3> QED BY <3>2, <3>3, <3>4 DEF CarefulInv
  <2> QED BY <2>1, <2>2
<1> QED BY <1>1, CarefulInit, TypeCorrect, PTL DEF Spec


(***************************************************************************)
(* What the inductive invariant says about the system.                     *)
(***************************************************************************)

\* An ident is at one place: at most one entry of one queue, or once in
\* `working' (Job#queue, RPOPLPUSH, MARK_DONE's and Job#fail's LREM).
THEOREM OneCopyHolds == Careful => (Spec => []OneCopy)
<1> SUFFICES ASSUME Careful PROVE Spec => []OneCopy
  OBVIOUS
<1>1. CarefulInv => OneCopy
  BY DEF CarefulInv, QueueInv, WorkingInv, OneCopy, Queued
<1> QED BY <1>1, CarefulCorrect, PTL

\* A job is crawled by one pipeline at a time, also after reaping, requeueing
\* by a new request and crashes.
THEOREM MutualExclusionHolds == Careful => (Spec => []MutualExclusion)
<1> SUFFICES ASSUME Careful PROVE Spec => []MutualExclusion
  OBVIOUS
<1>1. CarefulInv => MutualExclusion
  BY DEF CarefulInv, WorkerInv
<1> QED BY <1>1, CarefulCorrect, PTL

\* A pipeline that crawls a job finds its record complete, without a timer and
\* of the registration it reserved.
THEOREM CrawlIsCurrentHolds == Careful => (Spec => []CrawlIsCurrent)
<1> SUFFICES ASSUME Careful PROVE Spec => []CrawlIsCurrent
  OBVIOUS
<1>1. TypeOK /\ CarefulInv => CrawlIsCurrent
  BY DEF CarefulInv, WorkerInv, WorkerSafe, WorkingInv, CrawlIsCurrent, Holds
<1> QED BY <1>1, CarefulCorrect, TypeCorrect, PTL

\* Notifications and counters agree on what was aborted.
THEOREM LabelsHold == Careful => (Spec => []LabelsMatchCounters)
<1> SUFFICES ASSUME Careful PROVE Spec => []LabelsMatchCounters
  OBVIOUS
<1>1. CarefulInv => LabelsMatchCounters
  BY DEF CarefulInv
<1> QED BY <1>1, CarefulCorrect, PTL

\* Neither the timers nor !expire drop the record of an active job.
THEOREM VanishingHolds == Careful => (Spec => OnlyEndedRecordsVanish)
<1> SUFFICES ASSUME Careful PROVE Spec => OnlyEndedRecordsVanish
  OBVIOUS
<1>1. TypeOK /\ CarefulInv /\ [Next]_vars =>
        [\A i \in Ident : "url" \in hash[i] /\ "url" \notin hash'[i] => Ended(i)]_vars
  <2> SUFFICES ASSUME TypeOK, CarefulInv, [Next]_vars, NEW i \in Ident,
                      "url" \in hash[i], "url" \notin hash'[i]
               PROVE  Ended(i)
    BY DEF vars, jobVars
  <2> USE DEF TypeOK, HSet, jobVars, bounds
  <2>1. ASSUME NEW h \in Handler, HandlerStarts(h) \/ HandlerStep(h) \/ HandlerFails(h)
        PROVE  Ended(i)
    <3>1. ExpireJob(h) /\ handler[h].ident = i
      BY <2>1 DEF HandlerStarts, RequestArchive, FindJob, HandlerFails, HandlerStep,
         CheckExists, Register, QueueJob, InitiateAbort, ReadTtl, ExpireJob, Delete
    <3> QED BY <3>1 DEF ExpireJob, CarefulInv, HandlerInv, Found, Active
  <2>2. ASSUME NEW j \in Ident, TimerFires(j) PROVE Ended(i)
    <3>1. j = i /\ ttl[i] # "none"
      BY <2>2 DEF TimerFires, Delete, HasTimer
    <3> QED BY <3>1 DEF CarefulInv, RecordInv
  <2>3. ~ \E j \in Ident : FindForReaping(j)
    BY DEF FindForReaping
  <2>4. ~ ReaperStep
    BY DEF ReaperStep, FailMark, FailLremPending, FailLremWorking, FailExpire
  <2>5. ASSUME NEW w \in Worker, WorkerStep(w) PROVE FALSE
    <3>1. ~ (\E q \in Queue : DequeueNothing(w, q) \/ DequeueItem(w, q))
      BY DEF DequeueNothing, DequeueItem
    <3>2. ~ (ScanQueues(w) \/ CompleteReservation(w) \/ Prepare(w) \/ WpullExits(w))
      BY DEF ScanQueues, CompleteReservation, Prepare, WpullExits
    <3>3. ~ (MarkAborted(w) \/ RelabelIfAborted(w) \/ MoveFiles(w) \/ MarkItemAsDone(w))
      BY DEF MarkAborted, RelabelIfAborted, MoveFiles, MarkItemAsDone, MarkDoneScript
    <3> QED BY <2>5, <3>1, <3>2, <3>3 DEF WorkerStep
  <2>6. ASSUME NEW w \in Worker, WorkerFault(w) PROVE FALSE
    BY <2>6 DEF WorkerFault, DequeueReplyLost, ReservationLost, TaskFails,
       MarkDoneReplyLost, MarkDoneScript, Crash
  <2>7. ASSUME NEW w \in Worker, NEW j \in Ident, SendHeartbeat(w, j) PROVE FALSE
    BY <2>7 DEF SendHeartbeat
  <2>8. ~ UNCHANGED vars
    BY DEF vars
  <2> QED BY <2>1, <2>2, <2>3, <2>4, <2>5, <2>6, <2>7, <2>8 DEF Next
<1> QED BY <1>1, CarefulCorrect, TypeCorrect, PTL DEF Spec, OnlyEndedRecordsVanish


\* A request is never registered over the record of another request, although
\* Brain#request_archive looks for the key and writes it in separate steps.
THEOREM RegistrationHolds == Careful => (Spec => NoReRegistration)
<1> SUFFICES ASSUME Careful PROVE Spec => NoReRegistration
  OBVIOUS
<1>1. TypeOK /\ CarefulInv /\ [Next]_vars =>
        [\A i \in Ident : reg'[i] # reg[i] => "url" \notin hash[i]]_vars
  <2> SUFFICES ASSUME TypeOK, CarefulInv, [Next]_vars, NEW i \in Ident,
                      reg'[i] # reg[i]
               PROVE  "url" \notin hash[i]
    BY DEF vars, jobVars
  <2>1. PICK h \in Handler : Register(h)
    <3> USE DEF jobVars, bounds
    <3>1. ASSUME NEW h \in Handler, HandlerStarts(h) \/ HandlerStep(h) \/ HandlerFails(h)
          PROVE  Register(h)
      BY <3>1 DEF HandlerStarts, RequestArchive, FindJob, HandlerFails, HandlerStep,
         CheckExists, QueueJob, InitiateAbort, ReadTtl, ExpireJob
    <3>2. ~ ReaperStep
      BY DEF ReaperStep, FailMark, FailLremPending, FailLremWorking, FailExpire
    <3>3. ASSUME NEW w \in Worker, WorkerStep(w) PROVE FALSE
      <4>1. ~ (\E q \in Queue : DequeueNothing(w, q) \/ DequeueItem(w, q))
        BY DEF DequeueNothing, DequeueItem
      <4>2. ~ (ScanQueues(w) \/ CompleteReservation(w) \/ Prepare(w) \/ WpullExits(w))
        BY DEF ScanQueues, CompleteReservation, Prepare, WpullExits
      <4>3. ~ (MarkAborted(w) \/ RelabelIfAborted(w) \/ MoveFiles(w) \/ MarkItemAsDone(w))
        BY DEF MarkAborted, RelabelIfAborted, MoveFiles, MarkItemAsDone
      <4> QED BY <3>3, <4>1, <4>2, <4>3 DEF WorkerStep
    <3>4. ASSUME NEW w \in Worker, WorkerFault(w) PROVE FALSE
      BY <3>4 DEF WorkerFault, DequeueReplyLost, ReservationLost, TaskFails,
         MarkDoneReplyLost, Crash
    <3>5. ASSUME NEW w \in Worker, NEW j \in Ident, SendHeartbeat(w, j) PROVE FALSE
      BY <3>5 DEF SendHeartbeat
    <3>6. ASSUME NEW j \in Ident, FindForReaping(j) \/ TimerFires(j) PROVE FALSE
      BY <3>6 DEF FindForReaping, TimerFires
    <3>7. ~ UNCHANGED vars
      BY DEF vars
    <3> QED BY <3>1, <3>2, <3>3, <3>4, <3>5, <3>6, <3>7 DEF Next
  <2>2. handler[h].ident = i /\ Found(handler[h].pc, handler[h].ident)
    BY <2>1 DEF Register, TypeOK, CarefulInv, HandlerInv
  <2> QED BY <2>1, <2>2 DEF Register, Found
<1> QED BY <1>1, CarefulCorrect, TypeCorrect, PTL DEF Spec, NoReRegistration

(***************************************************************************)
(* The machinery implements JobBoard.                                      *)
(***************************************************************************)

\* StatusOf reads three fields of the hash, `working' and the queues.
LEMMA StatusStays ==
  ASSUME TypeOK, TypeOK', NEW j \in Ident,
         \A f \in {"url", "finished_at", "failed"} : f \in hash'[j] <=> f \in hash[j],
         "url" \in hash[j] /\ ~Ended(j) =>
           working'[j] = working[j] /\ Queued(j)' = Queued(j)
  PROVE  StatusOf(j)' = StatusOf(j)
  BY DEF StatusOf, Active, Ended, TypeOK

LEMMA StatusInit == Init => Board!BoardInit
  BY DEF Init, StatusOf, Active, Board!BoardInit, Board!Outcome, Outcome

\* A step that moves one ident on the board, and no other.
LEMMA OneMoves ==
  ASSUME NEW i \in Ident, NEW from, NEW to, StatusOf(i) = from, StatusOf(i)' = to,
         \A j \in Ident : j # i => StatusOf(j)' = StatusOf(j)
  PROVE  Board!Move(i, from, to)
  BY DEF Board!Move

LEMMA NoneMoves ==
  ASSUME \A j \in Ident : StatusOf(j)' = StatusOf(j), tally' = tally
  PROVE  UNCHANGED <<[i \in Ident |-> StatusOf(i)], tally>>
  OBVIOUS

LEMMA HandlerBoard ==
  ASSUME TypeOK, TypeOK', CarefulInv, NEW h \in Handler, HandlerStep(h)
  PROVE  Board!BoardNext \/ UNCHANGED <<[i \in Ident |-> StatusOf(i)], tally>>
<1> USE NoneAssumption DEF TypeOK, HSet, bounds, jobVars
<1> PICK i \in Ident : i = handler[h].ident
  BY DEF HandlerState, HandlerStep, CheckExists, Register, QueueJob, InitiateAbort,
     ReadTtl, ExpireJob
<1>1. tally' = tally /\ working' = working
  BY DEF HandlerStep, CheckExists, Register, QueueJob, InitiateAbort, ReadTtl, ExpireJob
<1>2. ASSUME NEW j \in Ident, j # i PROVE StatusOf(j)' = StatusOf(j)
  <2>1. hash'[j] = hash[j] /\ Queued(j)' = Queued(j)
    BY <1>2 DEF HandlerStep, CheckExists, Register, QueueJob, InitiateAbort, ReadTtl,
       ExpireJob, Delete, Queued
  <2> QED BY <1>1, <2>1, StatusStays
<1>3. Found(handler[h].pc, i)
  BY DEF CarefulInv, HandlerInv
<1>4. CASE Register(h)
  <2>1. StatusOf(i) = "unknown"
    BY <1>3, <1>4 DEF Register, Found, StatusOf, Active
  <2>2. hash'[i] = hash[i] \cup {"url"} /\ ~Queued(i)' /\ working'[i] = 0
    BY <1>1, <1>3, <1>4 DEF Register, Found, Nowhere, Queued
  <2>3. hash[i] \subseteq {"heartbeat", "abort_requested"}
    BY <1>3, <1>4 DEF Register, Found, CarefulInv, RecordInv
  <2>4. StatusOf(i)' = "accepted"
    BY <2>2, <2>3 DEF StatusOf, Active, Ended
  <2> QED BY <1>1, <1>2, <2>1, <2>4, OneMoves DEF Board!BoardNext, Board!Accept
<1>5. CASE QueueJob(h)
  <2>1. Active(i) /\ working[i] = 0 /\ ~Queued(i)
    BY <1>3, <1>5 DEF QueueJob, Found, Nowhere
  <2>2. StatusOf(i) = "accepted"
    BY <2>1 DEF StatusOf, Active
  <2>3. Queued(i)' /\ hash'[i] = hash[i] \cup {"queued_at"}
    <3> DEFINE e == [queue |-> handler[h].queue, ident |-> i, ticket |-> pushed + 1]
    <3>1. e \in pending' /\ e.ident = i
      BY <1>5 DEF QueueJob
    <3>2. hash'[i] = hash[i] \cup {"queued_at"}
      BY <1>5 DEF QueueJob
    <3> QED BY <3>1, <3>2 DEF Queued
  <2>4. StatusOf(i)' = "waiting"
    BY <1>1, <2>1, <2>3 DEF StatusOf, Active, Ended
  <2> QED BY <1>1, <1>2, <2>2, <2>4, OneMoves DEF Board!BoardNext, Board!Post
<1>6. CASE ExpireJob(h)
  <2>1. StatusOf(i) \in {"ended", "unknown"}
    BY <1>3, <1>6 DEF ExpireJob, Found, Active, StatusOf
  <2>2. StatusOf(i)' = "unknown"
    BY <1>6 DEF ExpireJob, Delete, StatusOf, Active
  <2> QED BY <1>1, <1>2, <2>1, <2>2, OneMoves, NoneMoves
          DEF Board!BoardNext, Board!Forget
<1>7. CASE CheckExists(h) \/ InitiateAbort(h) \/ ReadTtl(h)
  <2>1. pending' = pending /\ hash' \in {hash, HSet(i, {"abort_requested"})}
    BY <1>7 DEF CheckExists, InitiateAbort, ReadTtl
  <2>2. StatusOf(i)' = StatusOf(i)
    BY <1>1, <2>1, StatusStays DEF Queued
  <2> QED BY <1>1, <1>2, <2>2, NoneMoves
<1> QED BY <1>4, <1>5, <1>6, <1>7 DEF HandlerStep

LEMMA ReaperBoard ==
  ASSUME TypeOK, TypeOK', CarefulInv, ReaperStep
  PROVE  Board!BoardNext \/ UNCHANGED <<[i \in Ident |-> StatusOf(i)], tally>>
<1> USE DEF TypeOK, HSet, bounds, ReaperState
<1> PICK i \in Ident : i = reaper.ident
  BY DEF ReaperStep, FailMark, FailLremPending, FailLremWorking, FailExpire
<1> USE DEF CarefulInv, ReaperInv, Active, Ended, Queued
<1>1. CASE FailMark
  <2>1. StatusOf(i) = "taken"
    BY <1>1 DEF FailMark, StatusOf
  <2>2. StatusOf(i)' = "ended"
    BY <1>1 DEF FailMark, StatusOf
  <2>3. ASSUME NEW j \in Ident, j # i PROVE StatusOf(j)' = StatusOf(j)
    BY <1>1, <2>3, StatusStays DEF FailMark
  <2> QED BY <1>1, <2>1, <2>2, <2>3, OneMoves
          DEF FailMark, Board!BoardNext, Board!End, Board!Outcome
<1>2. CASE ~FailMark
  <2>1. hash' = hash /\ tally' = tally /\ Ended(i)
    BY <1>2 DEF ReaperStep, FailLremPending, FailLremWorking, FailExpire
  <2>2. \A j \in Ident : j # i => working'[j] = working[j] /\ Queued(j)' = Queued(j)
    BY <1>2 DEF ReaperStep, FailLremPending, FailLremWorking, FailExpire, LremAll
  <2>3. ASSUME NEW j \in Ident PROVE StatusOf(j)' = StatusOf(j)
    BY <2>1, <2>2, StatusStays
  <2> QED BY <2>1, <2>3, NoneMoves
<1> QED BY <1>1, <1>2

LEMMA WorkerBoard ==
  ASSUME Careful, TypeOK, TypeOK', CarefulInv, NEW w \in Worker,
         WorkerStep(w) \/ WorkerFault(w)
  PROVE  Board!BoardNext \/ UNCHANGED <<[i \in Ident |-> StatusOf(i)], tally>>
<1> USE DEF TypeOK, HSet, bounds, jobVars
<1>1. ASSUME NEW q \in Queue, DequeueItem(w, q) \/ DequeueReplyLost(w, q)
      PROVE  Board!BoardNext
  <2> PICK e \in Oldest(q) : MoveToWorking(e)
    BY <1>1 DEF DequeueItem, DequeueReplyLost
  <2>1. e \in pending /\ e.ident \in Ident /\ hash' = hash /\ tally' = tally
    <3>1. e \in pending
      BY OldestType
    <3>2. e.ident \in Ident
      BY <3>1 DEF Entry
    <3> QED BY <1>1, <3>1, <3>2 DEF DequeueItem, DequeueReplyLost
  <2>2. StatusOf(e.ident) = "waiting"
    BY <2>1 DEF CarefulInv, QueueInv, StatusOf, Active, Queued
  <2>3. StatusOf(e.ident)' = "taken"
    BY <2>1 DEF CarefulInv, QueueInv, StatusOf, Active, Ended, MoveToWorking
  <2>4. ASSUME NEW j \in Ident, j # e.ident PROVE StatusOf(j)' = StatusOf(j)
    BY <2>1, <2>4, StatusStays DEF MoveToWorking, Queued
  <2> QED BY <2>1, <2>2, <2>3, <2>4, OneMoves DEF Board!BoardNext, Board!Take
<1>2. CASE MarkItemAsDone(w)
  <2> PICK i \in Ident : i = worker[w].ident
    BY <1>2 DEF MarkItemAsDone, Holding, WorkerState
  <2>1. working[i] = 1 /\ Active(i) /\ MarkDoneScript(i, worker[w].label)
    BY <1>2 DEF MarkItemAsDone, CarefulInv, WorkerInv, WorkerSafe, Holding
  <2>2. StatusOf(i) = "taken"
    BY <2>1 DEF StatusOf, Active
  <2>3. StatusOf(i)' = "ended"
    BY <2>1 DEF StatusOf, Active, Ended, MarkDoneScript
  <2>4. ASSUME NEW j \in Ident, j # i PROVE StatusOf(j)' = StatusOf(j)
    <3>1. hash'[j] = hash[j] /\ working'[j] = working[j] /\ pending' = pending
      BY <1>2, <2>1, <2>4 DEF MarkItemAsDone, MarkDoneScript, LremOne
    <3> QED BY <3>1, StatusStays DEF Queued
  <2>5. PICK o \in Verdict : tally' = [tally EXCEPT ![o] = @ + 1]
    BY <2>1 DEF MarkDoneScript, VerdictOn, Verdict
  <2> QED BY <2>2, <2>3, <2>4, <2>5, OneMoves
          DEF Board!BoardNext, Board!End, Board!Outcome, Verdict
<1>3. ~ MarkDoneReplyLost(w)
  BY DEF Careful, MarkDoneReplyLost, Fault
<1>4. CASE \/ ScanQueues(w) \/ (\E q \in Queue : DequeueNothing(w, q))
           \/ CompleteReservation(w) \/ ReservationLost(w)
           \/ Prepare(w) \/ WpullExits(w) \/ MarkAborted(w) \/ RelabelIfAborted(w)
           \/ MoveFiles(w) \/ TaskFails(w) \/ Crash(w)
  <2> USE <1>4 DEF ScanQueues, DequeueNothing, NextQueue, CompleteReservation,
          ReservationLost, Prepare, WpullExits, MarkAborted, RelabelIfAborted,
          MoveFiles, TaskFails, Crash
  <2> PICK i : i = worker[w].ident
    OBVIOUS
  <2>1. hash' \in {hash, HSet(i, {"started_at"}), HSet(i, {"aborted"})}
    OBVIOUS
  <2>2. UNCHANGED <<tally, working, pending>>
    OBVIOUS
  <2>3. ASSUME NEW j \in Ident PROVE StatusOf(j)' = StatusOf(j)
    BY SMTT(20), <2>1, <2>2, StatusStays DEF Queued
  <2> QED BY <2>2, <2>3, NoneMoves
<1> QED BY <1>1, <1>2, <1>3, <1>4 DEF WorkerStep, WorkerFault

LEMMA BoardStep ==
  ASSUME Careful, TypeOK, TypeOK', CarefulInv, [Next]_vars
  PROVE  Board!BoardNext \/ UNCHANGED <<[i \in Ident |-> StatusOf(i)], tally>>
<1>1. ASSUME NEW h \in Handler, HandlerStarts(h) \/ HandlerFails(h)
      PROVE  UNCHANGED <<[i \in Ident |-> StatusOf(i)], tally>>
  <2>1. UNCHANGED <<hash, working, pending, tally>>
    BY <1>1 DEF HandlerStarts, RequestArchive, FindJob, HandlerFails, jobVars
  <2> QED BY <2>1 DEF StatusOf, Active, Ended, Queued
<1>2. ASSUME NEW j \in Ident, FindForReaping(j)
      PROVE  UNCHANGED <<[i \in Ident |-> StatusOf(i)], tally>>
  <2>1. UNCHANGED <<hash, working, pending, tally>>
    BY <1>2 DEF FindForReaping, jobVars
  <2> QED BY <2>1 DEF StatusOf, Active, Ended, Queued
<1>3. ASSUME NEW w \in Worker, NEW j \in Ident, SendHeartbeat(w, j)
      PROVE  UNCHANGED <<[i \in Ident |-> StatusOf(i)], tally>>
  <2>1. UNCHANGED <<working, pending, tally>> /\ hash' = HSet(j, {"heartbeat"})
    BY <1>3 DEF SendHeartbeat
  <2>2. ASSUME NEW k \in Ident PROVE StatusOf(k)' = StatusOf(k)
    BY <2>1, StatusStays DEF HSet, Queued, TypeOK
  <2> QED BY <2>1, <2>2, NoneMoves
<1>4. ASSUME NEW i \in Ident, TimerFires(i) PROVE Board!BoardNext
  <2>1. UNCHANGED <<working, pending, tally>> /\ Delete(i) /\ ttl[i] # "none"
    BY <1>4 DEF TimerFires, HasTimer
  <2>2. StatusOf(i) = "ended"
    BY <2>1 DEF CarefulInv, RecordInv, StatusOf, Active, Ended
  <2>3. StatusOf(i)' = "unknown"
    BY <2>1 DEF StatusOf, Active, Delete, TypeOK
  <2>4. ASSUME NEW j \in Ident, j # i PROVE StatusOf(j)' = StatusOf(j)
    BY <2>1, <2>4, StatusStays DEF Delete, Queued, TypeOK
  <2> QED BY <2>1, <2>2, <2>3, <2>4, OneMoves DEF Board!BoardNext, Board!Forget
<1>5. CASE UNCHANGED vars
  BY <1>5 DEF vars, jobVars, StatusOf, Active, Ended, Queued
<1> QED BY <1>1, <1>2, <1>3, <1>4, <1>5, HandlerBoard, ReaperBoard, WorkerBoard DEF Next

\* The job machinery implements the board: a URL has one request at a time,
\* which is queued once, taken once and ends with one outcome, before the URL
\* can be requested again.
THEOREM Refinement == Careful => (Spec => BoardSpec)
<1> SUFFICES ASSUME Careful PROVE Spec => Board!BoardSpec
  BY DEF BoardSpec
<1>1. TypeOK /\ TypeOK' /\ CarefulInv /\ [Next]_vars =>
        [Board!BoardNext]_<<[i \in Ident |-> StatusOf(i)], tally>>
  BY BoardStep
<1>2. Spec => [](TypeOK /\ CarefulInv)
  BY CarefulCorrect, TypeCorrect, PTL
<1>3. Spec => [][Board!BoardNext]_<<[i \in Ident |-> StatusOf(i)], tally>>
  BY <1>1, <1>2, PTL DEF Spec
<1> QED BY <1>3, StatusInit, PTL DEF Spec, Board!BoardSpec

(***************************************************************************)
(* No job gets lost: what the board's moves do to the number of those that  *)
(* are active.                                                              *)
(***************************************************************************)
Live == {i \in Ident : Active(i)}

Accounts == IsFiniteSet(Live) /\ EveryJobAccounted

\* Only Register makes a URL known.
LEMMA OnlyRegister ==
  ASSUME TypeOK, [Next]_vars, \A h \in Handler : ~Register(h)
  PROVE  registered' = registered /\ \A i \in Ident : "url" \in hash'[i] => "url" \in hash[i]
<1> USE DEF TypeOK, HSet, bounds, jobVars
<1>1. ASSUME NEW h \in Handler, HandlerStarts(h) \/ HandlerFails(h) \/ HandlerStep(h)
      PROVE  registered' = registered /\ \A i \in Ident : "url" \in hash'[i] => "url" \in hash[i]
  BY <1>1 DEF HandlerStarts, RequestArchive, FindJob, HandlerFails, HandlerStep,
     CheckExists,
     QueueJob, InitiateAbort, ReadTtl, ExpireJob, Delete
<1>2. ASSUME NEW w \in Worker, WorkerStep(w) \/ WorkerFault(w)
      PROVE  registered' = registered /\ \A i \in Ident : "url" \in hash'[i] => "url" \in hash[i]
  <2>1. registered' = registered
    BY <1>2 DEF WorkerStep, WorkerFault, DequeueItem, DequeueReplyLost, MarkItemAsDone,
       MarkDoneReplyLost, ScanQueues, DequeueNothing, CompleteReservation, ReservationLost,
       Prepare, WpullExits, MarkAborted, RelabelIfAborted, MoveFiles, TaskFails, Crash
  <2>2. CASE MarkItemAsDone(w) \/ MarkDoneReplyLost(w)
    BY <2>1, <2>2 DEF MarkItemAsDone, MarkDoneReplyLost, MarkDoneScript
  <2>3. CASE \E q \in Queue : DequeueItem(w, q) \/ DequeueReplyLost(w, q)
    BY <2>1, <2>3 DEF DequeueItem, DequeueReplyLost
  <2>4. CASE \/ ScanQueues(w) \/ (\E q \in Queue : DequeueNothing(w, q))
             \/ CompleteReservation(w) \/ ReservationLost(w) \/ Prepare(w) \/ WpullExits(w)
             \/ MarkAborted(w) \/ RelabelIfAborted(w) \/ MoveFiles(w) \/ TaskFails(w)
             \/ Crash(w)
    <3>1. \/ hash' = hash
          \/ \E j : hash' = HSet(j, {"started_at"}) \/ hash' = HSet(j, {"aborted"})
      BY <2>4 DEF ScanQueues, DequeueNothing, CompleteReservation, ReservationLost, Prepare,
         WpullExits, MarkAborted, RelabelIfAborted, MoveFiles, TaskFails, Crash
    <3> QED BY <2>1, <3>1
  <2> QED BY <1>2, <2>2, <2>3, <2>4 DEF WorkerStep, WorkerFault
<1>3. CASE ReaperStep
  BY <1>3 DEF ReaperStep, FailMark, FailLremPending, FailLremWorking, FailExpire
<1>4. ASSUME NEW j \in Ident, \/ FindForReaping(j) \/ TimerFires(j)
                              \/ \E w \in Worker : SendHeartbeat(w, j)
      PROVE  registered' = registered /\ \A i \in Ident : "url" \in hash'[i] => "url" \in hash[i]
  BY <1>4 DEF FindForReaping, TimerFires, Delete, SendHeartbeat
<1>5. CASE UNCHANGED vars
  BY <1>5 DEF vars
<1> QED BY <1>1, <1>2, <1>3, <1>4, <1>5 DEF Next

\* An active job has one of three states on the board, in which it stays active.
LEMMA LiveStatus ==
  ASSUME TypeOK, TypeOK', NEW i \in Ident
  PROVE  /\ Active(i) <=> StatusOf(i) \in {"accepted", "waiting", "taken"}
         /\ Active(i)' <=> StatusOf(i)' \in {"accepted", "waiting", "taken"}
<1>1. working[i] \in Nat /\ working'[i] \in Nat
  BY DEF TypeOK
<1>2. Active(i) <=> StatusOf(i) \in {"accepted", "waiting", "taken"}
  BY <1>1 DEF StatusOf, Active
<1>3. Active(i)' <=> StatusOf(i)' \in {"accepted", "waiting", "taken"}
  BY <1>1 DEF StatusOf, Active
<1> QED BY <1>2, <1>3

LEMMA AccountsStep ==
  ASSUME Careful, TypeOK, TypeOK', CarefulInv, Accounts, [Next]_vars
  PROVE  Accounts'
<1>1. /\ registered \in Nat /\ Cardinality(Live) \in Nat
      /\ tally["completed"] \in Nat /\ tally["aborted"] \in Nat /\ tally["failed"] \in Nat
      /\ IsFiniteSet(Live)
      /\ registered = tally["completed"] + tally["aborted"] + tally["failed"] + Cardinality(Live)
  BY FS_CardinalityType DEF Accounts, EveryJobAccounted, TypeOK, Outcome, Live
<1>2. CASE \E h \in Handler : Register(h)
  <2>1. PICK h \in Handler : Register(h)
    BY <1>2
  <2>2. PICK i \in Ident : i = handler[h].ident
    BY <2>1 DEF Register, TypeOK, HandlerState
  <2>3. /\ hash' = HSet(i, {"url"}) /\ tally' = tally /\ registered' = registered + 1
    BY <2>1, <2>2 DEF Register
  <2>4. Found(handler[h].pc, i) /\ handler[h].pc = "register"
    BY <2>1, <2>2 DEF CarefulInv, HandlerInv, Register
  <2>5. "url" \notin hash[i] /\ hash[i] \subseteq {"heartbeat", "abort_requested"}
    BY <2>4 DEF Found, CarefulInv, RecordInv
  <2>6. Live' = Live \cup {i} /\ i \notin Live
    BY <2>3, <2>5 DEF Live, Active, Ended, HSet, TypeOK
  <2>7. IsFiniteSet(Live') /\ Cardinality(Live') = Cardinality(Live) + 1
    BY <1>1, <2>6, FS_AddElement
  <2> QED BY <1>1, <2>3, <2>7 DEF Accounts, EveryJobAccounted, Live
<1>3. CASE \A h \in Handler : ~Register(h)
  <2>1. registered' = registered /\ \A i \in Ident : "url" \in hash'[i] => "url" \in hash[i]
    BY <1>3, OnlyRegister
  <2>2. CASE \/ UNCHANGED <<[i \in Ident |-> StatusOf(i)], tally>>
             \/ \E i \in Ident : Board!Accept(i) \/ Board!Post(i) \/ Board!Take(i) \/ Board!Forget(i)
    <3>1. ASSUME NEW i \in Ident, Board!Accept(i)
          PROVE  FALSE
      <4>1. StatusOf(i) = "unknown" /\ StatusOf(i)' = "accepted"
        BY <3>1 DEF Board!Accept, Board!Move
      <4>2. "url" \notin hash[i] /\ "url" \in hash'[i]
        <5>1. Active(i)' /\ ~Active(i)
          BY <4>1, LiveStatus
        <5>2. Ended(i) /\ "url" \in hash[i] => StatusOf(i) = "ended"
          BY DEF StatusOf, Active
        <5> QED BY <4>1, <5>1, <5>2 DEF Active
      <4> QED BY <2>1, <4>2
    <3>2. tally' = tally /\ Live' = Live
      <4>1. CASE UNCHANGED <<[i \in Ident |-> StatusOf(i)], tally>>
        <5>1. \A i \in Ident : StatusOf(i)' = StatusOf(i)
          BY <4>1
        <5> QED BY <4>1, <5>1, LiveStatus DEF Live
      <4>2. ASSUME NEW i \in Ident, Board!Post(i) \/ Board!Take(i) \/ Board!Forget(i)
            PROVE  tally' = tally /\ Live' = Live
        <5>1. PICK from, to :
                /\ StatusOf(i) = from /\ StatusOf(i)' = to
                /\ from \in {"accepted", "waiting", "taken"} <=> to \in {"accepted", "waiting", "taken"}
                /\ \A j \in Ident : j # i => StatusOf(j)' = StatusOf(j)
          BY <4>2 DEF Board!Post, Board!Take, Board!Forget, Board!Move
        <5>2. \A j \in Ident : Active(j)' <=> Active(j)
          BY <5>1, LiveStatus
        <5> QED BY <4>2, <5>2 DEF Live, Board!Post, Board!Take, Board!Forget
      <4> QED BY <2>2, <3>1, <4>1, <4>2
    <3> QED BY <1>1, <2>1, <3>2 DEF Accounts, EveryJobAccounted, Live
  <2>3. ASSUME NEW i \in Ident, NEW o \in Outcome, Board!End(i, o)
        PROVE  Accounts'
    <3>1. /\ StatusOf(i) = "taken" /\ StatusOf(i)' = "ended"
          /\ \A j \in Ident : j # i => StatusOf(j)' = StatusOf(j)
          /\ tally' = [tally EXCEPT ![o] = @ + 1]
      BY <2>3 DEF Board!End, Board!Move
    <3>2. i \in Live /\ Live' = Live \ {i}
      BY <3>1, LiveStatus DEF Live
    <3>3. IsFiniteSet(Live') /\ Cardinality(Live') = Cardinality(Live) - 1
      BY <1>1, <3>2, FS_RemoveElement
    <3>4. tally'["completed"] + tally'["aborted"] + tally'["failed"] =
            tally["completed"] + tally["aborted"] + tally["failed"] + 1
      BY <1>1, <3>1 DEF TypeOK, Outcome
    <3> QED BY <1>1, <2>1, <3>3, <3>4 DEF Accounts, EveryJobAccounted, Live
  <2> QED BY <2>2, <2>3, BoardStep DEF Board!BoardNext, Board!Outcome, Outcome
<1> QED BY <1>2, <1>3

\* Every registration is active or was counted with one outcome, once: nothing
\* between the handlers, the queues, the pipelines and the operator loses a job.
THEOREM JobsAreAccounted == Careful => (Spec => []EveryJobAccounted)
<1> SUFFICES ASSUME Careful PROVE Spec => []EveryJobAccounted
  OBVIOUS
<1>1. Init => Accounts
  <2> SUFFICES ASSUME Init PROVE Accounts
    OBVIOUS
  <2>1. Live = {} /\ registered = 0 /\ tally = [o \in Outcome |-> 0]
    BY DEF Init, Live, Active
  <2> QED BY <2>1, FS_EmptySet DEF Accounts, EveryJobAccounted, Live, Outcome
<1>2. TypeOK /\ TypeOK' /\ CarefulInv /\ Accounts /\ [Next]_vars => Accounts'
  BY AccountsStep
<1>3. Spec => [](TypeOK /\ CarefulInv)
  BY CarefulCorrect, TypeCorrect, PTL
<1>4. Accounts => EveryJobAccounted
  BY DEF Accounts
<1> QED BY <1>1, <1>2, <1>3, <1>4, PTL DEF Spec

=============================================================================
