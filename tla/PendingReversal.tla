-------------------------- MODULE PendingReversal --------------------------
(***************************************************************************)
(* plumbing/reverse-pending, with which an operator turns the queue round:  *)
(* it reads `pending`, watches it, and in one MULTI pushes what it read to  *)
(* `pending-new` in the opposite order, deletes `pending` and renames.      *)
(* Meanwhile the bot pushes jobs (lib/job.rb) and pipelines take them       *)
(* (control.py).                                                            *)
(***************************************************************************)
EXTENDS Naturals, Sequences, SequencesExt, Functions, FiniteSets

CONSTANTS
  Job,      \* idents, each of them queued once
  Tool,     \* runs of reverse-pending that may be under way at a time
  MaxRuns   \* bound: runs of it altogether

VARIABLES
  pending,    \* the queue; its head is the left end
  working,    \* the list `working`, as a set
  queued,     \* jobs that were pushed
  over,       \* jobs that ended
  pc,         \* per tool: "off", "watch" or "multi"
  all,        \* per tool: what LRANGE gave
  dirty,      \* per tool: `pending` was written after WATCH
  moved,      \* history, per tool: jobs that moved between LRANGE and WATCH
  runs,
  slipped     \* history: jobs that had moved at a MULTI that went through

queues == <<pending, working, queued, over>>
tools == <<pc, all, dirty, moved, runs>>
vars == <<queues, tools, slipped>>

TypeOK ==
  /\ pending \in Seq(Job) /\ {working, queued, over, slipped} \subseteq SUBSET Job
  /\ runs \in 0..MaxRuns
  /\ pc \in [Tool -> {"off", "watch", "multi"}] /\ all \in [Tool -> Seq(Job)]
  /\ dirty \in [Tool -> BOOLEAN] /\ moved \in [Tool -> SUBSET Job]

Init ==
  /\ pending = <<>> /\ working = {} /\ queued = {} /\ over = {} /\ slipped = {} /\ runs = 0
  /\ pc = [t \in Tool |-> "off"] /\ all = [t \in Tool |-> <<>>]
  /\ dirty = [t \in Tool |-> FALSE] /\ moved = [t \in Tool |-> {}]

-----------------------------------------------------------------------------
(* The bot and the pipelines *)

\* `pending` is written with the jobs of js: Redis notes it for those that watch.
Written(js) ==
  /\ dirty' = [t \in Tool |-> dirty[t] \/ pc[t] = "multi"]
  /\ moved' = [t \in Tool |-> IF pc[t] = "watch" THEN moved[t] \cup js ELSE moved[t]]
  /\ UNCHANGED <<pc, all, runs, slipped>>

Queue(j) ==
  /\ j \notin queued /\ queued' = queued \cup {j}
  /\ pending' = <<j>> \o pending /\ Written({j})
  /\ UNCHANGED <<working, over>>

\* RPOPLPUSH
Dequeue ==
  /\ pending # <<>> /\ pending' = Front(pending)
  /\ working' = working \cup {Last(pending)} /\ Written({Last(pending)})
  /\ UNCHANGED <<queued, over>>

\* What LREM leaves of `pending`: the places that do not hold j, in their order.
Without(j) ==
  LET kept == {n \in DOMAIN pending : pending[n] # j}
      size == Cardinality(kept)
  IN  {[n \in 1..size |-> pending[f[n]]] :
         f \in {g \in Bijection(1..size, kept) : \A m, n \in 1..size : m < n => g[m] < g[n]}}

\* LREM from both lists
Fail(j) ==
  /\ j \in ToSet(pending) \cup working
  /\ pending' \in Without(j) /\ working' = working \ {j}
  /\ over' = over \cup {j}
  /\ IF j \in ToSet(pending) THEN Written({j}) ELSE UNCHANGED <<tools, slipped>>
  /\ UNCHANGED queued

MarkDone(j) ==
  /\ j \in working /\ working' = working \ {j} /\ over' = over \cup {j}
  /\ UNCHANGED <<pending, queued, tools, slipped>>

-----------------------------------------------------------------------------
(* reverse-pending *)

Lrange(t) ==
  /\ pc[t] = "off" /\ pc' = [pc EXCEPT ![t] = "watch"]
  /\ all' = [all EXCEPT ![t] = pending] /\ runs < MaxRuns /\ runs' = runs + 1
  /\ UNCHANGED <<queues, dirty, moved, slipped>>

Watch(t) ==
  /\ pc[t] = "watch" /\ pc' = [pc EXCEPT ![t] = "multi"]
  /\ UNCHANGED <<queues, all, dirty, moved, runs, slipped>>

\* The process ends: exit 0, exit 1, or with the error that RENAME of a missing
\* `pending-new` is.  A tool whose EXEC wrote `pending` spoils the others' watch.
Exit(t, wrote) ==
  /\ pc' = [pc EXCEPT ![t] = "off"] /\ all' = [all EXCEPT ![t] = <<>>]
  /\ moved' = [moved EXCEPT ![t] = {}]
  /\ dirty' = [u \in Tool |-> u # t /\ (dirty[u] \/ (wrote /\ pc[u] = "multi"))]

Commit(t, now) ==
  /\ pc[t] = "multi" /\ pending' = now
  /\ Exit(t, pending # <<>> \/ now # <<>>) /\ slipped' = slipped \cup moved[t]
  /\ UNCHANGED <<working, queued, over, runs>>

\* Mutant of Multi: without WATCH.
MultiUnwatched(t) == Commit(t, Reverse(all[t]))

\* What was read replaces what is there.  When nothing was read, DEL is done all
\* the same before RENAME fails.
Multi(t) == ~dirty[t] /\ Commit(t, Reverse(all[t]))

Abort(t) ==
  /\ pc[t] = "multi" /\ dirty[t] /\ Exit(t, FALSE)
  /\ UNCHANGED <<queues, runs, slipped>>

Next ==
  \/ Dequeue \/ \E j \in Job : Queue(j) \/ Fail(j) \/ MarkDone(j)
  \/ \E t \in Tool : Lrange(t) \/ Watch(t) \/ Multi(t) \/ Abort(t)

Spec == Init /\ [][Next]_vars

-----------------------------------------------------------------------------
(* Properties *)

Places(j) ==
  {<<"pending", n>> : n \in {m \in 1..Len(pending) : pending[m] = j}}
    \cup {<<"working", 0>> : k \in {j} \cap working} \cup {<<"over", 0>> : k \in {j} \cap over}

\* A job is in the queue once, or is worked on, or is over, however often the queue
\* is turned round meanwhile: only those that moved between LRANGE and WATCH are
\* lost or crawled twice.
EachOnce == \A j \in queued \ slipped : \E x \in Places(j) : Places(j) = {x}
=============================================================================
