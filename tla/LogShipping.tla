---------------------------- MODULE LogShipping ----------------------------
(***************************************************************************)
(* How a wpull process reports to Redis.  Its main thread puts log entries  *)
(* on a bounded queue and adds to counters; the thread ship_logs takes both *)
(* and sends them in batches through a Redis pipeline; this thread and the  *)
(* settings listener share one connection object, which either of them may  *)
(* drop (pipeline/archivebot/control.py, pipeline/archive_bot_plugin.py).   *)
(* A step is one access to what the threads share, or one call of redis-py. *)
(***************************************************************************)
EXTENDS Naturals, Sequences, SequencesExt

CONSTANTS
  QueueSize,   \* 10000 in the code
  Batch,       \* 64 in the code
  MaxEntries,  \* bound: entries logged
  MaxCounted,  \* bound: what the counters are raised by
  MaxFaults,   \* bound: connection errors and errors that Redis replies
  None         \* no entry

ASSUME ShippingAssumption ==
  /\ QueueSize \in Nat \ {0} /\ Batch \in Nat \ {0}
  /\ MaxEntries \in Nat /\ MaxCounted \in Nat /\ MaxFaults \in Nat
  /\ None \notin Nat

VARIABLES
  main,         \* the main thread; entries are numbered as they are logged
  queue,        \* log_queue
  outstanding,  \* the three ..._outstanding counters, which fare alike
  connected,    \* self.redis is not None
  loaded,       \* the Script object log_script knows its SHA
  ship,         \* ship_logs and its Redis pipeline
  listener,     \* a use of the connection by the settings listener
  server,       \* the job's hash with its counters, and the log, a sorted set
  counted,      \* history: what the counters were raised by
  dropped,      \* history: entries that did not fit the queue
  gone,         \* history: entries of batches that failed
  spoiled,      \* history: a batch with counters failed or was sent twice
  faults

history == <<counted, dropped, gone, spoiled>>
vars == <<main, queue, outstanding, connected, loaded, ship, listener, server,
          history, faults>>

Entry == 1..MaxEntries

\* scores: of the members of the log; an entry with 0 is none of them.
Server == [scores : [Entry -> Nat], log_score : Nat, total : Nat]

Logged == {e \in Entry : server.scores[e] > 0}

MainState == [pc : {"run", "put", "full", "off"}, logged : 0..MaxEntries]

\* `next' is where connect() returns to.
ShipState ==
  [pc : {"outer", "pipeline", "get", "add", "decide", "commit", "take", "execute",
         "register", "dead"},
   next : {"pipeline", "add", "take"}, entry : Entry \cup {None},
   stack : Seq(Entry), counts : Nat, shipping_count : 0..Batch]

Init ==
  /\ main = [pc |-> "run", logged |-> 0]
  /\ queue = <<>> /\ outstanding = 0
  \* __init__ assigns the result of connect(), which has none.
  /\ connected = FALSE /\ loaded = FALSE
  /\ ship = [pc |-> "outer", next |-> "pipeline", entry |-> None,
             stack |-> <<>>, counts |-> 0, shipping_count |-> 0]
  /\ listener = "idle"
  /\ server = [scores |-> [e \in Entry |-> 0], log_score |-> 0, total |-> 0]
  /\ counted = 0 /\ dropped = {} /\ gone = {} /\ spoiled = FALSE
  /\ faults = 0

Running == main.pc # "off"

-----------------------------------------------------------------------------
(* The main thread                                                         *)

mainOnly == <<connected, loaded, ship, listener, server, gone, spoiled, faults>>

\* update_bytes_downloaded, update_items_downloaded, update_items_queued
Count ==
  /\ main.pc = "run" /\ counted < MaxCounted
  /\ outstanding' = outstanding + 1 /\ counted' = counted + 1
  /\ UNCHANGED <<main, queue, dropped, mainOnly>>

\* log_ignore and log_result make an entry and call log.
Log ==
  /\ main.pc = "run" /\ main.logged < MaxEntries
  /\ main' = [pc |-> "put", logged |-> main.logged + 1]
  /\ UNCHANGED <<queue, outstanding, counted, dropped, mainOnly>>

\* put_nowait
Put ==
  /\ main.pc = "put"
  /\ \/ /\ Len(queue) < QueueSize
        /\ queue' = Append(queue, main.logged)
        /\ main' = [main EXCEPT !.pc = "run"]
     \/ /\ Len(queue) = QueueSize
        /\ main' = [main EXCEPT !.pc = "full"]
        /\ UNCHANGED queue
  /\ UNCHANGED <<outstanding, counted, dropped, mainOnly>>

\* get_nowait, after which log calls itself
PopOldest ==
  /\ main.pc = "full" /\ queue # <<>>
  /\ dropped' = dropped \cup {Head(queue)}
  /\ queue' = Tail(queue)
  /\ main' = [main EXCEPT !.pc = "put"]
  /\ UNCHANGED <<outstanding, counted, mainOnly>>

\* The shipping thread emptied the queue after put_nowait found it full: log
\* returns without the entry it was called for.
PopNothing ==
  /\ main.pc = "full" /\ queue = <<>>
  /\ dropped' = dropped \cup {main.logged}
  /\ main' = [main EXCEPT !.pc = "run"]
  /\ UNCHANGED <<queue, outstanding, counted, mainOnly>>

\* wpull ends; advise_exiting waits for nothing, and ship_logs is a daemon.
Exit ==
  /\ main.pc = "run"
  /\ main' = [main EXCEPT !.pc = "off"]
  /\ UNCHANGED <<queue, outstanding, counted, dropped, mainOnly>>

-----------------------------------------------------------------------------
(* The settings listener: get_settings under conn.  (The main thread uses   *)
(* the connection in the same way, once, for mark_aborted.)                 *)

ListenerUses ==
  /\ Running
  /\ listener = "idle"
  /\ connected' = TRUE
  /\ listener' = IF connected THEN "call" ELSE "register"
  /\ UNCHANGED <<main, queue, outstanding, loaded, ship, server, history, faults>>

\* register_scripts makes new Script objects, or finds None: an AttributeError.
ListenerRegisters ==
  /\ Running
  /\ listener = "register"
  /\ IF connected THEN listener' = "call" /\ loaded' = FALSE
                  ELSE listener' = "idle" /\ UNCHANGED loaded
  /\ UNCHANGED <<main, queue, outstanding, connected, ship, server, history, faults>>

\* The command is answered, or finds None.
ListenerReturns ==
  /\ Running
  /\ listener = "call" /\ listener' = "idle"
  /\ UNCHANGED <<main, queue, outstanding, connected, loaded, ship, server, history, faults>>

Fault == faults < MaxFaults /\ faults' = faults + 1

\* conn: disconnect, and raise again
ListenerDisconnects ==
  /\ Running
  /\ listener = "call" /\ connected /\ Fault
  /\ listener' = "idle" /\ connected' = FALSE
  /\ UNCHANGED <<main, queue, outstanding, loaded, ship, server, history>>

-----------------------------------------------------------------------------
(* ship_logs                                                               *)

shipOnly == <<main, outstanding, listener, counted, dropped>>

\* conn, on the way in: connect() when self.redis is None.
Enter(from, to) ==
  /\ Running
  /\ ship.pc = from
  /\ connected' = TRUE
  /\ ship' = IF connected THEN [ship EXCEPT !.pc = to]
                          ELSE [ship EXCEPT !.pc = "register", !.next = to]
  /\ UNCHANGED <<queue, loaded, server, gone, spoiled, faults, shipOnly>>

EnterOuter  == Enter("outer", "pipeline")
EnterCommit == Enter("commit", "take")

\* register_scripts on a None that another thread left is an AttributeError,
\* which no handler of ship_logs names.
Register ==
  /\ Running
  /\ ship.pc = "register"
  /\ IF connected THEN ship' = [ship EXCEPT !.pc = ship.next] /\ loaded' = FALSE
                  ELSE ship' = [ship EXCEPT !.pc = "dead"] /\ UNCHANGED loaded
  /\ UNCHANGED <<queue, connected, server, gone, spoiled, faults, shipOnly>>

\* self.redis.pipeline
Pipeline ==
  /\ Running
  /\ ship.pc = "pipeline"
  /\ ship' = [ship EXCEPT !.pc = IF connected THEN "get" ELSE "dead"]
  /\ UNCHANGED <<queue, connected, loaded, server, gone, spoiled, faults, shipOnly>>

GetNewest ==   \* mutant of Get
  /\ Running
  /\ ship.pc = "get" /\ queue # <<>>
  /\ queue' = Front(queue)
  /\ connected' = TRUE
  /\ ship' = [ship EXCEPT !.entry = Last(queue), !.next = "add",
                          !.pc = IF connected THEN "add" ELSE "register"]
  /\ UNCHANGED <<loaded, server, gone, spoiled, faults, shipOnly>>

\* log_queue.get, and the conn around log_script
Get ==
  /\ Running
  /\ ship.pc = "get" /\ queue # <<>>
  /\ queue' = Tail(queue)
  /\ connected' = TRUE
  /\ ship' = [ship EXCEPT !.entry = Head(queue), !.next = "add",
                          !.pc = IF connected THEN "add" ELSE "register"]
  /\ UNCHANGED <<loaded, server, gone, spoiled, faults, shipOnly>>

\* The timeout of five seconds.
GetTimesOut ==
  /\ Running
  /\ ship.pc = "get" /\ queue = <<>>
  /\ ship' = [ship EXCEPT !.pc = "decide"]
  /\ UNCHANGED <<queue, connected, loaded, server, gone, spoiled, faults, shipOnly>>

Sooner(a, b) == IF a < b THEN a ELSE b

\* log_script(client=pipe) buffers the call; a new Script is loaded first.
Add ==
  /\ Running
  /\ ship.pc = "add"
  /\ ship' = [ship EXCEPT !.pc = "decide", !.entry = None,
                          !.stack = Append(@, ship.entry),
                          !.shipping_count = Sooner(@ + 1, Batch)]
  /\ loaded' = TRUE
  /\ UNCHANGED <<queue, connected, server, gone, spoiled, faults, shipOnly>>

\* Loading fails and resets the pipeline; the entry is discarded.
AddFails ==
  /\ Running
  /\ ship.pc = "add" /\ ~loaded /\ Fault
  /\ gone' = gone \cup ToSet(ship.stack) \cup {ship.entry}
  /\ ship' = [ship EXCEPT !.pc = "decide", !.entry = None, !.stack = <<>>]
  /\ connected' = FALSE
  /\ UNCHANGED <<queue, loaded, server, spoiled, shipOnly>>

FullBatchOnly ==   \* mutant of Decide
  /\ Running
  /\ ship.pc = "decide"
  /\ ship' = [ship EXCEPT !.pc = IF ship.shipping_count >= Batch THEN "commit" ELSE "get"]
  /\ UNCHANGED <<queue, connected, loaded, server, gone, spoiled, faults, shipOnly>>

Decide ==
  /\ Running
  /\ ship.pc = "decide"
  /\ ship' = [ship EXCEPT !.pc = IF queue = <<>> \/ ship.shipping_count >= Batch
                                 THEN "commit" ELSE "get"]
  /\ UNCHANGED <<queue, connected, loaded, server, gone, spoiled, faults, shipOnly>>

TakeWithoutReset ==   \* mutant of TakeCounts
  /\ Running
  /\ ship.pc = "take"
  /\ ship' = [ship EXCEPT !.pc = "execute", !.counts = outstanding]
  /\ UNCHANGED <<main, queue, outstanding, connected, loaded, listener, server, history, faults>>

\* Under countslock; hincrby goes into the pipeline.
TakeCounts ==
  /\ Running
  /\ ship.pc = "take"
  /\ ship' = [ship EXCEPT !.pc = "execute", !.counts = outstanding]
  /\ outstanding' = 0
  /\ UNCHANGED <<main, queue, connected, loaded, listener, server, history, faults>>

\* The first n entries of the batch get the next scores; those of an entry that
\* is sent again are the new ones.
Scored(s, n) ==
  [e \in Entry |-> IF \E k \in 1..n : ship.stack[k] = e
                   THEN s.log_score + (CHOOSE k \in 1..n : ship.stack[k] = e)
                   ELSE s.scores[e]]

\* What Redis has after it did the first n commands of the pipeline and c of
\* its counts: without a transaction a batch may be done in part.
After(s, n, c) ==
  [scores |-> Scored(s, n), log_score |-> s.log_score + n, total |-> s.total + c]

Parts == (0..Len(ship.stack)) \X (0..ship.counts)

\* Every outcome of pipe.execute() resets the pipeline.
Emptied(pc) == [ship EXCEPT !.pc = pc, !.stack = <<>>, !.counts = 0]
Spoil(counts) == spoiled' = (spoiled \/ counts > 0)

ExecuteSucceeds ==
  /\ Running
  /\ ship.pc = "execute"
  /\ server' = After(server, Len(ship.stack), ship.counts)
  /\ ship' = [Emptied("get") EXCEPT !.shipping_count = 0]
  /\ UNCHANGED <<queue, connected, loaded, gone, spoiled, faults, shipOnly>>

\* redis-py sends the whole batch again when the connection broke.
ExecuteRetries ==
  /\ Running
  /\ ship.pc = "execute" /\ Fault
  /\ \E part \in Parts :
       server' = After(After(server, part[1], part[2]), Len(ship.stack), ship.counts)
  /\ Spoil(ship.counts)
  /\ ship' = [Emptied("get") EXCEPT !.shipping_count = 0]
  /\ UNCHANGED <<queue, connected, loaded, gone, shipOnly>>

\* The second try failed, or loading the script did.
ExecuteFails ==
  /\ Running
  /\ ship.pc = "execute" /\ (ship.stack # <<>> \/ ship.counts > 0) /\ Fault
  /\ \E first, second \in Parts :
       server' = After(After(server, first[1], first[2]), second[1], second[2])
  /\ gone' = gone \cup ToSet(ship.stack)
  /\ Spoil(ship.counts)
  /\ ship' = Emptied("get")
  /\ connected' = FALSE
  /\ UNCHANGED <<queue, loaded, shipOnly>>

\* Redis refused commands: a RedisError that is no ConnectionError leaves the
\* inner loop and its pipeline.
ExecuteRefused ==
  /\ Running
  /\ ship.pc = "execute" /\ (ship.stack # <<>> \/ ship.counts > 0) /\ Fault
  /\ \E part \in Parts : server' = After(server, part[1], part[2])
  /\ gone' = gone \cup ToSet(ship.stack)
  /\ Spoil(ship.counts)
  /\ ship' = Emptied("outer")
  /\ UNCHANGED <<queue, connected, loaded, shipOnly>>

-----------------------------------------------------------------------------
MainStep == Count \/ Log \/ Put \/ PopOldest \/ PopNothing \/ Exit

ListenerStep ==
  ListenerUses \/ ListenerRegisters \/ ListenerReturns \/ ListenerDisconnects

ShipStep ==
  \/ EnterOuter \/ Register \/ Pipeline \/ Get \/ GetTimesOut \/ Add \/ Decide
  \/ EnterCommit \/ TakeCounts \/ ExecuteSucceeds

ShipFails == AddFails \/ ExecuteRetries \/ ExecuteFails \/ ExecuteRefused

Next == MainStep \/ ListenerStep \/ ShipStep \/ ShipFails

Spec == Init /\ [][Next]_vars

\* The shipping thread runs; a call of it that is not answered fails.
FairSpec == Spec /\ WF_vars(ShipStep \/ ShipFails)

-----------------------------------------------------------------------------
TypeOK ==
  /\ main \in MainState /\ ship \in ShipState
  /\ queue \in Seq(Entry) /\ Len(queue) <= QueueSize
  /\ outstanding \in Nat /\ counted \in 0..MaxCounted
  /\ connected \in BOOLEAN /\ loaded \in BOOLEAN /\ spoiled \in BOOLEAN
  /\ listener \in {"idle", "register", "call"}
  /\ server \in Server
  /\ dropped \in SUBSET Entry /\ gone \in SUBSET Entry
  /\ faults \in 0..MaxFaults

\* Until a batch fails, each download or queued URL is counted once: it is in
\* Redis, in the pipeline or outstanding, although one thread adds while the
\* other takes (control.py:184-194, 252-267).
CountsKept ==
  ~spoiled => server.total + ship.counts + outstanding = counted

\* The log that readers of Redis see is in the order in which wpull wrote it;
\* only the entries of one failed batch may have changed places among
\* themselves, when redis-py sent it twice (control.py:230-232, 267).
OrderKept ==
  \A a, b \in Logged :
    a < b /\ server.scores[a] >= server.scores[b] => a \in gone /\ b \in gone

\* Overflow costs the oldest entries: all that is still queued is newer than
\* all that was dropped, also when the shipping thread takes entries between
\* the two calls of log (control.py:282-296).
OverflowDropsOldest ==
  \A e \in dropped : \A q \in ToSet(queue) : e < q

\* The log has the entries in order, apart from a batch that failed, and what
\* overflow takes from it is older than all that is queued.
LogKept == OrderKept /\ OverflowDropsOldest

\* Every entry on the queue gets to Redis, unless it is dropped by overflow,
\* its batch fails, or the thread or the process ends (control.py:216-280).
EntriesShip ==
  \A e \in Entry :
    e \in ToSet(queue) ~>
      (e \in Logged \cup dropped \cup gone \/ ship.pc = "dead" \/ ~Running)

=============================================================================
