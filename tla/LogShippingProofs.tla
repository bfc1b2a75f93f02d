-------------------------- MODULE LogShippingProofs --------------------------
(* Theorems about LogShipping, for all values of its constants. *)
EXTENDS LogShipping, TLAPS

(***************************************************************************)
(* What the two threads hold.                                              *)
(***************************************************************************)
Putting == main.pc \in {"put", "full"}

HeldByMain ==
  /\ main \in MainState /\ (Putting => main.logged \in Entry)
  /\ queue \in Seq(Entry) /\ outstanding \in Nat /\ counted \in Nat

HeldByShip ==
  /\ ship \in ShipState /\ server.total \in Nat
  /\ ship.pc = "add" \/ (ship.pc = "register" /\ ship.next = "add") => ship.entry \in Entry

Held == HeldByMain /\ HeldByShip

\* Counts are in the pipeline only between TakeCounts and the end of execute.
CountsInBatch == ship.pc # "execute" => ship.counts = 0

(***************************************************************************)
(* Overflow: the queue is in the order of the log, after all that was       *)
(* dropped and before the entry that log is about to put.                   *)
(***************************************************************************)
InOrder == \A i, j \in 1..Len(queue) : i < j => queue[i] < queue[j]

\* What log was done with is at most this.
LastPut == IF Putting THEN main.logged - 1 ELSE main.logged

PutSoFar ==
  /\ \A i \in 1..Len(queue) : queue[i] <= LastPut
  /\ \A e \in dropped : e \in Nat /\ e <= LastPut

DroppedBefore == \A e \in dropped : \A i \in 1..Len(queue) : e < queue[i]

Overflow == InOrder /\ PutSoFar /\ DroppedBefore

ShippingInv == Held /\ CountsInBatch /\ CountsKept /\ Overflow

(***************************************************************************)
(* Order: an entry is in the log, in the batch, in the hand of ship_logs or *)
(* on the queue, and those further on were logged earlier.  So a batch has  *)
(* later entries than the log, and gets higher scores.                      *)
(***************************************************************************)
Handing == ship.pc = "add" \/ (ship.pc = "register" /\ ship.next = "add")

Stacked == {ship.stack[i] : i \in 1..Len(ship.stack)}
Handed == IF Handing THEN {ship.entry} ELSE {}
Queued == {queue[i] : i \in 1..Len(queue)}

StackInOrder ==
  \A i, j \in 1..Len(ship.stack) : i < j => ship.stack[i] < ship.stack[j]

Before(S, T) == \A a \in S, b \in T : a < b

InTurn ==
  /\ StackInOrder
  /\ Before(Logged, Stacked) /\ Before(Logged, Handed) /\ Before(Logged, Queued)
  /\ Before(Stacked, Handed) /\ Before(Stacked, Queued) /\ Before(Handed, Queued)
  /\ \A e \in Logged \cup Stacked \cup Handed : e <= LastPut

Bounded(s) == \A e \in Entry : s.scores[e] <= s.log_score

OrderInv == server \in Server /\ InTurn /\ Bounded(server) /\ OrderKept

-----------------------------------------------------------------------------
LEMMA Ends ==
  ASSUME NEW q \in Seq(Entry), q # <<>>
  PROVE  /\ Head(q) \in Entry /\ Head(q) = q[1] /\ Len(q) \in Nat \ {0}
         /\ Tail(q) \in Seq(Entry) /\ Len(Tail(q)) = Len(q) - 1
         /\ \A i \in 1..Len(Tail(q)) : Tail(q)[i] = q[i + 1]
  OBVIOUS

LEMMA Appended ==
  ASSUME NEW q \in Seq(Entry), NEW e \in Entry
  PROVE  /\ Append(q, e) \in Seq(Entry) /\ Len(Append(q, e)) = Len(q) + 1
         /\ \A i \in 1..Len(q) : Append(q, e)[i] = q[i]
         /\ Append(q, e)[Len(q) + 1] = e
  OBVIOUS

\* The fields of the main thread's record, which is what its steps compare.
LEMMA MainFields ==
  ASSUME HeldByMain
  PROVE  /\ main.logged \in 0..MaxEntries
         /\ main.pc \in {"run", "put", "full", "off"}
         /\ \A p : [main EXCEPT !.pc = p].pc = p /\ [main EXCEPT !.pc = p].logged = main.logged
  BY DEF HeldByMain, MainState

-----------------------------------------------------------------------------
(* Steps of the main thread *)

LEMMA MainHeld == ShippingInv /\ MainStep => HeldByMain' /\ UNCHANGED <<ship, server, spoiled>>
<1> SUFFICES ASSUME ShippingInv, MainStep
             PROVE HeldByMain' /\ UNCHANGED <<ship, server, spoiled>>
  OBVIOUS
<1> USE ShippingAssumption DEF ShippingInv, Held, HeldByMain, Putting
<1>1. CASE Count
  BY <1>1 DEF Count, mainOnly
<1>2. CASE Log
  BY <1>2 DEF Log, mainOnly, MainState, Entry
<1>3. CASE Put
  <2>1. CASE Len(queue) < QueueSize
    <3>1. /\ queue' = Append(queue, main.logged) /\ main' = [main EXCEPT !.pc = "run"]
          /\ UNCHANGED <<outstanding, counted, mainOnly>> /\ main.logged \in Entry
      BY <1>3, <2>1 DEF Put
    <3>2. queue' \in Seq(Entry)
      BY <3>1, Appended
    <3> QED BY <3>1, <3>2 DEF mainOnly, MainState
  <2>2. CASE ~(Len(queue) < QueueSize)
    BY <1>3, <2>2 DEF Put, mainOnly, MainState
  <2> QED BY <2>1, <2>2
<1>4. CASE PopOldest
  BY <1>4, Ends DEF PopOldest, mainOnly, MainState
<1>5. CASE PopNothing
  BY <1>5 DEF PopNothing, mainOnly, MainState
<1>6. CASE Exit
  BY <1>6 DEF Exit, mainOnly, MainState
<1> QED BY <1>1, <1>2, <1>3, <1>4, <1>5, <1>6 DEF MainStep

LEMMA MainCounts == ShippingInv /\ MainStep => CountsInBatch' /\ CountsKept'
<1> SUFFICES ASSUME ShippingInv, MainStep PROVE CountsInBatch' /\ CountsKept'
  OBVIOUS
<1>1. UNCHANGED <<ship, server, spoiled>>
  BY MainHeld
<1>2. \/ outstanding' = outstanding + 1 /\ counted' = counted + 1
      \/ UNCHANGED <<outstanding, counted>>
  BY DEF MainStep, Count, Log, Put, PopOldest, PopNothing, Exit
<1>3. ship.counts \in Nat /\ server.total \in Nat /\ outstanding \in Nat /\ counted \in Nat
  BY DEF ShippingInv, Held, HeldByMain, HeldByShip, ShipState
<1> QED BY <1>1, <1>2, <1>3 DEF ShippingInv, CountsInBatch, CountsKept

LEMMA MainOverflow == ShippingInv /\ MainStep => Overflow'
<1> SUFFICES ASSUME ShippingInv, MainStep PROVE Overflow'
  OBVIOUS
<1>0. /\ HeldByMain /\ queue \in Seq(Entry) /\ Len(queue) \in Nat
      /\ main.logged \in Nat /\ InOrder /\ PutSoFar /\ DroppedBefore
      /\ \A i \in 1..Len(queue) : queue[i] \in Nat
  <2>1. HeldByMain /\ Overflow /\ queue \in Seq(Entry)
    BY DEF ShippingInv, Held, HeldByMain
  <2>2. main.logged \in Nat
    BY <2>1, MainFields, ShippingAssumption
  <2>3. Len(queue) \in Nat /\ \A i \in 1..Len(queue) : queue[i] \in Entry
    BY <2>1
  <2> QED BY <2>1, <2>2, <2>3, ShippingAssumption DEF Overflow, Entry
<1> USE DEF Overflow
<1>1. CASE Count \/ Exit
  <2>1. UNCHANGED <<queue, dropped>> /\ LastPut' = LastPut
    BY <1>0, <1>1, MainFields DEF Count, Exit, LastPut, Putting
  <2> QED BY <1>0, <2>1 DEF InOrder, PutSoFar, DroppedBefore
<1>2. CASE Log
  <2>1. UNCHANGED <<queue, dropped>> /\ LastPut' = LastPut
    BY <1>0, <1>2 DEF Log, LastPut, Putting
  <2> QED BY <1>0, <2>1 DEF InOrder, PutSoFar, DroppedBefore
<1>3. CASE Put
  <2>1. /\ UNCHANGED dropped /\ LastPut = main.logged - 1 /\ main.logged \in Entry
        /\ \/ queue' = Append(queue, main.logged) /\ LastPut' = main.logged
           \/ queue' = queue /\ LastPut' = LastPut
    BY <1>0, <1>3, MainFields DEF Put, LastPut, Putting, HeldByMain
  <2>2. CASE queue' = queue /\ LastPut' = LastPut
    BY <1>0, <2>1, <2>2 DEF InOrder, PutSoFar, DroppedBefore
  <2>3. CASE queue' = Append(queue, main.logged) /\ LastPut' = main.logged
    <3>1. /\ Len(queue') = Len(queue) + 1 /\ queue'[Len(queue) + 1] = main.logged
          /\ \A i \in 1..Len(queue) : queue'[i] = queue[i]
      BY <1>0, <2>1, <2>3, Appended
    <3>2. \A i \in 1..Len(queue) : queue[i] < main.logged
      BY <1>0, <2>1 DEF PutSoFar
    <3>3. \A e \in dropped : e \in Nat /\ e < main.logged
      BY <1>0, <2>1 DEF PutSoFar
    <3>4. InOrder'
      BY <1>0, <3>1, <3>2 DEF InOrder
    <3>5. PutSoFar'
      BY <1>0, <2>1, <2>3, <3>1, <3>2, <3>3 DEF PutSoFar
    <3>6. DroppedBefore'
      <4>1. \A i \in 1..Len(queue') : i \in 1..Len(queue) \/ i = Len(queue) + 1
        BY <1>0, <3>1
      <4>2. \A e \in dropped : \A i \in 1..Len(queue) : e < queue'[i]
        BY <1>0, <3>1 DEF DroppedBefore
      <4> QED BY <2>1, <3>1, <3>3, <4>1, <4>2 DEF DroppedBefore
    <3> QED BY <3>4, <3>5, <3>6
  <2> QED BY <2>1, <2>2, <2>3
<1>4. CASE PopOldest
  <2>1. /\ queue # <<>> /\ queue' = Tail(queue) /\ dropped' = dropped \cup {Head(queue)}
        /\ LastPut' = LastPut
    BY <1>0, <1>4, MainFields DEF PopOldest, LastPut, Putting
  <2>2. /\ Head(queue) = queue[1] /\ Len(queue) \in Nat \ {0} /\ Len(queue') = Len(queue) - 1
        /\ \A i \in 1..Len(queue') : queue'[i] = queue[i + 1]
    BY <1>0, <2>1, Ends
  <2>3. InOrder'
    <3> SUFFICES ASSUME NEW i \in 1..Len(queue'), NEW j \in 1..Len(queue'), i < j
                 PROVE  queue'[i] < queue'[j]
      BY DEF InOrder
    <3>1. i + 1 \in 1..Len(queue) /\ j + 1 \in 1..Len(queue) /\ i + 1 < j + 1
      BY <1>0, <2>2
    <3>2. queue[i + 1] < queue[j + 1]
      BY <1>0, <3>1 DEF InOrder
    <3> QED BY <2>2, <3>2
  <2>4. PutSoFar'
    BY <1>0, <2>1, <2>2 DEF PutSoFar
  <2>5. DroppedBefore'
    BY <1>0, <2>1, <2>2 DEF DroppedBefore, InOrder
  <2> QED BY <2>3, <2>4, <2>5
<1>5. CASE PopNothing
  <2>1. /\ queue = <<>> /\ queue' = queue /\ dropped' = dropped \cup {main.logged}
        /\ LastPut = main.logged - 1 /\ LastPut' = main.logged
    BY <1>0, <1>5, MainFields DEF PopNothing, LastPut, Putting
  <2> QED BY <1>0, <2>1 DEF InOrder, PutSoFar, DroppedBefore
<1> QED BY <1>1, <1>2, <1>3, <1>4, <1>5 DEF MainStep

-----------------------------------------------------------------------------
(* Steps of the settings listener *)

shipping == <<main, queue, outstanding, ship, server, counted, dropped, spoiled>>

LEMMA ListenerKeeps == ListenerStep => UNCHANGED shipping
  BY DEF ListenerStep, ListenerUses, ListenerRegisters, ListenerReturns,
     ListenerDisconnects,
         shipping, history

LEMMA InvUnchanged == ShippingInv /\ UNCHANGED shipping => ShippingInv'
  BY DEF shipping, ShippingInv, Held, HeldByMain, HeldByShip, Putting, CountsInBatch,
         CountsKept, Overflow, InOrder, PutSoFar, LastPut, DroppedBefore

-----------------------------------------------------------------------------
(* Steps of ship_logs *)

Shipping == ShipStep \/ ShipFails

\* The shipping thread takes the oldest entry, or leaves the queue alone.
LEMMA ShipOverflow ==
  ShippingInv /\ Shipping => HeldByMain' /\ Overflow'
<1> SUFFICES ASSUME ShippingInv, Shipping PROVE HeldByMain' /\ Overflow'
  OBVIOUS
<1>0. /\ HeldByMain /\ queue \in Seq(Entry) /\ InOrder /\ PutSoFar /\ DroppedBefore
  BY DEF ShippingInv, Held, HeldByMain, Overflow
<1>1. /\ UNCHANGED <<main, dropped, counted>>
      /\ outstanding' = outstanding \/ outstanding' = 0
      /\ queue' = queue \/ (queue # <<>> /\ queue' = Tail(queue))
  BY DEF Shipping, ShipStep, ShipFails, EnterOuter, EnterCommit, Enter, Register, Pipeline,
     Get,
         GetTimesOut, Add, Decide, TakeCounts, ExecuteSucceeds, AddFails, ExecuteRetries,
         ExecuteFails, ExecuteRefused, shipOnly, history
<1>2. LastPut' = LastPut /\ Putting' = Putting
  BY <1>1 DEF LastPut, Putting
<1>3. CASE queue' = queue
  BY <1>0, <1>1, <1>2, <1>3 DEF HeldByMain, Overflow, InOrder, PutSoFar, DroppedBefore
<1>4. CASE queue # <<>> /\ queue' = Tail(queue)
  <2>1. /\ queue' \in Seq(Entry) /\ Len(queue) \in Nat \ {0} /\ Len(queue') = Len(queue) - 1
        /\ \A i \in 1..Len(queue') : queue'[i] = queue[i + 1]
    BY <1>0, <1>4, Ends
  <2>2. \A i \in 1..Len(queue') : i + 1 \in 1..Len(queue)
    BY <2>1
  <2>3. HeldByMain'
    BY <1>0, <1>1, <1>2, <2>1 DEF HeldByMain
  <2>4. InOrder'
    <3> SUFFICES ASSUME NEW i \in 1..Len(queue'), NEW j \in 1..Len(queue'), i < j
                 PROVE  queue'[i] < queue'[j]
      BY DEF InOrder
    <3>1. i + 1 \in 1..Len(queue) /\ j + 1 \in 1..Len(queue) /\ i + 1 < j + 1
      BY <2>1
    <3> QED BY <1>0, <2>1, <3>1 DEF InOrder
  <2>5. PutSoFar' /\ DroppedBefore'
    BY <1>0, <1>1, <1>2, <2>1, <2>2 DEF PutSoFar, DroppedBefore
  <2> QED BY <2>3, <2>4, <2>5 DEF Overflow
<1> QED BY <1>1, <1>3, <1>4

\* What goes through the states of ship_logs keeps counters where they are.
LEMMA ShipQuiet ==
  ASSUME ShippingInv, UNCHANGED <<server, outstanding, counted, spoiled>>,
         ship' \in ShipState, ship'.counts = ship.counts,
         ship.pc # "execute", ship'.pc # "execute",
         ship'.pc = "add" \/ (ship'.pc = "register" /\ ship'.next = "add") => ship'.entry \in Entry
  PROVE  HeldByShip' /\ CountsInBatch' /\ CountsKept'
  BY DEF ShippingInv, Held, HeldByShip, CountsInBatch, CountsKept

\* A batch that fails or is sent twice spoils the counts, if it had any.
LEMMA BatchEnds ==
  ASSUME ShippingInv, UNCHANGED <<outstanding, counted>>, ship' \in ShipState,
         ship'.counts = 0, ship'.pc \in {"get", "outer"},
         server'.total \in Nat,
         \/ server'.total = server.total + ship.counts /\ spoiled' = spoiled
         \/ Spoil(ship.counts) /\ (ship.counts = 0 => server'.total = server.total)
  PROVE  HeldByShip' /\ CountsInBatch' /\ CountsKept'
<1>1. ship.counts \in Nat /\ server.total \in Nat /\ outstanding \in Nat /\ counted \in Nat
  BY DEF ShippingInv, Held, HeldByMain, HeldByShip, ShipState
<1>2. HeldByShip' /\ CountsInBatch'
  BY DEF HeldByShip, CountsInBatch
<1>3. CASE server'.total = server.total + ship.counts /\ spoiled' = spoiled
  <2>1. ~spoiled' => ~spoiled
    BY <1>3
  <2>2. ~spoiled => server.total + ship.counts + outstanding = counted
    BY DEF ShippingInv, CountsKept
  <2>3. server.total + ship.counts + outstanding = counted =>
          server'.total + ship'.counts + outstanding' = counted'
    BY <1>1, <1>3
  <2> QED BY <1>2, <2>1, <2>2, <2>3 DEF CountsKept
<1>4. CASE Spoil(ship.counts) /\ (ship.counts = 0 => server'.total = server.total)
  <2>1. ~spoiled' => ~spoiled /\ ~(ship.counts > 0)
    BY <1>4, Zenon DEF Spoil
  <2>2. ~(ship.counts > 0) => ship.counts = 0
    BY <1>1
  <2>3. ~spoiled => server.total + ship.counts + outstanding = counted
    BY DEF ShippingInv, CountsKept
  <2>4. server.total + ship.counts + outstanding = counted /\ ship.counts = 0 =>
          server'.total + ship'.counts + outstanding' = counted'
    BY <1>1, <1>4
  <2> QED BY <1>2, <2>1, <2>2, <2>3, <2>4 DEF CountsKept
<1> QED BY <1>2, <1>3, <1>4

\* What Redis has after part of a batch is at most the batch more.
LEMMA PartOfBatch ==
  ASSUME NEW s, s.total \in Nat, ship \in ShipState, NEW part \in Parts
  PROVE  /\ After(s, part[1], part[2]).total = s.total + part[2]
         /\ part[2] \in 0..ship.counts /\ part[2] \in Nat
         /\ After(s, part[1], part[2]).total \in Nat
         /\ ship.counts = 0 => After(s, part[1], part[2]).total = s.total
<1>1. ship.counts \in Nat /\ part[2] \in 0..ship.counts
  BY DEF ShipState, Parts
<1> QED BY <1>1 DEF After

\* Every end of execute leaves an empty pipeline.
LEMMA EmptiedShip ==
  ASSUME ship \in ShipState, NEW p \in {"get", "outer"}
  PROVE  /\ Emptied(p) \in ShipState /\ Emptied(p).counts = 0 /\ Emptied(p).pc = p
         /\ [Emptied(p) EXCEPT !.shipping_count = 0] \in ShipState
         /\ [Emptied(p) EXCEPT !.shipping_count = 0].counts = 0
         /\ [Emptied(p) EXCEPT !.shipping_count = 0].pc = p
<1>1. <<>> \in Seq(Entry) /\ 0 \in 0..Batch
  BY ShippingAssumption
<1>2. Emptied(p) \in ShipState /\ Emptied(p).counts = 0 /\ Emptied(p).pc = p
  BY <1>1 DEF Emptied, ShipState
<1> HIDE DEF Emptied
<1> QED BY <1>1, <1>2 DEF ShipState

LEMMA ShipCounts == ShippingInv /\ Shipping => HeldByShip' /\ CountsInBatch' /\ CountsKept'
<1> SUFFICES ASSUME ShippingInv, Shipping PROVE HeldByShip' /\ CountsInBatch' /\ CountsKept'
  OBVIOUS
<1>0. /\ ship \in ShipState /\ server.total \in Nat /\ queue \in Seq(Entry)
      /\ ship.counts \in Nat /\ outstanding \in Nat /\ counted \in Nat
      /\ ship.pc = "add" \/ (ship.pc = "register" /\ ship.next = "add") => ship.entry \in Entry
  BY DEF ShippingInv, Held, HeldByMain, HeldByShip, ShipState
<1>1. CASE EnterOuter \/ EnterCommit
  <2>1. /\ ship' \in ShipState /\ ship'.counts = ship.counts /\ ship.pc # "execute"
        /\ ship'.pc # "execute" /\ ship'.pc # "add"
        /\ ship'.pc = "register" => ship'.next # "add"
    BY <1>0, <1>1 DEF EnterOuter, EnterCommit, Enter, ShipState
  <2> QED BY <1>1, <2>1, ShipQuiet DEF EnterOuter, EnterCommit, Enter, shipOnly
<1>2. CASE Register
  <2>1. /\ ship' \in ShipState /\ ship'.counts = ship.counts /\ ship.pc # "execute"
        /\ ship'.pc # "execute" /\ ship'.pc # "register"
        /\ ship'.pc = "add" => ship'.entry \in Entry
    BY <1>0, <1>2 DEF Register, ShipState
  <2> QED BY <1>2, <2>1, ShipQuiet DEF Register, shipOnly
<1>3. CASE Pipeline \/ GetTimesOut \/ Decide
  <2>1. /\ ship' \in ShipState /\ ship'.counts = ship.counts /\ ship.pc # "execute"
        /\ ship'.pc \notin {"execute", "add", "register"}
    BY <1>0, <1>3 DEF Pipeline, GetTimesOut, Decide, ShipState
  <2> QED BY <1>3, <2>1, ShipQuiet DEF Pipeline, GetTimesOut, Decide, shipOnly
<1>4. CASE Get
  <2>1. Head(queue) \in Entry
    BY <1>0, <1>4, Ends DEF Get
  <2>2. /\ ship' \in ShipState /\ ship'.counts = ship.counts /\ ship.pc # "execute"
        /\ ship'.pc # "execute" /\ ship'.entry \in Entry
    BY <1>0, <1>4, <2>1 DEF Get, ShipState
  <2> QED BY <1>4, <2>2, ShipQuiet DEF Get, shipOnly
<1>5. CASE Add
  <2>1. Sooner(ship.shipping_count + 1, Batch) \in 0..Batch
    BY <1>0, ShippingAssumption DEF Sooner, ShipState
  <2>2. Append(ship.stack, ship.entry) \in Seq(Entry)
    BY <1>0, <1>5, Appended DEF Add, ShipState
  <2>3. /\ ship' \in ShipState /\ ship'.counts = ship.counts /\ ship.pc # "execute"
        /\ ship'.pc \notin {"execute", "add", "register"}
    BY <1>0, <1>5, <2>1, <2>2 DEF Add, ShipState
  <2> QED BY <1>5, <2>3, ShipQuiet DEF Add, shipOnly
<1>6. CASE AddFails
  <2>0. <<>> \in Seq(Entry)
    OBVIOUS
  <2>1. /\ ship' \in ShipState /\ ship'.counts = ship.counts /\ ship.pc # "execute"
        /\ ship'.pc \notin {"execute", "add", "register"}
    BY <1>0, <1>6, <2>0 DEF AddFails, ShipState
  <2> QED BY <1>6, <2>1, ShipQuiet DEF AddFails, shipOnly
<1>7. CASE TakeCounts
  <2>1. /\ ship'.counts = outstanding /\ outstanding' = 0 /\ ship'.pc = "execute"
        /\ ship' \in ShipState /\ ship.pc = "take" /\ UNCHANGED <<server, counted, spoiled>>
    BY <1>0, <1>7 DEF TakeCounts, ShipState, history
  <2>2. ship.counts = 0
    BY <2>1 DEF ShippingInv, CountsInBatch
  <2> QED BY <1>0, <2>1, <2>2 DEF ShippingInv, HeldByShip, CountsInBatch, CountsKept
<1>8. CASE ExecuteSucceeds
  <2>1. server'.total = server.total + ship.counts
    BY <1>8 DEF ExecuteSucceeds, After
  <2> QED BY <1>0, <1>8, <2>1, EmptiedShip, BatchEnds DEF ExecuteSucceeds, shipOnly
<1>9. CASE ExecuteRetries
  <2>1. PICK part \in Parts :
          server' = After(After(server, part[1], part[2]), Len(ship.stack), ship.counts)
    BY <1>9 DEF ExecuteRetries
  <2>2. After(server, part[1], part[2]).total \in Nat
    BY <1>0, PartOfBatch
  <2>3. server'.total = After(server, part[1], part[2]).total + ship.counts
    BY <2>1 DEF After
  <2>4. server'.total \in Nat /\ (ship.counts = 0 => server'.total = server.total)
    BY <1>0, <2>2, <2>3, PartOfBatch
  <2> QED BY <1>0, <1>9, <2>4, EmptiedShip, BatchEnds DEF ExecuteRetries, shipOnly
<1>10. CASE ExecuteFails
  <2>1. PICK first \in Parts, second \in Parts :
          server' = After(After(server, first[1], first[2]), second[1], second[2])
    BY <1>10 DEF ExecuteFails
  <2> DEFINE between == After(server, first[1], first[2])
  <2>2. between.total \in Nat /\ (ship.counts = 0 => between.total = server.total)
    BY <1>0, PartOfBatch
  <2> HIDE DEF between
  <2>3. server' = After(between, second[1], second[2])
    BY <2>1 DEF between
  <2>4. server'.total \in Nat /\ (ship.counts = 0 => server'.total = between.total)
    BY <1>0, <2>2, <2>3, PartOfBatch
  <2> QED BY <1>0, <1>10, <2>2, <2>4, EmptiedShip, BatchEnds DEF ExecuteFails, shipOnly
<1>11. CASE ExecuteRefused
  <2>1. PICK part \in Parts : server' = After(server, part[1], part[2])
    BY <1>11 DEF ExecuteRefused
  <2>2. server'.total \in Nat /\ (ship.counts = 0 => server'.total = server.total)
    BY <1>0, <2>1, PartOfBatch
  <2> QED BY <1>0, <1>11, <2>2, EmptiedShip, BatchEnds DEF ExecuteRefused, shipOnly
<1> QED
  BY <1>1, <1>2, <1>3, <1>4, <1>5, <1>6, <1>7, <1>8, <1>9, <1>10, <1>11
     DEF Shipping, ShipStep, ShipFails

-----------------------------------------------------------------------------
LEMMA ShippingInvHolds == Spec => []ShippingInv
<1>1. Init => ShippingInv
  <2> SUFFICES ASSUME Init PROVE ShippingInv
    OBVIOUS
  <2> USE ShippingAssumption DEF Init
  <2>1. HeldByMain /\ queue = <<>> /\ dropped = {}
    BY DEF HeldByMain, MainState, Putting
  <2>2. HeldByShip
    BY DEF HeldByShip, ShipState
  <2>3. CountsInBatch /\ CountsKept
    BY DEF CountsInBatch, CountsKept
  <2>4. Overflow
    BY <2>1 DEF Overflow, InOrder, PutSoFar, DroppedBefore
  <2> QED BY <2>1, <2>2, <2>3, <2>4 DEF ShippingInv, Held
<1>2. ShippingInv /\ [Next]_vars => ShippingInv'
  <2> SUFFICES ASSUME ShippingInv, [Next]_vars PROVE ShippingInv'
    OBVIOUS
  <2>1. CASE MainStep
    <3>1. HeldByMain' /\ UNCHANGED <<ship, server, spoiled>>
      BY <2>1, MainHeld
    <3>2. HeldByShip'
      BY <3>1 DEF ShippingInv, Held, HeldByShip
    <3> QED BY <2>1, <3>1, <3>2, MainCounts, MainOverflow DEF ShippingInv, Held
  <2>2. CASE ListenerStep
    BY <2>2, ListenerKeeps, InvUnchanged
  <2>3. CASE Shipping
    BY <2>3, ShipOverflow, ShipCounts DEF ShippingInv, Held
  <2>4. CASE UNCHANGED vars
    BY <2>4, InvUnchanged DEF vars, history, shipping
  <2> QED BY <2>1, <2>2, <2>3, <2>4 DEF Next, Shipping
<1> QED BY <1>1, <1>2, PTL DEF Spec

-----------------------------------------------------------------------------
(* Scores *)

In(s) == {e \in Entry : s.scores[e] > 0}

\* No entry of s that is not in the batch is later than one that is.
Ahead(s) == \A e \in In(s) : e \in Stacked \/ \A b \in Stacked : e < b

Ordered(s, loose) ==
  \A a, b \in In(s) : a < b /\ s.scores[a] >= s.scores[b] => a \in loose /\ b \in loose

LEMMA StackTyped ==
  ASSUME ship \in ShipState
  PROVE  /\ ship.stack \in Seq(Entry) /\ Len(ship.stack) \in Nat
         /\ \A k \in 1..Len(ship.stack) : ship.stack[k] \in Entry
<1>1. ship.stack \in Seq(Entry)
  BY DEF ShipState
<1> QED BY <1>1

\* The scores after a part of the batch: new ones for the entries of the part.
LEMMA NewScores ==
  ASSUME ship \in ShipState, StackInOrder, NEW s, s \in Server,
         NEW n, n \in 0..Len(ship.stack), NEW c
  PROVE  /\ \A k \in 1..n : /\ ship.stack[k] \in Stacked
                            /\ After(s, n, c).scores[ship.stack[k]] = s.log_score + k
         /\ \A e \in Entry : \/ After(s, n, c).scores[e] = s.scores[e]
                             \/ \E k \in 1..n : ship.stack[k] = e
         /\ After(s, n, c).scores \in [Entry -> Nat]
         /\ After(s, n, c).log_score = s.log_score + n
<1>1. /\ Len(ship.stack) \in Nat /\ n \in Nat /\ s.log_score \in Nat /\ s.scores \in [Entry -> Nat]
      /\ \A k \in 1..Len(ship.stack) : ship.stack[k] \in Entry /\ ship.stack[k] \in Nat
  <2>1. Len(ship.stack) \in Nat /\ \A k \in 1..Len(ship.stack) : ship.stack[k] \in Entry
    BY StackTyped
  <2>2. s.log_score \in Nat /\ s.scores \in [Entry -> Nat]
    BY DEF Server
  <2> QED BY <2>1, <2>2, ShippingAssumption DEF Entry
<1>2. PICK t : t = Scored(s, n)
  OBVIOUS
<1>3. ASSUME NEW k \in 1..n
      PROVE  ship.stack[k] \in Stacked /\ t[ship.stack[k]] = s.log_score + k
  <2>1. k \in 1..Len(ship.stack)
    BY <1>1
  <2>2. \A i \in 1..n : ship.stack[i] = ship.stack[k] => i = k
    <3> SUFFICES ASSUME NEW i \in 1..n, ship.stack[i] = ship.stack[k], i # k
                 PROVE  FALSE
      OBVIOUS
    <3>1. i \in 1..Len(ship.stack) /\ (i < k \/ k < i)
      BY <1>1
    <3>2. ship.stack[i] < ship.stack[k] \/ ship.stack[k] < ship.stack[i]
      BY <2>1, <3>1 DEF StackInOrder
    <3> QED BY <1>1, <2>1, <3>2
  <2>3. (CHOOSE i \in 1..n : ship.stack[i] = ship.stack[k]) = k
    BY <2>2
  <2> QED BY <1>1, <1>2, <2>1, <2>3 DEF Scored, Stacked
<1>4. ASSUME NEW e \in Entry, ~\E k \in 1..n : ship.stack[k] = e
      PROVE  t[e] = s.scores[e]
  BY <1>2, <1>4 DEF Scored
<1>5. \A e \in Entry : t[e] \in Nat
  <2> SUFFICES ASSUME NEW e \in Entry
               PROVE  t[e] \in Nat
    OBVIOUS
  <2>1. CASE \E k \in 1..n : ship.stack[k] = e
    BY <1>1, <1>3, <2>1
  <2>2. CASE ~\E k \in 1..n : ship.stack[k] = e
    BY <1>1, <1>4, <2>2
  <2> QED BY <2>1, <2>2
<1>6. t \in [Entry -> Nat]
  BY <1>2, <1>5 DEF Scored
<1>7. After(s, n, c).scores = t /\ After(s, n, c).log_score = s.log_score + n
  BY <1>2 DEF After
<1> QED BY <1>3, <1>4, <1>6, <1>7

\* A batch that is sent in part leaves only its own entries out of order, and
\* the whole of it puts them right.
LEMMA BatchSent ==
  ASSUME ship \in ShipState, StackInOrder, NEW s, s \in Server, Bounded(s), Ahead(s),
         NEW n, n \in 0..Len(ship.stack), NEW c, c \in Nat, NEW loose
  PROVE  /\ After(s, n, c) \in Server /\ Bounded(After(s, n, c)) /\ Ahead(After(s, n, c))
         /\ In(After(s, n, c)) \subseteq In(s) \cup Stacked
         /\ Ordered(s, loose) => Ordered(After(s, n, c), loose \cup Stacked)
         /\ n = Len(ship.stack) /\ Ordered(s, loose \cup Stacked) =>
              Ordered(After(s, n, c), loose)
<1>1. /\ Len(ship.stack) \in Nat /\ n \in Nat /\ s.log_score \in Nat /\ s.total \in Nat
      /\ s.scores \in [Entry -> Nat] /\ Stacked \subseteq Entry /\ Entry \subseteq Nat
  <2>1. Len(ship.stack) \in Nat /\ Stacked \subseteq Entry
    BY StackTyped DEF Stacked
  <2>2. s.log_score \in Nat /\ s.total \in Nat /\ s.scores \in [Entry -> Nat]
    BY DEF Server
  <2> QED BY <2>1, <2>2, ShippingAssumption DEF Entry
<1>2. PICK t : t = After(s, n, c)
  OBVIOUS
<1>3. /\ \A k \in 1..n : /\ ship.stack[k] \in Stacked
                         /\ t.scores[ship.stack[k]] = s.log_score + k
      /\ \A e \in Entry : t.scores[e] = s.scores[e] \/ \E k \in 1..n : ship.stack[k] = e
      /\ t.scores \in [Entry -> Nat] /\ t.log_score = s.log_score + n
  BY <1>2, NewScores
<1>4. t \in Server
  BY <1>1, <1>2, <1>3 DEF After, Server
<1>5. Bounded(t)
  <2> SUFFICES ASSUME NEW e \in Entry
               PROVE  t.scores[e] <= t.log_score
    BY DEF Bounded
  <2>1. CASE t.scores[e] = s.scores[e]
    BY <1>1, <1>3, <2>1 DEF Bounded
  <2>2. CASE \E k \in 1..n : ship.stack[k] = e
    BY <1>1, <1>3, <2>2
  <2> QED BY <1>3, <2>1, <2>2
<1>6. In(t) \subseteq In(s) \cup Stacked
  BY <1>3 DEF In
<1>7. Ahead(t)
  BY <1>6 DEF Ahead
\* Who is later than an entry of the batch is in it, and has a later score or is not in the part.
<1>8. ASSUME NEW a \in In(t), NEW b \in In(t), a < b, t.scores[a] >= t.scores[b]
      PROVE  \/ a \in Stacked /\ b \in Stacked /\ n # Len(ship.stack)
             \/ /\ a \in In(s) /\ b \in In(s) /\ s.scores[a] >= s.scores[b]
                /\ n = Len(ship.stack) => a \notin Stacked /\ b \notin Stacked
  <2>1. a \in Entry /\ b \in Entry /\ a \in Nat /\ b \in Nat
    BY <1>1, <1>8 DEF In
  <2>2. CASE \E k \in 1..n : ship.stack[k] = b
    <3>1. PICK k \in 1..n : ship.stack[k] = b
      BY <2>2
    <3>2. t.scores[b] = s.log_score + k
      BY <1>3, <3>1
    <3>3. t.scores[a] # s.scores[a]
      BY <1>1, <1>8, <2>1, <3>2 DEF Bounded
    <3>4. PICK i \in 1..n : ship.stack[i] = a
      BY <1>3, <2>1, <3>3
    <3>5. t.scores[a] = s.log_score + i
      BY <1>3, <3>4
    <3>6. i >= k
      BY <1>1, <1>8, <3>2, <3>5
    <3>7. i = k \/ b < a
      BY <1>1, <3>1, <3>4, <3>6 DEF StackInOrder
    <3> QED BY <1>8, <2>1, <3>1, <3>4, <3>7
  <2>3. CASE ~\E k \in 1..n : ship.stack[k] = b
    <3>1. t.scores[b] = s.scores[b] /\ b \in In(s)
      BY <1>3, <1>8, <2>1, <2>3 DEF In
    <3>2. b \in Stacked => n # Len(ship.stack)
      BY <2>3 DEF Stacked
    <3>3. CASE a \in Stacked
      <4>1. b \in Stacked
        <5>1. b \in Stacked \/ b < a
          BY <3>1, <3>3 DEF Ahead
        <5> QED BY <1>8, <2>1, <5>1
      <4> QED BY <3>2, <3>3, <4>1
    <3>4. CASE a \notin Stacked
      <4>1. t.scores[a] = s.scores[a]
        BY <1>3, <2>1, <3>4
      <4> QED BY <1>8, <2>1, <3>1, <3>2, <3>4, <4>1 DEF In
    <3> QED BY <3>3, <3>4
  <2> QED BY <2>2, <2>3
<1>9. Ordered(s, loose) => Ordered(t, loose \cup Stacked)
  BY <1>8 DEF Ordered
<1>10. n = Len(ship.stack) /\ Ordered(s, loose \cup Stacked) => Ordered(t, loose)
  BY <1>8 DEF Ordered
<1> QED BY <1>2, <1>4, <1>5, <1>6, <1>7, <1>9, <1>10

-----------------------------------------------------------------------------
(* The order, one step *)

\* Everything in the line is a number.
LEMMA LineTyped ==
  ASSUME ShippingInv
  PROVE  /\ Entry \subseteq Nat /\ LastPut \in Int
         /\ Logged \subseteq Entry /\ Stacked \subseteq Entry /\ Handed \subseteq Entry
         /\ Queued \subseteq Entry /\ \A e \in Queued : e <= LastPut
<1>1. /\ HeldByMain /\ ship \in ShipState /\ (Handing => ship.entry \in Entry)
      /\ queue \in Seq(Entry) /\ Overflow
  BY DEF ShippingInv, Held, HeldByMain, HeldByShip, Handing
<1>2. Entry \subseteq Nat /\ LastPut \in Int
  BY <1>1, MainFields, ShippingAssumption DEF Entry, LastPut
<1>3. Stacked \subseteq Entry
  BY <1>1, StackTyped DEF Stacked
<1>4. Queued \subseteq Entry /\ \A e \in Queued : e <= LastPut
  BY <1>1 DEF Queued, Overflow, PutSoFar
<1> QED BY <1>1, <1>2, <1>3, <1>4 DEF Logged, Handed

\* What the main thread puts on the queue is later than all that it put before.
LEMMA MainPuts ==
  ASSUME ShippingInv, MainStep
  PROVE  /\ LastPut' \in Int /\ LastPut <= LastPut'
         /\ \A e \in Queued' : e \in Queued \/ (e \in Entry /\ LastPut < e)
<1>1. /\ HeldByMain /\ queue \in Seq(Entry) /\ main.logged \in Nat /\ LastPut \in Int
  <2>1. HeldByMain /\ queue \in Seq(Entry)
    BY DEF ShippingInv, Held, HeldByMain
  <2> QED BY <2>1, LineTyped, MainFields, ShippingAssumption
<1>2. CASE Count \/ Exit
  <2>1. queue' = queue /\ LastPut' = LastPut
    BY <1>1, <1>2, MainFields DEF Count, Exit, LastPut, Putting
  <2> QED BY <1>1, <2>1 DEF Queued
<1>3. CASE Log
  <2>1. queue' = queue /\ LastPut' = LastPut
    BY <1>1, <1>3 DEF Log, LastPut, Putting
  <2> QED BY <1>1, <2>1 DEF Queued
<1>4. CASE Put
  <2>1. /\ LastPut = main.logged - 1 /\ main.logged \in Entry
        /\ \/ queue' = Append(queue, main.logged) /\ LastPut' = main.logged
           \/ queue' = queue /\ LastPut' = LastPut
    BY <1>1, <1>4, MainFields DEF Put, LastPut, Putting, HeldByMain
  <2>2. CASE queue' = queue /\ LastPut' = LastPut
    BY <1>1, <2>2 DEF Queued
  <2>3. CASE queue' = Append(queue, main.logged) /\ LastPut' = main.logged
    <3>1. /\ Len(queue) \in Nat /\ Len(queue') = Len(queue) + 1
          /\ queue'[Len(queue) + 1] = main.logged
          /\ \A i \in 1..Len(queue) : queue'[i] = queue[i]
      BY <1>1, <2>1, <2>3, Appended
    <3>2. \A i \in 1..Len(queue') : i \in 1..Len(queue) \/ i = Len(queue) + 1
      BY <3>1
    <3>3. \A e \in Queued' : e \in Queued \/ e = main.logged
      BY <3>1, <3>2 DEF Queued
    <3> QED BY <1>1, <2>1, <2>3, <3>3
  <2> QED BY <2>1, <2>2, <2>3
<1>5. CASE PopOldest
  <2>1. queue # <<>> /\ queue' = Tail(queue) /\ LastPut' = LastPut
    BY <1>1, <1>5, MainFields DEF PopOldest, LastPut, Putting
  <2>2. /\ Len(queue) \in Nat /\ Len(queue') = Len(queue) - 1
        /\ \A i \in 1..Len(queue') : queue'[i] = queue[i + 1]
    BY <1>1, <2>1, Ends
  <2>3. \A i \in 1..Len(queue') : i + 1 \in 1..Len(queue)
    BY <2>2
  <2>4. Queued' \subseteq Queued
    BY <2>2, <2>3 DEF Queued
  <2> QED BY <1>1, <2>1, <2>4
<1>6. CASE PopNothing
  <2>1. queue' = queue /\ LastPut = main.logged - 1 /\ LastPut' = main.logged
    BY <1>1, <1>6, MainFields DEF PopNothing, LastPut, Putting
  <2> QED BY <1>1, <2>1 DEF Queued
<1> QED BY <1>2, <1>3, <1>4, <1>5, <1>6 DEF MainStep

LEMMA MainOrder ==
  ASSUME ShippingInv, OrderInv, MainStep
  PROVE  OrderInv'
<1>1. UNCHANGED <<ship, server, gone>>
  <2>1. UNCHANGED gone
    BY DEF MainStep, Count, Log, Put, PopOldest, PopNothing, Exit, mainOnly
  <2> QED BY <2>1, MainHeld
<1>2. /\ Logged' = Logged /\ Stacked' = Stacked /\ Handed' = Handed
      /\ StackInOrder' = StackInOrder
  BY <1>1 DEF Logged, Stacked, Handed, Handing, StackInOrder
<1>3. InTurn'
  BY <1>2, LineTyped, MainPuts DEF OrderInv, InTurn, Before
<1> QED BY <1>1, <1>2, <1>3 DEF OrderInv, Bounded, OrderKept

\* A step of ship_logs moves entries on, or discards them.
LEMMA ShipQueue ==
  ASSUME ShippingInv, Shipping
  PROVE  LastPut' = LastPut /\ (Queued' \subseteq Queued)
<1>1. queue \in Seq(Entry) /\ main' = main /\ (queue' = queue \/ (queue # <<>> /\ queue' = Tail(queue)))
  BY DEF ShippingInv, Held, HeldByMain,
         Shipping, ShipStep, ShipFails, EnterOuter, EnterCommit, Enter, Register, Pipeline, Get,
         GetTimesOut, Add, Decide, TakeCounts, ExecuteSucceeds, AddFails, ExecuteRetries,
         ExecuteFails, ExecuteRefused, shipOnly
<1>2. CASE queue # <<>> /\ queue' = Tail(queue)
  <2>1. /\ Len(queue) \in Nat /\ Len(queue') = Len(queue) - 1
        /\ \A i \in 1..Len(queue') : queue'[i] = queue[i + 1]
    BY <1>1, <1>2, Ends
  <2>2. \A i \in 1..Len(queue') : i + 1 \in 1..Len(queue)
    BY <2>1
  <2> QED BY <1>1, <2>1, <2>2 DEF Queued, LastPut, Putting
<1> QED BY <1>1, <1>2 DEF Queued, LastPut, Putting

\* The steps that leave the log, and give up at most what they held.
LEMMA QuietOrder ==
  ASSUME ShippingInv, OrderInv, Shipping, UNCHANGED server, gone \subseteq gone',
         ship'.stack = ship.stack \/ ship'.stack = <<>>,
         Handed' \subseteq Handed
  PROVE  OrderInv'
<1>1. Logged' = Logged /\ Stacked' \subseteq Stacked /\ StackInOrder'
  <2>1. StackInOrder
    BY DEF OrderInv, InTurn
  <2>2. Len(<<>>) = 0
    OBVIOUS
  <2> QED BY <2>1, <2>2 DEF Logged, Stacked, StackInOrder
<1>2. InTurn'
  BY <1>1, ShipQueue DEF OrderInv, InTurn, Before
<1>3. OrderKept'
  BY <1>1 DEF OrderInv, OrderKept
<1> QED BY <1>2, <1>3 DEF OrderInv, Bounded

-----------------------------------------------------------------------------
(* Sending, and the order *)

LEMMA GetOrder ==
  ASSUME ShippingInv, OrderInv, Get
  PROVE  OrderInv'
<1>1. queue \in Seq(Entry) /\ InOrder /\ ship \in ShipState
  BY DEF ShippingInv, Held, HeldByMain, HeldByShip, Overflow
<1>2. /\ queue # <<>> /\ queue' = Tail(queue) /\ UNCHANGED <<main, server, gone>>
      /\ ship'.stack = ship.stack /\ ship'.entry = Head(queue) /\ ship.pc = "get"
  BY <1>1 DEF Get, shipOnly, ShipState
<1>3. /\ Head(queue) = queue[1] /\ Len(queue) \in Nat \ {0} /\ Len(queue') = Len(queue) - 1
      /\ \A k \in 1..Len(queue') : queue'[k] = queue[k + 1]
  BY <1>1, <1>2, Ends
<1>4. Head(queue) \in Queued /\ \A e \in Queued' : e \in Queued /\ Head(queue) < e
  <2>1. \A k \in 1..Len(queue') : /\ k + 1 \in 1..Len(queue) /\ 1 \in 1..Len(queue)
                                  /\ 1 < k + 1
    BY <1>3
  <2>2. \A k \in 1..Len(queue') : queue'[k] \in Queued /\ Head(queue) < queue'[k]
    BY <1>3, <2>1 DEF InOrder, Queued, ShippingInv, Overflow
  <2> QED BY <1>3, <2>2 DEF Queued
<1>5. Handed = {} /\ Handed' \subseteq {Head(queue)}
  BY <1>2 DEF Handed, Handing
<1>6. /\ Logged' = Logged /\ Stacked' = Stacked /\ LastPut' = LastPut
      /\ StackInOrder' = StackInOrder
  BY <1>2 DEF Logged, Stacked, LastPut, Putting, StackInOrder
<1>7. InTurn'
  BY <1>4, <1>5, <1>6, LineTyped DEF OrderInv, InTurn, Before
<1>8. OrderKept'
  BY <1>2, <1>6 DEF OrderInv, OrderKept
<1> QED BY <1>2, <1>7, <1>8 DEF OrderInv, Bounded

LEMMA AddOrder ==
  ASSUME ShippingInv, OrderInv, Add
  PROVE  OrderInv'
<1>1. /\ ship \in ShipState /\ ship.entry \in Entry /\ ship.stack \in Seq(Entry) /\ ship.pc = "add"
  BY StackTyped DEF ShippingInv, Held, HeldByShip, Add
<1>2. /\ ship'.stack = Append(ship.stack, ship.entry) /\ ship'.pc = "decide"
      /\ UNCHANGED <<main, queue, server, gone>>
  BY <1>1 DEF Add, shipOnly, ShipState
<1>3. /\ Len(ship.stack) \in Nat /\ Len(ship'.stack) = Len(ship.stack) + 1
      /\ ship'.stack[Len(ship.stack) + 1] = ship.entry
      /\ \A k \in 1..Len(ship.stack) : ship'.stack[k] = ship.stack[k]
  BY <1>1, <1>2, Appended
<1>4. \A k \in 1..Len(ship'.stack) : k \in 1..Len(ship.stack) \/ k = Len(ship.stack) + 1
  BY <1>3
<1>5. Handed = {ship.entry} /\ Handed' = {}
  BY <1>1, <1>2 DEF Handed, Handing
<1>6. Stacked' \subseteq Stacked \cup {ship.entry}
  BY <1>3, <1>4 DEF Stacked
<1>7. StackInOrder'
  <2> SUFFICES ASSUME NEW k \in 1..Len(ship'.stack), NEW l \in 1..Len(ship'.stack), k < l
               PROVE  ship'.stack[k] < ship'.stack[l]
    BY DEF StackInOrder
  <2>1. k \in 1..Len(ship.stack)
    BY <1>3
  <2>2. CASE l \in 1..Len(ship.stack)
    BY <1>3, <2>1, <2>2 DEF OrderInv, InTurn, StackInOrder
  <2>3. CASE l = Len(ship.stack) + 1
    <3>1. ship.stack[k] < ship.entry
      BY <1>5, <2>1 DEF OrderInv, InTurn, Before, Stacked
    <3> QED BY <1>3, <2>1, <2>3, <3>1
  <2> QED BY <1>4, <2>2, <2>3
<1>8. Logged' = Logged /\ LastPut' = LastPut /\ Queued' = Queued
  BY <1>2 DEF Logged, LastPut, Putting, Queued
<1>9. InTurn'
  BY <1>5, <1>6, <1>7, <1>8 DEF OrderInv, InTurn, Before
<1>10. OrderKept'
  BY <1>2, <1>8 DEF OrderInv, OrderKept
<1> QED BY <1>2, <1>9, <1>10 DEF OrderInv, Bounded

\* Before the batch is sent, the log has nothing of it or after it.
LEMMA ReadyToSend ==
  ASSUME ShippingInv, OrderInv
  PROVE  /\ ship \in ShipState /\ StackInOrder /\ server \in Server /\ Bounded(server)
         /\ Ahead(server) /\ In(server) = Logged
         /\ \A loose : gone \subseteq loose => Ordered(server, loose)
<1>1. ship \in ShipState
  BY DEF ShippingInv, Held, HeldByShip
<1>2. In(server) = Logged
  BY DEF In, Logged
<1> QED BY <1>1, <1>2 DEF OrderInv, InTurn, Before, Ahead, Ordered, OrderKept

\* The end of execute.
LEMMA SentOrder ==
  ASSUME ShippingInv, OrderInv, Shipping, ship'.stack = <<>>, ship'.pc \in {"get", "outer"},
         server' \in Server, Bounded(server'), In(server') \subseteq Logged \cup Stacked,
         Ordered(server', gone')
  PROVE  OrderInv'
<1>1. Logged' \subseteq Logged \cup Stacked
  BY DEF In, Logged
<1>2. Stacked' = {} /\ StackInOrder' /\ Handed' = {}
  <2>1. Len(<<>>) = 0
    OBVIOUS
  <2> QED BY <2>1 DEF Stacked, StackInOrder, Handed, Handing
<1>3. InTurn'
  BY <1>1, <1>2, ShipQueue DEF OrderInv, InTurn, Before
<1>4. OrderKept'
  BY DEF Ordered, In, OrderKept, Logged
<1> QED BY <1>3, <1>4 DEF OrderInv, Bounded

\* A part of the batch in Redis, and the rest of it unknown.
LEMMA PartSent ==
  ASSUME ShippingInv, OrderInv, NEW part, part \in Parts, NEW s, s \in Server, Bounded(s), Ahead(s),
         In(s) \subseteq Logged \cup Stacked
  PROVE  /\ After(s, part[1], part[2]) \in Server /\ Bounded(After(s, part[1], part[2]))
         /\ Ahead(After(s, part[1], part[2]))
         /\ In(After(s, part[1], part[2])) \subseteq Logged \cup Stacked
         /\ \A loose : Ordered(s, loose) => Ordered(After(s, part[1], part[2]), loose \cup Stacked)
<1>1. part[1] \in 0..Len(ship.stack) /\ part[2] \in Nat
  BY ReadyToSend DEF Parts, ShipState
<1> QED BY <1>1, ReadyToSend, BatchSent

LEMMA WholeSent ==
  ASSUME ShippingInv, OrderInv, NEW s, s \in Server, Bounded(s), Ahead(s),
         In(s) \subseteq Logged \cup Stacked, NEW loose, Ordered(s, loose \cup Stacked)
  PROVE  /\ After(s, Len(ship.stack), ship.counts) \in Server
         /\ Bounded(After(s, Len(ship.stack), ship.counts))
         /\ In(After(s, Len(ship.stack), ship.counts)) \subseteq Logged \cup Stacked
         /\ Ordered(After(s, Len(ship.stack), ship.counts), loose)
<1>1. ship.counts \in Nat /\ Len(ship.stack) \in 0..Len(ship.stack)
  BY ReadyToSend, StackTyped DEF ShipState
<1> QED BY <1>1, ReadyToSend, BatchSent

LEMMA StackGone ==
  ASSUME ship \in ShipState
  PROVE  ToSet(ship.stack) = Stacked
  BY StackTyped DEF ToSet, Stacked

LEMMA EmptiedStack ==
  ASSUME ship \in ShipState, NEW p \in {"get", "outer"}
  PROVE  /\ Emptied(p).stack = <<>> /\ Emptied(p).pc = p
         /\ [Emptied(p) EXCEPT !.shipping_count = 0].stack = <<>>
         /\ [Emptied(p) EXCEPT !.shipping_count = 0].pc = p
  BY DEF Emptied, ShipState

LEMMA ShipOrder ==
  ASSUME ShippingInv, OrderInv, Shipping
  PROVE  OrderInv'
<1>1. /\ ship \in ShipState /\ server \in Server /\ Bounded(server) /\ Ahead(server)
      /\ In(server) \subseteq Logged \cup Stacked
      /\ Ordered(server, gone) /\ Ordered(server, gone \cup Stacked)
  BY ReadyToSend
<1>2. CASE \/ EnterOuter \/ EnterCommit \/ Register \/ Pipeline \/ GetTimesOut \/ Decide
           \/ TakeCounts
  <2>1. UNCHANGED <<server, gone>> /\ ship'.stack = ship.stack
    BY <1>1, <1>2 DEF EnterOuter, EnterCommit, Enter, Register, Pipeline, GetTimesOut,
       Decide,
                      TakeCounts, ShipState, history
  <2>2. Handed' \subseteq Handed
    BY <1>1, <1>2 DEF EnterOuter, EnterCommit, Enter, Register, Pipeline, GetTimesOut,
       Decide,
                      TakeCounts, ShipState, Handed, Handing
  <2> QED BY <2>1, <2>2, QuietOrder
<1>3. CASE Get
  BY <1>3, GetOrder
<1>4. CASE Add
  BY <1>4, AddOrder
<1>5. CASE AddFails
  <2>1. /\ UNCHANGED server /\ gone \subseteq gone' /\ ship'.stack = <<>> /\ ship'.pc = "decide"
    BY <1>1, <1>5 DEF AddFails, ShipState
  <2>2. Handed' \subseteq Handed
    BY <2>1 DEF Handed, Handing
  <2> QED BY <2>1, <2>2, QuietOrder
<1>6. CASE ExecuteSucceeds
  <2>1. /\ server' = After(server, Len(ship.stack), ship.counts) /\ gone' = gone
        /\ ship'.stack = <<>> /\ ship'.pc \in {"get", "outer"}
    BY <1>1, <1>6, EmptiedStack DEF ExecuteSucceeds
  <2> QED BY <1>1, <2>1, WholeSent, SentOrder
<1>7. CASE ExecuteRetries
  <2>1. PICK part : /\ part \in Parts
                    /\ server' = After(After(server, part[1], part[2]), Len(ship.stack), ship.counts)
    BY <1>7 DEF ExecuteRetries
  <2>2. gone' = gone /\ ship'.stack = <<>> /\ ship'.pc \in {"get", "outer"}
    BY <1>1, <1>7, EmptiedStack DEF ExecuteRetries
  <2>3. PICK between : between = After(server, part[1], part[2])
    OBVIOUS
  <2>4. /\ between \in Server /\ Bounded(between) /\ Ahead(between)
        /\ In(between) \subseteq Logged \cup Stacked /\ Ordered(between, gone \cup Stacked)
    BY <1>1, <2>1, <2>3, PartSent
  <2>5. /\ server' \in Server /\ Bounded(server') /\ In(server') \subseteq Logged \cup Stacked
        /\ Ordered(server', gone)
    BY <2>1, <2>3, <2>4, WholeSent
  <2> QED BY <2>2, <2>5, SentOrder
<1>8. CASE ExecuteFails
  <2>1. PICK first, second :
          /\ first \in Parts /\ second \in Parts
          /\ server' = After(After(server, first[1], first[2]), second[1], second[2])
    BY <1>8 DEF ExecuteFails
  <2>2. /\ gone' = gone \cup Stacked /\ ship'.stack = <<>> /\ ship'.pc \in {"get", "outer"}
    BY <1>1, <1>8, EmptiedStack, StackGone DEF ExecuteFails
  <2>3. PICK between : between = After(server, first[1], first[2])
    OBVIOUS
  <2>4. /\ between \in Server /\ Bounded(between) /\ Ahead(between)
        /\ In(between) \subseteq Logged \cup Stacked /\ Ordered(between, gone \cup Stacked)
    BY <1>1, <2>1, <2>3, PartSent
  <2>5. gone \cup Stacked \cup Stacked = gone \cup Stacked
    OBVIOUS
  <2>6. /\ server' \in Server /\ Bounded(server') /\ In(server') \subseteq Logged \cup Stacked
        /\ Ordered(server', gone \cup Stacked)
    BY <2>1, <2>3, <2>4, <2>5, PartSent
  <2> QED BY <2>2, <2>6, SentOrder
<1>9. CASE ExecuteRefused
  <2>1. PICK part : part \in Parts /\ server' = After(server, part[1], part[2])
    BY <1>9 DEF ExecuteRefused
  <2>2. /\ gone' = gone \cup Stacked /\ ship'.stack = <<>> /\ ship'.pc \in {"get", "outer"}
    BY <1>1, <1>9, EmptiedStack, StackGone DEF ExecuteRefused
  <2>3. /\ server' \in Server /\ Bounded(server') /\ In(server') \subseteq Logged \cup Stacked
        /\ Ordered(server', gone \cup Stacked)
    BY <1>1, <2>1, PartSent
  <2> QED BY <2>2, <2>3, SentOrder
<1> QED BY <1>2, <1>3, <1>4, <1>5, <1>6, <1>7, <1>8, <1>9 DEF Shipping, ShipStep, ShipFails

LEMMA OrderInvHolds == Spec => []OrderInv
<1>1. Init => OrderInv
  <2> SUFFICES ASSUME Init
               PROVE  OrderInv
    OBVIOUS
  <2>1. server = [scores |-> [e \in Entry |-> 0], log_score |-> 0, total |-> 0]
    BY DEF Init
  <2>2. server \in Server /\ Bounded(server) /\ Logged = {}
    BY <2>1 DEF Server, Bounded, Logged
  <2>3. Stacked = {} /\ Queued = {} /\ Handed = {} /\ StackInOrder
    BY DEF Init, Stacked, Queued, Handed, Handing, StackInOrder
  <2> QED BY <2>2, <2>3 DEF OrderInv, InTurn, Before, OrderKept
<1>2. ShippingInv /\ OrderInv /\ [Next]_vars => OrderInv'
  <2> SUFFICES ASSUME ShippingInv, OrderInv, [Next]_vars
               PROVE  OrderInv'
    OBVIOUS
  <2>1. CASE MainStep
    BY <2>1, MainOrder
  <2>2. CASE Shipping
    BY <2>2, ShipOrder
  <2>3. CASE ListenerStep \/ UNCHANGED vars
    <3>1. UNCHANGED <<main, queue, ship, server, gone>>
      BY <2>3 DEF ListenerStep, ListenerUses, ListenerRegisters, ListenerReturns,
                  ListenerDisconnects, vars, history
    <3> QED BY <3>1 DEF OrderInv, InTurn, Before, StackInOrder, Stacked, Handed, Handing,
               Queued,
                        Logged, LastPut, Putting, Bounded, OrderKept
  <2> QED BY <2>1, <2>2, <2>3 DEF Next, Shipping
<1> QED BY <1>1, <1>2, ShippingInvHolds, PTL DEF Spec

-----------------------------------------------------------------------------
(* Types *)

\* What the other invariants do not say of the variables' types.
Typed ==
  /\ Len(queue) <= QueueSize /\ counted <= MaxCounted
  /\ connected \in BOOLEAN /\ loaded \in BOOLEAN /\ spoiled \in BOOLEAN
  /\ listener \in {"idle", "register", "call"}
  /\ dropped \subseteq Entry /\ gone \subseteq Entry
  /\ faults \in 0..MaxFaults

LEMMA MainTyped ==
  ASSUME ShippingInv, Typed, MainStep
  PROVE  Typed'
<1>1. /\ HeldByMain /\ queue \in Seq(Entry) /\ Len(queue) \in Nat /\ counted \in Nat
      /\ QueueSize \in Nat /\ MaxCounted \in Nat
  BY ShippingAssumption DEF ShippingInv, Held, HeldByMain
<1>2. UNCHANGED <<connected, loaded, spoiled, listener, gone, faults>>
  BY DEF MainStep, Count, Log, Put, PopOldest, PopNothing, Exit, mainOnly
<1>3. counted' <= MaxCounted
  BY <1>1 DEF Typed, MainStep, Count, Log, Put, PopOldest, PopNothing, Exit
<1>4. Len(queue') <= QueueSize
  <2>1. CASE Put
    <3>1. CASE Len(queue) < QueueSize
      <4>1. queue' = Append(queue, main.logged) /\ main.logged \in Entry
        BY <1>1, <2>1, <3>1 DEF Put, HeldByMain, Putting
      <4>2. Len(queue') = Len(queue) + 1
        BY <1>1, <4>1, Appended
      <4> QED BY <1>1, <3>1, <4>2
    <3>2. CASE ~(Len(queue) < QueueSize)
      BY <2>1, <3>2 DEF Put, Typed
    <3> QED BY <3>1, <3>2
  <2>2. CASE PopOldest
    <3>1. Len(queue') = Len(queue) - 1
      BY <1>1, <2>2, Ends DEF PopOldest
    <3> QED BY <1>1, <3>1 DEF Typed
  <2>3. CASE Count \/ Log \/ PopNothing \/ Exit
    BY <2>3 DEF Count, Log, PopNothing, Exit, Typed
  <2> QED BY <2>1, <2>2, <2>3 DEF MainStep
<1>5. dropped' \subseteq Entry
  <2>1. CASE PopOldest
    <3>1. Head(queue) \in Entry /\ dropped' = dropped \cup {Head(queue)}
      BY <1>1, <2>1, Ends DEF PopOldest
    <3> QED BY <3>1 DEF Typed
  <2>2. CASE PopNothing
    BY <1>1, <2>2 DEF PopNothing, HeldByMain, Putting, Typed
  <2>3. CASE Count \/ Log \/ Put \/ Exit
    BY <2>3 DEF Count, Log, Put, Exit, Typed
  <2> QED BY <2>1, <2>2, <2>3 DEF MainStep
<1> QED BY <1>2, <1>3, <1>4, <1>5 DEF Typed

LEMMA ListenerTyped ==
  ASSUME Typed, ListenerStep
  PROVE  Typed'
<1> USE ShippingAssumption DEF Typed, history
<1>1. CASE ListenerUses
  BY <1>1 DEF ListenerUses
<1>2. CASE ListenerRegisters
  BY <1>2 DEF ListenerRegisters
<1>3. CASE ListenerReturns
  BY <1>3 DEF ListenerReturns
<1>4. CASE ListenerDisconnects
  <2>1. faults' \in 0..MaxFaults
    BY <1>4 DEF ListenerDisconnects, Fault
  <2>2. connected' = FALSE /\ UNCHANGED <<queue, counted, loaded, spoiled, dropped, gone>>
    BY <1>4 DEF ListenerDisconnects
  <2>3. listener' = "idle"
    BY <1>4 DEF ListenerDisconnects
  <2> QED BY <2>1, <2>2, <2>3
<1> QED BY <1>1, <1>2, <1>3, <1>4 DEF ListenerStep

LEMMA ShipTyped ==
  ASSUME ShippingInv, Typed, Shipping
  PROVE  Typed'
<1>1. /\ ship \in ShipState /\ queue \in Seq(Entry) /\ Stacked \subseteq Entry
      /\ ToSet(ship.stack) = Stacked /\ (ship.pc = "add" => ship.entry \in Entry)
      /\ QueueSize \in Nat
  BY LineTyped, StackGone, ShippingAssumption
     DEF ShippingInv, Held, HeldByMain, HeldByShip
<1>2. /\ UNCHANGED <<listener, counted, dropped>>
      /\ queue' = queue \/ (queue # <<>> /\ queue' = Tail(queue))
      /\ connected' \in BOOLEAN /\ loaded' \in BOOLEAN
  BY DEF Typed, Shipping, ShipStep, ShipFails, EnterOuter, EnterCommit, Enter, Register,
     Pipeline,
         Get, GetTimesOut, Add, Decide, TakeCounts, ExecuteSucceeds, AddFails, ExecuteRetries,
         ExecuteFails, ExecuteRefused, shipOnly, history
<1>3. faults' = faults \/ Fault
  BY DEF Shipping, ShipStep, ShipFails, EnterOuter, EnterCommit, Enter, Register, Pipeline,
         Get, GetTimesOut, Add, Decide, TakeCounts, ExecuteSucceeds, AddFails, ExecuteRetries,
         ExecuteFails, ExecuteRefused
<1>4. faults' \in 0..MaxFaults
  BY <1>3, ShippingAssumption DEF Fault, Typed
<1>5. spoiled' = spoiled \/ Spoil(ship.counts)
  BY DEF Shipping, ShipStep, ShipFails, EnterOuter, EnterCommit, Enter, Register, Pipeline,
         Get, GetTimesOut, Add, Decide, TakeCounts, ExecuteSucceeds, AddFails, ExecuteRetries,
         ExecuteFails, ExecuteRefused, history
<1>6. spoiled' \in BOOLEAN
  BY <1>5 DEF Spoil, Typed
<1>7. \/ gone' = gone \/ gone' = gone \cup Stacked
      \/ AddFails /\ gone' = gone \cup Stacked \cup {ship.entry}
  <2>1. CASE ShipStep \/ ExecuteRetries
    BY <2>1 DEF ShipStep, EnterOuter, EnterCommit, Enter, Register, Pipeline, Get,
       GetTimesOut,
           Add, Decide, TakeCounts, ExecuteSucceeds, ExecuteRetries, history
  <2>2. CASE AddFails
    BY <1>1, <2>2 DEF AddFails
  <2>3. CASE ExecuteFails \/ ExecuteRefused
    <3>1. gone' = gone \cup ToSet(ship.stack)
      BY <2>3 DEF ExecuteFails, ExecuteRefused
    <3> QED BY <1>1, <3>1
  <2> QED BY <2>1, <2>2, <2>3 DEF Shipping, ShipFails
<1>8. gone' \subseteq Entry
  BY <1>1, <1>7 DEF Typed, AddFails
<1>9. Len(queue') <= QueueSize
  <2>1. queue # <<>> /\ queue' = Tail(queue) => Len(queue') = Len(queue) - 1 /\ Len(queue) \in Nat
    BY <1>1, Ends
  <2> QED BY <1>1, <1>2, <2>1 DEF Typed
<1> QED BY <1>2, <1>4, <1>6, <1>8, <1>9 DEF Typed

\* Every variable keeps its type; above all, the queue never has more entries
\* than it may.
THEOREM ShippingIsTyped == Spec => []TypeOK
<1>1. Init => Typed
  <2> SUFFICES ASSUME Init
               PROVE  Typed
    OBVIOUS
  <2>1. Len(queue) = 0 /\ Len(queue) <= QueueSize /\ counted <= MaxCounted
    BY ShippingAssumption DEF Init
  <2>2. faults \in 0..MaxFaults
    BY ShippingAssumption DEF Init
  <2>3. connected \in BOOLEAN /\ loaded \in BOOLEAN /\ spoiled \in BOOLEAN
    BY DEF Init
  <2> QED BY <2>1, <2>2, <2>3 DEF Init, Typed
<1>2. ShippingInv /\ Typed /\ [Next]_vars => Typed'
  <2> SUFFICES ASSUME ShippingInv, Typed, [Next]_vars
               PROVE  Typed'
    OBVIOUS
  <2>1. CASE UNCHANGED vars
    BY <2>1 DEF vars, history, Typed
  <2> QED BY <2>1, MainTyped, ListenerTyped, ShipTyped DEF Next, Shipping
<1>3. ShippingInv /\ OrderInv /\ Typed => TypeOK
  <2> SUFFICES ASSUME ShippingInv, OrderInv, Typed
               PROVE  TypeOK
    OBVIOUS
  <2>1. /\ main \in MainState /\ ship \in ShipState /\ queue \in Seq(Entry)
        /\ outstanding \in Nat /\ counted \in Nat /\ server \in Server
    BY DEF ShippingInv, OrderInv, Held, HeldByMain, HeldByShip
  <2>2. counted \in 0..MaxCounted
    BY <2>1, ShippingAssumption DEF Typed
  <2> QED BY <2>1, <2>2 DEF Typed, TypeOK
<1> QED BY <1>1, <1>2, <1>3, ShippingInvHolds, OrderInvHolds, PTL DEF Spec

\* Until a batch fails, each count is in Redis, in the pipeline or outstanding,
\* once: for any sizes of queue and batch.
THEOREM CountsAreKept == Spec => []CountsKept
<1>1. ShippingInv => CountsKept
  BY DEF ShippingInv
<1> QED BY <1>1, ShippingInvHolds, PTL

\* Overflow costs the oldest entries, although two threads take from the queue:
\* the second part of LogKept.
THEOREM OverflowTakesOldest == Spec => []OverflowDropsOldest
<1>1. ShippingInv => OverflowDropsOldest
  <2> SUFFICES ASSUME ShippingInv, NEW e \in dropped, NEW q \in ToSet(queue)
               PROVE  e < q
    BY DEF OverflowDropsOldest
  <2>1. PICK i \in DOMAIN queue : q = queue[i]
    BY DEF ToSet
  <2>2. DOMAIN queue = 1..Len(queue)
    BY DEF ShippingInv, Held, HeldByMain
  <2> QED BY <2>1, <2>2 DEF ShippingInv, Overflow, DroppedBefore
<1> QED BY <1>1, ShippingInvHolds, PTL

\* Two entries of the log have changed places only if a batch with both failed,
\* and what overflow takes is older than what is queued.
THEOREM LogStaysInOrder == Spec => []LogKept
<1>1. OrderInv => OrderKept
  BY DEF OrderInv
<1>2. OrderKept /\ OverflowDropsOldest => LogKept
  BY DEF LogKept
<1> QED BY <1>1, <1>2, OrderInvHolds, OverflowTakesOldest, PTL
=============================================================================
