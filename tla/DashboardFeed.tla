--------------------------- MODULE DashboardFeed ---------------------------
(***************************************************************************)
(* The live feed of the dashboard (plumbing/firehose-client piped into      *)
(* dashboard/websocket.py): one asyncio loop with a task that reads lines   *)
(* from stdin and puts each on the bounded queue of every client, and one   *)
(* task per client that writes its queue to its websocket.                  *)
(*                                                                         *)
(* Tasks give way only where they wait: `running` is the task that has not, *)
(* `woken` are clients whose queue got its first message and that run       *)
(* before the next bytes of stdin do.  What the sockets do happens between. *)
(***************************************************************************)
EXTENDS Naturals, Sequences, FiniteSets

CONSTANTS
  Client,
  MaxQueue,     \* maxsize of a client's queue
  MaxBuffer,    \* bound: lines in the StreamReader's buffer
  MaxLines,     \* bound: lines of the feed
  MaxVisits,    \* bound: connections that clients make
  Reader, Nobody

VARIABLES
  came,        \* lines that firehose-client wrote; lines are numbered
  read,        \* the last line that was read and sent on
  eof, ended,  \* stdin is at its end; the process is
  running, woken,
  registered,  \* keys of amplifier.queues
  queue,       \* amplifier.queues
  at,          \* where a client's task is
  net,         \* its connection: open, full (the transport has paused writing) or closed
  written,     \* what was written to it
  visits,
  first,       \* history: the first line after the client's registration
  burst,       \* history: lines read since the reader last waited
  behind       \* history: clients that may have missed lines

stdin == <<came, read, eof, ended>>
loop == <<running, woken>>
clients == <<registered, queue, at, net, written, visits, first>>
history == <<burst, behind>>
vars == <<stdin, loop, clients, history>>

Blank == 0      \* what readline() gives at the end of stdin

TypeOK ==
  /\ came \in 0..MaxLines /\ read \in 0..came /\ eof \in BOOLEAN /\ ended \in BOOLEAN
  /\ running \in Client \cup {Reader, Nobody} /\ woken \subseteq registered
  /\ registered \subseteq Client /\ visits \in 0..MaxVisits /\ behind \subseteq Client
  /\ \A c \in Client : /\ queue[c] \in Seq(Nat) /\ Len(queue[c]) <= MaxQueue
                       /\ written[c] \in Seq(Nat) /\ first[c] \in Nat
  /\ at \in [Client -> {"away", "get", "drain", "closing"}]
  /\ net \in [Client -> {"open", "full", "closed"}]

Init ==
  /\ came = 0 /\ read = 0 /\ eof = FALSE /\ ended = FALSE
  /\ running = Nobody /\ woken = {} /\ registered = {} /\ visits = 0
  /\ queue = [c \in Client |-> <<>>] /\ written = [c \in Client |-> <<>>]
  /\ at = [c \in Client |-> "away"] /\ net = [c \in Client |-> "closed"]
  /\ first = [c \in Client |-> 1] /\ burst = 0 /\ behind = {}

Idle == running = Nobody /\ ~ended

-----------------------------------------------------------------------------
(* The feed *)

Come ==
  /\ Idle /\ ~eof /\ came < MaxLines /\ came - read < MaxBuffer
  /\ came' = came + 1
  /\ UNCHANGED <<read, eof, ended, loop, clients, history>>

Eof ==
  /\ Idle /\ ~eof /\ eof' = TRUE
  /\ UNCHANGED <<came, read, ended, loop, clients, history>>

-----------------------------------------------------------------------------
(* stdin_to_amplifier *)

\* Mutant of Put: the message that finds the queue full is dropped.
PutDropsNewest(q, line) == IF Len(q) < MaxQueue THEN Append(q, line) ELSE q

\* put_nowait, and when the queue is full, get_nowait before it.
Put(q, line) == Append(IF Len(q) < MaxQueue THEN q ELSE Tail(q), line)

Send(line) ==
  /\ queue' = [c \in Client |-> IF c \in registered THEN Put(queue[c], line) ELSE queue[c]]
  /\ woken' = woken \cup {c \in registered : at[c] = "get" /\ queue[c] = <<>>}

Reads == running = Reader \/ (Idle /\ woken = {})

\* readline() waits only when the buffer has no whole line.
ReadLine ==
  /\ Reads /\ ~ended /\ read < came
  /\ read' = read + 1 /\ Send(read')
  /\ running' = IF read' < came \/ eof THEN Reader ELSE Nobody
  /\ burst' = IF running = Reader THEN burst + 1 ELSE 1
  /\ behind' = behind \cup {c \in registered : burst' > MaxQueue \/ eof}
  /\ UNCHANGED <<came, eof, ended, registered, at, net, written, visits, first>>

\* At the end of stdin it gives b'' at once, again and again.
ReadNothing ==
  /\ Reads /\ ~ended /\ eof /\ read = came
  /\ Send(Blank) /\ running' = Reader /\ behind' = behind \cup registered
  /\ UNCHANGED <<stdin, registered, at, net, written, visits, first, burst>>

\* A line longer than the limit: the ValueError goes through gather to main.
ReadTooLong ==
  /\ Reads /\ ~ended /\ read < came
  /\ ended' = TRUE /\ running' = Nobody
  /\ UNCHANGED <<came, read, eof, woken, clients, history>>

-----------------------------------------------------------------------------
(* websocket_server *)

Connect(c) ==
  /\ Idle /\ at[c] = "away" /\ visits < MaxVisits
  /\ registered' = registered \cup {c} /\ queue' = [queue EXCEPT ![c] = <<>>]
  /\ at' = [at EXCEPT ![c] = "get"] /\ net' = [net EXCEPT ![c] = "open"]
  /\ written' = [written EXCEPT ![c] = <<>>] /\ visits' = visits + 1
  /\ first' = [first EXCEPT ![c] = read + 1] /\ behind' = behind \ {c}
  /\ UNCHANGED <<stdin, loop, burst>>

Runs(c) == ~ended /\ (running = c \/ running = Nobody)

\* From queue.get() through writer.write() to drain(), which waits if the
\* transport is full; without a wait the task takes the next message.
Write(c, full) ==
  /\ Runs(c) /\ at[c] = "get" /\ queue[c] # <<>> /\ net[c] # "closed"
  /\ net[c] = "full" => full
  /\ written' = [written EXCEPT ![c] = Append(@, Head(queue[c]))]
  /\ queue' = [queue EXCEPT ![c] = Tail(@)]
  /\ net' = [net EXCEPT ![c] = IF full THEN "full" ELSE "open"]
  /\ at' = [at EXCEPT ![c] = IF full THEN "drain" ELSE "get"]
  /\ running' = IF full \/ queue'[c] = <<>> THEN Nobody ELSE c
  /\ woken' = woken \ {c}
  /\ behind' = IF full THEN behind \cup {c} ELSE behind
  /\ UNCHANGED <<stdin, registered, visits, first, burst>>

\* ensure_open waits for the connection to be wound up, then raises.
WriteFails(c) ==
  /\ Runs(c) /\ at[c] = "get" /\ queue[c] # <<>> /\ net[c] = "closed"
  /\ queue' = [queue EXCEPT ![c] = Tail(@)]
  /\ at' = [at EXCEPT ![c] = "closing"]
  /\ running' = Nobody /\ woken' = woken \ {c}
  /\ UNCHANGED <<stdin, registered, net, written, visits, first, history>>

\* drain() returns when the transport resumes writing, and raises when the
\* connection is lost.
Drained(c) ==
  /\ Idle /\ at[c] = "drain" /\ net[c] # "full"
  /\ at' = [at EXCEPT ![c] = IF net[c] = "open" THEN "get" ELSE "closing"]
  /\ UNCHANGED <<stdin, loop, registered, queue, net, written, visits, first, history>>

Unregister(c) ==
  /\ Idle /\ at[c] = "closing"
  /\ at' = [at EXCEPT ![c] = "away"] /\ registered' = registered \ {c}
  /\ queue' = [queue EXCEPT ![c] = <<>>] /\ woken' = woken \ {c}
  /\ UNCHANGED <<stdin, running, net, written, visits, first, history>>

-----------------------------------------------------------------------------
(* The peer and its connection *)

Resume(c) ==
  /\ Idle /\ net[c] = "full" /\ net' = [net EXCEPT ![c] = "open"]
  /\ UNCHANGED <<stdin, loop, registered, queue, at, written, visits, first, history>>

\* The peer leaves, or does not answer the library's pings in time.
Close(c) ==
  /\ Idle /\ at[c] # "away" /\ net[c] # "closed" /\ net' = [net EXCEPT ![c] = "closed"]
  /\ UNCHANGED <<stdin, loop, registered, queue, at, written, visits, first, history>>

ReaderTask == ReadLine \/ ReadNothing
ClientTask(c) == (\E full \in BOOLEAN : Write(c, full)) \/ WriteFails(c)
                 \/ Drained(c) \/ Unregister(c)
Peer(c) == Connect(c) \/ Resume(c) \/ Close(c)

Next == Come \/ Eof \/ ReaderTask \/ ReadTooLong
        \/ \E c \in Client : ClientTask(c) \/ Peer(c)

Spec == Init /\ [][Next]_vars

-----------------------------------------------------------------------------
(* Properties *)

Stream(c) == written[c] \o queue[c]

\* Each line is later than all before it, and none follows a blank.
Rising(s) == \A m, n \in DOMAIN s : m < n /\ s[n] # Blank => Blank < s[m] /\ s[m] < s[n]

\* In the order of the feed, none twice, and up to the newest line.
ToNewest(c) ==
  /\ Rising(Stream(c))
  /\ ~eof /\ first[c] <= read => Stream(c) # <<>> /\ Stream(c)[Len(Stream(c))] = read

\* A client that is connected has, written or queued, lines in the order of the
\* feed up to the newest: an overflow costs it the oldest ones, and the others
\* nothing.  Whose transport was never full, while no burst was longer than the
\* queue, gets each line since it came (websocket.py:58-77).
StreamsKept ==
  \A c \in Client :
    /\ at[c] \in {"get", "drain"} => ToNewest(c)
    /\ c \in registered \ behind /\ net[c] = "open" =>
         Stream(c) = [j \in 1..(read + 1 - first[c]) |-> first[c] + j - 1]
=============================================================================
