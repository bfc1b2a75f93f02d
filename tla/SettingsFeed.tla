---------------------------- MODULE SettingsFeed ----------------------------
(***************************************************************************)
(* How the settings of one job reach the crawl.  A command on IRC changes  *)
(* the job's record, then its `settings_age', then announces the new age on*)
(* the job's channel.  In the wpull process a listener thread copies the   *)
(* settings when it hears of a new age, and every 30 seconds; the main     *)
(* thread looks at the copy after each result and applies the concurrency  *)
(* and the abort request.                                                  *)
(*                                                                         *)
(* A step is one Redis command, or one use of the copy under its lock.  A  *)
(* setting is known by its version: how often it was written.              *)
(***************************************************************************)
EXTENDS Naturals, Sequences

CONSTANTS
  Handler,      \* threads of the bot
  Command,      \* Command[h]: the commands users give to thread h
  MaxCommands,  \* bound: commands given
  MaxFaults     \* bound: connection errors

Hashed  == {"delay", "concurrency", "reports", "abort"}  \* fields of the job's hash
Setting == Hashed \cup {"ignores"}                       \* and IDENT_ignores

ASSUME CommandAssumption == Command \in [Handler -> SUBSET (Setting \cup {"yahoo"})]
ASSUME BoundsAssumption == MaxCommands \in Nat /\ MaxFaults \in Nat

VARIABLES
  server,     \* the job's settings in Redis
  aborted,    \* the hash's `aborted' field
  handler,    \* handler[h]: the Redis commands to come, and the age it got
  messages,   \* what the listener's subscription holds
  listener,   \* the listener thread
  local,      \* the Settings object
  plugin,     \* the main thread of wpull
  covered,    \* history: covered[n]: the versions when age n was given out
  told,       \* history: the latest age sent to the subscription
  commands, faults

history == <<covered, told>>
counts  == <<commands, faults>>
vars == <<server, aborted, handler, messages, listener, local, plugin, history, counts>>

Versions == [Setting -> Nat]
Copy == [version : Versions, age : Nat]
NoCopy == [version |-> [k \in Setting |-> 0], age |-> 0]

IdleHandler == [todo |-> <<>>, age |-> 0]

ListenerState ==
  [pc : {"start", "subscribe", "loop", "check", "hash", "ignores", "dead", "off"},
   after : {"subscribe", "check", "loop"},   \* where update_settings returns to
   running : BOOLEAN, subscribed : BOOLEAN, copy : Copy]
NewListener == [pc |-> "start", after |-> "subscribe", running |-> TRUE,
                subscribed |-> FALSE, copy |-> NoCopy]

PluginState ==
  [pc : {"idle", "apply", "check", "abort", "mark", "join", "exit", "off", "crashed"},
   lastAge : Nat, concurrency : Nat, stop : BOOLEAN]

Init ==
  /\ server = NoCopy /\ aborted = FALSE
  /\ handler = [h \in Handler |-> IdleHandler]
  /\ messages = <<>>
  /\ listener = NewListener /\ local = NoCopy
  /\ plugin = [pc |-> "idle", lastAge |-> 0, concurrency |-> 0, stop |-> FALSE]
  /\ covered = <<>> /\ told = 0
  /\ commands = 0 /\ faults = 0

-----------------------------------------------------------------------------
(* The bot: Job#set_delay, #set_concurrency, #toggle_ignores, #abort,        *)
(* #add_ignore_pattern, #remove_ignore_pattern, #yahoo                       *)

Step == Setting \cup {"age", "publish"}

\* The Redis commands of a user's command; #yahoo makes its first two changes
\* silently.
Steps(command) ==
  IF command = "yahoo"
  THEN <<"delay", "age", "concurrency", "age", "age", "publish">>
  ELSE <<command, "age", "publish">>

HandlerAt(h, step) == handler[h].todo # <<>> /\ Head(handler[h].todo) = step
Advanced(h) == [handler EXCEPT ![h].todo = Tail(@)]

Write(k) == server' = [server EXCEPT !.version[k] = @ + 1]

\* A handler gets a command and makes its first write.
GiveCommand(h) ==
  /\ commands < MaxCommands /\ commands' = commands + 1
  /\ handler[h].todo = <<>>
  /\ \E command \in Command[h] :
       /\ Write(Head(Steps(command)))
       /\ handler' = [handler EXCEPT ![h].todo = Tail(Steps(command))]
  /\ UNCHANGED <<aborted, messages, listener, local, plugin, history, faults>>

WriteMore(h) ==
  /\ \E k \in Setting : HandlerAt(h, k) /\ Write(k)
  /\ handler' = Advanced(h)
  /\ UNCHANGED <<aborted, messages, listener, local, plugin, history, counts>>

\* job_parameters_changed: HINCRBY settings_age
RaiseAge(h) ==
  /\ HandlerAt(h, "age")
  /\ server' = [server EXCEPT !.age = @ + 1]
  /\ handler' = [Advanced(h) EXCEPT ![h].age = server'.age]
  /\ covered' = Append(covered, server.version)
  /\ UNCHANGED <<aborted, messages, listener, local, plugin, told, counts>>

Later(a, b) == IF a < b THEN b ELSE a

\* job_parameters_changed: PUBLISH, to those who are subscribed
PublishAge(h) ==
  /\ HandlerAt(h, "publish")
  /\ handler' = [handler EXCEPT ![h] = IdleHandler]
  /\ IF listener.subscribed
     THEN /\ messages' = Append(messages, handler[h].age)
          /\ told' = Later(told, handler[h].age)
     ELSE UNCHANGED <<messages, told>>
  /\ UNCHANGED <<server, aborted, listener, local, plugin, covered, counts>>

\* A command that raises ends the handler where it is.
HandlerFails(h) ==
  /\ faults < MaxFaults /\ faults' = faults + 1
  /\ handler[h].todo # <<>>
  /\ handler' = [handler EXCEPT ![h] = IdleHandler]
  /\ UNCHANGED <<server, aborted, messages, listener, local, plugin, history, commands>>

-----------------------------------------------------------------------------
(* ListenerWorkerThread *)

\* `while self.running', around everything
BeginRun ==
  /\ listener.pc = "start"
  /\ listener' = IF listener.running
                 THEN [listener EXCEPT !.pc = "hash", !.after = "subscribe"]
                 ELSE [listener EXCEPT !.pc = "off"]
  /\ UNCHANGED <<server, aborted, handler, messages, local, plugin, history, counts>>

Subscribe ==
  /\ listener.pc = "subscribe"
  /\ listener' = [listener EXCEPT !.pc = "loop", !.subscribed = TRUE]
  /\ messages' = <<>> /\ told' = 0
  /\ UNCHANGED <<server, aborted, handler, local, plugin, covered, counts>>

OutdatedIfNext(age) == age = local.age + 1   \* mutant of Outdated
Outdated(age) == local.age < age

\* process_messages
ReceiveMessage ==
  /\ listener.pc = "loop" /\ listener.running /\ messages # <<>>
  /\ messages' = Tail(messages)
  /\ listener' = IF Outdated(Head(messages))
                 THEN [listener EXCEPT !.pc = "hash", !.after = "check"]
                 ELSE [listener EXCEPT !.pc = "check"]
  /\ UNCHANGED <<server, aborted, handler, local, plugin, history, counts>>

NoMessage ==
  /\ listener.pc = "loop" /\ listener.running /\ messages = <<>> /\ listener.subscribed
  /\ listener' = [listener EXCEPT !.pc = "check"]
  /\ UNCHANGED <<server, aborted, handler, messages, local, plugin, history, counts>>

\* `while self.running', around the messages: the subscription is closed.
LeaveLoop ==
  /\ listener.pc = "loop" /\ ~listener.running
  /\ listener' = [listener EXCEPT !.pc = "off", !.subscribed = FALSE]
  /\ messages' = <<>>
  /\ UNCHANGED <<server, aborted, handler, local, plugin, history, counts>>

\* run_update_check, before and after the 30 seconds are over
TooEarly ==
  /\ listener.pc = "check"
  /\ listener' = [listener EXCEPT !.pc = "loop"]
  /\ UNCHANGED <<server, aborted, handler, messages, local, plugin, history, counts>>

RecheckIfTold ==   \* mutant of Recheck: only when a message waits
  /\ listener.pc = "check" /\ messages # <<>>
  /\ listener' = [listener EXCEPT !.pc = "hash", !.after = "loop"]
  /\ UNCHANGED <<server, aborted, handler, messages, local, plugin, history, counts>>

Recheck ==
  /\ listener.pc = "check"
  /\ listener' = [listener EXCEPT !.pc = "hash", !.after = "loop"]
  /\ UNCHANGED <<server, aborted, handler, messages, local, plugin, history, counts>>

\* Control.get_settings: HMGET, then SMEMBERS
ReadHash ==
  /\ listener.pc = "hash"
  /\ listener' = [listener EXCEPT !.pc = "ignores", !.copy = server]
  /\ UNCHANGED <<server, aborted, handler, messages, local, plugin, history, counts>>

\* The thread at another place, with nothing read.
At(pc) == [listener EXCEPT !.pc = pc, !.after = "subscribe", !.copy = NoCopy]

WithIgnores(copy) == [copy EXCEPT !.version["ignores"] = server.version["ignores"]]

InstallWithAge ==   \* mutant of Install: the age is read last
  /\ listener.pc = "ignores"
  /\ local' = [WithIgnores(listener.copy) EXCEPT !.age = server.age]
  /\ listener' = At(listener.after)
  /\ UNCHANGED <<server, aborted, handler, messages, plugin, history, counts>>

\* The SMEMBERS, and Settings.update_settings with what was read
Install ==
  /\ listener.pc = "ignores"
  /\ local' = WithIgnores(listener.copy)
  /\ listener' = At(listener.after)
  /\ UNCHANGED <<server, aborted, handler, messages, plugin, history, counts>>

\* RedisConnectionError: the subscription is given up, and taken up again later.
GiveUp ==
  /\ listener' = [At("start") EXCEPT !.subscribed = FALSE]
  /\ messages' = <<>>

ConnectionFailsEmpty ==   \* mutant of ConnectionFails: get_settings returns nothing
  /\ faults < MaxFaults /\ faults' = faults + 1
  /\ listener.pc \in {"hash", "ignores", "subscribe", "loop"}
  /\ GiveUp
  /\ local' = NoCopy
  /\ UNCHANGED <<server, aborted, handler, plugin, history, commands>>

ConnectionFails ==
  /\ faults < MaxFaults /\ faults' = faults + 1
  /\ listener.pc \in {"hash", "ignores", "subscribe", "loop"}
  /\ GiveUp
  /\ UNCHANGED <<server, aborted, handler, local, plugin, history, commands>>

\* The server drops the subscription; the listener sees it once it has read
\* what the socket holds.
SubscriptionBreaks ==
  /\ faults < MaxFaults /\ faults' = faults + 1
  /\ listener.subscribed
  /\ listener' = [listener EXCEPT !.subscribed = FALSE]
  /\ UNCHANGED <<server, aborted, handler, messages, local, plugin, history, commands>>

SeeBreak ==
  /\ listener.pc = "loop" /\ listener.running /\ messages = <<>> /\ ~listener.subscribed
  /\ GiveUp
  /\ UNCHANGED <<server, aborted, handler, local, plugin, history, counts>>

\* Another thread's error sets Control.redis to None under get_settings: an
\* AttributeError, which run does not catch.
ListenerDies ==
  /\ faults < MaxFaults /\ faults' = faults + 1
  /\ listener.pc \in {"hash", "ignores"}
  /\ listener' = [At("dead") EXCEPT !.subscribed = FALSE]
  /\ messages' = <<>>
  /\ UNCHANGED <<server, aborted, handler, local, plugin, history, commands>>

-----------------------------------------------------------------------------
(* ArchiveBotPlugin *)

Ended == listener.pc \in {"dead", "off"}

\* handle_result of a URL that is not ignored
TakeResult ==
  /\ plugin.pc = "idle"
  /\ plugin' = IF plugin.lastAge < local.age
               THEN [plugin EXCEPT !.pc = "apply", !.lastAge = local.age]
               ELSE [plugin EXCEPT !.pc = "check"]
  /\ UNCHANGED <<server, aborted, handler, messages, listener, local, history, counts>>

ApplyConcurrency ==
  /\ plugin.pc = "apply"
  /\ plugin' = [plugin EXCEPT !.pc = "check", !.concurrency = local.version["concurrency"]]
  /\ UNCHANGED <<server, aborted, handler, messages, listener, local, history, counts>>

CheckNothing ==   \* mutant of CheckListener: a dead thread stays dead
  /\ plugin.pc = "check"
  /\ plugin' = [plugin EXCEPT !.pc = "abort"]
  /\ UNCHANGED <<server, aborted, handler, messages, listener, local, history, counts>>

\* Listener.check, also after Listener.stop, which keeps its reference
CheckListener ==
  /\ plugin.pc = "check"
  /\ plugin' = [plugin EXCEPT !.pc = "abort"]
  /\ listener' = IF Ended THEN NewListener ELSE listener
  /\ UNCHANGED <<server, aborted, handler, messages, local, history, counts>>

ReadAbort ==
  /\ plugin.pc = "abort"
  /\ plugin' = [plugin EXCEPT !.pc = IF local.version["abort"] > 0 THEN "mark" ELSE "idle"]
  /\ UNCHANGED <<server, aborted, handler, messages, listener, local, history, counts>>

\* mark_aborted, then Listener.stop, whose join waits for the thread
MarkAborted ==
  /\ plugin.pc = "mark"
  /\ aborted' = TRUE
  /\ listener' = [listener EXCEPT !.running = FALSE]
  /\ plugin' = [plugin EXCEPT !.pc = "join"]
  /\ UNCHANGED <<server, handler, messages, local, history, counts>>

\* `except ConnectionError' names Python's exception: redis' passes it by.
MarkAbortFails ==
  /\ faults < MaxFaults /\ faults' = faults + 1
  /\ plugin.pc = "mark"
  /\ plugin' = [plugin EXCEPT !.pc = "crashed"]
  /\ UNCHANGED <<server, aborted, handler, messages, listener, local, history, commands>>

\* Actions.STOP; URLs in flight may still come to handle_result.
ReturnStop ==
  /\ plugin.pc = "join" /\ Ended
  /\ plugin' = [plugin EXCEPT !.pc = "idle", !.stop = TRUE]
  /\ UNCHANGED <<server, aborted, handler, messages, listener, local, history, counts>>

\* exit_status, when there are no URLs or wpull was stopped
CrawlEnds ==
  /\ plugin.pc = "idle"
  /\ listener' = [listener EXCEPT !.running = FALSE]
  /\ plugin' = [plugin EXCEPT !.pc = "exit"]
  /\ UNCHANGED <<server, aborted, handler, messages, local, history, counts>>

Exit ==
  /\ plugin.pc = "exit" /\ Ended
  /\ plugin' = [plugin EXCEPT !.pc = "off"]
  /\ UNCHANGED <<server, aborted, handler, messages, listener, local, history, counts>>

-----------------------------------------------------------------------------
HandlerStep(h) ==
  GiveCommand(h) \/ WriteMore(h) \/ RaiseAge(h) \/ PublishAge(h) \/ HandlerFails(h)

ListenerStep ==
  \/ BeginRun \/ Subscribe \/ ReceiveMessage \/ NoMessage \/ LeaveLoop \/ TooEarly
  \/ Recheck \/ ReadHash \/ Install \/ SeeBreak

ListenerFault == ConnectionFails \/ SubscriptionBreaks \/ ListenerDies

PluginStep ==
  \/ TakeResult \/ ApplyConcurrency \/ CheckListener \/ ReadAbort \/ MarkAborted
  \/ ReturnStop \/ Exit

Next ==
  \/ \E h \in Handler : HandlerStep(h)
  \/ ListenerStep \/ ListenerFault
  \/ PluginStep \/ MarkAbortFails \/ CrawlEnds

Spec == Init /\ [][Next]_vars

\* Both threads run; 30 seconds pass between some two rounds; results that are
\* not ignored keep coming while the crawl runs, and a stopped crawl ends.
FairSpec ==
  /\ Spec
  /\ WF_vars(ListenerStep) /\ SF_vars(Recheck)
  /\ WF_vars(PluginStep)
  /\ SF_vars(plugin.stop /\ CrawlEnds)

-----------------------------------------------------------------------------
TypeOK ==
  /\ server \in Copy /\ aborted \in BOOLEAN
  /\ handler \in [Handler -> [todo : Seq(Step), age : Nat]]
  /\ messages \in Seq(Nat)
  /\ listener \in ListenerState /\ local \in Copy
  /\ plugin \in PluginState
  /\ covered \in Seq(Versions) /\ told \in Nat
  /\ commands \in Nat /\ faults \in Nat

\* A copy of age n has every change made before age n was given out, although
\* get_settings reads the record with two commands.
Covers(copy, settings) ==
  \A n \in 1..copy.age : \A k \in settings : copy.version[k] >= covered[n][k]
AgeCoversChanges == Covers(local, Setting)

\* The concurrency that wpull uses is that of the age it remembers, or newer.
ConcurrencyCoversAge ==
  plugin.pc # "apply" =>
    \A n \in 1..plugin.lastAge : plugin.concurrency >= covered[n]["concurrency"]

\* A listener in its loop with no message waiting has the latest age it was told
\* of, in whatever order handlers announced their ages (process_messages).
LoopIsCurrent ==
  listener.subscribed /\ messages = <<>> /\ listener.pc \in {"loop", "check"}
    => local.age >= told

\* wpull stops on a command only when one asked for it and the record says so.
StopsOnRequest ==
  /\ plugin.stop => aborted
  /\ aborted => server.version["abort"] > 0

-----------------------------------------------------------------------------
(* The inductive invariant: what was read is between the copy and the record. *)

AgeInv ==
  /\ server.age = Len(covered)
  /\ \A n \in 1..Len(covered) : \A k \in Setting : covered[n][k] <= server.version[k]
  /\ local.age <= server.age /\ plugin.lastAge <= local.age
  /\ \A k \in Setting : local.version[k] <= server.version[k]

CopyInv ==
  listener.pc = "ignores" =>
    /\ local.age <= listener.copy.age /\ listener.copy.age <= server.age
    /\ \A k \in Hashed : /\ local.version[k] <= listener.copy.version[k]
                         /\ listener.copy.version[k] <= server.version[k]
    /\ Covers(listener.copy, Hashed)

\* An age that was told is in the copy, on its way to it, or in a message.
TellInv ==
  /\ told <= server.age /\ \A h \in Handler : handler[h].age <= server.age
  /\ listener.subscribed =>
       \/ listener.pc \in {"loop", "check"}
       \/ listener.pc \in {"hash", "ignores"} /\ listener.after # "subscribe"
  /\ listener.subscribed =>
       \/ told <= local.age
       \/ \E i \in 1..Len(messages) : messages[i] = told
       \/ listener.pc = "hash" /\ listener.after = "check"
       \/ listener.pc = "ignores" /\ told <= listener.copy.age

StopInv ==
  /\ StopsOnRequest
  /\ plugin.pc = "mark" => server.version["abort"] > 0
  /\ plugin.pc = "join" => aborted

FeedInv ==
  AgeInv /\ CopyInv /\ TellInv /\ StopInv /\ AgeCoversChanges /\ ConcurrencyCoversAge

-----------------------------------------------------------------------------
\* The copy never goes back, whatever restarts the listener.
NeverGoesBack ==
  [][local'.age >= local.age
     /\ \A k \in Setting : local'.version[k] >= local.version[k]]_vars

Over == plugin.pc \in {"exit", "off", "crashed"} \/ plugin.stop

\* Listener: `we eventually receive the latest job settings, even if we miss a
\* pubsub update', and even if the handler never announced the change.
ChangesArrive ==
  \A k \in Setting : \A n \in 1..MaxCommands :
    server.version[k] >= n ~> local.version[k] >= n \/ Over

\* An abort request ends the crawl.
AbortEndsCrawl == server.version["abort"] > 0 ~> plugin.pc \in {"off", "crashed"}

=============================================================================
