------------------------------- MODULE Tweets -------------------------------
(***************************************************************************)
(* The tweeter of the cogs (cogs/twitter_tweeter.rb) and the Broadcaster    *)
(* that feeds it (cogs/start.rb).  The tweeter is a Celluloid actor: one    *)
(* task runs at a time, and others get in where it sleeps: between two      *)
(* attempts and after a tweet.  An exception ends the actor with its tasks  *)
(* and its mailbox; its supervisor starts a new one.                        *)
(*                                                                         *)
(* A message is the job it is about ("Archiving URL").  A step is what a    *)
(* task does up to its next sleep, or to a call that Twitter answers.       *)
(***************************************************************************)
EXTENDS Naturals, Sequences, SequencesExt

CONSTANTS
  Job,
  Tries,        \* tries_left of post_message
  MaxMail,      \* bound: jobs in the mailbox
  MaxFaults,    \* bound: errors that hide an accepted tweet, and crashes
  MaxRemovals,  \* bound: messages that get too old in tweets:done
  Nothing

Task == 1..2    \* process_queue: at the start, and again every 120 s

VARIABLES
  inProgress,  \* jobs whose record says started and not finished
  mailbox,     \* process(job): the job as the Broadcaster read it
  queue,       \* tweets:queue in the order of its scores
  done,        \* tweets:done
  processing,  \* @processing
  pc, message, \* per task: where it sleeps, and with which message
  left,        \* per task: tries_left
  timeline,    \* Twitter: how often a message was accepted
  faults, removals,
  spoilt,      \* history: faults that may have doubled the message
  removed      \* history: how often the message left tweets:done

redis == <<queue, done>>
tasks == <<processing, pc, message, left>>
history == <<faults, removals, spoilt, removed>>
vars == <<inProgress, mailbox, redis, tasks, timeline, history>>

TypeOK ==
  /\ inProgress \subseteq Job
  /\ mailbox \in Seq([job : Job, in_progress : BOOLEAN]) /\ Len(mailbox) <= MaxMail
  /\ queue \in Seq(Job) /\ done \subseteq Job /\ processing \in BOOLEAN
  /\ pc \in [Task -> {"none", "top", "post", "retry", "delay"}]
  /\ message \in [Task -> Job \cup {Nothing}] /\ left \in [Task -> 0..Tries]
  /\ timeline \in [Job -> Nat] /\ faults \in 0..MaxFaults /\ removals \in 0..MaxRemovals
  /\ spoilt \in [Job -> Nat] /\ removed \in [Job -> Nat]

Init ==
  /\ inProgress = {} /\ mailbox = <<>>
  /\ queue = <<>> /\ done = {} /\ processing = FALSE
  /\ pc = [t \in Task |-> "none"] /\ message = [t \in Task |-> Nothing]
  /\ left = [t \in Task |-> 0]
  /\ timeline = [j \in Job |-> 0] /\ faults = 0 /\ removals = 0
  /\ spoilt = [j \in Job |-> 0] /\ removed = [j \in Job |-> 0]

Queued(j) == j \in ToSet(queue)

\* No other task runs: all are at a sleep, or have ended.
Awake == {t \in Task : pc[t] \in {"top", "post"}}
Free == Awake = {}

-----------------------------------------------------------------------------
(* Jobs and the Broadcaster *)

\* A job is reserved, or ends, to be requested again.
JobMoves(j) ==
  /\ inProgress' = IF j \in inProgress THEN inProgress \ {j} ELSE inProgress \cup {j}
  /\ UNCHANGED <<mailbox, redis, tasks, timeline, history>>

\* A message on the log channel: the record is read, and frozen.
OnReceive(j) ==
  /\ Len(mailbox) < MaxMail
  /\ mailbox' = Append(mailbox, [job |-> j, in_progress |-> j \in inProgress])
  /\ UNCHANGED <<inProgress, redis, tasks, timeline, history>>

-----------------------------------------------------------------------------
(* TwitterTweeter *)

Wanted(j) == ~Queued(j) /\ j \notin done

Process ==
  /\ Free /\ mailbox # <<>> /\ mailbox' = Tail(mailbox)
  /\ LET m == Head(mailbox) IN
     queue' = IF m.in_progress /\ Wanted(m.job) THEN Append(queue, m.job) ELSE queue
  /\ UNCHANGED <<inProgress, done, tasks, timeline, history>>

\* Mutant of Begin: a second loop starts while the first sleeps.
BeginTwice(t) ==
  /\ Free /\ pc[t] = "none" /\ processing' = TRUE /\ pc' = [pc EXCEPT ![t] = "top"]
  /\ UNCHANGED <<inProgress, mailbox, redis, message, left, timeline, history>>

Begin(t) ==
  /\ Free /\ pc[t] = "none" /\ ~processing /\ processing' = TRUE
  /\ pc' = [pc EXCEPT ![t] = "top"]
  /\ UNCHANGED <<inProgress, mailbox, redis, message, left, timeline, history>>

End(t) ==
  /\ pc[t] = "top" /\ queue = <<>>
  /\ processing' = FALSE /\ pc' = [pc EXCEPT ![t] = "none"]
  /\ UNCHANGED <<inProgress, mailbox, redis, message, left, timeline, history>>

Pick(t) ==
  /\ pc[t] = "top" /\ queue # <<>>
  /\ IF Head(queue) \in done
     THEN /\ queue' = Tail(queue) /\ UNCHANGED <<pc, message, left>>
     ELSE /\ message' = [message EXCEPT ![t] = Head(queue)]
          /\ pc' = [pc EXCEPT ![t] = "post"] /\ left' = [left EXCEPT ![t] = Tries]
          /\ UNCHANGED queue
  /\ UNCHANGED <<inProgress, mailbox, done, processing, timeline, history>>

Accept(t) == timeline' = [timeline EXCEPT ![message[t]] = @ + 1]

ToDone(t) ==
  /\ done' = done \cup {message[t]} /\ pc' = [pc EXCEPT ![t] = "delay"]
  /\ left' = [left EXCEPT ![t] = 0]
  /\ UNCHANGED <<inProgress, mailbox, queue, processing, message, removals, removed>>

TweetOk(t) ==
  /\ pc[t] = "post" /\ Accept(t) /\ ToDone(t) /\ UNCHANGED <<faults, spoilt>>

\* Twitter::Error: the tweet was refused, or accepted and the answer lost.
Fault(t, accepted) ==
  IF accepted THEN /\ faults < MaxFaults /\ faults' = faults + 1 /\ Accept(t)
                   /\ spoilt' = [spoilt EXCEPT ![message[t]] = @ + 1]
  ELSE UNCHANGED <<faults, spoilt, timeline>>

TweetFails(t, accepted) ==
  /\ pc[t] = "post" /\ left[t] > 1 /\ Fault(t, accepted)
  /\ left' = [left EXCEPT ![t] = @ - 1] /\ pc' = [pc EXCEPT ![t] = "retry"]
  /\ UNCHANGED <<inProgress, mailbox, redis, processing, message, removals, removed>>

\* After the last try the message is discarded, which is to say, done.
GiveUp(t, accepted) ==
  /\ pc[t] = "post" /\ left[t] = 1 /\ Fault(t, accepted) /\ ToDone(t)

Retry(t) ==
  /\ Free /\ pc[t] = "retry" /\ pc' = [pc EXCEPT ![t] = "post"]
  /\ UNCHANGED <<inProgress, mailbox, redis, processing, message, left, timeline, history>>

\* The sleep after a tweet ends, and the message leaves the queue.
Dequeue(t) ==
  /\ Free /\ pc[t] = "delay"
  /\ queue' = SelectSeq(queue, LAMBDA j : j # message[t])
  /\ pc' = [pc EXCEPT ![t] = "top"] /\ message' = [message EXCEPT ![t] = Nothing]
  /\ UNCHANGED <<inProgress, mailbox, done, processing, left, timeline, history>>

\* A message stays in tweets:done for 30 days, and in the queue for minutes.
RemoveOld(j) ==
  /\ Free /\ j \in done /\ ~Queued(j) /\ removals < MaxRemovals
  /\ removals' = removals + 1 /\ done' = done \ {j}
  /\ removed' = [removed EXCEPT ![j] = @ + 1]
  /\ UNCHANGED <<inProgress, mailbox, queue, tasks, timeline, faults, spoilt>>

\* An error of Redis, or of Twitter that is none of its own: the actor starts
\* anew.  The tweet of a task at "post" may have been accepted.
Crash(accepted) ==
  /\ faults < MaxFaults /\ faults' = faults + 1
  /\ LET lost == {message[t] : t \in Awake \cap {u \in Task : pc[u] = "post"}} IN
     /\ accepted => lost # {}
     /\ timeline' = [j \in Job |-> timeline[j] + (IF accepted /\ j \in lost THEN 1 ELSE 0)]
     /\ spoilt' = [j \in Job |-> spoilt[j] + (IF accepted /\ j \in lost THEN 1 ELSE 0)]
  /\ mailbox' = <<>> /\ processing' = FALSE /\ pc' = [t \in Task |-> "none"]
  /\ message' = [t \in Task |-> Nothing] /\ left' = [t \in Task |-> 0]
  /\ UNCHANGED <<inProgress, redis, removals, removed>>

Attempt(t) == \/ TweetOk(t)
              \/ \E accepted \in BOOLEAN : TweetFails(t, accepted) \/ GiveUp(t, accepted)

Loop(t) == Begin(t) \/ End(t) \/ Pick(t) \/ Attempt(t) \/ Retry(t) \/ Dequeue(t)

Next ==
  \/ \E j \in Job : JobMoves(j) \/ OnReceive(j) \/ RemoveOld(j)
  \/ Process \/ \E t \in Task : Loop(t)
  \/ \E accepted \in BOOLEAN : Crash(accepted)

Spec == Init /\ [][Next]_vars

-----------------------------------------------------------------------------
(* Properties *)

\* A message is tweeted once, and again only after a lost answer or when it has
\* left tweets:done, whatever comes in while the loop sleeps.
TweetedOnce == \A j \in Job : timeline[j] <= 1 + spoilt[j] + removed[j]
=============================================================================
