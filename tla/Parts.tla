-------------------------------- MODULE Parts --------------------------------
(***************************************************************************)
(* Five parts of the system that share no state, side by side: a behaviour  *)
(* has the steps of one of them, `part', while the others rest.             *)
(***************************************************************************)
EXTENDS CrawlRules, FiniteSets

CONSTANTS
  Client, MaxQueue, MaxBuffer, MaxLines, MaxVisits, Reader, Nobody,       \* DashboardFeed
  TweetJob, Tries, MaxMail, MaxFaults, MaxRemovals, Nothing,              \* Tweets
  Ident, Threshold, MaxBeats, MaxTimer, MaxLives, MaxCrashes,             \* HeartbeatWatch
  PendingJob, Tool, MaxRuns                                               \* PendingReversal

\* asyncio takes a maxsize of 0 for no limit, and the code has 1000.
ASSUME FeedAssumption ==
  /\ MaxQueue \in Nat \ {0} /\ Reader # Nobody /\ Client \cap {Reader, Nobody} = {}

\* The bound on timers leaves room for the threshold, or there is no warning.
ASSUME WatchAssumption ==
  /\ IsFiniteSet(Ident) /\ None \notin Nat
  /\ Threshold \in Nat /\ MaxTimer \in Nat /\ Threshold < MaxTimer

VARIABLE part

VARIABLES came, read, eof, ended, running, woken, registered, queue, at, net,
          written, visits, first, burst, behind

Feed == INSTANCE DashboardFeed

VARIABLES inProgress, mailbox, tweets, done, processing, at_sleep, message, left,
          timeline, faults, removals, spoilt, removed

Tweeter == INSTANCE Tweets WITH Job <- TweetJob, queue <- tweets, pc <- at_sleep

VARIABLES key, ttl, working, beats, pc, todo, old, new, lives, crashes, warned, quiet,
          calm, recreated

Reaper == INSTANCE HeartbeatWatch

VARIABLES pending, worked, queued, over, tool, all, dirty, moved, runs, slipped

Turning == INSTANCE PendingReversal WITH Job <- PendingJob, working <- worked, pc <- tool

feedVars ==
  <<came, read, eof, ended, running, woken, registered, queue, at, net,
    written, visits, first, burst, behind>>
tweetVars ==
  <<inProgress, mailbox, tweets, done, processing, at_sleep, message, left,
    timeline, faults, removals, spoilt, removed>>
reaperVars ==
  <<key, ttl, working, beats, pc, todo, old, new, lives, crashes, warned,
    quiet, calm, recreated>>
turningVars ==
  <<pending, worked, queued, over, tool, all, dirty, moved, runs, slipped>>
partsVars == <<part, vars, feedVars, tweetVars, reaperVars, turningVars>>

PartsInit ==
  /\ part \in {"rules", "feed", "tweets", "reaper", "turning"}
  /\ Init /\ Feed!Init /\ Tweeter!Init /\ Reaper!Init /\ Turning!Init
  /\ part # "rules" => main.url = CHOOSE u \in Url : TRUE

PartsNext ==
  \/ /\ part = "rules" /\ Next
     /\ UNCHANGED <<part, feedVars, tweetVars, reaperVars, turningVars>>
  \/ /\ part = "feed" /\ Feed!Next
     /\ UNCHANGED <<part, vars, tweetVars, reaperVars, turningVars>>
  \/ /\ part = "tweets" /\ Tweeter!Next
     /\ UNCHANGED <<part, vars, feedVars, reaperVars, turningVars>>
  \/ /\ part = "reaper" /\ Reaper!Next
     /\ UNCHANGED <<part, vars, feedVars, tweetVars, turningVars>>
  \/ /\ part = "turning" /\ Turning!Next
     /\ UNCHANGED <<part, vars, feedVars, tweetVars, reaperVars>>
  \/ \* The bounds of the others may leave nothing to do.
     part # "rules" /\ UNCHANGED partsVars

PartsSpec == PartsInit /\ [][PartsNext]_partsVars

-----------------------------------------------------------------------------
\* websocket.py:58-77: lines reach each client in order and up to the newest.
StreamsKept == Feed!StreamsKept

\* twitter_tweeter.rb:85-106: a message is tweeted once, whatever comes in meanwhile.
TweetedOnce == Tweeter!TweetedOnce

\* reaper.rb:52-79: warnings are true, and no deleted key comes back.
ReaperIsSound == Reaper!ReaperIsSound

\* reverse-pending: a job is in the queue once, or is worked on, or is over.
EachOnce == Turning!EachOnce
=============================================================================
