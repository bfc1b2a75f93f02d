------------------------------ MODULE JobBoard ------------------------------
(***************************************************************************)
(* What the job machinery promises, without queues, pipelines or timers:   *)
(* a URL has at most one archive request at a time, which goes through     *)
(* accepted, waiting and taken to exactly one outcome; only then may it be *)
(* forgotten, and only a forgotten URL can be requested again.             *)
(***************************************************************************)
EXTENDS Naturals

CONSTANT Ident

VARIABLES status, tally

Outcome == {"completed", "aborted", "failed"}

BoardInit ==
  /\ status = [i \in Ident |-> "unknown"]
  /\ tally = [o \in Outcome |-> 0]

Move(i, from, to) ==
  /\ status[i] = from
  /\ status' = [status EXCEPT ![i] = to]

Accept(i) == Move(i, "unknown", "accepted") /\ UNCHANGED tally
Post(i)   == Move(i, "accepted", "waiting") /\ UNCHANGED tally
Take(i)   == Move(i, "waiting", "taken") /\ UNCHANGED tally
End(i, o) == Move(i, "taken", "ended") /\ tally' = [tally EXCEPT ![o] = @ + 1]
Forget(i) == Move(i, "ended", "unknown") /\ UNCHANGED tally

BoardNext ==
  \E i \in Ident :
    Accept(i) \/ Post(i) \/ Take(i) \/ (\E o \in Outcome : End(i, o)) \/ Forget(i)

BoardSpec == BoardInit /\ [][BoardNext]_<<status, tally>>

=============================================================================
