----------------------------- MODULE CrawlRules -----------------------------
(***************************************************************************)
(* Which URLs a crawl leaves out.  In the wpull process the listener thread *)
(* installs new settings, with their ignore patterns; the main thread asks  *)
(* of every URL whether a pattern matches it (pipeline/archivebot/wpull,    *)
(* pipeline/archive_bot_plugin.py).  The patterns may name the URL a page   *)
(* came from, so they are compiled again when that changes.                 *)
(*                                                                         *)
(* A step is one access to what the two threads share, or one round of the  *)
(* loop that compiles.                                                      *)
(***************************************************************************)
EXTENDS Naturals, Sequences

CONSTANTS
  Url,         \* URLs the crawl meets
  Crawlable,   \* those with a scheme, a host and a path that wpull can fetch
  PrimaryOf,   \* PrimaryOf[u]: the URL u was found on, or u at level 0
  Pattern,
  Valid,       \* the patterns that re.compile accepts
  Matching,    \* <<p, primary, u>>: p, expanded for primary, matches u
  Lists,       \* lists of patterns that the listener gets from Redis
  MaxUpdates,  \* bound: settings installed
  None         \* no primary URL, no regular expression, no owner of a lock

ASSUME RulesAssumption ==
  /\ Crawlable \subseteq Url /\ Valid \subseteq Pattern
  /\ Lists \subseteq Seq(Pattern) /\ MaxUpdates \in Nat
  /\ None \notin Pattern \cup {"listener", "main"} /\ \A u \in Url : PrimaryOf[u] # None

VARIABLES
  settings,      \* Settings: delay_min and delay_max, by the update they came with
  settingsLock, ignoreLock,   \* the thread in `with ...lock'
  patterns,      \* the Ignoracle's
  primary,       \*   _primary
  compiled,      \*   _compiled: patterns with their regular expressions
  listener,      \* the listener in update_settings
  main,          \* the main thread in a hook
  accepted,      \* URLs that accept_url let pass
  installed,     \* history: the patterns in force
  during         \* history: those in force at some time of the present call

ignoracle == <<patterns, primary, compiled>>
history == <<installed, during>>
vars == <<settings, settingsLock, ignoreLock, ignoracle, listener, main, accepted, history>>

Primary == {PrimaryOf[u] : u \in Url}

\* _compiled holds a pattern, and the pattern and primary its expression is of.
Compiled == [pattern : Pattern, regex : Pattern, primary : Primary]

Pair == [min : 0..MaxUpdates, max : 0..MaxUpdates]

ListenerState == [pc : {"wait", "min", "max", "patterns", "primary"},
                  got : Lists \cup {<<>>}, updates : 0..MaxUpdates]

MainState ==
  [pc : {"idle", "check", "lock", "compile", "search", "return"},
   hook : {"accept_url", "handle_result"}, url : Url,
   rest : Seq(Pattern),               \* of `for pattern in self.patterns'
   regex : Pattern \cup {None},       \* the local compiledPattern, or unbound
   verdict : Pattern \cup {"none", "raised"},
   delay : Pair]

Init ==
  /\ settings = [min |-> 0, max |-> 0]
  /\ settingsLock = None /\ ignoreLock = None
  /\ patterns = <<>> /\ primary = None /\ compiled = <<>>
  /\ listener = [pc |-> "wait", got |-> <<>>, updates |-> 0]
  /\ \E u \in Url :
       main = [pc |-> "idle", hook |-> "accept_url", url |-> u, rest |-> <<>>,
               regex |-> None, verdict |-> "none", delay |-> [min |-> 0, max |-> 0]]
  /\ accepted = {}
  /\ installed = <<>> /\ during = {}

-----------------------------------------------------------------------------
(* The listener thread: update_settings *)

listenerOnly == <<compiled, main, accepted>>

EnterUpdate ==
  /\ listener.pc = "wait" /\ listener.updates < MaxUpdates
  /\ settingsLock = None /\ settingsLock' = "listener"
  /\ \E list \in Lists :
       listener' = [pc |-> "min", got |-> list, updates |-> listener.updates + 1]
  /\ UNCHANGED <<settings, ignoreLock, patterns, primary, history, listenerOnly>>

UpdateMin ==
  /\ listener.pc = "min" /\ listener' = [listener EXCEPT !.pc = "max"]
  /\ settings' = [settings EXCEPT !.min = listener.updates]
  /\ UNCHANGED <<settingsLock, ignoreLock, patterns, primary, history, listenerOnly>>

UpdateMax ==
  /\ listener.pc = "max" /\ listener' = [listener EXCEPT !.pc = "patterns"]
  /\ settings' = [settings EXCEPT !.max = listener.updates]
  /\ UNCHANGED <<settingsLock, ignoreLock, patterns, primary, history, listenerOnly>>

SetPatternsUnlocked ==   \* mutant of SetPatterns
  /\ listener.pc = "patterns" /\ listener' = [listener EXCEPT !.pc = "primary"]
  /\ patterns' = listener.got
  /\ UNCHANGED <<settings, settingsLock, ignoreLock, primary, history, listenerOnly>>

\* set_patterns, under its lock
SetPatterns ==
  /\ listener.pc = "patterns" /\ listener' = [listener EXCEPT !.pc = "primary"]
  /\ ignoreLock = None /\ ignoreLock' = "listener"
  /\ patterns' = listener.got
  /\ UNCHANGED <<settings, settingsLock, primary, history, listenerOnly>>

\* which makes the main thread compile; both locks are left.
ClearPrimary ==
  /\ listener.pc = "primary" /\ listener' = [listener EXCEPT !.pc = "wait"]
  /\ primary' = None
  /\ ignoreLock' = (IF ignoreLock = "listener" THEN None ELSE ignoreLock)
  /\ settingsLock' = None
  /\ installed' = listener.got
  /\ during' = IF main.pc = "idle" THEN during ELSE during \cup {listener.got}
  /\ UNCHANGED <<settings, patterns, listenerOnly>>

-----------------------------------------------------------------------------
(* The main thread: hooks of the plugin, and Ignoracle.ignores             *)

mainOnly == <<settings, settingsLock, patterns, listener, installed>>

Asks(hook, u) ==
  /\ main.pc = "idle"
  /\ main' = [main EXCEPT !.pc = "check", !.hook = hook, !.url = u, !.verdict = "none"]
  /\ during' = {installed}
  /\ UNCHANGED <<ignoreLock, primary, compiled, accepted, mainOnly>>

\* URLs that wpull could not fetch are refused without a look at the patterns.
AcceptUrl(u) == u \in Crawlable /\ Asks("accept_url", u)

\* handle_response and handle_error, for a URL that was fetched
HandleResult(u) == u \in accepted /\ Asks("handle_result", u)

Key == PrimaryOf[main.url]

\* Without the lock.
CheckPrimary ==
  /\ main.pc = "check"
  /\ main' = [main EXCEPT !.pc = IF primary = Key THEN "search" ELSE "lock"]
  /\ UNCHANGED <<ignoreLock, primary, compiled, accepted, during, mainOnly>>

BeginCompiling ==
  /\ main.pc = "lock"
  /\ ignoreLock = None /\ ignoreLock' = "main"
  /\ compiled' = <<>>
  /\ main' = [main EXCEPT !.pc = "compile", !.rest = patterns, !.regex = None]
  /\ UNCHANGED <<primary, accepted, during, mainOnly>>

Add(p, r) ==
  /\ compiled' = Append(compiled, [pattern |-> p, regex |-> r, primary |-> Key])
  /\ main' = [main EXCEPT !.rest = Tail(@), !.regex = r]
  /\ UNCHANGED <<ignoreLock, primary, accepted, during, mainOnly>>

Compiling == main.pc = "compile" /\ main.rest # <<>>

CompileValid == Compiling /\ Head(main.rest) \in Valid /\ Add(Head(main.rest), Head(main.rest))

\* re.error is reported, and the variable still holds the last expression.
CompileInvalid ==
  /\ Compiling /\ Head(main.rest) \notin Valid /\ main.regex # None
  /\ Add(Head(main.rest), main.regex)

\* With none before it, it is an UnboundLocalError.
CompileRaises ==
  /\ Compiling /\ Head(main.rest) \notin Valid /\ main.regex = None
  /\ ignoreLock' = None
  /\ main' = [main EXCEPT !.pc = "return", !.rest = <<>>, !.verdict = "raised"]
  /\ UNCHANGED <<primary, compiled, accepted, during, mainOnly>>

EndCompiling ==
  /\ main.pc = "compile" /\ main.rest = <<>>
  /\ primary' = Key
  /\ ignoreLock' = None
  /\ main' = [main EXCEPT !.pc = "search", !.regex = None]
  /\ UNCHANGED <<compiled, accepted, during, mainOnly>>

Matches(e) == <<e.regex, e.primary, main.url>> \in Matching

\* The first of the places in a list that are hit has the verdict p.
First(p, list, hits) ==
  \/ hits = {} /\ p = "none"
  \/ \E n \in hits : p = list[n] /\ \A k \in hits : n <= k

FirstMatch(p) ==
  First(p, [n \in DOMAIN compiled |-> compiled[n].pattern],
        {n \in DOMAIN compiled : Matches(compiled[n])})

Search ==
  /\ main.pc = "search"
  /\ \E p \in Pattern \cup {"none"} :
       FirstMatch(p) /\ main' = [main EXCEPT !.pc = "return", !.verdict = p]
  /\ UNCHANGED <<ignoreLock, primary, compiled, accepted, during, mainOnly>>

\* A URL that a pattern matches is refused, or its result not looked at; what
\* wpull does when a hook raises is not modelled.
Return ==
  /\ main.pc = "return"
  /\ main' = [main EXCEPT !.pc = "idle"]
  /\ accepted' = IF main.hook = "accept_url" /\ main.verdict = "none"
                 THEN accepted \cup {main.url} ELSE accepted \ {main.url}
  /\ during' = {}
  /\ UNCHANGED <<ignoreLock, primary, compiled, mainOnly>>

WaitUnlocked ==   \* mutant of WaitTime
  /\ main.pc = "idle"
  /\ main' = [main EXCEPT !.delay = settings]
  /\ UNCHANGED <<ignoreLock, primary, compiled, accepted, during, mainOnly>>

\* wait_time: delay_time_range, under the settings' lock
WaitTime ==
  /\ main.pc = "idle" /\ settingsLock = None
  /\ main' = [main EXCEPT !.delay = settings]
  /\ UNCHANGED <<ignoreLock, primary, compiled, accepted, during, mainOnly>>

-----------------------------------------------------------------------------
ListenerStep == EnterUpdate \/ UpdateMin \/ UpdateMax \/ SetPatterns \/ ClearPrimary

Ignores ==
  \/ CheckPrimary \/ BeginCompiling \/ CompileValid \/ CompileInvalid \/ CompileRaises
  \/ EndCompiling \/ Search \/ Return

Next ==
  \/ ListenerStep \/ Ignores \/ WaitTime
  \/ \E u \in Url : AcceptUrl(u) \/ HandleResult(u)

Spec == Init /\ [][Next]_vars

-----------------------------------------------------------------------------
Thread == {"listener", "main"}

TypeOK ==
  /\ settings \in Pair
  /\ settingsLock \in Thread \cup {None} /\ ignoreLock \in Thread \cup {None}
  /\ patterns \in Seq(Pattern) /\ primary \in Primary \cup {None}
  /\ compiled \in Seq(Compiled)
  /\ listener \in ListenerState /\ main \in MainState
  /\ accepted \subseteq Url
  /\ installed \in Seq(Pattern) /\ during \subseteq Seq(Pattern)

\* The verdict is the first valid pattern of a list that matches the call's URL.
Answers(list) ==
  First(main.verdict, list,
        {n \in DOMAIN list : list[n] \in Valid /\ <<list[n], Key, main.url>> \in Matching})

\* The answer of a call is that of a list of patterns which was in force while
\* the call ran, expanded for this URL's own primary URL: whatever the listener
\* does meanwhile, although _primary is read and _compiled is searched without
\* the lock, and also after a call that raised (ignoracle.py:82-119).
VerdictIsCurrent ==
  main.pc = "return" /\ main.verdict # "raised" =>
    \E list \in during : Answers(list)

\* The two ends of the waiting time come from one update of the settings
\* (settings.py:32-34, 65-66).
DelayIsWhole == main.delay.min = main.delay.max
=============================================================================
