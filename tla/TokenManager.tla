--------------------------- MODULE TokenManager ----------------------------
(***************************************************************************)
(* zabbix.TokenManager and TokenInfo: the login session behind every       *)
(* request.                                                                *)
(*                                                                         *)
(* Start logs in and leaves a goroutine that looks at the token every      *)
(* Interval and renews it, with up to Attempts logins, once it is within   *)
(* Advance of the lifetime the client assumes.  StopContext may run at any *)
(* moment, in the middle of the first login too.  A configured API key is  *)
(* used as it is and never renewed.                                        *)
(*                                                                         *)
(* The unit of time is longer than one round of attempts with its          *)
(* timeouts and backoffs, so that a round sees the clock advance at most   *)
(* once.                                                                   *)
(*                                                                         *)
(* The names of the specification begin with TM, so that a module can      *)
(* extend this one together with another component.                        *)
(***************************************************************************)
EXTENDS Naturals

CONSTANTS
  Lifetime,    \* how long a session lives in Zabbix
  Assumed,     \* how long the client takes it to live
  Advance,     \* refreshAdvance
  Interval,    \* refreshInterval
  Attempts,    \* logins in one round of refreshWithRetry
  MaxOutage    \* bound: how long logins may go on failing

ASSUME TokenAssumption ==
  /\ {Lifetime, Assumed, Advance, Interval, Attempts} \subseteq Nat \ {0}
  /\ MaxOutage \in Nat
  /\ Advance < Assumed /\ Assumed < Lifetime

VARIABLES
  usesAPIKey,  \* the client was given an API key
  pc,          \* where Start and then the goroutine is
  isRunning,   \* TokenManager.isRunning
  ended,       \* the context of the run has ended
  closed,      \* how often the done channel has been closed
  caller,      \* the caller of StopContext
  ticker,      \* time to the next tick of the loop
  due,         \* the tick in the ticker's channel
  attempt,     \* logins made in this round
  asked,       \* time spent in this round
  held,        \* the client has a token
  localAge,    \* time since TokenInfo.Set
  sessionAge,  \* the age of that session in Zabbix
  revoked,     \* history: Zabbix has ended a session early
  trouble      \* time since logins began to fail; 0: they do not

round == <<attempt, asked>>
session == <<held, localAge, sessionAge, revoked>>
tmVars == <<usesAPIKey, pc, isRunning, ended, closed, caller, ticker, due, round,
          session, trouble>>

Over == Lifetime + 1
Capped(n, bound) == IF n < bound THEN n ELSE bound

TMInit ==
  /\ usesAPIKey \in BOOLEAN
  /\ pc = "new" /\ isRunning = FALSE /\ ended = FALSE /\ closed = 0
  /\ caller = "no"
  /\ ticker = Interval /\ due = FALSE
  /\ attempt = 0 /\ asked = 0
  /\ held = usesAPIKey /\ localAge = 0 /\ sessionAge = IF usesAPIKey THEN 0 ELSE Over
  /\ revoked = FALSE
  /\ trouble = 0

(***************************************************************************)
(* Time, Zabbix, and the context of run.                                   *)
(***************************************************************************)

\* The goroutine is prompt, and a round is over before the second tick.  An API key
\* does not expire, and its goroutine has no ticker.
TMTick ==
  /\ pc \notin {"loggedIn", "leaving"} /\ ~(pc = "loop" /\ due)
  /\ pc \in {"login", "asking", "backoff"} => asked = 0
  /\ asked' = IF pc \in {"login", "asking", "backoff"} THEN asked + 1 ELSE 0
  /\ IF ~usesAPIKey /\ pc \in {"loop", "asking", "backoff"}
     THEN /\ ticker' = IF ticker = 1 THEN Interval ELSE ticker - 1
          /\ due' = (due \/ ticker = 1)
     ELSE UNCHANGED <<ticker, due>>
  /\ localAge' = Capped(localAge + 1, Assumed + 1)
  /\ sessionAge' = IF usesAPIKey THEN sessionAge ELSE Capped(sessionAge + 1, Over)
  /\ trouble' = IF trouble = 0 THEN 0 ELSE Capped(trouble + 1, MaxOutage + 2)
  /\ UNCHANGED <<usesAPIKey, pc, isRunning, ended, closed, caller, attempt, held,
                 revoked>>

\* The session is ended or the key revoked in Zabbix.
Revoke ==
  /\ held /\ sessionAge # Over
  /\ sessionAge' = Over
  /\ revoked' = TRUE
  /\ UNCHANGED <<usesAPIKey, pc, isRunning, ended, closed, caller, ticker, due,
                 round, held, localAge, trouble>>

\* A signal ends the context Start was given.
CancelParent ==
  /\ ~ended /\ pc # "new"
  /\ ended' = TRUE
  /\ UNCHANGED <<usesAPIKey, pc, isRunning, closed, caller, ticker, due, round,
                 session, trouble>>

\* TokenInfo.Set: the session is as old as the answer was slow.
Set ==
  /\ held' = TRUE /\ localAge' = 0
  /\ sessionAge' \in 0..asked
  /\ trouble' = 0
  /\ UNCHANGED revoked

\* A login fails: because its context ended, or while logins are in trouble.
LoginMayFail == ended \/ trouble <= MaxOutage
LoginFailed == trouble' = IF ended \/ trouble > 0 THEN trouble ELSE 1

(***************************************************************************)
(* Start.                                                                  *)
(***************************************************************************)

BeginStart ==
  /\ pc = "new" /\ caller = "no"
  /\ isRunning' = TRUE
  /\ pc' = "login"
  /\ asked' = 0
  /\ UNCHANGED <<usesAPIKey, ended, closed, caller, ticker, due, attempt, session,
                 trouble>>

StartLogsIn ==
  /\ pc = "login"
  /\ IF usesAPIKey THEN UNCHANGED <<session, trouble>> ELSE Set
  /\ pc' = "loggedIn"
  /\ UNCHANGED <<usesAPIKey, isRunning, ended, closed, caller, ticker, due, round>>

\* Start gives up, after a failed login or because the context ended during it.
AbandonStart ==
  /\ isRunning' = FALSE
  /\ pc' = "leaving"
  /\ UNCHANGED <<usesAPIKey, ended, closed, caller, ticker, due, round, session>>

StartFails ==
  /\ pc = "login" /\ ~usesAPIKey /\ LoginMayFail
  /\ LoginFailed
  /\ AbandonStart

StartEnded ==
  /\ pc = "loggedIn" /\ ended
  /\ AbandonStart
  /\ UNCHANGED trouble

\* The lock is given up before done is closed.
CloseDone ==
  /\ pc = "leaving"
  /\ pc' = "gone"
  /\ closed' = closed + 1
  /\ UNCHANGED <<usesAPIKey, isRunning, ended, caller, ticker, due, round, session,
                 trouble>>

\* runCtx.Err() was nil: the goroutine starts, whatever happened since.
StartLoop ==
  /\ pc = "loggedIn" /\ ~ended
  /\ pc' = "loop"
  /\ ticker' = Interval /\ due' = FALSE
  /\ UNCHANGED <<usesAPIKey, isRunning, ended, closed, caller, round, session,
                 trouble>>

(***************************************************************************)
(* The goroutine.                                                          *)
(***************************************************************************)

\* Mutant: the token is renewed only when the client takes it to have expired.
ShouldRefresh_Late == localAge > Assumed

ShouldRefresh == localAge + Advance > Assumed

\* The select may prefer the tick to a context that has ended.
LoopTicks ==
  /\ pc = "loop" /\ due
  /\ due' = FALSE
  /\ attempt' = 1 /\ asked' = 0
  /\ pc' = IF ShouldRefresh THEN "asking" ELSE "loop"
  /\ UNCHANGED <<usesAPIKey, isRunning, ended, closed, caller, ticker, session,
                 trouble>>

LoopEnds ==
  /\ pc = "loop" /\ ended
  /\ pc' = "gone"
  /\ closed' = closed + 1
  /\ UNCHANGED <<usesAPIKey, isRunning, ended, caller, ticker, due, round, session,
                 trouble>>

Renewed ==
  /\ pc = "asking"
  /\ Set
  /\ pc' = "loop"
  /\ UNCHANGED <<usesAPIKey, isRunning, ended, closed, caller, ticker, due, round>>

NotRenewed ==
  /\ pc = "asking" /\ LoginMayFail
  /\ LoginFailed
  /\ pc' = "backoff"
  /\ UNCHANGED <<usesAPIKey, isRunning, ended, closed, caller, ticker, due, round,
                 session>>

\* Mutant: after the last attempt the goroutine ends.
AfterLastAttempt_Gone == "gone"

AfterLastAttempt == "loop"

\* waitTokenRetry: the timer, or the context.
Retry ==
  /\ pc = "backoff"
  /\ \/ /\ attempt < Attempts
        /\ attempt' = attempt + 1 /\ pc' = "asking"
     \/ /\ attempt = Attempts
        /\ pc' = AfterLastAttempt /\ UNCHANGED attempt
     \/ /\ ended
        /\ pc' = "loop" /\ UNCHANGED attempt
  /\ UNCHANGED <<usesAPIKey, isRunning, ended, closed, caller, ticker, due, asked,
                 session, trouble>>

(***************************************************************************)
(* StopContext.                                                            *)
(***************************************************************************)

MustCancel == isRunning

\* Mutant: a manager that is not running is taken to have stopped.
NeverStarted_Stopped == ~isRunning

\* There is no done channel to wait for.
NeverStarted == pc = "new"

CallStop ==
  /\ caller = "no"
  /\ caller' = IF NeverStarted THEN "stopped" ELSE "waiting"
  /\ isRunning' = FALSE
  /\ ended' = (ended \/ MustCancel)
  /\ UNCHANGED <<usesAPIKey, pc, closed, ticker, due, round, session, trouble>>

StopReturns ==
  /\ caller = "waiting" /\ closed > 0
  /\ caller' = "stopped"
  /\ UNCHANGED <<usesAPIKey, pc, isRunning, ended, closed, ticker, due, round,
                 session, trouble>>

StopTimesOut ==
  /\ caller = "waiting"
  /\ caller' = "late"
  /\ UNCHANGED <<usesAPIKey, pc, isRunning, ended, closed, ticker, due, round,
                 session, trouble>>

ManagerStep ==
  \/ StartLogsIn \/ StartFails \/ StartEnded \/ CloseDone \/ StartLoop
  \/ LoopTicks \/ LoopEnds \/ Renewed \/ NotRenewed \/ Retry

TMNext ==
  \/ TMTick \/ Revoke \/ CancelParent
  \/ BeginStart \/ ManagerStep
  \/ CallStop \/ StopReturns \/ StopTimesOut

\* Time passes, requests end within their timeouts and goroutines run; nothing
\* obliges a caller's deadline to expire.
TMFairness ==
  /\ WF_tmVars(TMTick) /\ WF_tmVars(ManagerStep) /\ WF_tmVars(StopReturns)
  /\ SF_tmVars(LoopEnds)

TMSpec == TMInit /\ [][TMNext]_tmVars /\ TMFairness

(***************************************************************************)
(* Properties.                                                             *)
(***************************************************************************)

\* Types; the done channel is closed at most once (a second close panics), and
\* exactly when neither Start nor the goroutine runs any more.
TMTypeOK ==
  /\ usesAPIKey \in BOOLEAN /\ isRunning \in BOOLEAN /\ ended \in BOOLEAN
  /\ pc \in {"new", "login", "loggedIn", "leaving", "loop", "asking", "backoff",
             "gone"}
  /\ closed = IF pc = "gone" THEN 1 ELSE 0
  /\ caller \in {"no", "waiting", "stopped", "late"}
  /\ ticker \in 1..Interval /\ due \in BOOLEAN
  /\ attempt \in 0..Attempts /\ asked \in 0..1
  /\ held \in BOOLEAN /\ localAge \in 0..(Assumed + 1) /\ sessionAge \in 0..Over
  /\ revoked \in BOOLEAN
  /\ trouble \in 0..(MaxOutage + 2)

Serving == pc \in {"loop", "asking", "backoff"} /\ ~ended
Valid == held /\ sessionAge <= Lifetime

\* The session is renewed before it expires in Zabbix, however the checks fall
\* between the assumed and the real lifetime, and even when logins fail for
\* MaxOutage (token.go:28: 7 of 8 hours).  Only a session that Zabbix ended early
\* is used in vain, until Recovers replaces it.
AlwaysValid == Serving /\ ~revoked => Valid

\* A stop that reports success leaves nothing running (token.go:130), also when
\* it came in the middle of the first login.
StopHonest == caller = "stopped" => pc \in {"new", "gone"}

\* A session that Zabbix ended early, or that expired during a long outage, is
\* replaced at the latest when the client takes it to expire: the loop never
\* gives up.
Recovers == Serving /\ ~usesAPIKey ~> Valid \/ ended
=============================================================================
