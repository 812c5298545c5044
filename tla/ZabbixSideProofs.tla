-------------------------- MODULE ZabbixSideProofs --------------------------
(* The two components that talk to Zabbix on their own clock: the token    *)
(* manager and the metadata refresher.                                     *)
(*                                                                         *)
(* The token manager, for every choice of its durations: stops are honest, *)
(* and the margin between the assumed and the real lifetime pays for an    *)
(* outage of Lifetime - (Assumed - Advance) - 2 * Interval - 2.  While     *)
(* nothing fails a session is renewed at the first check after             *)
(* Assumed - Advance, so the age at that attempt is bounded by Due.  From  *)
(* then on it grows with the outage; and once logins work again it grows   *)
(* until the attempt that is already determined: the rest of this round,   *)
(* or the next check and the round it begins.                              *)
(*                                                                         *)
(* The refresher, for every number of hosts, batch size and number of      *)
(* workers: what a worker reports about a batch was true of each of its    *)
(* hosts at some moment of the refresh and stays so, the batches are a     *)
(* partition of the hosts, so a whole set of reports is a whole snapshot;  *)
(* and a batch that has no outcome is queued, with a worker, or reported.  *)
EXTENDS TokenManager, MetadataRefresher, FiniteSetTheorems, FunctionTheorems,
        SequenceTheorems, TLAPS

Margin == Assumed - Advance + 2 * Interval + MaxOutage + 2 <= Lifetime

\* The age up to which an untroubled session waits for its renewal.
Due == Assumed - Advance + Interval + 1

\* The age by which it has been renewed once logins work again.
Latest == Due + MaxOutage + Interval + 1

\* The time to the next check.
Wait == IF due THEN 0 ELSE ticker

Rest == 1 - asked

Renewing == pc \in {"asking", "backoff"}

KeyInv ==
    usesAPIKey => held /\ sessionAge = 0 /\ ~due /\ ~Renewing

SessionInv ==
    /\ pc = "loggedIn" => held /\ sessionAge <= 1 /\ trouble = 0
    /\ pc \in {"loop", "asking", "backoff"} =>
         /\ held
         /\ sessionAge <= localAge + 1 \/ localAge = Assumed + 1
         /\ Renewing \/ trouble > 0 => localAge + Advance > Assumed
         /\ Renewing /\ asked = 1 => Wait + 1 <= Interval
         /\ pc = "backoff" => trouble > 0
         /\ trouble = 0 /\ pc = "loop" => sessionAge + Wait <= Due
         /\ trouble = 0 /\ pc = "asking" => sessionAge <= Due + asked
         /\ 0 < trouble /\ trouble <= MaxOutage => sessionAge <= Due + trouble
         /\ trouble > MaxOutage =>
              /\ pc = "asking" => sessionAge + Rest <= Latest
              /\ pc = "loop" => sessionAge + Wait + 1 <= Latest
              /\ pc = "backoff" => /\ sessionAge + Rest + 1 <= Latest
                                   /\ sessionAge + Wait + 1 <= Latest

RenewalInv == ~ended /\ ~revoked => KeyInv /\ (~usesAPIKey => SessionInv)
-----------------------------------------------------------------------------
(* Types and the stop.                                                     *)

\* A caller of StopContext is told of success only when nothing runs.
StopInv == TMTypeOK /\ StopHonest

LEMMA Durations ==
    /\ Lifetime \in Nat /\ Assumed \in Nat /\ Advance \in Nat /\ Interval \in Nat
    /\ Attempts \in Nat /\ MaxOutage \in Nat
    /\ 0 < Advance /\ 0 < Interval /\ 0 < Attempts
    /\ Advance < Assumed /\ Assumed < Lifetime
    /\ Over \in Nat /\ Lifetime < Over /\ Over = Lifetime + 1
    /\ Interval \in 1 .. Interval /\ 1 \in 0 .. Attempts
BY TokenAssumption DEF Over

LEMMA InitStop == TMInit => StopInv
<1> SUFFICES ASSUME TMInit PROVE StopInv
  OBVIOUS
<1>1. sessionAge \in 0 .. Over /\ localAge \in 0 .. (Assumed + 1)
  BY Durations DEF TMInit
<1>2. trouble \in 0 .. (MaxOutage + 2) /\ attempt \in 0 .. Attempts
  BY Durations DEF TMInit
<1>3. held \in BOOLEAN
  BY DEF TMInit
<1>4. TMTypeOK
  <2>1. ticker \in 1 .. Interval /\ asked \in 0 .. 1
    BY Durations DEF TMInit
  <2>2. closed = IF pc = "gone" THEN 1 ELSE 0
    BY DEF TMInit
  <2>3. QED
    BY <1>1, <1>2, <1>3, <2>1, <2>2 DEF TMInit, TMTypeOK
<1>5. QED
  BY <1>4 DEF TMInit, StopInv, StopHonest

LEMMA TimePasses ==
    ASSUME TMTypeOK, TMTick
    PROVE  TMTypeOK'
<1>1. ticker' \in 1 .. Interval /\ due' \in BOOLEAN
  <2>1. due' \in BOOLEAN
    BY DEF TMTypeOK, TMTick
  <2>2. ticker' = ticker \/ ticker' = Interval \/ (ticker # 1 /\ ticker' = ticker - 1)
    BY DEF TMTick
  <2>3. QED
    BY <2>1, <2>2, Durations DEF TMTypeOK
<1>2. /\ localAge' \in 0 .. (Assumed + 1) /\ sessionAge' \in 0 .. Over
      /\ trouble' \in 0 .. (MaxOutage + 2)
  BY Durations DEF TMTypeOK, TMTick, Capped
<1>3. asked' \in 0 .. 1
  BY DEF TMTypeOK, TMTick
<1>4. QED
  BY <1>1, <1>2, <1>3 DEF TMTypeOK, TMTick

LEMMA SetTypes ==
    ASSUME TMTypeOK, Set
    PROVE  /\ held' \in BOOLEAN /\ localAge' \in 0 .. (Assumed + 1)
           /\ revoked' \in BOOLEAN /\ sessionAge' \in 0 .. Over /\ trouble' \in 0 .. (MaxOutage + 2)
BY Durations DEF TMTypeOK, Set

LEMMA FailedTypes ==
    ASSUME TMTypeOK, LoginFailed
    PROVE  trouble' \in 0 .. (MaxOutage + 2)
BY Durations DEF TMTypeOK, LoginFailed

LEMMA ManagerTypes ==
    ASSUME TMTypeOK, ManagerStep
    PROVE  TMTypeOK'
<1>1. CASE StartLogsIn
  BY <1>1, SetTypes DEF TMTypeOK, StartLogsIn, round, session
<1>2. CASE StartFails
  BY <1>2, FailedTypes DEF TMTypeOK, StartFails, AbandonStart, round, session
<1>3. CASE StartEnded
  BY <1>3 DEF TMTypeOK, StartEnded, AbandonStart, round, session
<1>4. CASE CloseDone
  BY <1>4 DEF TMTypeOK, CloseDone, round, session
<1>5. CASE StartLoop
  BY <1>5, Durations DEF TMTypeOK, StartLoop, round, session
<1>6. CASE LoopTicks
  <2>1. pc' \in {"asking", "loop"} /\ attempt' \in 0 .. Attempts /\ asked' \in 0 .. 1
    BY <1>6, Durations DEF LoopTicks
  <2>2. pc = "loop" /\ closed' = closed
    BY <1>6 DEF LoopTicks
  <2>3. QED
    BY <1>6, <2>1, <2>2 DEF TMTypeOK, LoopTicks, session
<1>7. CASE LoopEnds
  BY <1>7 DEF TMTypeOK, LoopEnds, round, session
<1>8. CASE Renewed
  BY <1>8, SetTypes DEF TMTypeOK, Renewed, round
<1>9. CASE NotRenewed
  BY <1>9, FailedTypes DEF TMTypeOK, NotRenewed, round, session
<1>10. CASE Retry
  BY <1>10, Durations DEF TMTypeOK, Retry, AfterLastAttempt, session
<1>11. QED
  BY <1>1, <1>2, <1>3, <1>4, <1>5, <1>6, <1>7, <1>8, <1>9, <1>10 DEF ManagerStep

LEMMA NextTypes ==
    ASSUME TMTypeOK, [TMNext]_tmVars
    PROVE  TMTypeOK'
<1>1. CASE Revoke
  BY <1>1, Durations DEF TMTypeOK, Revoke, round
<1>2. CASE CancelParent
  BY <1>2 DEF TMTypeOK, CancelParent, round, session
<1>3. CASE BeginStart
  BY <1>3 DEF TMTypeOK, BeginStart, session
<1>4. CASE CallStop
  BY <1>4 DEF TMTypeOK, CallStop, MustCancel, round, session
<1>5. CASE StopReturns \/ StopTimesOut
  BY <1>5 DEF TMTypeOK, StopReturns, StopTimesOut, round, session
<1>6. CASE UNCHANGED tmVars
  BY <1>6 DEF TMTypeOK, tmVars, round, session
<1>7. QED
  BY <1>1, <1>2, <1>3, <1>4, <1>5, <1>6, TimePasses, ManagerTypes DEF TMNext

LEMMA NextHonest ==
    ASSUME StopInv, [TMNext]_tmVars
    PROVE  StopHonest'
<1>1. ASSUME caller # "stopped", ManagerStep \/ TMTick \/ Revoke \/ CancelParent
                                   \/ BeginStart \/ StopTimesOut
      PROVE  StopHonest'
  BY <1>1 DEF StopHonest, ManagerStep, TMTick, Revoke, CancelParent, BeginStart,
              StopTimesOut, StartLogsIn, StartFails, StartEnded, AbandonStart, CloseDone,
              StartLoop, LoopTicks, LoopEnds, Renewed, NotRenewed, Retry
<1>2. ASSUME caller = "stopped", TMNext
      PROVE  pc' = pc
  BY <1>2 DEF StopInv, StopHonest, TMNext, ManagerStep, TMTick, Revoke, CancelParent,
              BeginStart, CallStop, StopReturns, StopTimesOut, StartLogsIn, StartFails,
              StartEnded, CloseDone, StartLoop, LoopTicks, LoopEnds, Renewed, NotRenewed,
              Retry
<1>3. CASE CallStop
  BY <1>3 DEF CallStop, NeverStarted, StopHonest
<1>4. CASE StopReturns
  BY <1>4 DEF StopReturns, StopInv, TMTypeOK, StopHonest
<1>5. CASE UNCHANGED tmVars
  BY <1>5 DEF StopInv, StopHonest, tmVars
<1>6. CASE TMNext /\ caller = "stopped"
  BY <1>2, <1>6 DEF StopInv, StopHonest
<1>7. QED
  BY <1>1, <1>3, <1>4, <1>5, <1>6 DEF TMNext

\* The variables of the token manager stay in their types, and the done channel is
\* closed exactly once: when neither Start nor the goroutine runs any more.
THEOREM TokenTypes == TMSpec => []TMTypeOK
<1>1. TMInit => TMTypeOK
  BY InitStop DEF StopInv
<1>2. TMTypeOK /\ [TMNext]_tmVars => TMTypeOK'
  BY NextTypes
<1>3. QED
  BY <1>1, <1>2, PTL DEF TMSpec

\* A StopContext that returns nil leaves nothing running, wherever Start was when it
\* was called.
THEOREM StopsAreHonest == TMSpec => []StopHonest
<1>1. TMInit => StopInv
  BY InitStop
<1>2. StopInv /\ [TMNext]_tmVars => StopInv'
  BY NextTypes, NextHonest DEF StopInv
<1>3. StopInv => StopHonest
  BY DEF StopInv
<1>4. QED
  BY <1>1, <1>2, <1>3, PTL DEF TMSpec
-----------------------------------------------------------------------------
(* The age of the session.                                                 *)

LEMMA Ages ==
    ASSUME TMTypeOK
    PROVE  /\ localAge \in Nat /\ sessionAge \in Nat /\ trouble \in Nat
           /\ asked \in 0 .. 1 /\ Rest \in 0 .. 1 /\ Wait \in 0 .. Interval
           /\ ticker \in 1 .. Interval
           /\ Due \in Nat /\ Latest \in Nat /\ Due = Assumed - Advance + Interval + 1
           /\ Latest = Due + MaxOutage + Interval + 1
           /\ Interval + 1 < Due
<1>1. Due \in Nat /\ Latest \in Nat /\ Interval + 1 < Due
  BY Durations DEF Due, Latest
<1>2. QED
  BY <1>1, Durations DEF TMTypeOK, Rest, Wait, Due, Latest

\* One instant later.
LEMMA TimeAges ==
    ASSUME TMTypeOK, TMTick
    PROVE  /\ localAge' = localAge + 1 \/ localAge' = Assumed + 1
           /\ localAge' \in Nat /\ localAge <= localAge'
           /\ ~usesAPIKey => sessionAge' <= sessionAge + 1 /\ sessionAge' \in Nat
           /\ trouble = 0 => trouble' = 0
           /\ 0 < trouble => trouble <= trouble'
           /\ 0 < trouble /\ trouble <= MaxOutage => trouble' = trouble + 1
           /\ ~usesAPIKey /\ pc \in {"loop", "asking", "backoff"} =>
                /\ Wait' + 1 <= Interval
                /\ 0 < Wait => Wait' + 1 = Wait
                /\ Wait = 0 => Wait' = 0
           /\ Renewing => asked = 0 /\ asked' = 1 /\ Rest = 1 /\ Rest' = 0
           /\ pc = "loop" => 0 < Wait
           /\ pc # "loggedIn"
           /\ UNCHANGED <<pc, ended, held, usesAPIKey>>
<1>1. /\ localAge' = localAge + 1 \/ localAge' = Assumed + 1
      /\ localAge' \in Nat /\ localAge <= localAge'
  BY Durations DEF TMTypeOK, TMTick, Capped
<1>2. ~usesAPIKey => sessionAge' <= sessionAge + 1 /\ sessionAge' \in Nat
  BY Durations DEF TMTypeOK, TMTick, Capped
<1>3. /\ trouble = 0 => trouble' = 0
      /\ 0 < trouble => trouble <= trouble'
      /\ 0 < trouble /\ trouble <= MaxOutage => trouble' = trouble + 1
  BY Durations DEF TMTypeOK, TMTick, Capped
<1>4. ASSUME ~usesAPIKey, pc \in {"loop", "asking", "backoff"}
      PROVE  /\ Wait' + 1 <= Interval
             /\ 0 < Wait => Wait' + 1 = Wait
             /\ Wait = 0 => Wait' = 0
  <2>1. /\ ticker' = IF ticker = 1 THEN Interval ELSE ticker - 1
        /\ due' <=> due \/ ticker = 1
    BY <1>4 DEF TMTick
  <2>2. ticker \in 1 .. Interval /\ Interval \in Nat
    BY Durations DEF TMTypeOK
  <2>3. QED
    BY <2>1, <2>2 DEF Wait
<1>5. Renewing => asked = 0 /\ asked' = 1 /\ Rest = 1 /\ Rest' = 0
  BY DEF TMTick, Renewing, Rest
<1>6. pc = "loop" => 0 < Wait
  BY Durations DEF TMTick, TMTypeOK, Wait
<1>7. QED
  BY <1>1, <1>2, <1>3, <1>4, <1>5, <1>6 DEF TMTick

LEMMA TimeKeepsSession ==
    ASSUME TMTypeOK, ~usesAPIKey, SessionInv, TMTick
    PROVE  SessionInv'
<1>1. CASE pc \notin {"loop", "asking", "backoff"}
  BY <1>1, TimeAges DEF SessionInv
<1>2. CASE pc \in {"loop", "asking", "backoff"}
  <2>1. /\ held
        /\ sessionAge <= localAge + 1 \/ localAge = Assumed + 1
        /\ Renewing \/ trouble > 0 => localAge + Advance > Assumed
        /\ pc = "backoff" => trouble > 0
        /\ trouble = 0 /\ pc = "loop" => sessionAge + Wait <= Due
        /\ trouble = 0 /\ pc = "asking" => sessionAge <= Due + asked
        /\ 0 < trouble /\ trouble <= MaxOutage => sessionAge <= Due + trouble
        /\ trouble > MaxOutage =>
             /\ pc = "asking" => sessionAge + Rest <= Latest
             /\ pc = "loop" => sessionAge + Wait + 1 <= Latest
             /\ pc = "backoff" => /\ sessionAge + Rest + 1 <= Latest
                                  /\ sessionAge + Wait + 1 <= Latest
    BY <1>2 DEF SessionInv
  <2>13. trouble' \in Nat /\ localAge' \in 0 .. (Assumed + 1)
    BY TimePasses, Durations DEF TMTypeOK
  <2>2. sessionAge' <= localAge' + 1 \/ localAge' = Assumed + 1
    <3>1. sessionAge' <= sessionAge + 1 /\ sessionAge' \in Nat
          /\ (localAge' = localAge + 1 \/ localAge' = Assumed + 1)
      BY TimeAges
    <3>2. sessionAge \in Nat /\ localAge \in Nat
      BY Ages
    <3>3. Assumed \in Nat /\ localAge' <= Assumed + 1 /\ localAge' \in Nat
      BY <2>13, Durations
    <3>4. CASE localAge' = localAge + 1 /\ localAge # Assumed + 1
      <4>1. sessionAge <= localAge + 1
        BY <2>1, <3>4
      <4>2. QED
        BY <3>1, <3>2, <3>4, <4>1
    <3>5. CASE localAge' = localAge + 1 /\ localAge = Assumed + 1
      BY <3>2, <3>3, <3>5
    <3>6. QED
      BY <3>1, <3>4, <3>5
  <2>3. Renewing' \/ trouble' > 0 => localAge' + Advance > Assumed
    BY <2>1, Ages, TimeAges, Durations DEF Renewing
  <2>4. Wait' + 1 <= Interval /\ Wait' \in Nat
    <3>1. Wait' + 1 <= Interval /\ (0 < Wait => Wait' + 1 = Wait) /\ (Wait = 0 => Wait' = 0)
      BY <1>2, TimeAges
    <3>2. Wait \in 0 .. Interval
      BY Ages
    <3>3. TMTypeOK'
      BY TimePasses
    <3>4. Wait' \in Nat
      BY <3>3, Durations DEF TMTypeOK, Wait
    <3>5. QED
      BY <3>1, <3>4
  <2>5. trouble' = 0 /\ pc' = "loop" => sessionAge' + Wait' <= Due
    BY <1>2, <2>1, <2>4, Ages, TimeAges
  <2>6. trouble' = 0 /\ pc' = "asking" => sessionAge' <= Due + asked'
    BY <1>2, <2>1, Ages, TimeAges DEF Renewing
  <2>7. 0 < trouble' /\ trouble' <= MaxOutage => sessionAge' <= Due + trouble'
    <3>1. ASSUME 0 < trouble', trouble' <= MaxOutage
          PROVE  sessionAge' <= Due + trouble'
      <4>1. 0 < trouble /\ trouble <= MaxOutage /\ trouble \in Nat
        BY <2>13, <3>1, Ages, TimeAges, Durations
      <4>2. trouble' = trouble + 1
        BY <4>1, TimeAges
      <4>3. sessionAge' <= sessionAge + 1 /\ sessionAge' \in Nat
        BY TimeAges
      <4>4. sessionAge <= Due + trouble /\ sessionAge \in Nat /\ Due \in Nat
        BY <2>1, <4>1, Ages
      <4>5. QED
        BY <4>1, <4>2, <4>3, <4>4
    <3>2. QED
      BY <3>1
  <2>8. ASSUME trouble' > MaxOutage, trouble' > 0
        PROVE  /\ pc' = "asking" => sessionAge' + Rest' <= Latest
               /\ pc' = "loop" => sessionAge' + Wait' + 1 <= Latest
               /\ pc' = "backoff" => /\ sessionAge' + Rest' + 1 <= Latest
                                     /\ sessionAge' + Wait' + 1 <= Latest
    <3>1. trouble > 0
      BY <2>8, Ages, TimeAges
    <3>2. sessionAge' <= sessionAge + 1 /\ sessionAge' \in Nat /\ pc' = pc
      BY TimeAges
    <3>3. Renewing => Rest = 1 /\ Rest' = 0
      BY TimeAges
    <3>4. CASE trouble > MaxOutage
      <4>1. CASE pc = "asking"
        BY <2>1, <3>2, <3>3, <3>4, <4>1, Ages DEF Renewing
      <4>2. CASE pc = "loop"
        BY <1>2, <2>1, <2>4, <3>2, <3>4, <4>2, Ages, TimeAges
      <4>3. CASE pc = "backoff"
        <5>1. sessionAge' + Rest' + 1 <= Latest
          BY <2>1, <3>2, <3>3, <3>4, <4>3, Ages DEF Renewing
        <5>2. Wait = 0 => Wait' = 0
          BY <1>2, TimeAges
        <5>3. 0 < Wait => Wait' + 1 = Wait
          BY <1>2, TimeAges
        <5>4. sessionAge + 2 <= Latest /\ sessionAge + Wait + 1 <= Latest
          BY <2>1, <3>3, <3>4, <4>3, Ages DEF Renewing
        <5>5. sessionAge' + Wait' + 1 <= Latest
          BY <2>4, <3>2, <5>2, <5>3, <5>4, Ages
        <5>6. QED
          BY <3>2, <4>3, <5>1, <5>5
      <4>4. QED
        BY <1>2, <4>1, <4>2, <4>3, <3>2
    <3>5. CASE trouble <= MaxOutage
      <4>1. sessionAge <= Due + MaxOutage
        BY <2>1, <3>1, <3>5, Ages, Durations
      <4>2. sessionAge' <= Due + MaxOutage + 1
        BY <3>2, <4>1, Ages, Durations
      <4>3. sessionAge' + 1 + Wait' <= Latest /\ sessionAge' + 1 <= Latest
        <5>1. Latest = Due + MaxOutage + Interval + 1 /\ Due \in Nat
          BY Ages
        <5>2. MaxOutage \in Nat /\ Interval \in Nat
          BY Durations
        <5>3. PICK age \in Nat, wait \in Nat :
                /\ age = sessionAge' /\ wait = Wait'
                /\ wait + 1 <= Interval /\ age <= Due + MaxOutage + 1
          BY <2>4, <3>2, <4>2
        <5>4. age + 1 + wait <= Latest /\ age + 1 <= Latest
          <6>1. wait + 1 <= Interval /\ age <= Due + MaxOutage + 1
            BY <5>3
          <6>2. QED
            BY <5>1, <5>2, <6>1
        <5>5. QED
          BY <5>3, <5>4
      <4>4. Renewing => Rest' = 0
        BY <3>3
      <4>5. CASE pc = "loop"
        BY <2>4, <3>2, <4>3, <4>5
      <4>6. CASE Renewing
        <5>1. sessionAge' + Rest' <= Latest /\ sessionAge' + Rest' + 1 <= Latest
          BY <3>2, <4>3, <4>4, <4>6, Ages
        <5>2. sessionAge' + Wait' + 1 <= Latest
          BY <2>4, <3>2, <4>3, Ages
        <5>3. QED
          BY <3>2, <4>6, <5>1, <5>2 DEF Renewing
      <4>7. QED
        BY <1>2, <3>2, <4>5, <4>6 DEF Renewing
    <3>6. QED
      BY <3>4, <3>5, Ages, Durations
  <2>9. trouble' > MaxOutage => trouble' > 0
    BY Durations, TimePasses DEF TMTypeOK
  <2>10. Renewing' /\ asked' = 1 => Wait' + 1 <= Interval
    BY <2>4
  <2>11. held' /\ (pc' = "backoff" => trouble' > 0) /\ pc' # "loggedIn"
    <3>1. pc' = pc /\ held' = held /\ (0 < trouble => trouble <= trouble')
      BY TimeAges
    <3>2. trouble \in Nat
      BY Ages
    <3>3. QED
      BY <1>2, <2>1, <2>13, <3>1, <3>2
  <2>12. QED
    BY <2>2, <2>3, <2>5, <2>6, <2>7, <2>8, <2>9, <2>10, <2>11 DEF SessionInv
<1>3. QED
  BY <1>1, <1>2
\* The steps that leave the session alone.
LEMMA SessionFrame ==
    ASSUME SessionInv, UNCHANGED <<pc, ticker, due, asked, held, localAge, sessionAge, trouble>>
    PROVE  SessionInv'
BY DEF SessionInv, Renewing, Wait, Rest

LEMMA OutOfService ==
    ASSUME pc' \notin {"loggedIn", "loop", "asking", "backoff"}
    PROVE  SessionInv'
BY DEF SessionInv

LEMMA FreshSession ==
    ASSUME TMTypeOK, Set, asked \in 0 .. 1
    PROVE  /\ held' /\ trouble' = 0 /\ localAge' = 0
           /\ \E age \in {0, 1} : sessionAge' = age
BY DEF Set, TMTypeOK

LEMMA LoopBegins ==
    ASSUME TMTypeOK, SessionInv, StartLoop
    PROVE  SessionInv'
<1>1. held /\ sessionAge <= 1 /\ trouble = 0
  BY DEF SessionInv, StartLoop
<1>2. /\ pc' = "loop" /\ Wait' = Interval
      /\ UNCHANGED <<held, localAge, sessionAge, trouble>>
  BY DEF StartLoop, Wait, session
<1>3. sessionAge + Interval <= Due /\ sessionAge <= localAge + 1
  BY <1>1, Ages, Durations
<1>4. ~(trouble > 0) /\ ~(trouble > MaxOutage)
  BY <1>1, Durations
<1>5. QED
  BY <1>1, <1>2, <1>3, <1>4 DEF SessionInv, Renewing

LEMMA RenewalSucceeds ==
    ASSUME TMTypeOK, SessionInv, Renewed
    PROVE  SessionInv'
<1>1. PICK age \in {0, 1} : sessionAge' = age
  BY FreshSession DEF Renewed, TMTypeOK
<1>2. /\ pc' = "loop" /\ held' /\ trouble' = 0 /\ localAge' = 0 /\ Wait' = Wait
  BY FreshSession DEF Renewed, TMTypeOK, Wait
<1>3. age + Wait <= Due /\ age <= 0 + 1 /\ ~(0 > MaxOutage)
  BY Ages, Durations
<1>4. QED
  BY <1>1, <1>2, <1>3 DEF SessionInv, Renewing

LEMMA CheckFindsItYoung ==
    ASSUME TMTypeOK, SessionInv, LoopTicks, ~ShouldRefresh
    PROVE  SessionInv'
<1>1. /\ pc = "loop" /\ due /\ pc' = "loop" /\ Wait' = ticker
      /\ UNCHANGED <<held, localAge, sessionAge, trouble>>
  BY DEF LoopTicks, Wait, session
<1>2. /\ localAge + Advance <= Assumed /\ localAge # Assumed + 1
  BY Ages, Durations DEF ShouldRefresh
<1>3. /\ held /\ sessionAge <= localAge + 1 /\ ~(trouble > 0)
  BY <1>1, <1>2, Ages, Durations DEF SessionInv
<1>4. sessionAge + ticker <= Due
  BY <1>2, <1>3, Ages, Durations
<1>5. ~(trouble > MaxOutage)
  BY <1>3, Ages, Durations
<1>6. QED
  BY <1>1, <1>3, <1>4, <1>5 DEF SessionInv, Renewing

LEMMA CheckFindsItOld ==
    ASSUME TMTypeOK, SessionInv, LoopTicks, ShouldRefresh
    PROVE  SessionInv'
<1>1. /\ pc = "loop" /\ due /\ pc' = "asking" /\ asked' = 0 /\ Rest' = 1
      /\ UNCHANGED <<held, localAge, sessionAge, trouble>>
  BY DEF LoopTicks, Rest, session
<1>2. localAge + Advance > Assumed
  BY DEF ShouldRefresh
<1>3. Wait = 0
  BY <1>1 DEF Wait
<1>4. /\ held
      /\ sessionAge <= localAge + 1 \/ localAge = Assumed + 1
      /\ trouble = 0 => sessionAge <= Due + 0
      /\ 0 < trouble /\ trouble <= MaxOutage => sessionAge <= Due + trouble
      /\ trouble > MaxOutage => sessionAge + 1 <= Latest
  BY <1>1, <1>3, Ages DEF SessionInv
<1>5. QED
  BY <1>1, <1>2, <1>4 DEF SessionInv, Renewing

LEMMA RenewalFails ==
    ASSUME TMTypeOK, SessionInv, NotRenewed, ~ended
    PROVE  SessionInv'
<1>1. /\ pc = "asking" /\ pc' = "backoff" /\ trouble <= MaxOutage
      /\ UNCHANGED <<held, localAge, sessionAge, asked, Rest, Wait>>
  BY DEF NotRenewed, LoginMayFail, Rest, Wait, round, session
<1>2. /\ held
      /\ sessionAge <= localAge + 1 \/ localAge = Assumed + 1
      /\ localAge + Advance > Assumed
      /\ asked = 1 => Wait + 1 <= Interval
      /\ trouble = 0 => sessionAge <= Due + asked
      /\ 0 < trouble => sessionAge <= Due + trouble
  BY <1>1, Ages DEF SessionInv, Renewing
<1>3. CASE trouble > 0
  <2>1. trouble' = trouble /\ ~(trouble > MaxOutage)
    BY <1>1, <1>3, Ages, Durations DEF NotRenewed, LoginFailed
  <2>2. trouble > 0 /\ ~(trouble = 0)
    BY <1>3, Ages
  <2>3. QED
    BY <1>1, <1>2, <2>1, <2>2 DEF SessionInv, Renewing
<1>4. CASE trouble = 0
  <2>1. trouble' = 1
    BY <1>4 DEF NotRenewed, LoginFailed
  <2>2. sessionAge <= Due + 1
    BY <1>2, <1>4, Ages
  <2>3. sessionAge + Rest + 1 <= Latest
    BY <1>2, <1>4, Ages, Durations DEF Rest
  <2>4. sessionAge + Wait + 1 <= Latest
    BY <1>2, <1>4, Ages, Durations
  <2>5. QED
    BY <1>1, <1>2, <2>1, <2>2, <2>3, <2>4 DEF SessionInv, Renewing
<1>5. QED
  BY <1>3, <1>4, Ages

LEMMA RoundGoesOn ==
    ASSUME TMTypeOK, SessionInv, Retry, ~ended
    PROVE  SessionInv'
<1>1. /\ pc = "backoff" /\ pc' \in {"asking", "loop"}
      /\ UNCHANGED <<held, localAge, sessionAge, trouble, asked, Rest, Wait>>
  BY DEF Retry, AfterLastAttempt, Rest, Wait, session
<1>2. /\ held
      /\ sessionAge <= localAge + 1 \/ localAge = Assumed + 1
      /\ localAge + Advance > Assumed
      /\ asked = 1 => Wait + 1 <= Interval
      /\ trouble > 0 /\ ~(trouble = 0)
      /\ 0 < trouble /\ trouble <= MaxOutage => sessionAge <= Due + trouble
      /\ trouble > MaxOutage => sessionAge + Rest <= Latest /\ sessionAge + Wait + 1 <= Latest
  BY <1>1, Ages DEF SessionInv, Renewing
<1>3. QED
  BY <1>1, <1>2 DEF SessionInv, Renewing

LEMMA NextKeepsSession ==
    ASSUME TMTypeOK, ~usesAPIKey, ~ended', ~revoked', SessionInv, [TMNext]_tmVars
    PROVE  SessionInv'
<1>1. ~ended
  BY DEF TMNext, ManagerStep, tmVars, TMTick, Revoke, CancelParent, BeginStart, CallStop,
         StopReturns, StopTimesOut, StartLogsIn, StartFails, StartEnded, AbandonStart,
         CloseDone, StartLoop, LoopTicks, LoopEnds, Renewed, NotRenewed, Retry
<1>2. CASE TMTick
  BY <1>2, TimeKeepsSession
<1>3. CASE BeginStart \/ StartFails \/ StartEnded \/ CloseDone \/ LoopEnds
  <2>1. pc' \in {"login", "leaving", "gone"}
    BY <1>3 DEF BeginStart, StartFails, StartEnded, AbandonStart, CloseDone, LoopEnds
  <2>2. QED
    BY <2>1, OutOfService
<1>4. CASE StartLogsIn
  <2>1. pc' = "loggedIn" /\ Set
    BY <1>4 DEF StartLogsIn
  <2>2. PICK age \in {0, 1} : sessionAge' = age
    BY <2>1, FreshSession DEF TMTypeOK
  <2>3. held' /\ trouble' = 0 /\ sessionAge' <= 1
    BY <2>1, <2>2, FreshSession DEF TMTypeOK
  <2>4. QED
    BY <2>1, <2>3 DEF SessionInv
<1>5. CASE StartLoop \/ LoopTicks \/ Renewed \/ NotRenewed \/ Retry
  BY <1>1, <1>5, LoopBegins, CheckFindsItYoung, CheckFindsItOld, RenewalSucceeds,
     RenewalFails, RoundGoesOn
<1>6. CASE CallStop \/ StopReturns \/ StopTimesOut \/ CancelParent \/ UNCHANGED tmVars
  BY <1>6, SessionFrame DEF CallStop, StopReturns, StopTimesOut, CancelParent, tmVars, round,
     session
<1>7. QED
  BY <1>2, <1>3, <1>4, <1>5, <1>6 DEF TMNext, ManagerStep, Revoke

\* How the client authenticates is settled when it is built.
LEMMA UseIsFixed ==
    ASSUME [TMNext]_tmVars
    PROVE  usesAPIKey' = usesAPIKey
<1>1. CASE TMTick \/ Revoke \/ CancelParent \/ BeginStart
  BY <1>1 DEF TMTick, Revoke, CancelParent, BeginStart
<1>2. CASE ManagerStep
  <2>1. CASE StartLogsIn \/ StartFails \/ StartEnded \/ CloseDone \/ StartLoop
    BY <2>1 DEF StartLogsIn, StartFails, StartEnded, AbandonStart, CloseDone, StartLoop
  <2>2. CASE LoopTicks \/ LoopEnds \/ Renewed \/ NotRenewed \/ Retry
    BY <2>2 DEF LoopTicks, LoopEnds, Renewed, NotRenewed, Retry
  <2>3. QED
    BY <1>2, <2>1, <2>2 DEF ManagerStep
<1>3. CASE CallStop \/ StopReturns \/ StopTimesOut \/ UNCHANGED tmVars
  BY <1>3 DEF CallStop, StopReturns, StopTimesOut, tmVars
<1>4. QED
  BY <1>1, <1>2, <1>3 DEF TMNext

\* Once the context has ended it stays ended.
LEMMA EndIsFinal ==
    ASSUME [TMNext]_tmVars, ended
    PROVE  ended'
<1>1. CASE TMTick \/ Revoke \/ CancelParent \/ BeginStart
  BY <1>1 DEF TMTick, Revoke, CancelParent, BeginStart
<1>2. CASE ManagerStep
  <2>1. CASE StartLogsIn \/ StartFails \/ StartEnded \/ CloseDone \/ StartLoop
    BY <2>1 DEF StartLogsIn, StartFails, StartEnded, AbandonStart, CloseDone, StartLoop
  <2>2. CASE LoopTicks \/ LoopEnds \/ Renewed \/ NotRenewed \/ Retry
    BY <2>2 DEF LoopTicks, LoopEnds, Renewed, NotRenewed, Retry
  <2>3. QED
    BY <1>2, <2>1, <2>2 DEF ManagerStep
<1>3. CASE CallStop \/ StopReturns \/ StopTimesOut \/ UNCHANGED tmVars
  BY <1>3 DEF CallStop, StopReturns, StopTimesOut, tmVars
<1>4. QED
  BY <1>1, <1>2, <1>3 DEF TMNext

\* What Zabbix has ended early is not forgotten.
LEMMA RevocationIsFinal ==
    ASSUME [TMNext]_tmVars, revoked
    PROVE  revoked'
<1>1. CASE TMTick \/ Revoke \/ CancelParent \/ BeginStart
  BY <1>1 DEF TMTick, Revoke, CancelParent, BeginStart, session
<1>2. CASE ManagerStep
  <2>1. CASE StartLogsIn \/ StartFails \/ StartEnded \/ CloseDone \/ StartLoop
    BY <2>1 DEF StartLogsIn, StartFails, StartEnded, AbandonStart, CloseDone, StartLoop,
                Set, session
  <2>2. CASE LoopTicks \/ LoopEnds \/ Renewed \/ NotRenewed \/ Retry
    BY <2>2 DEF LoopTicks, LoopEnds, Renewed, NotRenewed, Retry, Set, session
  <2>3. QED
    BY <1>2, <2>1, <2>2 DEF ManagerStep
<1>3. CASE CallStop \/ StopReturns \/ StopTimesOut \/ UNCHANGED tmVars
  BY <1>3 DEF CallStop, StopReturns, StopTimesOut, tmVars, session
<1>4. QED
  BY <1>1, <1>2, <1>3 DEF TMNext

\* Nothing but Zabbix ages an API key, and no round of logins begins with one.
LEMMA NextKeepsKey ==
    ASSUME usesAPIKey, ~revoked', KeyInv, [TMNext]_tmVars
    PROVE  KeyInv'
<1>1. CASE TMTick \/ Revoke \/ CancelParent \/ BeginStart
  BY <1>1 DEF TMTick, Revoke, CancelParent, BeginStart, KeyInv, Renewing, session, round
<1>2. CASE ManagerStep
  <2>1. CASE StartLogsIn \/ StartFails \/ StartEnded \/ CloseDone \/ StartLoop
    BY <2>1 DEF StartLogsIn, StartFails, StartEnded, AbandonStart, CloseDone, StartLoop,
                KeyInv, Renewing, session, round
  <2>2. CASE LoopTicks \/ LoopEnds \/ Renewed \/ NotRenewed \/ Retry
    BY <2>2 DEF LoopTicks, LoopEnds, Renewed, NotRenewed, Retry, KeyInv, Renewing, session,
                round
  <2>3. QED
    BY <1>2, <2>1, <2>2 DEF ManagerStep
<1>3. CASE CallStop \/ StopReturns \/ StopTimesOut \/ UNCHANGED tmVars
  BY <1>3 DEF CallStop, StopReturns, StopTimesOut, tmVars, KeyInv, Renewing, session, round
<1>4. QED
  BY <1>1, <1>2, <1>3 DEF TMNext

LEMMA NextKeepsRenewal ==
    ASSUME TMTypeOK, RenewalInv, [TMNext]_tmVars
    PROVE  RenewalInv'
<1> SUFFICES ASSUME ~ended', ~revoked' PROVE KeyInv' /\ (~usesAPIKey' => SessionInv')
  BY DEF RenewalInv
<1>1. ~ended /\ ~revoked
  BY EndIsFinal, RevocationIsFinal
<1>2. CASE usesAPIKey
  BY <1>1, <1>2, NextKeepsKey, UseIsFixed DEF RenewalInv
<1>3. CASE ~usesAPIKey
  BY <1>1, <1>3, NextKeepsSession, UseIsFixed DEF RenewalInv, KeyInv
<1>4. QED
  BY <1>2, <1>3

LEMMA InvariantMeansValid ==
    ASSUME Margin, TMTypeOK, RenewalInv
    PROVE  AlwaysValid
<1> SUFFICES ASSUME Serving, ~revoked PROVE Valid
  BY DEF AlwaysValid
<1>1. pc \in {"loop", "asking", "backoff"} /\ ~ended
  BY DEF Serving
<1>2. Latest <= Lifetime /\ Due <= Lifetime /\ Due + MaxOutage <= Lifetime
      /\ Due + 1 <= Lifetime
  BY Ages, Durations DEF Margin
<1>3. CASE usesAPIKey
  BY <1>1, <1>3, Durations DEF RenewalInv, KeyInv, Valid
<1>4. CASE ~usesAPIKey
  <2>1. SessionInv
    BY <1>1, <1>4 DEF RenewalInv
  <2>2. sessionAge <= Lifetime
    <3>1. CASE trouble = 0
      BY <1>1, <1>2, <2>1, <3>1, Ages, Durations DEF SessionInv
    <3>2. CASE 0 < trouble /\ trouble <= MaxOutage
      BY <1>1, <1>2, <2>1, <3>2, Ages, Durations DEF SessionInv
    <3>3. CASE trouble > MaxOutage
      BY <1>1, <1>2, <2>1, <3>3, Ages, Durations DEF SessionInv
    <3>4. QED
      BY <3>1, <3>2, <3>3, Ages, Durations
  <2>3. QED
    BY <1>1, <2>1, <2>2 DEF SessionInv, Valid
<1>5. QED
  BY <1>3, <1>4

\* The client never works with an expired session, whatever the durations and the
\* number of attempts, if the real lifetime exceeds the age at which the client
\* renews by two checks, the outage and the two roundings; until Zabbix ends a
\* session early.
THEOREM SessionsStayValid ==
    ASSUME Margin
    PROVE  TMSpec => []AlwaysValid
<1>1. TMInit => TMTypeOK /\ RenewalInv
  BY InitStop DEF StopInv, TMInit, RenewalInv, KeyInv, SessionInv, Renewing
<1>2. TMTypeOK /\ RenewalInv /\ [TMNext]_tmVars => TMTypeOK' /\ RenewalInv'
  BY NextTypes, NextKeepsRenewal
<1>3. TMTypeOK /\ RenewalInv => AlwaysValid
  BY InvariantMeansValid
<1>4. QED
  BY <1>1, <1>2, <1>3, PTL DEF TMSpec
-----------------------------------------------------------------------------
(* Ranks and batches.                                                      *)

\* Ranks number the hosts of a set from 1, in their order, without a gap.
LEMMA RanksNumber ==
    ASSUME NEW hs, hs \subseteq Nat, IsFiniteSet(hs)
    PROVE  /\ \A h \in hs : Rank(h, hs) \in 1..Cardinality(hs)
           /\ \A g, h \in hs : g < h => Rank(g, hs) < Rank(h, hs)
           /\ \A r \in 1..Cardinality(hs) : \E h \in hs : Rank(h, hs) = r
<1> DEFINE n == Cardinality(hs)
           UpTo(h) == {g \in hs : g <= h}
           rank == [h \in hs |-> Rank(h, hs)]
<1>1. n \in Nat
  BY FS_CardinalityType
<1>2. \A h \in hs : /\ UpTo(h) \subseteq hs /\ IsFiniteSet(UpTo(h)) /\ h \in UpTo(h)
                    /\ Cardinality(UpTo(h)) \in Nat /\ Cardinality(UpTo(h)) <= n
                    /\ Cardinality(UpTo(h)) # 0
  <2> SUFFICES ASSUME NEW h \in hs
               PROVE  /\ UpTo(h) \subseteq hs /\ IsFiniteSet(UpTo(h)) /\ h \in UpTo(h)
                      /\ Cardinality(UpTo(h)) \in Nat /\ Cardinality(UpTo(h)) <= n
                      /\ Cardinality(UpTo(h)) # 0
    OBVIOUS
  <2>1. UpTo(h) \in SUBSET hs /\ h \in UpTo(h)
    OBVIOUS
  <2>2. IsFiniteSet(UpTo(h)) /\ Cardinality(UpTo(h)) <= n
    BY <2>1, FS_Subset
  <2>3. Cardinality(UpTo(h)) \in Nat
    BY <2>2, FS_CardinalityType
  <2>4. Cardinality(UpTo(h)) # 0
    BY <2>1, <2>2, FS_EmptySet
  <2>5. QED
    BY <2>1, <2>2, <2>3, <2>4
<1>3. \A h \in hs : Rank(h, hs) = Cardinality(UpTo(h))
  BY DEF Rank
<1>4. \A h \in hs : Rank(h, hs) \in 1..n
  <2> SUFFICES ASSUME NEW h \in hs PROVE Rank(h, hs) \in 1..n
    OBVIOUS
  <2>1. Cardinality(UpTo(h)) \in Nat /\ Cardinality(UpTo(h)) <= n /\ Cardinality(UpTo(h)) # 0
    BY <1>2
  <2> HIDE DEF UpTo, n
  <2>2. QED
    BY <1>1, <1>3, <2>1
<1>5. ASSUME NEW g \in hs, NEW h \in hs, g < h
      PROVE  Rank(g, hs) < Rank(h, hs)
  <2>1. UpTo(g) \in SUBSET UpTo(h) /\ h \notin UpTo(g)
    <3>1. \A k \in hs : k <= g => k <= h
      BY <1>5
    <3>2. ~(h <= g)
      BY <1>5
    <3>3. QED
      BY <3>1, <3>2
  <2>2. h \in UpTo(h) /\ IsFiniteSet(UpTo(h))
    BY <1>2
  <2>3. /\ Cardinality(UpTo(g)) <= Cardinality(UpTo(h))
        /\ Cardinality(UpTo(h)) = Cardinality(UpTo(g)) => UpTo(h) = UpTo(g)
    BY <2>1, <2>2, FS_Subset
  <2>4. Cardinality(UpTo(h)) # Cardinality(UpTo(g))
    BY <2>1, <2>2, <2>3
  <2>5. QED
    BY <1>2, <1>3, <2>3, <2>4
<1>6. rank \in Injection(hs, 1..n)
  <2>1. rank \in [hs -> 1..n]
    BY <1>4
  <2>2. \A g, h \in hs : rank[g] = rank[h] => g = h
    <3> SUFFICES ASSUME NEW g \in hs, NEW h \in hs, g # h PROVE rank[g] # rank[h]
      OBVIOUS
    <3>1. g < h \/ h < g
      OBVIOUS
    <3>2. rank[g] < rank[h] \/ rank[h] < rank[g]
      BY <1>5, <3>1
    <3>3. rank[g] \in Int /\ rank[h] \in Int
      BY <1>4
    <3>4. QED
      BY <3>2, <3>3
  <2>3. QED
    BY <2>1, <2>2, Fun_IsInj
<1>7. IsFiniteSet(1..n) /\ Cardinality(1..n) = n
  <2>1. 1 \in Int /\ n \in Int
    BY <1>1
  <2>2. QED
    BY <1>1, <2>1, FS_Interval
<1>8. rank \in Surjection(hs, 1..n)
  BY <1>6, <1>7, FS_Injection
<1>9. \A r \in 1..n : \E h \in hs : rank[h] = r
  BY <1>8 DEF Surjection
<1>10. QED
  BY <1>4, <1>5, <1>9

\* A product grows with its factor.
LEMMA TimesGrows ==
    ASSUME NEW n \in Nat, NEW a \in Int, NEW b \in Int, a <= b
    PROVE  a * n <= b * n
  BY SMT

\* The number of batches is what fits: BatchCount is Cardinality / BatchHosts, rounded up.
LEMMA RoundedUp ==
    ASSUME NEW n \in Nat, NEW size \in Nat \ {0}
    PROVE  LET count == (n + size - 1) \div size
           IN /\ count \in Nat /\ n <= count * size /\ count * size <= n + size - 1
              /\ count <= n
<1> DEFINE count == (n + size - 1) \div size
<1>1. count \in Int /\ size * count <= n + size - 1 /\ n + size - 1 < size * count + size
  BY SMT
<1> HIDE DEF count
<1>2. count >= 0
  BY <1>1, SMT
<1>3. n <= count * size /\ count * size <= n + size - 1
  BY <1>1, SMT
<1>4. count <= n
  <2> SUFFICES ASSUME count >= n + 1 PROVE FALSE
    BY <1>1
  <2>1. (n + 1) * size <= count * size
    BY <1>1, TimesGrows
  <2>2. (n + 1) * size = n * size + size /\ n * size >= n
    BY SMT
  <2>3. n * size \in Int /\ count * size \in Int
    BY <1>1, SMT
  <2>4. QED
    BY <1>3, <2>1, <2>2, <2>3
<1>5. QED
  BY <1>1, <1>2, <1>3, <1>4 DEF count

\* A batch is a stretch of ranks; there are as many batches as it takes.
LEMMA BatchesAreStretches ==
    ASSUME NEW hs, hs \subseteq Hosts
    PROVE  /\ hs \subseteq Nat /\ IsFiniteSet(hs) /\ Cardinality(hs) \in Nat
           /\ Cardinality(hs) <= Cardinality(Hosts) /\ Cardinality(Hosts) \in Nat
           /\ BatchHosts \in Nat \ {0}
           /\ BatchCount(hs) = (Cardinality(hs) + BatchHosts - 1) \div BatchHosts
           /\ BatchCount(hs) \in Nat /\ BatchCount(hs) <= Cardinality(hs)
           /\ Cardinality(hs) <= BatchCount(hs) * BatchHosts
           /\ BatchCount(hs) * BatchHosts <= Cardinality(hs) + BatchHosts - 1
<1>1. Hosts \subseteq Nat /\ IsFiniteSet(Hosts) /\ BatchHosts \in Nat \ {0}
  BY RefresherAssumption
<1>2. /\ IsFiniteSet(hs) /\ Cardinality(hs) <= Cardinality(Hosts)
      /\ Cardinality(hs) \in Nat /\ Cardinality(Hosts) \in Nat
  BY <1>1, FS_Subset, FS_CardinalityType
<1>3. BatchCount(hs) = (Cardinality(hs) + BatchHosts - 1) \div BatchHosts
  BY DEF BatchCount
<1>4. QED
  BY <1>1, <1>2, <1>3, RoundedUp

\* Every host is in exactly one batch, ...
LEMMA BatchesPartition ==
    ASSUME NEW hs, hs \subseteq Hosts, NEW h \in hs
    PROVE  /\ \E b \in 1..BatchCount(hs) : h \in Batch(b, hs)
           /\ \A b, c \in Int :
                h \in Batch(b, hs) /\ h \in Batch(c, hs) => b = c
<1> DEFINE n == Cardinality(hs)
           size == BatchHosts
           r == Rank(h, hs)
           count == BatchCount(hs)
           own == (r + size - 1) \div size
<1>1. /\ hs \subseteq Nat /\ IsFiniteSet(hs) /\ n \in Nat /\ size \in Nat \ {0}
      /\ count \in Nat /\ n <= count * size
  BY BatchesAreStretches
<1>2. r \in 1..n
  BY <1>1, RanksNumber
<1>3. \A b \in Int : h \in Batch(b, hs) <=> (b - 1) * size < r /\ r <= b * size
  <2> SUFFICES ASSUME NEW b \in Int
               PROVE  h \in Batch(b, hs) <=> (b - 1) * size < r /\ r <= b * size
    OBVIOUS
  <2>1. (b - 1) * size \in Int
    BY <1>1
  <2>2. r > (b - 1) * size <=> (b - 1) * size < r
    BY <1>2, <2>1
  <2>3. QED
    BY <2>2 DEF Batch
<1>4. /\ own \in Nat /\ r <= own * size /\ own * size <= r + size - 1
  <2>1. r \in Nat /\ size \in Nat \ {0}
    BY <1>1, <1>2
  <2> HIDE DEF r, size
  <2>2. QED
    BY <2>1, RoundedUp
<1> HIDE DEF n, size, r, count, own
<1>5. own >= 1
  <2> SUFFICES ASSUME own = 0 PROVE FALSE
    BY <1>4
  <2>1. 0 * size = 0
    BY <1>1
  <2>2. QED
    BY <1>2, <1>4, <2>1
<1>6. own <= count
  <2> SUFFICES ASSUME count <= own - 1 PROVE FALSE
    BY <1>1, <1>4
  <2>1. count * size <= (own - 1) * size
    BY <1>1, <1>4, TimesGrows
  <2>2. (own - 1) * size = own * size - size /\ own * size \in Int /\ count * size \in Int
    BY <1>1, <1>4
  <2>3. QED
    BY <1>1, <1>2, <1>4, <2>1, <2>2
<1>7. h \in Batch(own, hs)
  <2>1. (own - 1) * size = own * size - size /\ own * size \in Int
    BY <1>1, <1>4
  <2>2. (own - 1) * size < r
    BY <1>1, <1>2, <1>4, <2>1
  <2>3. QED
    BY <1>3, <1>4, <2>2
<1>8. ASSUME NEW b \in Int, NEW c \in Int, b < c,
             h \in Batch(b, hs), h \in Batch(c, hs)
      PROVE  FALSE
  <2>1. r <= b * size /\ (c - 1) * size < r
    BY <1>3, <1>8
  <2>2. b * size <= (c - 1) * size
    <3>1. b <= c - 1 /\ c - 1 \in Int
      BY <1>8
    <3>2. QED
      BY <1>1, <3>1, TimesGrows
  <2>3. b * size \in Int /\ (c - 1) * size \in Int /\ r \in Int
    BY <1>1, <1>2
  <2>4. QED
    BY <2>1, <2>2, <2>3
<1>9. \A b, c \in Int : h \in Batch(b, hs) /\ h \in Batch(c, hs) => b = c
  <2>1. \A b, c \in Int : b = c \/ b < c \/ c < b
    OBVIOUS
  <2>2. QED
    BY <1>8, <2>1
<1>10. QED
  BY <1>1, <1>4, <1>5, <1>6, <1>7, <1>9 DEF count

\* ... and every batch has a host and at most BatchHosts.
LEMMA BatchSizes ==
    ASSUME NEW hs, hs \subseteq Hosts,
           NEW b \in 1..BatchCount(hs)
    PROVE  Cardinality(Batch(b, hs)) \in 1..BatchHosts
<1> DEFINE n == Cardinality(hs)
           size == BatchHosts
           batch == Batch(b, hs)
           count == BatchCount(hs)
           low == (b - 1) * size
           place == [h \in batch |-> Rank(h, hs) - low]
<1>1. /\ hs \subseteq Nat /\ IsFiniteSet(hs) /\ n \in Nat /\ size \in Nat \ {0}
      /\ count \in Nat /\ count * size <= n + size - 1
  BY BatchesAreStretches
<1>2. b \in Int /\ 1 <= b /\ b <= count /\ low \in Int /\ b * size = low + size
  BY <1>1
<1>3. low >= 0 /\ low + 1 <= n
  <2>1. 0 * size <= low
    BY <1>1, <1>2, TimesGrows
  <2>2. b * size <= count * size
    BY <1>1, <1>2, TimesGrows
  <2>3. 0 * size = 0 /\ b * size \in Int /\ count * size \in Int
    BY <1>1, <1>2
  <2> HIDE DEF low
  <2>4. QED
    BY <1>1, <1>2, <2>1, <2>2, <2>3
<1>4. \A h \in batch : /\ h \in hs /\ Rank(h, hs) \in Int
                       /\ Rank(h, hs) - low \in 1..size
  <2> SUFFICES ASSUME NEW h \in batch
               PROVE  /\ h \in hs /\ Rank(h, hs) \in Int
                      /\ Rank(h, hs) - low \in 1..size
    OBVIOUS
  <2>1. h \in hs /\ Rank(h, hs) > low /\ Rank(h, hs) <= b * size
    BY DEF Batch
  <2>2. Rank(h, hs) \in 1..n
    BY <1>1, <2>1, RanksNumber
  <2> HIDE DEF low, n, size
  <2>3. QED
    BY <1>1, <1>2, <2>1, <2>2
<1>5. place \in Injection(batch, 1..size)
  <2>1. place \in [batch -> 1..size]
    BY <1>4
  <2>2. \A g, h \in batch : place[g] = place[h] => g = h
    <3> SUFFICES ASSUME NEW g \in batch, NEW h \in batch, g # h PROVE place[g] # place[h]
      OBVIOUS
    <3>1. g \in hs /\ h \in hs /\ Rank(g, hs) \in Int /\ Rank(h, hs) \in Int
      BY <1>4
    <3>2. g < h \/ h < g
      BY <1>1, <3>1
    <3>3. Rank(g, hs) # Rank(h, hs)
      <4>1. \A i, j \in hs : i < j => Rank(i, hs) < Rank(j, hs)
        BY <1>1, RanksNumber
      <4>2. QED
        BY <3>1, <3>2, <4>1
    <3> HIDE DEF low
    <3>4. QED
      BY <1>2, <3>1, <3>3
  <2>3. QED
    BY <2>1, <2>2, Fun_IsInj
<1>6. IsFiniteSet(1..size) /\ Cardinality(1..size) = size
  <2>1. 1 \in Int /\ size \in Int
    BY <1>1
  <2>2. QED
    BY <1>1, <2>1, FS_Interval
<1>7. IsFiniteSet(batch) /\ Cardinality(batch) <= size /\ Cardinality(batch) \in Nat
  BY <1>5, <1>6, FS_Injection, FS_CardinalityType
<1>8. batch # {}
  <2>1. PICK h \in hs : Rank(h, hs) = low + 1
    <3>1. \A r \in 1..n : \E h \in hs : Rank(h, hs) = r
      BY <1>1, RanksNumber
    <3>2. low + 1 \in 1..n
      BY <1>1, <1>2, <1>3
    <3>3. QED
      BY <3>1, <3>2
  <2>2. Rank(h, hs) > low /\ Rank(h, hs) <= b * size
    <3> HIDE DEF low, size
    <3>1. QED
      BY <1>1, <1>2, <2>1
  <2>3. h \in batch
    BY <2>2 DEF Batch
  <2>4. QED
    BY <2>3
<1>9. QED
  BY <1>1, <1>7, <1>8, FS_EmptySet

-----------------------------------------------------------------------------
(* The inductive invariant of the refresher.                               *)

WorkerRecord == [pc : {"free", "checked", "waiting", "asking", "failing", "exited"},
                 batch : Nat, wait : Nat]
Reply == [is : {"failed", "items", "twice", "stray"}, items : SUBSET Item]
Result == [batch : Nat, answer : Reply]
Snapshot == [hosts : SUBSET Hosts, items : SUBSET Item]
Phases == {"idle", "pacing", "groups", "hosts", "items"}

WorldShape ==
    /\ zabbix \in [Hosts -> States]
    /\ seen \in [Hosts -> SUBSET States]
    /\ ahead \in Nat /\ pause \in 0..ahead
    /\ phase \in Phases
    /\ stopped \in BOOLEAN
    /\ snapshot \in Snapshot

PoolShape ==
    /\ hosts \subseteq Hosts
    /\ worker \in [Workers -> WorkerRecord]
    /\ \A w \in Workers : worker[w].wait <= ahead
    /\ nextJob \in 1..(BatchCount(hosts) + 1)
    /\ results \in Seq(Result)
    /\ \A b \in DOMAIN outcome : outcome[b] \in Outcome
    /\ cancelled \in BOOLEAN

\* Nothing of a refresh is left between its requests for hosts and the next.
AtRest ==
    phase # "items" =>
      /\ hosts = {} /\ results = <<>> /\ outcome = <<>> /\ nextJob = 1
      /\ \A w \in Workers : worker[w] = Exited

\* The history of a refresh has what Zabbix holds.
Watched == phase # "idle" => \A h \in Hosts : zabbix[h] \in seen[h]

\* Among these items is exactly what Zabbix had for the host at some moment.
StateOf(h, items) ==
    LET mine == {i \in items : i.host = h}
    IN \/ mine = {} /\ "gone" \in seen[h]
       \/ \E s \in seen[h] : mine = {[host |-> h, state |-> s]}

\* An answer with items is about the hosts of its batch, and about each of them.
Told(b, r) ==
    r.is = "items" =>
      /\ \A i \in r.items : i.host \in Batch(b, hosts)
      /\ \A h \in Batch(b, hosts) : StateOf(h, r.items)

Reported ==
    /\ phase = "items" => DOMAIN outcome = Batches
    /\ \A n \in 1..Len(results) : Told(results[n].batch, results[n].answer)
    /\ \A b \in DOMAIN outcome : Told(b, outcome[b])

\* What GetHosts knows of the groups.  A listed host is still in one of those named.
Grouped ==
    /\ groupIDs \subseteq Groups /\ members \in [Hosts -> SUBSET Groups]
    /\ listed \subseteq Hosts /\ blank \in BOOLEAN
    /\ phase \in {"idle", "pacing", "groups"} => listed = {}
    /\ phase = "hosts" => \A h \in listed : members[h] \cap groupIDs # {}

\* The address of a host that was there, and listed, all the time is among the selected.
Represented ==
    phase = "items" /\ ~blank =>
      \A h \in Hosts :
        Eligible(h) /\ "gone" \notin seen[h] /\ (ByGroup => h \in listed) =>
          \E g \in hosts : selectedHostIP(g) = selectedHostIP(h)

Held(rec, b) == rec.pc \in {"checked", "waiting", "asking"} /\ rec.batch = b

\* A batch without an outcome is queued, or with a worker, or in the results.
Owed ==
    phase = "items" =>
      /\ \A b \in Batches : outcome[b].is = "pending" =>
           \/ nextJob <= b
           \/ \E w \in Workers : Held(worker[w], b)
           \/ \E n \in 1..Len(results) : results[n].batch = b
      /\ nextJob \in Batches =>
           \A w \in Workers :
             w <= BatchCount(hosts) => worker[w].pc # "exited"

RefreshInv ==
    /\ WorldShape /\ PoolShape /\ AtRest /\ Watched
    /\ Grouped /\ Reported /\ Represented /\ Owed
-----------------------------------------------------------------------------
(* What the steps have in common.                                          *)

\* What an answer says stays true while the history grows.
LEMMA ToldStays ==
    ASSUME hosts' = hosts, \A h \in Hosts : seen[h] \subseteq seen'[h], hosts \subseteq Hosts,
           NEW b, NEW r, Told(b, r)
    PROVE  Told(b, r)'
<1> SUFFICES ASSUME r.is = "items"
             PROVE  /\ \A i \in r.items : i.host \in Batch(b, hosts)
                    /\ \A h \in Batch(b, hosts) : StateOf(h, r.items)'
  BY DEF Told, Batch
<1>1. /\ \A i \in r.items : i.host \in Batch(b, hosts)
      /\ \A h \in Batch(b, hosts) : StateOf(h, r.items)
  BY DEF Told
<1>2. \A h \in Batch(b, hosts) : h \in Hosts
  BY DEF Batch
<1>3. ASSUME NEW h \in Hosts, StateOf(h, r.items) PROVE StateOf(h, r.items)'
  BY <1>3 DEF StateOf
<1>4. QED
  BY <1>1, <1>2, <1>3

\* The items of a batch are what Zabbix has for its hosts.
LEMMA AnswerIsTold ==
    ASSUME WorldShape, Watched, phase # "idle", hosts \subseteq Hosts, NEW b, NEW is
    PROVE  LET items == ItemsOf(Batch(b, hosts))
           IN /\ items \subseteq Item
              /\ Told(b, [is |-> is, items |-> items])
<1> DEFINE batch == Batch(b, hosts)
           items == ItemsOf(batch)
           r == [is |-> is, items |-> items]
<1>1. batch \subseteq Hosts
  BY DEF Batch
<1>2. \A i : i \in items <=>
               \E h \in batch : zabbix[h] # "gone" /\ i = [host |-> h, state |-> zabbix[h]]
  BY DEF ItemsOf
<1> HIDE DEF items
<1>3. items \subseteq Item
  <2> SUFFICES ASSUME NEW i \in items PROVE i \in Item
    OBVIOUS
  <2>1. PICK h \in batch : zabbix[h] # "gone" /\ i = [host |-> h, state |-> zabbix[h]]
    BY <1>2
  <2>2. zabbix[h] \in ItemStates
    BY <1>1, <2>1 DEF WorldShape, States
  <2>3. QED
    BY <1>1, <2>1, <2>2 DEF Item
<1>4. \A i \in items : i.host \in batch
  BY <1>2
<1>5. ASSUME NEW h \in batch PROVE StateOf(h, items)
  <2> DEFINE mine == {i \in items : i.host = h}
  <2>1. zabbix[h] \in seen[h]
    BY <1>1 DEF Watched
  <2>2. CASE zabbix[h] = "gone"
    <3>1. mine = {}
      BY <1>2, <2>2
    <3>2. QED
      BY <2>1, <2>2, <3>1 DEF StateOf
  <2>3. CASE zabbix[h] # "gone"
    <3>1. [host |-> h, state |-> zabbix[h]] \in items
      BY <1>2, <2>3
    <3>2. \A i \in mine : i = [host |-> h, state |-> zabbix[h]]
      BY <1>2
    <3>3. mine = {[host |-> h, state |-> zabbix[h]]}
      BY <3>1, <3>2
    <3>4. QED
      BY <2>1, <3>3 DEF StateOf
  <2>4. QED
    BY <2>2, <2>3
<1>6. Told(b, r)
  BY <1>4, <1>5 DEF Told
<1>7. QED
  BY <1>3, <1>6 DEF items

-----------------------------------------------------------------------------
(* The steps of the workers.                                               *)

Moved(w, rec) ==
    /\ rec \in WorkerRecord /\ rec.wait <= ahead'
    /\ worker' = [worker EXCEPT ![w] = rec]
    /\ ahead' \in Nat /\ ahead <= ahead'
    /\ cancelled' \in BOOLEAN
    /\ nextJob' = nextJob \/ (nextJob \in Batches /\ nextJob' = nextJob + 1)
    /\ rec.pc = "exited" => nextJob \notin Batches

\* The batches that worker w has, or takes in this step.
Owes(w, b) == Held(worker[w], b) \/ (nextJob' # nextJob /\ b = nextJob)

Quiet(w, rec) ==
    results' = results /\ \A b \in Nat : Owes(w, b) => Held(rec, b)

Answers(w, rec, x) ==
    /\ x \in Result /\ Told(x.batch, x.answer)
    /\ results' = Append(results, x)
    /\ \A b \in Nat : Owes(w, b) => Held(rec, b) \/ x.batch = b

Frame ==
    UNCHANGED <<zabbix, seen, phase, pause, groupIDs, members, listed, blank, hosts,
                outcome, stopped, snapshot>>

\* A failure says nothing about the hosts.
LEMMA FailureIsTold ==
    ASSUME NEW b \in Nat
    PROVE  LET x == [batch |-> b, answer |-> Failed]
           IN x \in Result /\ Told(x.batch, x.answer)
<1>1. Failed = [is |-> "failed", items |-> {}]
  BY DEF Failed
<1>2. Failed \in Reply
  BY <1>1 DEF Reply
<1>3. Told(b, Failed)
  BY <1>1 DEF Told
<1>4. QED
  BY <1>2, <1>3 DEF Result

\* What every step of a worker starts from.
LEMMA WorkerFacts ==
    ASSUME RefreshInv, NEW w \in Workers
    PROVE  /\ worker[w] \in WorkerRecord /\ worker[w].batch \in Nat /\ worker[w].wait \in Nat
           /\ worker[w].wait <= ahead /\ ahead \in Nat /\ cancelled \in BOOLEAN
           /\ nextJob \in Nat
           /\ worker[w].pc # "exited" => phase = "items"
           /\ [worker EXCEPT ![w] = worker[w]] = worker
<1>1. WorldShape /\ PoolShape /\ AtRest
  BY DEF RefreshInv
<1>2. /\ worker[w] \in WorkerRecord /\ worker[w].wait <= ahead /\ cancelled \in BOOLEAN
      /\ nextJob \in Nat /\ ahead \in Nat
  BY <1>1 DEF PoolShape, WorldShape
<1>3. worker[w].batch \in Nat /\ worker[w].wait \in Nat
  BY <1>2 DEF WorkerRecord
<1>4. worker[w].pc # "exited" => phase = "items"
  BY <1>1 DEF AtRest, Exited, At
<1>5. [worker EXCEPT ![w] = worker[w]] = worker
  BY <1>1 DEF PoolShape
<1>6. QED
  BY <1>2, <1>3, <1>4, <1>5

\* Every step of a worker is a move: it keeps its batch, or answers for it.
LEMMA QuietMoves ==
    ASSUME RefreshInv, NEW w \in Workers,
           \/ TakeJob(w) \/ ExitWorker(w) \/ Reserve(w)
           \/ AskItems(w) \/ CancelOthers(w)
    PROVE  phase = "items" /\ Frame /\ \E rec : Moved(w, rec) /\ Quiet(w, rec)
<1>1. /\ worker[w].batch \in Nat /\ worker[w].wait \in Nat
      /\ worker[w].wait <= ahead /\ ahead \in Nat /\ cancelled \in BOOLEAN
      /\ nextJob \in Nat
      /\ worker[w].pc # "exited" => phase = "items"
  BY WorkerFacts
<1>2. MinGap \in Nat
  BY RefresherAssumption
<1>3. CASE TakeJob(w)
  <2> DEFINE rec == At("checked", nextJob, 0)
  <2>1. rec = [pc |-> "checked", batch |-> nextJob, wait |-> 0]
    BY DEF At
  <2>2. /\ worker' = [worker EXCEPT ![w] = rec] /\ nextJob' = nextJob + 1
        /\ nextJob \in Batches /\ worker[w].pc = "free"
        /\ UNCHANGED <<ahead, cancelled, results>> /\ Frame
    BY <1>3 DEF TakeJob, Become, Frame, world, selection, grouping
  <2>3. rec \in WorkerRecord /\ rec.wait = 0 /\ rec.pc = "checked" /\ rec.batch = nextJob
    BY <1>1, <2>1 DEF WorkerRecord
  <2> HIDE DEF rec
  <2>4. Moved(w, rec)
    BY <1>1, <2>2, <2>3 DEF Moved
  <2>5. Quiet(w, rec)
    BY <1>1, <2>2, <2>3 DEF Quiet, Owes, Held
  <2>6. QED
    BY <1>1, <2>2, <2>4, <2>5
<1>4. CASE ExitWorker(w)
  <2> DEFINE rec == Exited
  <2>1. rec = [pc |-> "exited", batch |-> 0, wait |-> 0]
    BY DEF Exited, At
  <2>2. /\ worker' = [worker EXCEPT ![w] = rec]
        /\ nextJob \notin Batches /\ worker[w].pc = "free"
        /\ UNCHANGED <<ahead, cancelled, results, nextJob>> /\ Frame
    BY <1>4 DEF ExitWorker, Frame, world, selection, grouping
  <2>3. rec \in WorkerRecord /\ rec.wait = 0
    BY <2>1 DEF WorkerRecord
  <2> HIDE DEF rec
  <2>4. Moved(w, rec)
    BY <1>1, <2>2, <2>3 DEF Moved
  <2>5. Quiet(w, rec)
    BY <1>1, <2>2, <2>3 DEF Quiet, Owes, Held
  <2>6. QED
    BY <1>1, <2>2, <2>4, <2>5
<1>5. CASE Reserve(w)
  <2> DEFINE rec == At("waiting", worker[w].batch, ahead)
  <2>1. rec = [pc |-> "waiting", batch |-> worker[w].batch, wait |-> ahead]
    BY DEF At
  <2>2. /\ worker' = [worker EXCEPT ![w] = rec] /\ ahead' = ahead + MinGap
        /\ worker[w].pc = "checked"
        /\ UNCHANGED <<cancelled, results, nextJob>> /\ Frame
    BY <1>5 DEF Reserve, Become, Frame, world, selection, grouping
  <2>3. /\ rec \in WorkerRecord /\ rec.wait = ahead /\ rec.pc = "waiting"
        /\ rec.batch = worker[w].batch
    BY <1>1, <2>1 DEF WorkerRecord
  <2> HIDE DEF rec
  <2>4. Moved(w, rec)
    BY <1>1, <1>2, <2>2, <2>3 DEF Moved
  <2>5. Quiet(w, rec)
    BY <1>1, <2>2, <2>3 DEF Quiet, Owes, Held
  <2>6. QED
    BY <1>1, <2>2, <2>4, <2>5
<1>6. CASE AskItems(w)
  <2> DEFINE rec == At("asking", worker[w].batch, 0)
  <2>1. rec = [pc |-> "asking", batch |-> worker[w].batch, wait |-> 0]
    BY DEF At
  <2>2. /\ worker' = [worker EXCEPT ![w] = rec]
        /\ worker[w].pc = "waiting"
        /\ UNCHANGED <<ahead, cancelled, results, nextJob>> /\ Frame
    BY <1>6 DEF AskItems, Become, Frame, world, selection, grouping
  <2>3. /\ rec \in WorkerRecord /\ rec.wait = 0 /\ rec.pc = "asking"
        /\ rec.batch = worker[w].batch
    BY <1>1, <2>1 DEF WorkerRecord
  <2> HIDE DEF rec
  <2>4. Moved(w, rec)
    BY <1>1, <2>2, <2>3 DEF Moved
  <2>5. Quiet(w, rec)
    BY <1>1, <2>2, <2>3 DEF Quiet, Owes, Held
  <2>6. QED
    BY <1>1, <2>2, <2>4, <2>5
<1>7. CASE CancelOthers(w)
  <2> DEFINE rec == At("free", 0, 0)
  <2>1. rec = [pc |-> "free", batch |-> 0, wait |-> 0]
    BY DEF At
  <2>2. /\ worker' = [worker EXCEPT ![w] = rec] /\ cancelled' = TRUE
        /\ worker[w].pc = "failing"
        /\ UNCHANGED <<ahead, results, nextJob>> /\ Frame
    BY <1>7 DEF CancelOthers, Become, Frame, world, selection, grouping
  <2>3. rec \in WorkerRecord /\ rec.wait = 0 /\ rec.pc = "free"
    BY <2>1 DEF WorkerRecord
  <2> HIDE DEF rec
  <2>4. Moved(w, rec)
    BY <1>1, <2>2, <2>3 DEF Moved
  <2>5. Quiet(w, rec)
    BY <1>1, <2>2, <2>3 DEF Quiet, Owes, Held
  <2>6. QED
    BY <1>1, <2>2, <2>4, <2>5
<1>8. QED
  BY <1>3, <1>4, <1>5, <1>6, <1>7

LEMMA AnswerMoves ==
    ASSUME RefreshInv, NEW w \in Workers,
           \/ SkipJob(w) \/ GiveUp(w) \/ Fail(w)
           \/ \E is \in {"items", "twice", "stray"} : Answer(w, is)
    PROVE  phase = "items" /\ Frame /\ \E rec, x : Moved(w, rec) /\ Answers(w, rec, x)
<1>1. /\ worker[w] \in WorkerRecord
      /\ worker[w].batch \in Nat /\ worker[w].wait \in Nat
      /\ worker[w].wait <= ahead /\ ahead \in Nat /\ cancelled \in BOOLEAN
      /\ nextJob \in Nat
      /\ worker[w].pc # "exited" => phase = "items"
      /\ [worker EXCEPT ![w] = worker[w]] = worker
  BY WorkerFacts
<1>2. CASE SkipJob(w)
  <2> DEFINE rec == worker[w]
             x == [batch |-> nextJob, answer |-> Failed]
  <2>1. /\ results' = Append(results, x) /\ nextJob' = nextJob + 1
        /\ nextJob \in Batches /\ worker[w].pc = "free"
        /\ UNCHANGED <<ahead, cancelled, worker>> /\ Frame
    BY <1>2 DEF SkipJob, Forgo, Send, Frame, world, selection, grouping
  <2>2. x \in Result /\ Told(x.batch, x.answer) /\ x.batch = nextJob
    BY <1>1, FailureIsTold
  <2> HIDE DEF x
  <2>3. Moved(w, rec)
    BY <1>1, <2>1 DEF Moved
  <2>4. Answers(w, rec, x)
    BY <1>1, <2>1, <2>2 DEF Answers, Owes, Held
  <2>5. QED
    BY <1>1, <2>1, <2>3, <2>4
<1>3. CASE GiveUp(w) \/ Fail(w)
  <2> DEFINE rec == At("failing", worker[w].batch, 0)
             x == [batch |-> worker[w].batch, answer |-> Failed]
  <2>1. rec = [pc |-> "failing", batch |-> worker[w].batch, wait |-> 0]
    BY DEF At
  <2>2. /\ results' = Append(results, x) /\ worker' = [worker EXCEPT ![w] = rec]
        /\ worker[w].pc \in {"waiting", "asking"}
        /\ UNCHANGED <<ahead, cancelled, nextJob>> /\ Frame
    BY <1>3 DEF GiveUp, Fail, Become, Send, Frame, world, selection, grouping
  <2>3. x \in Result /\ Told(x.batch, x.answer) /\ x.batch = worker[w].batch
    BY <1>1, FailureIsTold
  <2>4. rec \in WorkerRecord /\ rec.wait = 0 /\ rec.pc = "failing"
    BY <1>1, <2>1 DEF WorkerRecord
  <2> HIDE DEF x, rec
  <2>5. Moved(w, rec)
    BY <1>1, <2>2, <2>4 DEF Moved
  <2>6. Answers(w, rec, x)
    BY <1>1, <2>2, <2>3 DEF Answers, Owes, Held
  <2>7. QED
    BY <1>1, <2>2, <2>5, <2>6
<1>4. ASSUME NEW is \in {"items", "twice", "stray"}, Answer(w, is)
      PROVE  phase = "items" /\ Frame /\ \E rec, x : Moved(w, rec) /\ Answers(w, rec, x)
  <2> DEFINE rec == At("free", 0, 0)
             items == ItemsOf(Batch(worker[w].batch, hosts))
             x == [batch |-> worker[w].batch, answer |-> [is |-> is, items |-> items]]
  <2>1. rec = [pc |-> "free", batch |-> 0, wait |-> 0]
    BY DEF At
  <2>2. /\ results' = Append(results, x) /\ worker' = [worker EXCEPT ![w] = rec]
        /\ worker[w].pc = "asking"
        /\ UNCHANGED <<ahead, cancelled, nextJob>> /\ Frame
    BY <1>4 DEF Answer, Become, Send, Frame, world, selection, grouping
  <2>3. WorldShape /\ Watched /\ phase = "items" /\ hosts \subseteq Hosts
    BY <1>1, <2>2 DEF RefreshInv, PoolShape
  <2>4. items \subseteq Item /\ Told(worker[w].batch, [is |-> is, items |-> items])
    BY <2>3, AnswerIsTold
  <2> HIDE DEF items
  <2>5. [is |-> is, items |-> items] \in Reply
    BY <1>4, <2>4 DEF Reply
  <2>6. x \in Result /\ Told(x.batch, x.answer) /\ x.batch = worker[w].batch
    BY <1>1, <2>4, <2>5 DEF Result
  <2>7. rec \in WorkerRecord /\ rec.wait = 0 /\ rec.pc = "free"
    BY <2>1 DEF WorkerRecord
  <2> HIDE DEF x, rec
  <2>8. Moved(w, rec)
    BY <1>1, <2>2, <2>7 DEF Moved
  <2>9. Answers(w, rec, x)
    BY <1>1, <2>2, <2>6 DEF Answers, Owes, Held
  <2>10. QED
    BY <2>2, <2>3, <2>8, <2>9
<1>5. QED
  BY <1>2, <1>3, <1>4

\* A move keeps the invariant.
LEMMA MovesKeepShape ==
    ASSUME RefreshInv, phase = "items", Frame,
           NEW w \in Workers, NEW rec, Moved(w, rec),
           results' = results \/ \E x \in Result : results' = Append(results, x)
    PROVE  WorldShape' /\ PoolShape' /\ AtRest' /\ Watched' /\ Grouped' /\ Represented'
<1>1. WorldShape /\ PoolShape /\ Watched /\ Grouped /\ Represented
  BY DEF RefreshInv
<1>2. WorldShape'
  BY <1>1 DEF WorldShape, Moved, Frame
<1>3. PoolShape'
  <2>1. hosts' \subseteq Hosts /\ cancelled' \in BOOLEAN
    BY <1>1 DEF PoolShape, Frame, Moved
  <2>2. worker' \in [Workers -> WorkerRecord]
    BY <1>1 DEF PoolShape, Moved
  <2>3. \A v \in Workers : worker'[v].wait <= ahead'
    <3> SUFFICES ASSUME NEW v \in Workers PROVE worker'[v].wait <= ahead'
      OBVIOUS
    <3>1. CASE v = w
      BY <1>1, <3>1 DEF PoolShape, Moved
    <3>2. CASE v # w
      <4>1. worker'[v] = worker[v] /\ worker[v].wait <= ahead /\ worker[v].wait \in Nat
        BY <1>1, <3>2 DEF PoolShape, Moved, WorkerRecord
      <4>2. QED
        BY <1>1, <4>1 DEF Moved, WorldShape
    <3>3. QED
      BY <3>1, <3>2
  <2>4. nextJob' \in 1..(BatchCount(hosts') + 1)
    <3>1. hosts' = hosts /\ hosts \subseteq Hosts /\ nextJob \in 1..(BatchCount(hosts) + 1)
      BY <1>1 DEF PoolShape, Frame
    <3>2. BatchCount(hosts) \in Nat
      BY <3>1, BatchesAreStretches
    <3>3. QED
      BY <3>1, <3>2 DEF Moved, Batches
  <2>5. results' \in Seq(Result)
    BY <1>1 DEF PoolShape
  <2>6. \A b \in DOMAIN outcome' : outcome'[b] \in Outcome
    BY <1>1 DEF PoolShape, Frame
  <2>7. QED
    BY <2>1, <2>2, <2>3, <2>4, <2>5, <2>6 DEF PoolShape, BatchCount, Workers
<1>4. AtRest' /\ Watched' /\ Grouped' /\ Represented'
  BY <1>1 DEF AtRest, Watched, Grouped, Represented, Frame
<1>5. QED
  BY <1>2, <1>3, <1>4

LEMMA MovesKeepReported ==
    ASSUME RefreshInv, Frame,
           \/ results' = results
           \/ \E x \in Result : Told(x.batch, x.answer) /\ results' = Append(results, x)
    PROVE  Reported'
<1>1. Reported /\ results \in Seq(Result) /\ hosts \subseteq Hosts
  BY DEF RefreshInv, PoolShape
<1>2. \A b, r : Told(b, r) => Told(b, r)'
  BY <1>1, ToldStays DEF Frame
<1>3. \A n \in 1..Len(results') : Told(results'[n].batch, results'[n].answer)
  BY <1>1 DEF Reported
<1>4. QED
  BY <1>1, <1>2, <1>3 DEF Reported, Frame, Batches, BatchCount

LEMMA MovesKeepOwed ==
    ASSUME RefreshInv, phase = "items", Frame,
           NEW w \in Workers, NEW rec, Moved(w, rec),
           Quiet(w, rec) \/ \E x : Answers(w, rec, x)
    PROVE  Owed'
<1>1. /\ PoolShape /\ Owed /\ worker \in [Workers -> WorkerRecord]
      /\ results \in Seq(Result) /\ nextJob \in Nat /\ hosts \subseteq Hosts
  BY DEF RefreshInv, PoolShape
<1>2. worker' = [worker EXCEPT ![w] = rec] /\ hosts' = hosts /\ outcome' = outcome /\ phase' = phase
  BY DEF Moved, Frame
<1>3. BatchCount(hosts) \in Nat
  BY <1>1, BatchesAreStretches
<1>4. Batches' = Batches /\ Workers' = Workers
      /\ BatchCount(hosts)' = BatchCount(hosts)
  BY <1>2 DEF Batches, BatchCount, Workers
<1>5. \A b \in Batches : b \in Nat
  BY <1>3 DEF Batches
<1>6. \A n \in 1..Len(results) : n \in 1..Len(results') /\ results'[n] = results[n]
  BY <1>1 DEF Quiet, Answers
<1>7. ASSUME NEW b \in Batches, outcome[b].is = "pending"
      PROVE  \/ nextJob' <= b
             \/ \E v \in Workers : Held(worker'[v], b)
             \/ \E n \in 1..Len(results') : results'[n].batch = b
  <2>1. b \in Nat
    BY <1>5
  <2>2. CASE Owes(w, b)
    <3>1. CASE Held(rec, b)
      <4>1. Held(worker'[w], b)
        BY <1>1, <1>2, <3>1
      <4>2. QED
        BY <4>1
    <3>2. CASE \E x : Answers(w, rec, x) /\ x.batch = b
      <4>1. PICK x : Answers(w, rec, x) /\ x.batch = b
        BY <3>2
      <4>2. /\ Len(results') = Len(results) + 1 /\ Len(results) \in Nat
            /\ results'[Len(results) + 1] = x
        BY <1>1, <4>1 DEF Answers
      <4>3. Len(results) + 1 \in 1..Len(results')
        BY <4>2
      <4>4. QED
        BY <4>1, <4>2, <4>3
    <3>3. QED
      BY <2>1, <2>2, <3>1, <3>2 DEF Quiet, Answers
  <2>3. CASE ~Owes(w, b)
    <3>1. CASE nextJob <= b
      BY <1>1, <2>1, <2>3, <3>1 DEF Owes, Moved
    <3>2. CASE \E v \in Workers : Held(worker[v], b)
      <4>1. PICK v \in Workers : Held(worker[v], b)
        BY <3>2
      <4>2. worker'[v] = worker[v]
        BY <1>1, <1>2, <2>3, <4>1 DEF Owes
      <4>3. QED
        BY <4>1, <4>2
    <3>3. CASE \E n \in 1..Len(results) : results[n].batch = b
      BY <1>6, <3>3
    <3>4. QED
      BY <1>1, <1>7, <3>1, <3>2, <3>3 DEF Owed
  <2>4. QED
    BY <2>2, <2>3
<1>8. ASSUME nextJob' \in Batches, NEW v \in Workers,
             v <= BatchCount(hosts)
      PROVE  worker'[v].pc # "exited"
  <2>1. nextJob \in Batches
    BY <1>1, <1>3, <1>8 DEF Moved, Batches
  <2>2. worker[v].pc # "exited"
    BY <1>1, <1>8, <2>1 DEF Owed
  <2>3. rec.pc # "exited"
    BY <2>1 DEF Moved
  <2>4. QED
    BY <1>1, <1>2, <2>2, <2>3
<1>9. QED
  BY <1>2, <1>4, <1>7, <1>8 DEF Owed, Held

LEMMA WorkersKeepInv ==
    ASSUME RefreshInv, NEW w \in Workers, WorkerStep(w)
    PROVE  RefreshInv' /\ Frame
<1>1. /\ phase = "items" /\ Frame
      /\ \E rec : Moved(w, rec) /\ (Quiet(w, rec) \/ \E x : Answers(w, rec, x))
  <2>1. CASE \/ TakeJob(w) \/ ExitWorker(w) \/ Reserve(w)
             \/ AskItems(w) \/ CancelOthers(w)
    BY <2>1, QuietMoves
  <2>2. CASE \/ SkipJob(w) \/ GiveUp(w) \/ Fail(w)
             \/ \E is \in {"items", "twice", "stray"} : Answer(w, is)
    BY <2>2, AnswerMoves
  <2>3. QED
    BY <2>1, <2>2 DEF WorkerStep
<1>2. PICK rec : Moved(w, rec) /\ (Quiet(w, rec) \/ \E x : Answers(w, rec, x))
  BY <1>1
<1>3. \/ results' = results
      \/ \E x \in Result : Told(x.batch, x.answer) /\ results' = Append(results, x)
  BY <1>2 DEF Quiet, Answers
<1>4. WorldShape' /\ PoolShape' /\ AtRest' /\ Watched' /\ Grouped' /\ Represented'
  BY <1>1, <1>2, <1>3, MovesKeepShape
<1>5. Reported'
  BY <1>1, <1>3, MovesKeepReported
<1>6. Owed'
  BY <1>1, <1>2, MovesKeepOwed
<1>7. QED
  BY <1>1, <1>4, <1>5, <1>6 DEF RefreshInv

-----------------------------------------------------------------------------
(* Zabbix, the clock and the pipeline.                                     *)

\* No hosts, no batches.
LEMMA NoBatches ==
    BatchCount({}) = 0
<1>1. BatchCount({}) \in Nat /\ BatchCount({}) <= Cardinality({})
  BY BatchesAreStretches
<1>2. QED
  BY <1>1, FS_EmptySet

LEMMA InitRefresh ==
    ASSUME Init
    PROVE  RefreshInv
<1>1. /\ zabbix \in Inventories /\ seen = [h \in Hosts |-> {}] /\ ahead = 0
      /\ phase = "idle" /\ pause = 0 /\ hosts = {} /\ nextJob = 1
      /\ worker = [w \in Workers |-> Exited]
      /\ results = <<>> /\ outcome = <<>> /\ cancelled = FALSE /\ stopped = FALSE
      /\ snapshot = [hosts |-> {}, items |-> {}]
  BY DEF Init
<1>2. Exited = [pc |-> "exited", batch |-> 0, wait |-> 0]
  BY DEF Exited, At
<1>3. Exited \in WorkerRecord /\ Exited.wait = 0
  BY <1>2 DEF WorkerRecord
<1>4. WorldShape
  <2>1. zabbix \in [Hosts -> States]
    BY <1>1, RefresherAssumption DEF States
  <2>2. seen \in [Hosts -> SUBSET States]
    BY <1>1
  <2>3. snapshot \in Snapshot
    BY <1>1 DEF Snapshot
  <2>4. ahead \in Nat /\ pause \in 0..ahead /\ phase \in Phases
    BY <1>1 DEF Phases
  <2>5. stopped \in BOOLEAN
    BY <1>1
  <2>6. QED
    BY <2>1, <2>2, <2>3, <2>4, <2>5 DEF WorldShape
<1>5. PoolShape
  <2>1. worker \in [Workers -> WorkerRecord]
    BY <1>1, <1>3
  <2>2. \A w \in Workers : worker[w].wait <= ahead
    BY <1>1, <1>3
  <2>3. nextJob \in 1..(BatchCount(hosts) + 1)
    BY <1>1, NoBatches
  <2>4. results \in Seq(Result) /\ DOMAIN outcome = {}
    BY <1>1
  <2>5. QED
    BY <1>1, <2>1, <2>2, <2>3, <2>4 DEF PoolShape
<1>6. AtRest
  BY <1>1 DEF AtRest
<1>7. Reported
  BY <1>1 DEF Reported
<1>8. Watched /\ Represented /\ Owed
  BY <1>1 DEF Watched, Represented, Owed
<1>9. Grouped
  BY <1>1 DEF Init, Grouped, Nowhere
<1>10. QED
  BY <1>4, <1>5, <1>6, <1>7, <1>8, <1>9 DEF RefreshInv

\* While the history grows the reports stay true.
LEMMA HistoryKeepsReported ==
    ASSUME RefreshInv, \A h \in Hosts : seen[h] \subseteq seen'[h],
           UNCHANGED <<phase, hosts, results, outcome>>
    PROVE  Reported'
<1>1. Reported /\ hosts \subseteq Hosts
  BY DEF RefreshInv, PoolShape
<1>2. \A b, r : Told(b, r) => Told(b, r)'
  BY <1>1, ToldStays
<1>3. QED
  BY <1>1, <1>2 DEF Reported, Batches, BatchCount

LEMMA ChangeKeepsInv ==
    ASSUME RefreshInv, NEW h \in Hosts, Change(h)
    PROVE  RefreshInv'
<1>1. WorldShape /\ PoolShape /\ AtRest /\ Watched /\ Grouped /\ Represented /\ Owed
  BY DEF RefreshInv
<1>2. PICK s \in States \ {zabbix[h]} :
        /\ zabbix' = [zabbix EXCEPT ![h] = s]
        /\ seen' = [seen EXCEPT ![h] = @ \cup {s}]
  BY DEF Change
<1>3. UNCHANGED <<ahead, phase, pause, groupIDs, members, listed, blank, hosts, nextJob,
                  worker, results, outcome, cancelled, stopped, snapshot>>
  BY DEF Change, pool, selection, grouping
<1>4. zabbix' \in [Hosts -> States] /\ seen' \in [Hosts -> SUBSET States]
  BY <1>1, <1>2 DEF WorldShape
<1>5. \A g \in Hosts : seen[g] \subseteq seen'[g]
  BY <1>1, <1>2 DEF WorldShape
<1>6. WorldShape'
  BY <1>1, <1>3, <1>4 DEF WorldShape
<1>7. PoolShape' /\ AtRest' /\ Owed'
  BY <1>1, <1>3 DEF PoolShape, AtRest, Owed, BatchCount, Batches,
                    Workers, Exited, Held
<1>8. Watched'
  BY <1>1, <1>2, <1>3 DEF Watched, WorldShape
<1>9. Grouped' /\ Represented'
  BY <1>1, <1>3, <1>5 DEF Grouped, Represented
<1>10. Reported'
  BY <1>3, <1>5, HistoryKeepsReported
<1>11. QED
  BY <1>6, <1>7, <1>8, <1>9, <1>10 DEF RefreshInv

\* A host that leaves the named groups is not promised any more.
LEMMA MoveKeepsInv ==
    ASSUME RefreshInv, NEW h \in Hosts, Move(h)
    PROVE  RefreshInv'
<1>1. WorldShape /\ PoolShape /\ AtRest /\ Watched /\ Grouped /\ Represented /\ Owed
  BY DEF RefreshInv
<1>2. PICK gs \in SUBSET Groups :
        /\ members' = [members EXCEPT ![h] = gs]
        /\ listed' = IF gs \cap groupIDs = {} THEN listed \ {h} ELSE listed
  BY DEF Move
<1>3. /\ phase = "hosts"
      /\ UNCHANGED <<zabbix, seen, ahead, phase, pause, groupIDs, blank, hosts, nextJob,
                     worker, results, outcome, cancelled, stopped, snapshot>>
  BY DEF Move, pool
<1>4. WorldShape'
  BY <1>1, <1>3 DEF WorldShape
<1>5. PoolShape' /\ AtRest' /\ Owed'
  BY <1>1, <1>3 DEF PoolShape, AtRest, Owed, BatchCount, Batches,
                    Workers, Exited, Held
<1>6. Watched' /\ Represented'
  BY <1>1, <1>3 DEF Watched, Represented
<1>7. Grouped'
  <2>1. members' \in [Hosts -> SUBSET Groups] /\ listed' \subseteq listed
    BY <1>1, <1>2 DEF Grouped
  <2>2. ASSUME NEW g \in listed' PROVE members'[g] \cap groupIDs # {}
    <3>1. g \in listed /\ g \in Hosts /\ members[g] \cap groupIDs # {}
      BY <1>1, <1>3, <2>1, <2>2 DEF Grouped
    <3>2. CASE g = h
      <4>1. members'[g] = gs
        BY <1>1, <1>2, <3>2 DEF Grouped
      <4>2. gs \cap groupIDs # {}
        BY <1>2, <2>2, <3>2
      <4>3. QED
        BY <4>1, <4>2
    <3>3. CASE g # h
      BY <1>1, <1>2, <3>1, <3>3 DEF Grouped
    <3>4. QED
      BY <3>2, <3>3
  <2>3. QED
    BY <1>1, <1>3, <2>1, <2>2 DEF Grouped
<1>8. Reported'
  BY <1>3, HistoryKeepsReported
<1>9. QED
  BY <1>4, <1>5, <1>6, <1>7, <1>8 DEF RefreshInv

LEMMA StopKeepsInv ==
    ASSUME RefreshInv, Stop
    PROVE  RefreshInv'
<1>1. WorldShape /\ PoolShape /\ AtRest /\ Watched /\ Grouped /\ Represented /\ Owed
  BY DEF RefreshInv
<1>2. /\ stopped' = TRUE
      /\ UNCHANGED <<zabbix, seen, ahead, phase, pause, groupIDs, members, listed, blank,
                     hosts, nextJob, worker, results, outcome, cancelled, snapshot>>
  BY DEF Stop, pool, world, selection, grouping
<1>3. WorldShape'
  BY <1>1, <1>2 DEF WorldShape
<1>4. PoolShape' /\ AtRest' /\ Owed'
  BY <1>1, <1>2 DEF PoolShape, AtRest, Owed, BatchCount, Batches,
                    Workers, Exited, Held
<1>5. Watched' /\ Grouped' /\ Represented'
  BY <1>1, <1>2 DEF Watched, Grouped, Represented
<1>6. Reported'
  BY <1>2, HistoryKeepsReported
<1>7. QED
  BY <1>3, <1>4, <1>5, <1>6 DEF RefreshInv

LEMMA TickKeepsInv ==
    ASSUME RefreshInv, Tick
    PROVE  RefreshInv'
<1>1. WorldShape /\ PoolShape /\ AtRest /\ Watched /\ Grouped /\ Represented /\ Owed
  BY DEF RefreshInv
<1>2. /\ ahead > 0 /\ ahead' = ahead - 1
      /\ pause' = IF pause = 0 THEN 0 ELSE pause - 1
      /\ worker' = [w \in Workers |->
                      [worker[w] EXCEPT !.wait = IF @ = 0 THEN 0 ELSE @ - 1]]
      /\ UNCHANGED <<zabbix, seen, phase, groupIDs, members, listed, blank, hosts, nextJob,
                     results, outcome, cancelled, stopped, snapshot>>
  BY DEF Tick, world, selection, grouping
<1>3. WorldShape'
  BY <1>1, <1>2 DEF WorldShape
<1>4. \A w \in Workers :
        /\ worker'[w] \in WorkerRecord /\ worker'[w].wait <= ahead'
        /\ worker'[w].pc = worker[w].pc /\ worker'[w].batch = worker[w].batch
        /\ worker[w].wait = 0 => worker'[w] = worker[w]
  <2> SUFFICES ASSUME NEW w \in Workers
               PROVE  /\ worker'[w] \in WorkerRecord /\ worker'[w].wait <= ahead'
                      /\ worker'[w].pc = worker[w].pc /\ worker'[w].batch = worker[w].batch
                      /\ worker[w].wait = 0 => worker'[w] = worker[w]
    OBVIOUS
  <2> DEFINE left == IF worker[w].wait = 0 THEN 0 ELSE worker[w].wait - 1
  <2>1. /\ worker[w] \in WorkerRecord /\ worker[w].wait \in Nat /\ worker[w].wait <= ahead
        /\ ahead \in Nat
    BY <1>1 DEF PoolShape, WorkerRecord, WorldShape
  <2>2. left \in Nat /\ left <= ahead' /\ (worker[w].wait = 0 => left = worker[w].wait)
    BY <1>2, <2>1
  <2>3. worker'[w] = [worker[w] EXCEPT !.wait = left]
    BY <1>2
  <2> HIDE DEF left
  <2>4. QED
    BY <2>1, <2>2, <2>3 DEF WorkerRecord
<1>5. PoolShape'
  <2>1. worker' \in [Workers -> WorkerRecord]
    BY <1>2, <1>4
  <2>2. QED
    BY <1>1, <1>2, <1>4, <2>1 DEF PoolShape, BatchCount, Workers
<1>6. AtRest'
  <2>1. Exited.wait = 0
    BY DEF Exited, At
  <2>2. QED
    BY <1>1, <1>2, <1>4, <2>1 DEF AtRest, Workers, Exited
<1>7. Owed'
  <2>1. /\ Batches' = Batches /\ Workers' = Workers
        /\ BatchCount(hosts)' = BatchCount(hosts)
    BY <1>2 DEF Batches, BatchCount, Workers
  <2>2. \A b : (\E w \in Workers : Held(worker[w], b))
                 => (\E w \in Workers : Held(worker'[w], b))
    BY <1>4 DEF Held
  <2>3. ASSUME phase = "items", NEW b \in Batches, outcome[b].is = "pending"
        PROVE  \/ nextJob <= b
               \/ \E w \in Workers : Held(worker'[w], b)
               \/ \E n \in 1..Len(results) : results[n].batch = b
    BY <1>1, <2>2, <2>3 DEF Owed
  <2>4. ASSUME phase = "items", nextJob \in Batches, NEW w \in Workers,
               w <= BatchCount(hosts)
        PROVE  worker'[w].pc # "exited"
    BY <1>1, <1>4, <2>4 DEF Owed
  <2>5. QED
    BY <1>2, <2>1, <2>3, <2>4 DEF Owed, Held
<1>8. Watched' /\ Grouped' /\ Represented'
  BY <1>1, <1>2 DEF Watched, Grouped, Represented
<1>9. Reported'
  BY <1>2, HistoryKeepsReported
<1>10. QED
  BY <1>3, <1>5, <1>6, <1>7, <1>8, <1>9 DEF RefreshInv

-----------------------------------------------------------------------------
(* The refresh itself.                                                     *)

\* Where no batches are out, the pool is at rest.
LEMMA RestingPool ==
    ASSUME RefreshInv, phase' # "items", ahead' \in Nat, ahead <= ahead',
           hosts' = {}, nextJob' = 1, results' = <<>>, outcome' = <<>>, cancelled' \in BOOLEAN,
           worker' = worker, \A w \in Workers : worker[w] = Exited
    PROVE  PoolShape' /\ AtRest' /\ Reported' /\ Represented' /\ Owed'
<1>1. PoolShape /\ WorldShape
  BY DEF RefreshInv
<1>2. PoolShape'
  <2>1. nextJob' \in 1..(BatchCount(hosts') + 1)
    BY NoBatches
  <2>2. \A w \in Workers : worker'[w].wait <= ahead'
    <3> SUFFICES ASSUME NEW w \in Workers PROVE worker'[w].wait <= ahead'
      OBVIOUS
    <3>1. worker[w].wait <= ahead /\ worker[w].wait \in Nat /\ ahead \in Nat
      BY <1>1 DEF PoolShape, WorkerRecord, WorldShape
    <3>2. QED
      BY <3>1
  <2>3. worker' \in [Workers -> WorkerRecord] /\ hosts' \subseteq Hosts
    BY <1>1 DEF PoolShape
  <2>4. results' \in Seq(Result) /\ DOMAIN outcome' = {}
    OBVIOUS
  <2>5. QED
    BY <2>1, <2>2, <2>3, <2>4 DEF PoolShape, BatchCount, Workers
<1>3. AtRest'
  BY DEF AtRest, Workers, Exited
<1>4. Reported'
  BY DEF Reported
<1>5. Represented' /\ Owed'
  BY DEF Represented, Owed
<1>6. QED
  BY <1>2, <1>3, <1>4, <1>5

LEMMA BeginKeepsInv ==
    ASSUME RefreshInv, BeginRefresh
    PROVE  RefreshInv'
<1>1. WorldShape /\ PoolShape /\ AtRest /\ Grouped
  BY DEF RefreshInv
<1>2. /\ phase = "idle" /\ zabbix' \in Inventories /\ seen' = [h \in Hosts |-> {zabbix'[h]}]
      /\ pause' = ahead /\ ahead' = ahead + MinGap /\ phase' = "pacing"
      /\ UNCHANGED <<groupIDs, members, listed, blank, hosts, nextJob, worker, results,
                     outcome, cancelled, stopped, snapshot>>
  BY DEF BeginRefresh, pool, selection, grouping
<1>3. /\ hosts' = {} /\ nextJob' = 1 /\ results' = <<>> /\ outcome' = <<>>
      /\ \A w \in Workers : worker[w] = Exited
  BY <1>1, <1>2 DEF AtRest
<1>4. ahead' \in Nat /\ ahead <= ahead' /\ pause' \in 0..ahead'
  BY <1>1, <1>2, RefresherAssumption DEF WorldShape
<1>5. zabbix' \in [Hosts -> States]
  BY <1>2, RefresherAssumption DEF States
<1>6. WorldShape'
  <2>1. seen' \in [Hosts -> SUBSET States]
    BY <1>2, <1>5
  <2>2. phase' \in Phases
    BY <1>2 DEF Phases
  <2>3. QED
    BY <1>1, <1>2, <1>4, <1>5, <2>1, <2>2 DEF WorldShape
<1>7. PoolShape' /\ AtRest' /\ Reported' /\ Represented' /\ Owed'
  <2>1. cancelled' \in BOOLEAN /\ phase' # "items"
    BY <1>1, <1>2 DEF PoolShape
  <2>2. QED
    BY <1>2, <1>3, <1>4, <2>1, RestingPool
<1>8. Watched' /\ Grouped'
  BY <1>1, <1>2 DEF Watched, Grouped
<1>9. QED
  BY <1>6, <1>7, <1>8 DEF RefreshInv

LEMMA EndKeepsInv ==
    ASSUME RefreshInv, EndRefresh,
           UNCHANGED <<zabbix, seen, ahead, stopped>>, snapshot' \in Snapshot,
           \A w \in Workers : worker[w] = Exited
    PROVE  RefreshInv'
<1>1. WorldShape
  BY DEF RefreshInv
<1>2. /\ phase' = "idle" /\ pause' = 0 /\ hosts' = {} /\ nextJob' = 1 /\ results' = <<>>
      /\ outcome' = <<>> /\ cancelled' = FALSE /\ worker' = worker
  BY DEF EndRefresh
<1>3. cancelled' \in BOOLEAN
  BY <1>2
<1>4. ahead' \in Nat /\ ahead <= ahead' /\ pause' \in 0..ahead'
  BY <1>1, <1>2 DEF WorldShape
<1>5. WorldShape'
  BY <1>1, <1>2, <1>4 DEF WorldShape, Phases
<1>6. PoolShape' /\ AtRest' /\ Reported' /\ Represented' /\ Owed'
  BY <1>2, <1>3, <1>4, RestingPool
<1>7. Watched' /\ Grouped'
  BY <1>2 DEF Watched, Grouped, EndRefresh, Nowhere
<1>8. QED
  BY <1>5, <1>6, <1>7 DEF RefreshInv

LEMMA HostsFailKeepsInv ==
    ASSUME RefreshInv, HostsFail
    PROVE  RefreshInv'
<1>1. \A w \in Workers : worker[w] = Exited
  BY DEF RefreshInv, AtRest, HostsFail
<1>2. snapshot' \in Snapshot /\ EndRefresh /\ UNCHANGED <<zabbix, seen, ahead, stopped>>
  BY DEF RefreshInv, WorldShape, HostsFail, world
<1>3. QED
  BY <1>1, <1>2, EndKeepsInv

LEMMA AskHostsKeepsInv ==
    ASSUME RefreshInv, AskHosts \/ AskHostsByGroup
    PROVE  RefreshInv'
<1>1. WorldShape /\ PoolShape /\ AtRest /\ Watched /\ Grouped /\ Reported
  BY DEF RefreshInv
<1>2. /\ phase \in {"pacing", "groups"} /\ phase' \in {"groups", "hosts"}
      /\ UNCHANGED <<zabbix, seen, ahead, pause, hosts, nextJob, worker, results, outcome,
                     cancelled, stopped, snapshot>>
  BY DEF AskHosts, AskHostsByGroup, pool, world, selection, grouping
<1>3. WorldShape'
  BY <1>1, <1>2 DEF WorldShape, Phases
<1>4. PoolShape' /\ AtRest'
  BY <1>1, <1>2 DEF PoolShape, AtRest, BatchCount, Workers, Exited
<1>5. Watched' /\ Represented' /\ Owed'
  BY <1>1, <1>2 DEF Watched, Represented, Owed
<1>6. Reported'
  <2>1. results' = <<>> /\ outcome' = <<>>
    BY <1>1, <1>2 DEF AtRest
  <2>2. QED
    BY <1>2, <2>1 DEF Reported
<1>7. Grouped'
  <2>1. CASE AskHosts
    <3>1. UNCHANGED <<groupIDs, members, listed, blank>>
      BY <2>1 DEF AskHosts, selection, grouping
    <3>2. phase = "pacing" /\ phase' = IF ByGroup THEN "groups" ELSE "hosts"
      BY <2>1 DEF AskHosts
    <3>3. listed = {}
      BY <1>1, <3>2 DEF Grouped
    <3>4. QED
      BY <1>1, <3>1, <3>3 DEF Grouped
  <2>2. CASE AskHostsByGroup
    <3>1. PICK m \in Memberships, ids \in SUBSET Groups :
            /\ members' = m /\ groupIDs' = ids
            /\ listed' = {h \in Hosts : m[h] \cap ids # {}}
      BY <2>2 DEF AskHostsByGroup
    <3>2. m \in [Hosts -> SUBSET Groups]
      BY RefresherAssumption
    <3>3. blank' \in BOOLEAN /\ phase' = "hosts"
      BY <1>1, <2>2 DEF AskHostsByGroup, Grouped
    <3>4. QED
      BY <3>1, <3>2, <3>3 DEF Grouped
  <2>3. QED
    BY <2>1, <2>2
<1>8. QED
  BY <1>3, <1>4, <1>5, <1>6, <1>7 DEF RefreshInv

\* A selection has a host for every address of an eligible host in the answer.
LEMMA SelectionsKeepAddresses ==
    ASSUME NEW answer, answer \subseteq Hosts,
           NEW s \in Selections(answer)
    PROVE  /\ s \subseteq answer
           /\ \A h \in answer : Eligible(h) =>
                \E g \in s : selectedHostIP(g) = selectedHostIP(h)
<1> DEFINE eligible == {h \in answer : Eligible(h)}
           Alike(h) == {g \in s : selectedHostIP(g) = selectedHostIP(h)}
<1>1. /\ s \subseteq eligible
      /\ \A h \in eligible : Cardinality(Alike(h)) = 1
  BY DEF Selections
<1>2. ASSUME NEW h \in answer, Eligible(h)
      PROVE  \E g \in s : selectedHostIP(g) = selectedHostIP(h)
  <2>1. Cardinality(Alike(h)) = 1
    BY <1>1, <1>2
  <2>2. Alike(h) # {}
    BY <2>1, FS_EmptySet
  <2>3. QED
    BY <2>2
<1>3. QED
  BY <1>1, <1>2

LEMMA StartKeepsInv ==
    ASSUME RefreshInv, StartBatches
    PROVE  RefreshInv'
<1> DEFINE answer == IF blank' THEN {} ELSE HostsTold
<1>1. WorldShape /\ PoolShape /\ AtRest /\ Watched /\ Grouped
  BY DEF RefreshInv
<1>2. PICK s \in Selections(answer) :
        /\ hosts' = s
        /\ worker' = [w \in Workers |->
                        IF w <= BatchCount(s) THEN At("free", 0, 0)
                        ELSE Exited]
        /\ outcome' = [b \in 1..BatchCount(s) |-> Pending]
  BY DEF StartBatches
<1>3. /\ phase = "hosts" /\ phase' = "items"
      /\ groupIDs' = {} /\ members' = Nowhere
      /\ UNCHANGED <<zabbix, seen, ahead, pause, listed, nextJob, results, cancelled,
                     stopped, snapshot>>
  BY DEF StartBatches, world
<1>4. answer \subseteq Hosts
  BY DEF HostsTold
<1> HIDE DEF answer
<1>5. /\ s \subseteq answer /\ s \subseteq Hosts
       /\ \A h \in answer : Eligible(h) =>
            \E g \in s : selectedHostIP(g) = selectedHostIP(h)
  BY <1>4, SelectionsKeepAddresses
<1>6. BatchCount(s) \in Nat
  BY <1>5, BatchesAreStretches
<1>7. nextJob = 1 /\ results = <<>>
  BY <1>1, <1>3 DEF AtRest
<1>8. /\ At("free", 0, 0) = [pc |-> "free", batch |-> 0, wait |-> 0]
      /\ Exited = [pc |-> "exited", batch |-> 0, wait |-> 0]
      /\ Pending = [is |-> "pending", items |-> {}]
  BY DEF At, Exited, Pending
<1>9. Batches' = 1..BatchCount(s) /\ Workers' = Workers
      /\ BatchCount(hosts)' = BatchCount(s)
  BY <1>2 DEF Batches, BatchCount, Workers
<1>10. WorldShape'
  BY <1>1, <1>3 DEF WorldShape, Phases
<1>11. PoolShape'
  <2>1. \A w \in Workers : worker'[w] \in WorkerRecord /\ worker'[w].wait = 0
    BY <1>2, <1>8 DEF WorkerRecord
  <2>2. worker' \in [Workers -> WorkerRecord]
    BY <1>2, <2>1
  <2>3. \A w \in Workers : worker'[w].wait <= ahead'
    BY <1>1, <1>3, <2>1 DEF WorldShape
  <2>4. \A b \in DOMAIN outcome' : outcome'[b] \in Outcome
    BY <1>2, <1>8 DEF Outcome
  <2>5. nextJob' \in 1..(BatchCount(s) + 1)
    BY <1>3, <1>6, <1>7
  <2>6. QED
    BY <1>1, <1>2, <1>3, <1>5, <1>9, <2>2, <2>3, <2>4, <2>5 DEF PoolShape
<1>12. AtRest' /\ Watched'
  BY <1>1, <1>3 DEF AtRest, Watched
<1>13. Reported'
  <2>1. DOMAIN outcome' = Batches'
    BY <1>2, <1>9
  <2>2. \A b \in DOMAIN outcome' : outcome'[b].is = "pending"
    BY <1>2, <1>8
  <2>3. \A b, r : r.is = "pending" => Told(b, r)'
    BY DEF Told
  <2>4. 1..Len(results') = {}
    BY <1>3, <1>7
  <2>5. QED
    BY <2>1, <2>2, <2>3, <2>4 DEF Reported
<1>14. Represented'
  <2> SUFFICES ASSUME NEW h \in Hosts, Eligible(h), "gone" \notin seen[h], ~blank',
                      ByGroup => h \in listed
               PROVE  \E g \in s : selectedHostIP(g) = selectedHostIP(h)
    BY <1>2, <1>3 DEF Represented
  <2>1. zabbix[h] # "gone"
    BY <1>1, <1>3 DEF Watched
  <2>2. ByGroup => members[h] \cap groupIDs # {}
    BY <1>1, <1>3 DEF Grouped
  <2>3. h \in answer
    BY <2>1, <2>2 DEF answer, HostsTold
  <2>4. QED
    BY <1>5, <2>3
<1>15. Grouped'
  <2>1. blank' \in BOOLEAN
    <3>1. blank' \in {FALSE, ByGroup /\ groupIDs # {}}
      BY DEF StartBatches
    <3>2. (ByGroup /\ groupIDs # {}) \in BOOLEAN
      BY Zenon
    <3>3. QED
      BY <3>1, <3>2, Zenon
  <2>2. members' \in [Hosts -> SUBSET Groups]
    BY <1>3 DEF Nowhere
  <2>3. QED
    BY <1>1, <1>3, <2>1, <2>2 DEF Grouped
<1>16. Owed'
  <2>1. \A b \in Batches' : nextJob' <= b
    BY <1>3, <1>6, <1>7, <1>9
  <2>2. \A w \in Workers : w <= BatchCount(s) => worker'[w].pc # "exited"
    BY <1>2, <1>8
  <2>3. QED
    BY <1>9, <2>1, <2>2 DEF Owed
<1>17. QED
  BY <1>10, <1>11, <1>12, <1>13, <1>14, <1>15, <1>16 DEF RefreshInv

LEMMA CollectKeepsInv ==
    ASSUME RefreshInv, Collect
    PROVE  RefreshInv'
<1> DEFINE r == Head(results)
           stray == r.answer.is = "stray"
           answer == IF stray THEN Failed ELSE r.answer
<1>1. WorldShape /\ PoolShape /\ Watched /\ Grouped /\ Reported /\ Represented /\ Owed
  BY DEF RefreshInv
<1>2. /\ phase = "items" /\ results # <<>> /\ results' = Tail(results)
      /\ outcome' = [outcome EXCEPT ![r.batch] = answer]
      /\ cancelled' = (cancelled \/ stray)
      /\ UNCHANGED <<zabbix, seen, ahead, phase, pause, groupIDs, members, listed, blank,
                     hosts, nextJob, worker, stopped, snapshot>>
  BY DEF Collect, world, selection, grouping
<1>3. /\ results \in Seq(Result) /\ Len(results) \in Nat /\ Len(results) >= 1
      /\ r = results[1] /\ r \in Result
      /\ Tail(results) \in Seq(Result) /\ Len(Tail(results)) = Len(results) - 1
      /\ \A n \in 1..Len(Tail(results)) : Tail(results)[n] = results[n + 1]
  <2>1. results \in Seq(Result) /\ results # <<>>
    BY <1>1, <1>2 DEF PoolShape
  <2>2. QED
    BY <2>1, HeadTailProperties, LenProperties
<1>4. /\ Failed = [is |-> "failed", items |-> {}]
      /\ r.batch \in Nat /\ r.answer \in Reply
  BY <1>3 DEF Failed, Result
<1> HIDE DEF r
<1>5. answer \in Outcome /\ answer.is # "pending"
  BY <1>4 DEF Reply, Outcome
<1>6. Told(r.batch, answer)
  <2>1. Told(r.batch, r.answer)
    BY <1>1, <1>3 DEF Reported
  <2>2. QED
    BY <1>4, <2>1 DEF Told
<1>7. cancelled' \in BOOLEAN
  BY <1>2
<1> HIDE DEF answer
<1>8. /\ DOMAIN outcome' = DOMAIN outcome
      /\ \A b \in DOMAIN outcome : outcome'[b] = IF b = r.batch THEN answer ELSE outcome[b]
  BY <1>2
<1>9. WorldShape'
  BY <1>1, <1>2 DEF WorldShape
<1>10. PoolShape'
  <2>1. \A b \in DOMAIN outcome' : outcome'[b] \in Outcome
    BY <1>1, <1>5, <1>8 DEF PoolShape
  <2>2. QED
    BY <1>1, <1>2, <1>3, <1>7, <2>1 DEF PoolShape, BatchCount, Workers
<1>11. AtRest' /\ Watched' /\ Grouped' /\ Represented'
  BY <1>1, <1>2 DEF AtRest, Watched, Grouped, Represented
<1>12. \A b \in Batches : b \in DOMAIN outcome
  BY <1>1, <1>2 DEF Reported
<1>13. Reported'
  <2>1. \A b, x : Told(b, x) => Told(b, x)'
    BY <1>1, <1>2, ToldStays DEF PoolShape
  <2>2. \A b \in DOMAIN outcome' : Told(b, outcome'[b])
    BY <1>1, <1>6, <1>8 DEF Reported
  <2>3. \A n \in 1..Len(results') : Told(results'[n].batch, results'[n].answer)
    <3> SUFFICES ASSUME NEW n \in 1..Len(Tail(results))
                 PROVE  Told(Tail(results)[n].batch, Tail(results)[n].answer)
      BY <1>2
    <3>1. n + 1 \in 1..Len(results) /\ Tail(results)[n] = results[n + 1]
      BY <1>3
    <3>2. QED
      BY <1>1, <3>1 DEF Reported
  <2>4. DOMAIN outcome' = Batches'
    BY <1>1, <1>2, <1>8 DEF Reported, Batches, BatchCount
  <2>5. QED
    BY <2>1, <2>2, <2>3, <2>4 DEF Reported
<1>14. Owed'
  <2>1. /\ Batches' = Batches /\ Workers' = Workers
        /\ BatchCount(hosts)' = BatchCount(hosts)
    BY <1>2 DEF Batches, BatchCount, Workers
  <2>2. ASSUME NEW b \in Batches, outcome'[b].is = "pending"
        PROVE  \/ nextJob <= b
               \/ \E w \in Workers : Held(worker[w], b)
               \/ \E n \in 1..Len(results') : results'[n].batch = b
    <3>1. b # r.batch /\ outcome[b].is = "pending"
      BY <1>5, <1>8, <1>12, <2>2
    <3>2. CASE \E n \in 1..Len(results) : results[n].batch = b
      <4>1. PICK n \in 1..Len(results) : results[n].batch = b
        BY <3>2
      <4>2. n # 1
        BY <1>3, <3>1, <4>1
      <4>3. n - 1 \in 1..Len(Tail(results)) /\ (n - 1) + 1 = n
        BY <1>3, <4>1, <4>2
      <4>4. Tail(results)[n - 1] = results[n]
        BY <1>3, <4>3
      <4>5. QED
        BY <1>2, <4>1, <4>3, <4>4
    <3>3. QED
      BY <1>1, <1>2, <3>1, <3>2 DEF Owed
  <2>3. QED
    BY <1>1, <1>2, <2>1, <2>2 DEF Owed, Held
<1>15. QED
  BY <1>9, <1>10, <1>11, <1>13, <1>14 DEF RefreshInv

\* What Publish hands to the store.
Collected == UNION {outcome[b].items : b \in Batches}

\* Of each host it has what the answer for its batch said.
LEMMA CollectedTells ==
    ASSUME RefreshInv, phase = "items",
           Complete, ~Refused
    PROVE  /\ Collected \subseteq Item
           /\ \A h \in hosts : StateOf(h, Collected)
<1>1. PoolShape /\ Reported /\ hosts \subseteq Hosts /\ DOMAIN outcome = Batches
  BY DEF RefreshInv, PoolShape, Reported
<1>2. \A b \in Batches : outcome[b] \in Outcome /\ outcome[b].is = "items"
  <2> SUFFICES ASSUME NEW b \in Batches
               PROVE  outcome[b] \in Outcome /\ outcome[b].is = "items"
    OBVIOUS
  <2>1. outcome[b] \in Outcome
    BY <1>1 DEF PoolShape
  <2>2. /\ b \notin Tally("pending") /\ b \notin Tally("failed")
        /\ b \notin Tally("twice")
    BY DEF Complete, Refused
  <2>3. QED
    BY <1>1, <2>1, <2>2 DEF Tally, Outcome
<1>3. \A b \in Batches :
        /\ outcome[b].items \subseteq Item
        /\ \A i \in outcome[b].items : i.host \in Batch(b, hosts)
        /\ \A h \in Batch(b, hosts) : StateOf(h, outcome[b].items)
  BY <1>1, <1>2 DEF Reported, Told, Outcome
<1>4. Collected \subseteq Item
  BY <1>3 DEF Collected
<1>5. BatchCount(hosts) \in Nat
  BY <1>1, BatchesAreStretches
<1>6. ASSUME NEW h \in hosts PROVE StateOf(h, Collected)
  <2>1. /\ \E b \in 1..BatchCount(hosts) : h \in Batch(b, hosts)
        /\ \A b, c \in Int :
             h \in Batch(b, hosts) /\ h \in Batch(c, hosts) => b = c
    BY <1>1, BatchesPartition
  <2>2. PICK b \in Batches : h \in Batch(b, hosts)
    BY <2>1 DEF Batches
  <2>3. \A c \in Batches : c \in Int
    BY <1>5 DEF Batches
  <2>4. \A i : i \in Collected /\ i.host = h <=> i \in outcome[b].items /\ i.host = h
    <3>1. ASSUME NEW i \in Collected, i.host = h PROVE i \in outcome[b].items
      <4>1. PICK c \in Batches : i \in outcome[c].items
        BY DEF Collected
      <4>2. h \in Batch(c, hosts)
        BY <1>3, <3>1, <4>1
      <4>3. c = b
        BY <2>1, <2>2, <2>3, <4>2
      <4>4. QED
        BY <4>1, <4>3
    <3>2. ASSUME NEW i \in outcome[b].items PROVE i \in Collected
      BY DEF Collected
    <3>3. QED
      BY <3>1, <3>2
  <2>5. {i \in Collected : i.host = h} = {i \in outcome[b].items : i.host = h}
    BY <2>4
  <2>6. StateOf(h, outcome[b].items)
    BY <1>3, <2>2
  <2>7. QED
    BY <2>5, <2>6 DEF StateOf
<1>7. QED
  BY <1>4, <1>6

LEMMA DecisionKeepsInv ==
    ASSUME RefreshInv, Discard \/ Publish
    PROVE  RefreshInv'
<1>1. /\ phase = "items" /\ Complete /\ EndRefresh
      /\ UNCHANGED <<zabbix, seen, ahead, stopped>>
  BY DEF Discard, Publish, world
<1>2. \A w \in Workers : worker[w] = Exited
  BY <1>1 DEF Complete, AllJoined
<1>3. snapshot' \in Snapshot
  <2>1. CASE Discard
    BY <2>1 DEF Discard, RefreshInv, WorldShape
  <2>2. CASE Publish
    <3>1. snapshot' = [hosts |-> hosts, items |-> Collected] /\ ~Refused
      BY <2>2 DEF Publish, Collected
    <3>2. Collected \subseteq Item
      BY <1>1, <3>1, CollectedTells
    <3>3. QED
      BY <3>1, <3>2 DEF Snapshot, RefreshInv, PoolShape
  <2>3. QED
    BY <2>1, <2>2
<1>4. QED
  BY <1>1, <1>2, <1>3, EndKeepsInv

LEMMA RefreshStutters ==
    ASSUME RefreshInv, UNCHANGED vars
    PROVE  RefreshInv'
<1>1. WorldShape /\ PoolShape /\ AtRest /\ Watched /\ Grouped /\ Represented /\ Owed
  BY DEF RefreshInv
<1>2. UNCHANGED <<zabbix, seen, ahead, phase, pause, groupIDs, members, listed, blank, hosts,
                  nextJob, worker, results, outcome, cancelled, stopped, snapshot>>
  BY DEF vars, pool, world, selection, grouping
<1>3. WorldShape' /\ PoolShape' /\ AtRest'
  BY <1>1, <1>2 DEF WorldShape, PoolShape, AtRest, BatchCount, Workers,
                    Exited
<1>4. Watched' /\ Grouped' /\ Represented' /\ Owed'
  BY <1>1, <1>2 DEF Watched, Grouped, Represented, Owed, BatchCount, Batches,
                    Workers, Held
<1>5. Reported'
  BY <1>2, HistoryKeepsReported
<1>6. QED
  BY <1>3, <1>4, <1>5 DEF RefreshInv

LEMMA RefreshInvariance ==
    Spec => []RefreshInv
<1>1. ASSUME RefreshInv, [Next]_vars PROVE RefreshInv'
  <2>1. CASE BeginRefresh
    BY <1>1, <2>1, BeginKeepsInv
  <2>2. CASE HostsFail
    BY <1>1, <2>2, HostsFailKeepsInv
  <2>3. CASE AskHosts \/ AskHostsByGroup
    BY <1>1, <2>3, AskHostsKeepsInv
  <2>4. CASE StartBatches
    BY <1>1, <2>4, StartKeepsInv
  <2>5. CASE Collect
    BY <1>1, <2>5, CollectKeepsInv
  <2>6. CASE Discard \/ Publish
    BY <1>1, <2>6, DecisionKeepsInv
  <2>7. CASE Tick
    BY <1>1, <2>7, TickKeepsInv
  <2>8. CASE Stop
    BY <1>1, <2>8, StopKeepsInv
  <2>9. CASE \E w \in Workers : WorkerStep(w)
    BY <1>1, <2>9, WorkersKeepInv
  <2>10. CASE \E h \in Hosts : Change(h) \/ Move(h)
    BY <1>1, <2>10, ChangeKeepsInv, MoveKeepsInv
  <2>11. CASE UNCHANGED vars
    BY <1>1, <2>11, RefreshStutters
  <2>12. QED
    BY <1>1, <2>1, <2>2, <2>3, <2>4, <2>5, <2>6, <2>7, <2>8, <2>9, <2>10, <2>11
    DEF Next, RefreshStep
<1>2. Init => RefreshInv
  BY InitRefresh
<1>3. QED
  BY <1>1, <1>2, PTL DEF Spec

-----------------------------------------------------------------------------
(* The theorems about the refresher.                                       *)

LEMMA InvGivesTypes ==
    ASSUME RefreshInv
    PROVE  TypeOK
<1>1. /\ WorldShape /\ PoolShape /\ AtRest /\ Grouped /\ Reported
      /\ hosts \subseteq Hosts
  BY DEF RefreshInv, PoolShape
<1>2. nextJob \in 1..(Cardinality(Hosts) + 1)
  <2>1. /\ BatchCount(hosts) \in Nat /\ BatchCount(hosts) <= Cardinality(hosts)
        /\ Cardinality(hosts) <= Cardinality(Hosts) /\ Cardinality(Hosts) \in Nat
        /\ Cardinality(hosts) \in Nat
    BY <1>1, BatchesAreStretches
  <2>2. nextJob \in 1..(BatchCount(hosts) + 1)
    BY <1>1 DEF PoolShape
  <2>3. nextJob \in 1..(Cardinality(Hosts) + 1)
    BY <2>1, <2>2
  <2>4. QED
    BY <2>3
<1>3. \A w \in Workers :
        /\ worker[w].pc \in {"free", "checked", "waiting", "asking", "failing", "exited"}
        /\ worker[w].wait \in 0..ahead
        /\ phase # "items" => worker[w] = Exited
  <2> SUFFICES ASSUME NEW w \in Workers
               PROVE  /\ worker[w].pc \in {"free", "checked", "waiting", "asking", "failing", "exited"}
                      /\ worker[w].wait \in 0..ahead
                      /\ phase # "items" => worker[w] = Exited
    OBVIOUS
  <2>1. worker[w] \in WorkerRecord /\ worker[w].wait <= ahead
    BY <1>1 DEF PoolShape
  <2>2. /\ worker[w].pc \in {"free", "checked", "waiting", "asking", "failing", "exited"}
        /\ worker[w].wait \in 0..ahead
    BY <1>1, <2>1 DEF WorkerRecord, WorldShape
  <2>3. QED
    BY <1>1, <2>2 DEF AtRest
<1>4. phase # "items" => DOMAIN outcome = {}
  BY <1>1 DEF AtRest
<1>5. \A b \in DOMAIN outcome :
        /\ outcome[b] \in Outcome
        /\ Cardinality(Batch(b, hosts)) \in 1..BatchHosts
  <2> SUFFICES ASSUME NEW b \in DOMAIN outcome
               PROVE  /\ outcome[b] \in Outcome
                      /\ Cardinality(Batch(b, hosts)) \in 1..BatchHosts
    OBVIOUS
  <2>1. outcome[b] \in Outcome
    BY <1>1 DEF PoolShape
  <2>2. b \in 1..BatchCount(hosts)
    BY <1>1, <1>4 DEF Reported, Batches
  <2>3. Cardinality(Batch(b, hosts)) \in 1..BatchHosts
    BY <1>1, <2>2, BatchSizes
  <2>4. QED
    BY <2>1, <2>3
<1>6. UNION {Batch(b, hosts) : b \in DOMAIN outcome} \in {hosts, {}}
  <2>1. CASE phase # "items"
    BY <1>4, <2>1
  <2>2. CASE phase = "items"
    <3>1. DOMAIN outcome = 1..BatchCount(hosts)
      BY <1>1, <2>2 DEF Reported, Batches
    <3>2. \A h \in hosts : \E b \in DOMAIN outcome : h \in Batch(b, hosts)
      BY <1>1, <3>1, BatchesPartition
    <3>3. \A b \in DOMAIN outcome : Batch(b, hosts) \subseteq hosts
      BY DEF Batch
    <3>4. UNION {Batch(b, hosts) : b \in DOMAIN outcome} = hosts
      BY <3>2, <3>3
    <3>5. QED
      BY <3>4
  <2>3. QED
    BY <2>1, <2>2
<1>7. snapshot.hosts \subseteq Hosts /\ snapshot.items \subseteq Item
  BY <1>1 DEF WorldShape, Snapshot
<1>8. QED
  BY <1>1, <1>2, <1>3, <1>5, <1>6, <1>7
  DEF TypeOK, WorldShape, PoolShape, Grouped, Phases

\* Whatever Zabbix answers, however many hosts, batches and workers there are: the types
\* of the refresher; its batches are a partition of the selected hosts into batches
\* of 1 to BatchHosts (splitStrings); and a refresh that has returned leaves no worker
\* behind (workers.Wait), whatever failed and whenever the pipeline was stopped.
THEOREM RefresherTypes ==
    Spec => []TypeOK
<1>1. RefreshInv => TypeOK
  BY InvGivesTypes
<1>2. QED
  BY <1>1, RefreshInvariance, PTL

\* Only Publish changes the snapshot, and what it publishes was told.
LEMMA SnapshotsAreTold ==
    ASSUME RefreshInv, [Next]_vars, snapshot' # snapshot
    PROVE  /\ snapshot' = [hosts |-> hosts, items |-> Collected]
           /\ \A h \in hosts : StateOf(h, Collected)
           /\ phase = "items"
<1>1. Publish
  <2>1. ~(\E w \in Workers : WorkerStep(w))
    BY WorkersKeepInv DEF Frame
  <2>2. ~(\E h \in Hosts : Change(h) \/ Move(h))
    BY DEF Change, Move
  <2>3. /\ ~BeginRefresh /\ ~Tick /\ ~Stop /\ ~HostsFail
        /\ ~AskHosts /\ ~AskHostsByGroup /\ ~StartBatches
        /\ ~Collect /\ ~Discard /\ ~UNCHANGED vars
    BY DEF BeginRefresh, Tick, Stop, HostsFail, AskHosts,
           AskHostsByGroup, StartBatches, Collect, Discard,
           vars
  <2>4. QED
    BY <2>1, <2>2, <2>3 DEF Next, RefreshStep
<1>2. /\ phase = "items" /\ Complete /\ ~Refused
      /\ snapshot' = [hosts |-> hosts, items |-> Collected]
  BY <1>1 DEF Publish, Collected
<1>3. QED
  BY <1>2, CollectedTells

\* Refresh publishes all or nothing, in every execution: a published snapshot has, for
\* each of its hosts, exactly what Zabbix had at some moment of this refresh; a failed,
\* skipped or cancelled batch, an answer with an item twice or with a stray item is
\* never published (refresher.go:121).
THEOREM PublishesAllOrNothing ==
    Spec => AllOrNothing
<1>1. ASSUME RefreshInv, [Next]_vars, snapshot' # snapshot,
             NEW h \in snapshot'.hosts
      PROVE  LET items == {i \in snapshot'.items : i.host = h}
             IN \/ items = {} /\ "gone" \in seen[h]
                \/ \E s \in seen[h] : items = {[host |-> h, state |-> s]}
  <2>1. snapshot' = [hosts |-> hosts, items |-> Collected] /\ \A g \in hosts : StateOf(g, Collected)
    BY <1>1, SnapshotsAreTold
  <2>2. h \in hosts /\ snapshot'.items = Collected
    BY <1>1, <2>1
  <2>3. StateOf(h, snapshot'.items)
    BY <2>1, <2>2
  <2>4. QED
    BY <2>3 DEF StateOf
<1>2. RefreshInv /\ [Next]_vars =>
        [snapshot' # snapshot =>
           \A h \in snapshot'.hosts :
             LET items == {i \in snapshot'.items : i.host = h}
             IN \/ items = {} /\ "gone" \in seen[h]
                \/ \E s \in seen[h] : items = {[host |-> h, state |-> s]}]_vars
  BY <1>1
<1>3. QED
  BY <1>2, RefreshInvariance, PTL DEF Spec, AllOrNothing

\* For every list of interfaces, batch size and number of workers: no host is lost between
\* one answer and the next (GetHosts and splitStrings drop nothing but hosts that share
\* an address).  The address of an eligible host that Zabbix had during the whole refresh
\* is among those of the published hosts.  With host groups configured this is promised
\* for a host that was in one of the named groups from hostgroup.get to host.get, when
\* host.get had a result; GetHosts, which asks for the groups first (app.go:110-120),
\* loses a host that is moved to a new group in between.
THEOREM PublishesEveryAddress ==
    Spec => AddressesKept
<1>1. ASSUME RefreshInv, [Next]_vars, snapshot' # snapshot, ~blank,
             NEW h \in Hosts, Eligible(h), "gone" \notin seen[h], ByGroup => h \in listed
      PROVE  \E g \in snapshot'.hosts : selectedHostIP(g) = selectedHostIP(h)
  <2>1. snapshot'.hosts = hosts /\ phase = "items"
    BY <1>1, SnapshotsAreTold
  <2>2. QED
    BY <1>1, <2>1 DEF RefreshInv, Represented
<1>2. RefreshInv /\ [Next]_vars =>
        [snapshot' # snapshot /\ ~blank =>
           \A h \in Hosts :
             Eligible(h) /\ "gone" \notin seen[h] /\ (ByGroup => h \in listed) =>
               \E g \in snapshot'.hosts :
                 selectedHostIP(g) = selectedHostIP(h)]_vars
  BY <1>1
<1>3. QED
  BY <1>2, RefreshInvariance, PTL DEF Spec, AddressesKept

\* Once every worker has left and the results are collected, no batch is without an
\* outcome: getItemBatches never waits for a result that nobody will send, neither after a
\* failure that cancels the others nor when the pipeline stops.  This is the safe half
\* of RefreshEnds.
THEOREM NoBatchIsForgotten ==
    Spec => [](phase = "items" /\ AllJoined /\ results = <<>> => Tally("pending") = {})
<1>1. ASSUME RefreshInv, phase = "items", AllJoined, results = <<>>
      PROVE  Tally("pending") = {}
  <2> SUFFICES ASSUME NEW b \in DOMAIN outcome, outcome[b].is = "pending" PROVE FALSE
    BY DEF Tally
  <2>1. /\ Reported /\ Owed /\ hosts \subseteq Hosts /\ b \in Batches
        /\ nextJob \in 1..(BatchCount(hosts) + 1)
    BY <1>1 DEF RefreshInv, PoolShape, Reported
  <2>2. \A w \in Workers : worker[w].pc = "exited"
    BY <1>1 DEF AllJoined, Exited, At
  <2>3. ~(\E w \in Workers : Held(worker[w], b))
    BY <2>2 DEF Held
  <2>4. Len(results) = 0 /\ nextJob <= b
    BY <1>1, <2>1, <2>3 DEF Owed
  <2>5. BatchCount(hosts) \in Nat
    BY <2>1, BatchesAreStretches
  <2>6. nextJob \in Batches /\ 1 <= BatchCount(hosts)
    BY <2>1, <2>4, <2>5 DEF Batches
  <2>7. 1 \in Workers
    BY RefresherAssumption DEF Workers
  <2>8. worker[1].pc # "exited"
    BY <1>1, <2>1, <2>6, <2>7 DEF Owed
  <2>9. QED
    BY <2>2, <2>7, <2>8
<1>2. QED
  BY <1>1, RefreshInvariance, PTL
=============================================================================
