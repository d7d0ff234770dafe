---------------------------- MODULE PollingProofs ----------------------------
(***************************************************************************)
(* Safety of the trace page's polling for any number of keys, versions and *)
(* activations.                                                            *)
(***************************************************************************)
EXTENDS RunPolling, TLAPS

-----------------------------------------------------------------------------
(* The inductive invariant *)

\* A timer of a request, or a queued refresh, has a request to wait for, and the
\* request of an activation that is over has been aborted.
Waits(h) ==
    /\ h.requestTimer \/ h.queued # "none" => h.inFlight # NoRequest
    /\ ~h.inFlight.aborted => h.active

\* A response speaks of the run of its activation, as the server had it.
Told(h) ==
    h.inFlight.answer \in View =>
      h.inFlight.answer.of = h.key /\ h.inFlight.answer.version <= server[h.key]

\* Only the last activation is live, and the page keeps the state of its key.
LastIsLive ==
    \A a \in Activation : hooks[a].active =>
      a = acts /\ hooks[a].key = serverState.key

\* What the page keeps is a state of its key that the server has reached, and a
\* response that a live activation waits for is not older.
KeptForward ==
    serverState.run \in View =>
      /\ serverState.run.of = serverState.key
      /\ serverState.run.version <= server[serverState.key]
      /\ \A a \in Activation :
           hooks[a].active /\ hooks[a].inFlight.answer \in View
             => hooks[a].inFlight.answer.version >= serverState.run.version

PollingInv ==
    /\ TypeOK
    /\ \A a \in Activation : Waits(hooks[a]) /\ Told(hooks[a])
    /\ LastIsLive /\ KeptForward /\ PollsWhileLive

-----------------------------------------------------------------------------
(* The closure of one activation *)

Quiet(h) ==
    h.pollTimer \/ (~h.inFlight.aborted /\ ~h.inFlight.manual)
      => h.active /\ ~h.expired /\ ~h.terminal

Continues(h) ==
    h.active /\ ~h.expired /\ ~h.terminal /\ ~h.late
      => h.pollTimer \/ h.inFlight # NoRequest

Sound(h) == h \in Hook /\ Waits(h) /\ Quiet(h) /\ Continues(h)

\* What a closure never changes of itself except at its end.
Same(h, i) ==
    /\ i.key = h.key /\ i.active = h.active /\ i.expired = h.expired
    /\ i.terminal = h.terminal /\ i.late = h.late

LEMMA Responses ==
    /\ NoView \notin View /\ Failed \notin View /\ Pending \notin View
    /\ NoView # Failed /\ NoView # Pending /\ Failed # Pending
  <1>1. /\ NoView.of = NoKey /\ Failed.of = NoKey /\ Pending.of = NoKey
        /\ NoView.version = 0 /\ Failed.version = 1 /\ Pending.version = 2
    BY DEF NoView, Failed, Pending
  <1>2. \A v \in View : v.of \in Key
    BY DEF View
  <1> QED
    BY <1>1, <1>2, PollingAssumption

LEMMA Requests ==
    /\ NoRequest.aborted = TRUE /\ NoRequest.manual = FALSE /\ NoRequest.answer = NoView
    /\ \A r \in Request : r # NoRequest
  <1>1. /\ NoRequest.aborted = TRUE /\ NoRequest.manual = FALSE /\ NoRequest.answer = NoView
    BY DEF NoRequest
  <1>2. \A r \in Request : r.answer \in View \cup {Failed, Pending}
    BY DEF Request
  <1> QED
    BY <1>1, <1>2, Responses

LEMMA IssueFields ==
    ASSUME NEW h \in Hook, NEW manual \in BOOLEAN
    PROVE  LET i == Issue(h, manual) IN
           /\ i \in Hook /\ Same(h, i) /\ i.queued = h.queued
           /\ i.pollTimer = (h.pollTimer /\ ~manual)
           /\ i.inFlight # NoRequest
           /\ i.inFlight.manual = manual /\ i.inFlight.answer = Pending
  <1> DEFINE r == [manual |-> manual, aborted |-> FALSE, answer |-> Pending]
  <1>1. r \in Request /\ r.manual = manual /\ r.answer = Pending
    BY DEF Request
  <1>2. r # NoRequest
    BY <1>1, Requests
  <1> DEFINE poll == h.pollTimer /\ ~manual
             timer == h.requestTimer \/ manual
             i == [h EXCEPT !.pollTimer = poll, !.requestTimer = timer, !.inFlight = r]
  <1>3. poll \in BOOLEAN /\ timer \in BOOLEAN /\ Issue(h, manual) = i
    BY DEF Issue, Hook
  <1> HIDE DEF r, poll, timer
  <1>4. /\ i \in Hook /\ i.pollTimer = poll /\ i.requestTimer = timer /\ i.inFlight = r
        /\ i.queued = h.queued
    BY <1>1, <1>3 DEF Hook
  <1>5. Same(h, i)
    BY DEF Hook, Same
  <1> HIDE DEF i
  <1> QED
    BY <1>1, <1>2, <1>3, <1>4, <1>5 DEF poll

\* A step of the closure brings no response with it.
NoNews(h, i) == i.inFlight.answer \in View => i.inFlight.answer = h.inFlight.answer

\* A live closure polls, or a refresh is asked for: a request is under way.
LEMMA ExecuteSound ==
    ASSUME NEW h \in Hook, NEW manual \in BOOLEAN, h.active,
           Quiet(h), h.requestTimer => h.inFlight # NoRequest,
           ~manual => ~h.expired /\ ~h.terminal
    PROVE  LET i == Execute(h, manual) IN
           Sound(i) /\ Same(h, i) /\ NoNews(h, i)
  <1> DEFINE i == Execute(h, manual)
  <1>1. CASE h.inFlight = NoRequest
    <2> DEFINE j == Issue(h, manual)
    <2>1. i = j
      BY <1>1 DEF Execute
    <2>2. /\ j \in Hook /\ Same(h, j) /\ j.pollTimer = (h.pollTimer /\ ~manual)
          /\ j.inFlight # NoRequest
          /\ j.inFlight.manual = manual /\ j.inFlight.answer = Pending
      BY IssueFields
    <2> HIDE DEF i, j
    <2>3. Sound(j) /\ NoNews(h, j)
      BY <2>2, Responses DEF Sound, Waits, Quiet, Continues, NoNews, Same
    <2> QED
      BY <2>1, <2>2, <2>3 DEF i
  <1>2. CASE h.inFlight # NoRequest
    <2> DEFINE q == IF manual /\ h.queued = "none" THEN "waiting" ELSE h.queued
               j == [h EXCEPT !.queued = q]
    <2>1. i = j /\ q \in {"none", "waiting", "running"}
      BY <1>2 DEF Execute, Hook
    <2> HIDE DEF q
    <2>2. /\ j \in Hook /\ j.inFlight = h.inFlight /\ j.pollTimer = h.pollTimer
          /\ j.requestTimer = h.requestTimer
      BY <2>1 DEF Hook
    <2>3. Same(h, j)
      BY DEF Hook, Same
    <2> HIDE DEF i, j
    <2>4. Sound(j) /\ NoNews(h, j)
      BY <1>2, <2>2, <2>3 DEF Sound, Waits, Quiet, Continues, NoNews, Same
    <2> QED
      BY <2>1, <2>3, <2>4 DEF i
  <1> QED
    BY <1>1, <1>2

\* The poll timer is set exactly when the polling is to go on.
LEMMA ScheduleAutoSound ==
    ASSUME NEW h \in Hook, h.inFlight = NoRequest, h.queued = "none", ~h.requestTimer
    PROVE  LET i == ScheduleAuto(h) IN
           Sound(i) /\ Same(h, i) /\ NoNews(h, i)
  <1> DEFINE on == h.active /\ ~h.expired /\ ~h.terminal /\ h.queued = "none" /\ ~h.late
             i == [h EXCEPT !.pollTimer = on]
  <1>1. ScheduleAuto(h) = i /\ on \in BOOLEAN
    BY DEF ScheduleAuto
  <1>2. on <=> h.active /\ ~h.expired /\ ~h.terminal /\ ~h.late
    OBVIOUS
  <1> HIDE DEF on
  <1>3. /\ i \in Hook /\ i.inFlight = h.inFlight /\ i.pollTimer = on
        /\ i.requestTimer = h.requestTimer /\ i.queued = h.queued
    BY <1>1 DEF Hook
  <1>4. Same(h, i)
    BY DEF Hook, Same
  <1> HIDE DEF i
  <1>5. Sound(i) /\ NoNews(h, i)
    BY <1>2, <1>3, <1>4, Requests DEF Sound, Waits, Quiet, Continues, NoNews, Same
  <1> QED
    BY <1>1, <1>4, <1>5

\* After a request has come to its end.
LEMMA FinishedSound ==
    ASSUME NEW h \in Hook, h.pollTimer => h.active /\ ~h.expired /\ ~h.terminal
    PROVE  LET i == Finished(h) IN
           Sound(i) /\ Same(h, i) /\ i.inFlight.answer \notin View
  <1> DEFINE g == [h EXCEPT !.requestTimer = FALSE, !.inFlight = NoRequest]
             i == Finished(h)
  <1>1. /\ g \in Hook /\ g.inFlight = NoRequest /\ ~g.requestTimer
        /\ g.queued = h.queued /\ g.pollTimer = h.pollTimer
    BY DEF Hook
  <1>2. Same(h, g)
    BY DEF Hook, Same
  <1>3. i = Afterwards(g)
    BY DEF Finished
  <1> HIDE DEF g, i
  <1>4. Quiet(g) /\ g.inFlight.answer \notin View
    BY <1>1, <1>2, Requests, Responses DEF Quiet, Same
  <1>5. CASE g.queued = "none"
    <2>1. i = ScheduleAuto(g)
      BY <1>3, <1>5 DEF Afterwards
    <2>2. Sound(i) /\ Same(g, i) /\ NoNews(g, i)
      BY <1>1, <1>5, <2>1, ScheduleAutoSound
    <2> QED
      BY <1>2, <1>4, <2>2 DEF Same, NoNews, i
  <1>6. CASE g.queued # "none" /\ (g.queued = "running" \/ ~g.active)
    <2> DEFINE j == [g EXCEPT !.queued = "none"]
    <2>1. /\ j \in Hook /\ j.inFlight = NoRequest /\ ~j.requestTimer
          /\ j.queued = "none" /\ j.pollTimer = g.pollTimer
      BY <1>1 DEF Hook
    <2>2. Same(g, j)
      BY <1>1 DEF Hook, Same
    <2>3. i = (IF g.queued = "running" THEN ScheduleAuto(j) ELSE j)
      BY <1>3, <1>6 DEF Afterwards
    <2> HIDE DEF j
    <2>4. CASE g.queued = "running"
      <3>1. Sound(i) /\ Same(j, i) /\ NoNews(j, i)
        BY <2>1, <2>3, <2>4, ScheduleAutoSound
      <3> QED
        BY <1>1, <1>2, <1>4, <2>1, <2>2, <3>1 DEF Same, NoNews, i
    <2>5. CASE g.queued # "running"
      <3>1. i = j /\ ~g.active
        BY <1>6, <2>3, <2>5
      <3>2. Sound(j)
        BY <1>1, <1>4, <2>1, <2>2, <3>1, Requests DEF Sound, Waits, Quiet, Continues, Same
      <3> QED
        BY <1>1, <1>2, <1>4, <2>1, <2>2, <3>1, <3>2 DEF Same, i
    <2> QED
      BY <2>4, <2>5
  <1>7. CASE g.queued = "waiting" /\ g.active
    <2> DEFINE j == [g EXCEPT !.queued = "running"]
    <2>1. /\ j \in Hook /\ j.inFlight = NoRequest /\ ~j.requestTimer
          /\ j.pollTimer = g.pollTimer
      BY <1>1 DEF Hook
    <2>2. Same(g, j)
      BY <1>1 DEF Hook, Same
    <2>3. i = Execute(j, TRUE)
      BY <1>3, <1>7 DEF Afterwards
    <2> HIDE DEF j
    <2>4. j.active /\ Quiet(j)
      BY <1>1, <1>4, <1>7, <2>1, <2>2 DEF Quiet, Same
    <2>5. Sound(i) /\ Same(j, i) /\ NoNews(j, i)
      BY <2>1, <2>3, <2>4, ExecuteSound
    <2> QED
      BY <1>1, <1>2, <1>4, <2>1, <2>2, <2>5 DEF Same, NoNews, i
  <1> QED
    BY <1>1, <1>5, <1>6, <1>7 DEF Hook

LEMMA AbortFields ==
    ASSUME NEW h \in Hook
    PROVE  LET i == Abort(h) IN
           /\ i \in Hook /\ Same(h, i)
           /\ i.pollTimer = h.pollTimer /\ i.requestTimer = h.requestTimer
           /\ i.queued = h.queued
           /\ i.inFlight.aborted = TRUE /\ i.inFlight.answer = h.inFlight.answer
           /\ i.inFlight = NoRequest <=> h.inFlight = NoRequest
  <1>1. CASE h.inFlight = NoRequest
    BY <1>1, Requests DEF Abort, Same
  <1>2. CASE h.inFlight # NoRequest
    <2> DEFINE r == [h.inFlight EXCEPT !.aborted = TRUE]
               i == [h EXCEPT !.inFlight = r]
    <2>1. h.inFlight \in Request
      BY <1>2 DEF Hook
    <2>2. r \in Request /\ r.aborted = TRUE /\ r.answer = h.inFlight.answer
      BY <2>1 DEF Request
    <2>3. Abort(h) = i
      BY <1>2 DEF Abort
    <2> HIDE DEF r
    <2>4. /\ i \in Hook /\ i.pollTimer = h.pollTimer /\ i.requestTimer = h.requestTimer
          /\ i.queued = h.queued /\ i.inFlight = r
      BY <2>2 DEF Hook
    <2>5. Same(h, i)
      BY DEF Hook, Same
    <2>6. r # NoRequest
      BY <2>2, Requests
    <2> HIDE DEF i
    <2> QED
      BY <1>2, <2>2, <2>3, <2>4, <2>5, <2>6
  <1> QED
    BY <1>1, <1>2

\* The end of an activation leaves an aborted request at most.
LEMMA CleanedUpSound ==
    ASSUME NEW h \in Hook, Waits(h)
    PROVE  LET i == CleanedUp(h) IN
           Sound(i) /\ i.key = h.key /\ ~i.active /\ NoNews(h, i)
  <1> DEFINE r == Abort(h).inFlight
             i == CleanedUp(h)
  <1>1. /\ r \in Request \cup {NoRequest} /\ r.aborted = TRUE
        /\ r.answer = h.inFlight.answer /\ (r = NoRequest <=> h.inFlight = NoRequest)
    <2>1. Abort(h) \in Hook /\ r.aborted = TRUE /\ r.answer = h.inFlight.answer
          /\ (r = NoRequest <=> h.inFlight = NoRequest)
      BY AbortFields
    <2> QED
      BY <2>1 DEF Hook
  <1> HIDE DEF r
  <1>2. /\ i \in Hook /\ i.key = h.key /\ i.active = FALSE /\ i.inFlight = r
        /\ i.queued = h.queued /\ i.pollTimer = FALSE /\ i.requestTimer = FALSE
    BY <1>1 DEF Hook, CleanedUp, Unused, Fresh, r
  <1> HIDE DEF i
  <1> QED
    BY <1>1, <1>2 DEF Sound, Waits, Quiet, Continues, NoNews, i

LEMMA FreshFields ==
    ASSUME NEW k \in Key \cup {NoKey}
    PROVE  /\ Fresh(k) \in Hook /\ Fresh(k).active /\ Fresh(k).key = k
           /\ ~Fresh(k).expired /\ ~Fresh(k).terminal /\ ~Fresh(k).pollTimer
           /\ ~Fresh(k).requestTimer /\ Fresh(k).inFlight = NoRequest
           /\ Fresh(k).queued = "none"
  BY DEF Fresh, Hook

LEMMA UnusedSound ==
    Sound(Unused) /\ ~Unused.active /\ Unused.inFlight = NoRequest
  <1>1. /\ Unused \in Hook /\ ~Unused.active /\ ~Unused.pollTimer /\ ~Unused.requestTimer
        /\ Unused.inFlight = NoRequest /\ Unused.queued = "none"
    BY DEF Unused, Fresh, Hook
  <1> QED
    BY <1>1, Requests DEF Sound, Waits, Quiet, Continues

-----------------------------------------------------------------------------
(* The page's tasks *)

LEMMA InvHooks ==
    ASSUME PollingInv, NEW a \in Activation
    PROVE  Sound(hooks[a]) /\ Told(hooks[a])
  BY DEF PollingInv, TypeOK, PollsWhileLive, QuietAfterEnd, PollingContinues,
     Sound, Quiet, Continues

LEMMA HooksInv ==
    ASSUME hooks \in [Activation -> Hook],
           \A a \in Activation : Sound(hooks[a])
    PROVE  PollsWhileLive /\ \A a \in Activation : Waits(hooks[a])
  BY DEF PollsWhileLive, QuietAfterEnd, PollingContinues, Sound, Quiet, Continues

\* A step of one closure that the rest of the page does not see.
LEMMA HookStep ==
    ASSUME PollingInv, NEW a \in Activation, NEW i,
           hooks' = [hooks EXCEPT ![a] = i],
           Sound(i), i.key = hooks[a].key, i.active => hooks[a].active,
           NoNews(hooks[a], i),
           connection' \in [key : Key, state : {"connecting", "connected",
                                                "poll_timeout", "error"}],
           UNCHANGED <<rendered, stale, acts, serverState, server>>
    PROVE  PollingInv'
  <1>1. hooks \in [Activation -> Hook] /\ i \in Hook
    BY DEF PollingInv, TypeOK, Sound
  <1>2. /\ hooks' \in [Activation -> Hook] /\ hooks'[a] = i
        /\ \A b \in Activation : b # a => hooks'[b] = hooks[b]
    BY <1>1
  <1>3. TypeOK'
    BY <1>2 DEF PollingInv, TypeOK
  <1>4. \A b \in Activation : Sound(hooks'[b])
    BY <1>2, InvHooks
  <1>5. PollsWhileLive' /\ \A b \in Activation : Waits(hooks'[b])
    BY <1>2, <1>4 DEF PollsWhileLive, QuietAfterEnd, PollingContinues, Sound, Quiet, Continues
  <1>6. ASSUME NEW b \in Activation PROVE Told(hooks[b])'
    BY <1>2, InvHooks DEF Told, NoNews
  <1>7. LastIsLive'
    BY <1>2 DEF PollingInv, LastIsLive
  <1>8. KeptForward'
    BY <1>2 DEF PollingInv, KeptForward, NoNews
  <1> QED
    BY <1>3, <1>5, <1>6, <1>7, <1>8 DEF PollingInv

\* A closure asks for a request, of its own accord or on a click.
LEMMA AsksKeeps ==
    ASSUME PollingInv, NEW a \in Activation, NEW manual \in BOOLEAN,
           hooks[a].active, ~manual => hooks[a].pollTimer,
           hooks' = [hooks EXCEPT ![a] = Execute([@ EXCEPT !.pollTimer = FALSE], manual)],
           UNCHANGED <<rendered, stale, acts, serverState, connection, server>>
    PROVE  PollingInv'
  <1> DEFINE h == hooks[a]
             g == [h EXCEPT !.pollTimer = FALSE]
             i == Execute(g, manual)
  <1>1. Sound(h)
    BY InvHooks
  <1>2. h \in Hook
    BY <1>1 DEF Sound
  <1> HIDE DEF h
  <1>3. /\ g \in Hook /\ g.pollTimer = FALSE /\ g.inFlight = h.inFlight
        /\ g.requestTimer = h.requestTimer
    BY <1>2 DEF Hook
  <1>4. Same(h, g)
    BY <1>2 DEF Hook, Same
  <1>5. hooks' = [hooks EXCEPT ![a] = i]
    BY DEF h
  <1> HIDE DEF g, i
  <1>6. h.active /\ (~manual => h.pollTimer)
    BY DEF h
  <1>7. g.active /\ Quiet(g) /\ (g.requestTimer => g.inFlight # NoRequest)
        /\ (~manual => ~g.expired /\ ~g.terminal)
    BY <1>1, <1>3, <1>4, <1>6 DEF Sound, Quiet, Waits, Same
  <1>8. Sound(i) /\ Same(g, i) /\ NoNews(g, i)
    BY <1>3, <1>7, ExecuteSound DEF i
  <1>9. i.key = h.key /\ (i.active => h.active) /\ NoNews(h, i)
    BY <1>3, <1>4, <1>8 DEF Same, NoNews
  <1>10. connection' \in [key : Key, state : {"connecting", "connected",
                                              "poll_timeout", "error"}]
    BY DEF PollingInv, TypeOK
  <1> QED
    BY <1>5, <1>8, <1>9, <1>10, HookStep DEF h

LEMMA PollTimerKeeps ==
    ASSUME PollingInv, NEW a \in Activation, PollTimer(a)
    PROVE  PollingInv'
  <1>1. hooks[a].active /\ hooks[a].pollTimer
    BY InvHooks DEF PollTimer, Sound, Quiet
  <1> QED
    BY <1>1, AsksKeeps DEF PollTimer

LEMMA RefreshKeeps ==
    ASSUME PollingInv, Refresh
    PROVE  PollingInv'
  <1>1. acts \in Activation /\ hooks[acts].active
    BY PollingAssumption DEF PollingInv, TypeOK, Refresh, Activation
  <1> QED
    BY <1>1, AsksKeeps DEF Refresh

LEMMA TimePassesKeeps ==
    ASSUME PollingInv, NEW a \in Activation, TimePasses(a)
    PROVE  PollingInv'
  <1> DEFINE h == hooks[a]
             i == [h EXCEPT !.late = TRUE]
  <1>1. Sound(h)
    BY InvHooks
  <1>2. h \in Hook
    BY <1>1 DEF Sound
  <1>3. /\ hooks' = [hooks EXCEPT ![a] = i]
        /\ UNCHANGED <<rendered, stale, acts, serverState, connection, server>>
    BY DEF TimePasses
  <1> HIDE DEF h
  <1>4. /\ i \in Hook /\ i.late /\ i.key = h.key /\ i.active = h.active
        /\ i.expired = h.expired /\ i.terminal = h.terminal /\ i.pollTimer = h.pollTimer
        /\ i.requestTimer = h.requestTimer /\ i.inFlight = h.inFlight /\ i.queued = h.queued
    BY <1>2 DEF Hook
  <1> HIDE DEF i
  <1>5. Sound(i) /\ NoNews(h, i)
    BY <1>1, <1>4 DEF Sound, Waits, Quiet, Continues, NoNews
  <1>6. connection \in [key : Key, state : {"connecting", "connected",
                                            "poll_timeout", "error"}]
    BY DEF PollingInv, TypeOK
  <1> QED
    BY <1>3, <1>4, <1>5, <1>6, HookStep DEF h

LEMMA DeadlineTimerKeeps ==
    ASSUME PollingInv, NEW a \in Activation, DeadlineTimer(a)
    PROVE  PollingInv'
  <1> DEFINE h == hooks[a]
             g == [h EXCEPT !.expired = TRUE, !.deadlineTimer = FALSE, !.pollTimer = FALSE]
             i == Abort(g)
  <1>1. Sound(h)
    BY InvHooks
  <1>2. h \in Hook
    BY <1>1 DEF Sound
  <1>3. /\ hooks' = [hooks EXCEPT ![a] = i]
        /\ connection' = IF h.active /\ ~h.terminal
                         THEN [key |-> h.key, state |-> "poll_timeout"] ELSE connection
        /\ UNCHANGED <<rendered, stale, acts, serverState, server>>
    BY DEF DeadlineTimer
  <1>4. h.active => h.key \in Key
    BY DEF PollingInv, TypeOK, LastIsLive
  <1> HIDE DEF h
  <1>5. /\ g \in Hook /\ g.expired = TRUE /\ g.key = h.key /\ g.active = h.active
        /\ g.pollTimer = FALSE /\ g.requestTimer = h.requestTimer
        /\ g.inFlight = h.inFlight /\ g.queued = h.queued
    BY <1>2 DEF Hook
  <1> HIDE DEF g
  <1>6. /\ i \in Hook /\ Same(g, i)
        /\ i.pollTimer = g.pollTimer /\ i.requestTimer = g.requestTimer
        /\ i.queued = g.queued
        /\ i.inFlight.aborted = TRUE /\ i.inFlight.answer = g.inFlight.answer
        /\ i.inFlight = NoRequest <=> g.inFlight = NoRequest
    BY <1>5, AbortFields
  <1> HIDE DEF i
  <1>7. Sound(i) /\ NoNews(h, i) /\ i.key = h.key /\ i.active = h.active
    BY <1>1, <1>5, <1>6 DEF Sound, Waits, Quiet, Continues, NoNews, Same
  <1>8. connection' \in [key : Key, state : {"connecting", "connected",
                                             "poll_timeout", "error"}]
    BY <1>3, <1>4 DEF PollingInv, TypeOK
  <1> QED
    BY <1>3, <1>7, <1>8, HookStep DEF h

LEMMA RequestTimerKeeps ==
    ASSUME PollingInv, NEW a \in Activation, RequestTimer(a)
    PROVE  PollingInv'
  <1> DEFINE h == hooks[a]
             g == [h EXCEPT !.requestTimer = FALSE]
             i == Abort(g)
  <1>1. Sound(h)
    BY InvHooks
  <1>2. h \in Hook
    BY <1>1 DEF Sound
  <1>3. /\ hooks' = [hooks EXCEPT ![a] = i]
        /\ connection' = IF h.active THEN [key |-> h.key, state |-> "poll_timeout"]
                         ELSE connection
        /\ UNCHANGED <<rendered, stale, acts, serverState, server>>
    BY DEF RequestTimer
  <1>4. h.active => h.key \in Key
    BY DEF PollingInv, TypeOK, LastIsLive
  <1> HIDE DEF h
  <1>5. /\ g \in Hook /\ g.requestTimer = FALSE /\ g.pollTimer = h.pollTimer
        /\ g.inFlight = h.inFlight /\ g.queued = h.queued
    BY <1>2 DEF Hook
  <1>6. Same(h, g)
    BY <1>2 DEF Hook, Same
  <1> HIDE DEF g
  <1>7. /\ i \in Hook /\ Same(g, i)
        /\ i.pollTimer = g.pollTimer /\ i.requestTimer = g.requestTimer
        /\ i.queued = g.queued
        /\ i.inFlight.aborted = TRUE /\ i.inFlight.answer = g.inFlight.answer
        /\ i.inFlight = NoRequest <=> g.inFlight = NoRequest
    BY <1>5, AbortFields
  <1> HIDE DEF i
  <1>8. Sound(i) /\ NoNews(h, i) /\ i.key = h.key /\ i.active = h.active
    BY <1>1, <1>5, <1>6, <1>7 DEF Sound, Waits, Quiet, Continues, NoNews, Same
  <1>9. connection' \in [key : Key, state : {"connecting", "connected",
                                             "poll_timeout", "error"}]
    BY <1>3, <1>4 DEF PollingInv, TypeOK
  <1> QED
    BY <1>3, <1>8, <1>9, HookStep DEF h

\* The server answers with the state it has reached, which is not older than
\* what the page keeps.
LEMMA ServeKeeps ==
    ASSUME PollingInv, NEW a \in Activation, Serve(a)
    PROVE  PollingInv'
  <1> DEFINE h == hooks[a]
  <1>1. PICK v \in {Failed, [of |-> h.key, version |-> server[h.key]]} :
          hooks' = [hooks EXCEPT ![a].inFlight.answer = v]
    BY DEF Serve
  <1>2. /\ h.inFlight.answer = Pending /\ ~h.inFlight.aborted
        /\ UNCHANGED <<rendered, stale, acts, serverState, connection, server>>
    BY DEF Serve
  <1>3. Sound(h) /\ Told(h)
    BY InvHooks
  <1>4. h \in Hook /\ h.active
    BY <1>2, <1>3 DEF Sound, Waits
  <1>5. /\ a = acts /\ h.key = serverState.key /\ h.key \in Key
        /\ server[h.key] \in 0..MaxVersion /\ hooks \in [Activation -> Hook]
    BY <1>4 DEF PollingInv, TypeOK, LastIsLive
  <1> DEFINE r == [h.inFlight EXCEPT !.answer = v]
             i == [h EXCEPT !.inFlight = r]
  <1>6. hooks' = [hooks EXCEPT ![a] = i]
    BY <1>1, <1>5
  <1>7. v \in View => v.of = h.key /\ v.version = server[h.key]
    BY Responses
  <1>8. v \in View \cup {Failed, Pending}
    BY <1>5 DEF View
  <1> HIDE DEF h
  <1>9. h.inFlight \in Request
    BY <1>2, <1>4, Requests DEF Hook
  <1>10. /\ r \in Request /\ r.answer = v /\ r.manual = h.inFlight.manual
         /\ r.aborted = h.inFlight.aborted
    BY <1>8, <1>9 DEF Request
  <1> HIDE DEF r
  <1>11. r # NoRequest /\ h.inFlight # NoRequest
    BY <1>9, <1>10, Requests
  <1>12. /\ i \in Hook /\ i.late = h.late /\ i.key = h.key /\ i.active = h.active
         /\ i.expired = h.expired /\ i.terminal = h.terminal /\ i.pollTimer = h.pollTimer
         /\ i.requestTimer = h.requestTimer /\ i.inFlight = r /\ i.queued = h.queued
    BY <1>4, <1>10 DEF Hook
  <1> HIDE DEF i
  <1>13. Sound(i)
    BY <1>3, <1>4, <1>10, <1>11, <1>12 DEF Sound, Waits, Quiet, Continues
  <1>14. /\ hooks' \in [Activation -> Hook] /\ hooks'[a] = i
         /\ \A b \in Activation : b # a => hooks'[b] = hooks[b]
    BY <1>5, <1>6, <1>12
  <1>15. TypeOK'
    BY <1>2, <1>14 DEF PollingInv, TypeOK
  <1>16. \A b \in Activation : Sound(hooks'[b])
    BY <1>13, <1>14, InvHooks
  <1>17. PollsWhileLive' /\ \A b \in Activation : Waits(hooks'[b])
    BY <1>14, <1>16
       DEF PollsWhileLive, QuietAfterEnd, PollingContinues, Sound, Quiet, Continues
  <1>18. ASSUME NEW b \in Activation PROVE Told(hooks[b])'
    <2>1. CASE b = a
      <3>1. server[h.key] <= server[h.key]
        BY <1>5
      <3> QED
        BY <1>2, <1>7, <1>10, <1>12, <1>14, <2>1, <3>1 DEF Told
    <2>2. CASE b # a
      BY <1>2, <1>14, <2>2, InvHooks DEF Told
    <2> QED
      BY <2>1, <2>2
  <1>19. LastIsLive'
    BY <1>2, <1>5, <1>12, <1>14 DEF PollingInv, LastIsLive
  <1>20. KeptForward'
    <2> SUFFICES ASSUME serverState.run \in View
                 PROVE  /\ serverState.run.of = serverState.key
                        /\ serverState.run.version <= server[serverState.key]
                        /\ \A b \in Activation :
                             hooks'[b].active /\ hooks'[b].inFlight.answer \in View
                               => hooks'[b].inFlight.answer.version >= serverState.run.version
      BY <1>2 DEF KeptForward
    <2>1. /\ serverState.run.of = serverState.key
          /\ serverState.run.version <= server[serverState.key]
          /\ \A b \in Activation :
               hooks[b].active /\ hooks[b].inFlight.answer \in View
                 => hooks[b].inFlight.answer.version >= serverState.run.version
      BY DEF PollingInv, KeptForward
    <2>2. serverState.run.version \in Nat
      BY PollingAssumption DEF View
    <2>3. i.inFlight.answer \in View => i.inFlight.answer.version >= serverState.run.version
      BY <1>5, <1>7, <1>10, <1>12, <2>1, <2>2
    <2> QED
      BY <1>14, <2>1, <2>3
  <1> QED
    BY <1>15, <1>17, <1>18, <1>19, <1>20 DEF PollingInv

\* Received keeps what it does not end.
LEMMA ReceivedFields ==
    ASSUME NEW h \in Hook, Quiet(h)
    PROVE  LET g == Received(h) IN
           /\ g \in Hook /\ g.key = h.key /\ g.active = h.active
           /\ g.pollTimer => g.active /\ ~g.expired /\ ~g.terminal
  <1> DEFINE j == [h EXCEPT !.terminal = TRUE, !.pollTimer = FALSE, !.deadlineTimer = FALSE]
  <1>1. Received(h) = j \/ Received(h) = h
    BY DEF Received
  <1>2. j \in Hook /\ j.key = h.key /\ j.active = h.active /\ j.pollTimer = FALSE
    BY DEF Hook
  <1> HIDE DEF j
  <1> QED
    BY <1>1, <1>2 DEF Quiet

\* A response is shown, or not looked at, and the polling goes on.
LEMMA SettleKeeps ==
    ASSUME PollingInv, NEW a \in Activation, Settle(a)
    PROVE  PollingInv'
  <1> DEFINE h == hooks[a]
             g == Received(h)
             i == Finished(g)
  <1>1. /\ hooks' = [hooks EXCEPT ![a] = i]
        /\ serverState' = IF Accepted(h) /\ h.inFlight.answer \in View
                          THEN [key |-> h.key, run |-> h.inFlight.answer]
                          ELSE serverState
        /\ connection' = IF ~Accepted(h) THEN connection
                         ELSE [key |-> h.key,
                               state |-> IF h.inFlight.answer \in View
                                         THEN "connected" ELSE "error"]
        /\ UNCHANGED <<rendered, stale, acts, server>>
    BY DEF Settle
  <1>2. Sound(h) /\ Told(h)
    BY InvHooks
  <1>3. h \in Hook /\ Quiet(h)
    BY <1>2 DEF Sound
  <1>4. /\ g \in Hook /\ g.key = h.key /\ g.active = h.active
        /\ g.pollTimer => g.active /\ ~g.expired /\ ~g.terminal
    BY <1>3, ReceivedFields
  <1> HIDE DEF g
  <1>5. Sound(i) /\ i.key = h.key /\ i.active = h.active /\ i.inFlight.answer \notin View
    BY <1>4, FinishedSound DEF Same
  <1> HIDE DEF i
  <1>6. NoNews(h, i)
    BY <1>5 DEF NoNews
  <1>7. Accepted(h) => a = acts /\ h.key = serverState.key /\ h.key \in Key
    BY DEF PollingInv, TypeOK, LastIsLive, Accepted
  <1>8. connection' \in [key : Key, state : {"connecting", "connected",
                                             "poll_timeout", "error"}]
    <2> HIDE DEF h
    <2> QED
      BY <1>1, <1>7 DEF PollingInv, TypeOK
  <1>9. CASE ~(Accepted(h) /\ h.inFlight.answer \in View)
    <2>1. serverState' = serverState
      BY <1>1, <1>9
    <2> QED
      BY <1>1, <1>5, <1>6, <1>8, <2>1, HookStep
  <1>10. CASE Accepted(h) /\ h.inFlight.answer \in View
    <2>1. serverState' = [key |-> h.key, run |-> h.inFlight.answer]
      BY <1>1, <1>10
    <2>2. /\ hooks' \in [Activation -> Hook] /\ hooks'[a] = i
          /\ \A b \in Activation : b # a => hooks'[b] = hooks[b]
      BY <1>1, <1>5 DEF Sound, PollingInv, TypeOK
    <2>3. TypeOK'
      BY <1>1, <1>7, <1>8, <1>10, <2>1, <2>2 DEF PollingInv, TypeOK
    <2>4. \A b \in Activation : Sound(hooks'[b])
      BY <1>5, <2>2, InvHooks
    <2>5. PollsWhileLive' /\ \A b \in Activation : Waits(hooks'[b])
      BY <2>2, <2>4
         DEF PollsWhileLive, QuietAfterEnd, PollingContinues, Sound, Quiet, Continues
    <2>6. ASSUME NEW b \in Activation PROVE Told(hooks[b])'
      BY <1>1, <1>5, <2>2, InvHooks DEF Told
    <2>7. LastIsLive'
      BY <1>1, <1>5, <1>7, <1>10, <2>1, <2>2 DEF PollingInv, LastIsLive
    <2>8. KeptForward'
      <3>1. h.inFlight.answer.of = h.key /\ h.inFlight.answer.version <= server[h.key]
        BY <1>2, <1>10 DEF Told
      <3>2. \A b \in Activation : hooks'[b].active => b = a
        BY <1>1, <1>7, <1>10, <2>7 DEF LastIsLive
      <3>3. serverState'.key = h.key /\ serverState'.run = h.inFlight.answer
        BY <2>1
      <3> QED
        BY <1>1, <1>5, <2>2, <3>1, <3>2, <3>3 DEF KeptForward
    <2> QED
      BY <2>3, <2>5, <2>6, <2>7, <2>8 DEF PollingInv
  <1> QED
    BY <1>9, <1>10

\* The cleanup of the last effect.
LEMMA CleanedHooksFields ==
    ASSUME PollingInv
    PROVE  /\ CleanedHooks \in [Activation -> Hook]
           /\ \A b \in Activation :
                /\ Sound(CleanedHooks[b]) /\ ~CleanedHooks[b].active
                /\ CleanedHooks[b].key = hooks[b].key
                /\ NoNews(hooks[b], CleanedHooks[b])
  <1>1. ASSUME NEW b \in Activation
        PROVE  /\ Sound(CleanedHooks[b]) /\ ~CleanedHooks[b].active
               /\ CleanedHooks[b].key = hooks[b].key
               /\ NoNews(hooks[b], CleanedHooks[b])
    <2>1. Sound(hooks[b]) /\ hooks[b] \in Hook /\ Waits(hooks[b])
      BY InvHooks DEF Sound
    <2>2. CASE b = acts
      <3>1. CleanedHooks[b] = CleanedUp(hooks[b])
        BY <2>2 DEF CleanedHooks
      <3> QED
        BY <2>1, <3>1, CleanedUpSound
    <2>3. CASE b # acts
      <3>1. CleanedHooks[b] = hooks[b] /\ ~hooks[b].active
        BY <2>3 DEF CleanedHooks, PollingInv, LastIsLive
      <3> QED
        BY <2>1, <3>1 DEF NoNews
    <2> QED
      BY <2>2, <2>3
  <1>2. \A b \in Activation : CleanedHooks[b] \in Hook
    BY <1>1 DEF Sound
  <1>3. CleanedHooks = [b \in Activation |-> CleanedHooks[b]]
    BY DEF CleanedHooks
  <1> QED
    BY <1>1, <1>2, <1>3

LEMMA EffectKeeps ==
    ASSUME PollingInv, Effect
    PROVE  PollingInv'
  <1> DEFINE n == acts + 1
             f == Fresh(rendered)
             i == Execute(f, FALSE)
  <1>1. /\ rendered # NoKey /\ acts < MaxActivations /\ stale' = FALSE /\ acts' = n
        /\ hooks' = [CleanedHooks EXCEPT ![n] = i]
        /\ serverState' = [key |-> rendered, run |-> NoView]
        /\ connection' = [key |-> rendered, state |-> "connecting"]
        /\ UNCHANGED <<rendered, server>>
    BY DEF Effect
  <1>2. rendered \in Key /\ n \in Activation /\ n \in 0..MaxActivations
    BY <1>1, PollingAssumption DEF PollingInv, TypeOK, Activation
  <1>3. /\ f \in Hook /\ f.active /\ f.key = rendered
        /\ ~f.expired /\ ~f.terminal /\ ~f.pollTimer
        /\ ~f.requestTimer /\ f.inFlight = NoRequest
    BY <1>2, FreshFields
  <1> HIDE DEF f
  <1>4. Quiet(f)
    BY <1>3 DEF Quiet
  <1>5. Sound(i) /\ Same(f, i) /\ NoNews(f, i)
    BY <1>3, <1>4, ExecuteSound
  <1> HIDE DEF i
  <1>6. i.key = rendered /\ i.inFlight.answer \notin View
    BY <1>3, <1>5, Requests, Responses DEF Same, NoNews
  <1>7. /\ hooks' \in [Activation -> Hook] /\ hooks'[n] = i
        /\ \A b \in Activation : b # n => hooks'[b] = CleanedHooks[b]
    BY <1>1, <1>2, <1>5, CleanedHooksFields DEF Sound
  <1>8. TypeOK'
    BY <1>1, <1>2, <1>7 DEF PollingInv, TypeOK
  <1>9. \A b \in Activation : Sound(hooks'[b])
    BY <1>5, <1>7, CleanedHooksFields
  <1>10. PollsWhileLive' /\ \A b \in Activation : Waits(hooks'[b])
    BY <1>7, <1>9
       DEF PollsWhileLive, QuietAfterEnd, PollingContinues, Sound, Quiet, Continues
  <1>11. ASSUME NEW b \in Activation PROVE Told(hooks[b])'
    BY <1>1, <1>6, <1>7, InvHooks, CleanedHooksFields DEF Told, NoNews
  <1>12. LastIsLive'
    BY <1>1, <1>6, <1>7, CleanedHooksFields DEF LastIsLive
  <1>13. KeptForward'
    BY <1>1, Responses DEF KeptForward
  <1> QED
    BY <1>8, <1>10, <1>11, <1>12, <1>13 DEF PollingInv

LEMMA UnmountKeeps ==
    ASSUME PollingInv, Unmount
    PROVE  PollingInv'
  <1>1. /\ stale' = FALSE /\ hooks' = CleanedHooks
        /\ UNCHANGED <<rendered, acts, serverState, connection, server>>
    BY DEF Unmount
  <1>2. hooks' \in [Activation -> Hook] /\ \A b \in Activation : Sound(hooks'[b])
    BY <1>1, CleanedHooksFields
  <1>3. TypeOK'
    BY <1>1, <1>2 DEF PollingInv, TypeOK
  <1>4. PollsWhileLive' /\ \A b \in Activation : Waits(hooks'[b])
    BY <1>2 DEF PollsWhileLive, QuietAfterEnd, PollingContinues, Sound, Quiet, Continues
  <1>5. ASSUME NEW b \in Activation PROVE Told(hooks[b])'
    BY <1>1, InvHooks, CleanedHooksFields DEF Told, NoNews
  <1>6. LastIsLive'
    BY <1>1, CleanedHooksFields DEF LastIsLive
  <1>7. KeptForward'
    BY <1>1, CleanedHooksFields DEF PollingInv, KeptForward
  <1> QED
    BY <1>3, <1>4, <1>5, <1>6, <1>7 DEF PollingInv

LEMMA RenderKeeps ==
    ASSUME PollingInv, NEW k \in Key \cup {NoKey}, Render(k)
    PROVE  PollingInv'
  BY DEF PollingInv, Render, TypeOK, Waits, Told, LastIsLive, KeptForward,
     PollsWhileLive, QuietAfterEnd, PollingContinues

LEMMA ServerAdvancesKeeps ==
    ASSUME PollingInv, NEW k \in Key, ServerAdvances(k)
    PROVE  PollingInv'
  <1>1. /\ server[k] < MaxVersion /\ server' = [server EXCEPT ![k] = @ + 1]
        /\ UNCHANGED <<rendered, stale, hooks, acts, serverState, connection>>
    BY DEF ServerAdvances
  <1>2. server \in [Key -> 0..MaxVersion]
    BY DEF PollingInv, TypeOK
  <1>3. server' \in [Key -> 0..MaxVersion] /\ \A j \in Key : server'[j] >= server[j]
    BY <1>1, <1>2, PollingAssumption
  <1>4. TypeOK'
    BY <1>1, <1>3 DEF PollingInv, TypeOK
  <1>5. ASSUME NEW b \in Activation PROVE Told(hooks[b])'
    <2>1. Told(hooks[b])
      BY InvHooks
    <2>2. ASSUME hooks[b].inFlight.answer \in View
          PROVE  /\ hooks[b].key \in Key /\ hooks[b].inFlight.answer.of = hooks[b].key
                 /\ hooks[b].inFlight.answer.version \in 0..MaxVersion
                 /\ hooks[b].inFlight.answer.version <= server[hooks[b].key]
      BY <2>1, <2>2 DEF View, Told
    <2> QED
      BY <1>1, <1>2, <1>3, <2>2, PollingAssumption DEF Told
  <1>6. KeptForward'
    <2>1. serverState.run \in View =>
            serverState.run.version \in 0..MaxVersion /\ serverState.key \in Key
      BY DEF View, PollingInv, TypeOK
    <2> QED
      BY <1>1, <1>2, <1>3, <2>1, PollingAssumption DEF PollingInv, KeptForward
  <1>7. LastIsLive' /\ PollsWhileLive' /\ \A b \in Activation : Waits(hooks'[b])
    BY <1>1 DEF PollingInv, LastIsLive, PollsWhileLive, QuietAfterEnd, PollingContinues
  <1> QED
    BY <1>4, <1>5, <1>6, <1>7 DEF PollingInv

LEMMA InitKeeps == Init => PollingInv
  <1> SUFFICES ASSUME Init PROVE PollingInv
    OBVIOUS
  <1>1. \A a \in Activation : hooks[a] = Unused
    BY DEF Init
  <1>2. hooks \in [Activation -> Hook]
    BY UnusedSound DEF Init, Sound
  <1>3. TypeOK
    BY <1>2, PollingAssumption DEF Init, TypeOK
  <1>4. PollsWhileLive /\ \A a \in Activation : Waits(hooks[a])
    BY <1>1, <1>2, UnusedSound, HooksInv
  <1>5. \A a \in Activation : Told(hooks[a])
    BY <1>1, UnusedSound, Requests, Responses DEF Told
  <1>6. LastIsLive
    BY <1>1, UnusedSound DEF LastIsLive
  <1>7. KeptForward
    BY Responses DEF Init, KeptForward
  <1> QED
    BY <1>3, <1>4, <1>5, <1>6, <1>7 DEF PollingInv

LEMMA NextKeeps == PollingInv /\ [Next]_vars => PollingInv'
  <1> SUFFICES ASSUME PollingInv, [Next]_vars PROVE PollingInv'
    OBVIOUS
  <1>1. CASE UNCHANGED vars
    BY <1>1 DEF vars, PollingInv, TypeOK, Waits, Told, LastIsLive, KeptForward,
       PollsWhileLive, QuietAfterEnd, PollingContinues
  <1>2. CASE \E k \in Key \cup {NoKey} : Render(k)
    BY <1>2, RenderKeeps
  <1>3. CASE Effect \/ Unmount \/ Refresh
    BY <1>3, EffectKeeps, UnmountKeeps, RefreshKeeps
  <1>4. CASE \E a \in Activation : \/ PollTimer(a) \/ TimePasses(a) \/ DeadlineTimer(a)
                                   \/ RequestTimer(a) \/ Serve(a) \/ Settle(a)
    BY <1>4, PollTimerKeeps, TimePassesKeeps, DeadlineTimerKeeps, RequestTimerKeeps,
       ServeKeeps, SettleKeeps
  <1>5. CASE \E k \in Key : ServerAdvances(k)
    BY <1>5, ServerAdvancesKeeps
  <1> QED
    BY <1>1, <1>2, <1>3, <1>4, <1>5 DEF Next

-----------------------------------------------------------------------------
(* What the page shows *)

\* What ShownForward says of one step.
ShownStep ==
    Displayed' # NoView =>
      /\ Displayed'.of = rendered'
      /\ Displayed # NoView /\ Displayed.of = Displayed'.of =>
           Displayed'.version >= Displayed.version

LEMMA DisplayedOf ==
    ASSUME PollingInv, Displayed # NoView
    PROVE  /\ Displayed = serverState.run /\ serverState.run \in View
           /\ serverState.key = rendered /\ serverState.run.of = rendered
  BY DEF PollingInv, TypeOK, KeptForward, Displayed

LEMMA StepShows == PollingInv /\ PollingInv' /\ [Next]_vars => [ShownStep]_vars
  <1> SUFFICES ASSUME PollingInv, PollingInv', Next, Displayed' # NoView PROVE ShownStep
    BY DEF ShownStep
  <1>1. /\ Displayed' = serverState'.run /\ serverState'.run \in View
        /\ serverState'.key = rendered' /\ serverState'.run.of = rendered'
    BY DEF PollingInv, TypeOK, KeptForward, Displayed
  <1>2. CASE serverState' = serverState
    <2>1. Displayed # NoView => Displayed = Displayed' /\ Displayed.version \in Nat
      BY <1>1, <1>2, DisplayedOf, PollingAssumption DEF View
    <2> QED
      BY <1>1, <2>1 DEF ShownStep
  <1>3. CASE serverState' # serverState
    <2>1. Effect \/ \E a \in Activation : Settle(a)
      BY <1>3 DEF Next, Render, Unmount, Refresh, PollTimer, TimePasses, DeadlineTimer,
         RequestTimer, Serve, ServerAdvances
    <2>2. ~Effect
      <3> SUFFICES ASSUME Effect PROVE FALSE
        OBVIOUS
      <3>1. serverState' = [key |-> rendered, run |-> NoView]
        BY DEF Effect
      <3>2. serverState'.run = NoView
        BY <3>1
      <3> QED
        BY <1>1, <3>2, Responses
    <2>3. PICK a \in Activation : Settle(a)
      BY <2>1, <2>2
    <2>4. /\ Accepted(hooks[a]) /\ hooks[a].inFlight.answer \in View
          /\ serverState'.run = hooks[a].inFlight.answer
      BY <1>3, <2>3 DEF Settle
    <2>5. ASSUME Displayed # NoView PROVE Displayed'.version >= Displayed.version
      BY <1>1, <2>4, <2>5, DisplayedOf DEF PollingInv, KeptForward, Accepted
    <2> QED
      BY <1>1, <2>5 DEF ShownStep
  <1> QED
    BY <1>2, <1>3

-----------------------------------------------------------------------------
(* The theorems *)

\* The inductive invariant of the polling holds in every reachable state.
THEOREM PollingInvariance == Spec => []PollingInv
  BY InitKeeps, NextKeeps, PTL DEF Spec

\* The page polls exactly as long as it should: an activation that is live, not
\* expired and not terminal has a request under way or a timer for the next one,
\* and none other has (scheduleAuto, execute and the cleanup of the effect).
THEOREM PollingNeitherStallsNorLingers == Spec => []PollsWhileLive
  <1>1. PollingInv => PollsWhileLive
    BY DEF PollingInv
  <1> QED
    BY <1>1, PollingInvariance, PTL

\* The page shows a run under its own identity only and never goes back to an
\* older state of it.
THEOREM PageNeverGoesBack == Spec => ShownForward
  <1>1. PollingInv /\ PollingInv' /\ [Next]_vars =>
          [Displayed' # NoView =>
             /\ Displayed'.of = rendered'
             /\ Displayed # NoView /\ Displayed.of = Displayed'.of =>
                  Displayed'.version >= Displayed.version]_vars
    BY StepShows DEF ShownStep
  <1> QED
    BY <1>1, PollingInvariance, PTL DEF Spec, ShownForward
=============================================================================
