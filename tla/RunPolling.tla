----------------------------- MODULE RunPolling -----------------------------
(***************************************************************************)
(* The useRunPolling hook of the trace page (web/trace/src/useRunPolling). *)
(*                                                                         *)
(* A page shows one run at a time, under an activation key made of the run *)
(* and the bearer token. Rendering a new key (or new options) is one step; *)
(* React runs the effect's cleanup and the next effect some time later, so *)
(* that the previous activation is still live in between. Every effect has *)
(* its own closure, an element of hooks, which outlives its cleanup as     *)
(* long as its request is pending. Timer callbacks, clicks and the arrival *)
(* of a response are the page's tasks; the promise reactions a response    *)
(* sets off all run before the next task and belong to its step.           *)
(*                                                                         *)
(* The state of a run at the server is a version that grows; its status is *)
(* terminal at some versions, not only the last one: an interrupted run is *)
(* terminal to the page and may be resumed.                                *)
(***************************************************************************)
EXTENDS Naturals, FiniteSets

CONSTANTS
    Key,            \* activation keys
    NoKey,          \* nothing is mounted
    MaxVersion,     \* bound: the last version of a run
    Terminal,       \* the versions at which its status is terminal, by key
    MaxActivations

ASSUME PollingAssumption ==
    /\ NoKey \notin Key /\ MaxActivations \in Nat
    /\ MaxVersion \in Nat /\ Terminal \in [Key -> SUBSET (0..MaxVersion)]

VARIABLES
    rendered,       \* the key of the last render
    stale,          \* the effect of the last render has not run
    hooks,          \* the closure of each activation
    acts,           \* activations so far; the last one is the current one
    serverState,    \* the hook's two pieces of React state
    connection,
    server          \* the version of each key's run

vars == <<rendered, stale, hooks, acts, serverState, connection, server>>

NoView == [of |-> NoKey, version |-> 0]
View == [of : Key, version : 0..MaxVersion]
Failed == [of |-> NoKey, version |-> 1]
Pending == [of |-> NoKey, version |-> 2]

NoRequest == [manual |-> FALSE, aborted |-> TRUE, answer |-> NoView]
Request == [manual : BOOLEAN, aborted : BOOLEAN, answer : View \cup {Failed, Pending}]

Fresh(k) == [key |-> k, active |-> TRUE, expired |-> FALSE, terminal |-> FALSE,
             late |-> FALSE, pollTimer |-> FALSE, requestTimer |-> FALSE,
             deadlineTimer |-> TRUE, inFlight |-> NoRequest, queued |-> "none"]

Hook == [key : Key \cup {NoKey}, active : BOOLEAN, expired : BOOLEAN, terminal : BOOLEAN,
         late : BOOLEAN, pollTimer : BOOLEAN, requestTimer : BOOLEAN,
         deadlineTimer : BOOLEAN, inFlight : Request \cup {NoRequest},
         queued : {"none", "waiting", "running"}]

Unused == [Fresh(NoKey) EXCEPT !.active = FALSE, !.deadlineTimer = FALSE]

Activation == 1..MaxActivations

Init ==
    /\ rendered \in Key /\ stale = TRUE
    /\ hooks = [a \in Activation |-> Unused] /\ acts = 0
    /\ serverState = [key |-> rendered, run |-> NoView]
    /\ connection = [key |-> rendered, state |-> "connecting"]
    /\ server = [k \in Key |-> 0]

TypeOK ==
    /\ rendered \in Key \cup {NoKey} /\ stale \in BOOLEAN
    /\ acts \in 0..MaxActivations
    /\ hooks \in [Activation -> Hook]
    /\ serverState \in [key : Key, run : View \cup {NoView}]
    /\ connection \in [key : Key, state : {"connecting", "connected",
                                            "poll_timeout", "error"}]
    /\ server \in [Key -> 0..MaxVersion]
-----------------------------------------------------------------------------
(* The closure of one activation.                                          *)

ScheduleAuto(h) ==
    [h EXCEPT !.pollTimer = /\ h.active /\ ~h.expired /\ ~h.terminal
                            /\ h.queued = "none" /\ ~h.late]

\* Mutant: only a request within the deadline is given a timer.
IssueUnbounded(h, manual) ==
    [h EXCEPT !.pollTimer = @ /\ ~manual,
              !.requestTimer = @ \/ (manual /\ ~h.expired /\ ~h.terminal),
              !.inFlight = [manual |-> manual, aborted |-> FALSE, answer |-> Pending]]

\* execute with nothing in flight: a manual request has a timer of its own.
Issue(h, manual) ==
    [h EXCEPT !.pollTimer = @ /\ ~manual,
              !.requestTimer = @ \/ manual,
              !.inFlight = [manual |-> manual, aborted |-> FALSE, answer |-> Pending]]

\* execute: behind a request in flight an automatic call joins it, and one
\* manual call is queued, which later manual calls join.
Execute(h, manual) ==
    IF ~h.active THEN h
    ELSE IF h.inFlight = NoRequest THEN Issue(h, manual)
    ELSE [h EXCEPT !.queued = IF manual /\ @ = "none" THEN "waiting" ELSE @]

Abort(h) == IF h.inFlight = NoRequest THEN h ELSE [h EXCEPT !.inFlight.aborted = TRUE]

\* Mutant: whatever arrives is shown.
AcceptedAny(h) == TRUE

\* A response counts if its activation is live and its request not aborted.
Accepted(h) == h.active /\ ~h.inFlight.aborted

\* The then of the request.
Received(h) ==
    IF Accepted(h) /\ h.inFlight.answer \in View
         /\ h.inFlight.answer.version \in Terminal[h.key]
    THEN [h EXCEPT !.terminal = TRUE, !.pollTimer = FALSE, !.deadlineTimer = FALSE]
    ELSE h

\* Mutant: the end of a queued refresh does not resume the automatic polling.
AfterwardsIdle(h) ==
    IF h.queued = "none" THEN ScheduleAuto(h)
    ELSE IF h.queued = "running" THEN [h EXCEPT !.queued = "none"]
    ELSE IF h.active THEN Execute([h EXCEPT !.queued = "running"], TRUE)
    ELSE [h EXCEPT !.queued = "none"]

\* What follows the request's finally: the next automatic poll, the queued
\* manual request, or the end of that one.
Afterwards(h) ==
    IF h.queued = "none" THEN ScheduleAuto(h)
    ELSE IF h.queued = "running" THEN ScheduleAuto([h EXCEPT !.queued = "none"])
    ELSE IF h.active THEN Execute([h EXCEPT !.queued = "running"], TRUE)
    ELSE [h EXCEPT !.queued = "none"]

Finished(h) ==
    Afterwards([h EXCEPT !.requestTimer = FALSE, !.inFlight = NoRequest])

\* The function the effect returns: every timer is cleared and the request
\* aborted. Of an abandoned closure only its request still happens.
CleanedUp(h) ==
    [Unused EXCEPT !.key = h.key, !.inFlight = Abort(h).inFlight, !.queued = h.queued]
-----------------------------------------------------------------------------
(* The page's tasks.                                                       *)

\* A new run, a new token, new options, or none: passive effects are flushed
\* before the next render.
Render(k) ==
    /\ ~stale /\ rendered # NoKey
    /\ acts < MaxActivations
    /\ rendered' = k /\ stale' = TRUE
    /\ UNCHANGED <<hooks, acts, serverState, connection, server>>

CleanedHooks ==
    [a \in Activation |-> IF a = acts THEN CleanedUp(hooks[a]) ELSE hooks[a]]

Effect ==
    /\ stale /\ rendered # NoKey /\ acts < MaxActivations
    /\ stale' = FALSE
    /\ acts' = acts + 1
    /\ hooks' = [CleanedHooks EXCEPT ![acts + 1] = Execute(Fresh(rendered), FALSE)]
    /\ serverState' = [key |-> rendered, run |-> NoView]
    /\ connection' = [key |-> rendered, state |-> "connecting"]
    /\ UNCHANGED <<rendered, server>>

Unmount ==
    /\ stale /\ rendered = NoKey
    /\ stale' = FALSE
    /\ hooks' = CleanedHooks
    /\ UNCHANGED <<rendered, acts, serverState, connection, server>>

PollTimer(a) ==
    /\ hooks[a].pollTimer
    /\ hooks' = [hooks EXCEPT ![a] = Execute([@ EXCEPT !.pollTimer = FALSE], FALSE)]
    /\ UNCHANGED <<rendered, stale, acts, serverState, connection, server>>

\* The button; refreshRef belongs to the current activation until its cleanup.
Refresh ==
    /\ acts > 0 /\ hooks[acts].active /\ rendered # NoKey
    /\ hooks' = [hooks EXCEPT ![acts] = Execute([@ EXCEPT !.pollTimer = FALSE], TRUE)]
    /\ UNCHANGED <<rendered, stale, acts, serverState, connection, server>>

\* performance.now() passes deadlineAt, which only a live activation compares.
TimePasses(a) ==
    /\ hooks[a].active /\ ~hooks[a].late
    /\ hooks' = [hooks EXCEPT ![a].late = TRUE]
    /\ UNCHANGED <<rendered, stale, acts, serverState, connection, server>>

DeadlineTimer(a) ==
    LET h == hooks[a] IN
    /\ h.deadlineTimer /\ h.late
    /\ hooks' = [hooks EXCEPT ![a] =
         Abort([@ EXCEPT !.expired = TRUE, !.deadlineTimer = FALSE, !.pollTimer = FALSE])]
    /\ connection' = IF h.active /\ ~h.terminal
                     THEN [key |-> h.key, state |-> "poll_timeout"] ELSE connection
    /\ UNCHANGED <<rendered, stale, acts, serverState, server>>

RequestTimer(a) ==
    LET h == hooks[a] IN
    /\ h.requestTimer
    /\ hooks' = [hooks EXCEPT ![a] = Abort([@ EXCEPT !.requestTimer = FALSE])]
    /\ connection' = IF h.active THEN [key |-> h.key, state |-> "poll_timeout"]
                     ELSE connection
    /\ UNCHANGED <<rendered, stale, acts, serverState, server>>

\* The server answers, or the request fails on the way; what happens to an
\* aborted request is not looked at.
Serve(a) ==
    LET h == hooks[a] IN
    /\ h.inFlight.answer = Pending /\ ~h.inFlight.aborted
    /\ \E v \in {Failed, [of |-> h.key, version |-> server[h.key]]} :
         hooks' = [hooks EXCEPT ![a].inFlight.answer = v]
    /\ UNCHANGED <<rendered, stale, acts, serverState, connection, server>>

\* getRun resolves or rejects, an aborted request at any time.
Settle(a) ==
    LET h == hooks[a] IN
    /\ h.inFlight # NoRequest
    /\ h.inFlight.aborted \/ h.inFlight.answer # Pending
    /\ serverState' = IF Accepted(h) /\ h.inFlight.answer \in View
                      THEN [key |-> h.key, run |-> h.inFlight.answer]
                      ELSE serverState
    /\ connection' = IF ~Accepted(h) THEN connection
                     ELSE [key |-> h.key,
                           state |-> IF h.inFlight.answer \in View
                                     THEN "connected" ELSE "error"]
    /\ hooks' = [hooks EXCEPT ![a] = Finished(Received(h))]
    /\ UNCHANGED <<rendered, stale, acts, server>>

ServerAdvances(k) ==
    /\ server[k] < MaxVersion
    /\ server' = [server EXCEPT ![k] = @ + 1]
    /\ UNCHANGED <<rendered, stale, hooks, acts, serverState, connection>>

Next ==
    \/ \E k \in Key \cup {NoKey} : Render(k)
    \/ Effect \/ Unmount \/ Refresh
    \/ \E a \in Activation : \/ PollTimer(a) \/ TimePasses(a) \/ DeadlineTimer(a)
                             \/ RequestTimer(a) \/ Serve(a) \/ Settle(a)
    \/ \E k \in Key : ServerAdvances(k)

Spec == Init /\ [][Next]_vars

\* The browser runs due timers and pending effects, and an aborted fetch
\* rejects. Nothing says that a server answers.
Fairness ==
    /\ WF_vars(Effect) /\ WF_vars(Unmount)
    /\ \A a \in Activation :
         /\ WF_vars(TimePasses(a)) /\ WF_vars(DeadlineTimer(a))
         /\ WF_vars(RequestTimer(a)) /\ WF_vars(Settle(a))

FairSpec == Spec /\ Fairness
-----------------------------------------------------------------------------
(* Properties.                                                             *)

\* The hook's result: the state of another identity is hidden.
Displayed == IF serverState.key = rendered THEN serverState.run ELSE NoView

\* The page shows a run only under its own identity, also between the render of
\* a new one and its effect, and never goes back to an older state of the run it
\* shows: responses are accepted in the order of their requests, those of an
\* abandoned activation not at all.
ShownForward ==
    [][Displayed' # NoView =>
         /\ Displayed'.of = rendered'
         /\ Displayed # NoView /\ Displayed.of = Displayed'.of =>
              Displayed'.version >= Displayed.version]_vars

\* Once a terminal status was received, the deadline has passed or the activation
\* is over, there is neither a next automatic request nor one under way; a later
\* status, of a run that was resumed, does not bring the polling back.
QuietAfterEnd ==
    \A a \in Activation : LET h == hooks[a] IN
      h.pollTimer \/ (~h.inFlight.aborted /\ ~h.inFlight.manual)
        => h.active /\ ~h.expired /\ ~h.terminal

\* Until then the polling never stalls: there is a request or a timer for the
\* next one, whatever refreshes were queued in between (scheduleAuto).
PollingContinues ==
    \A a \in Activation : LET h == hooks[a] IN
      h.active /\ ~h.expired /\ ~h.terminal /\ ~h.late
        => h.pollTimer \/ h.inFlight # NoRequest

\* The page polls exactly as long as it should: no queued refresh, late
\* response, deadline or change of run makes it stall before a terminal status,
\* or keeps it polling after one.
PollsWhileLive == QuietAfterEnd /\ PollingContinues

\* A request always comes to an end, and so does a queued refresh, although
\* the server may never answer: the page is not left waiting.
RequestsEnd ==
    \A a \in Activation :
      hooks[a].inFlight # NoRequest
        ~> (hooks[a].inFlight = NoRequest /\ hooks[a].queued = "none")
=============================================================================
