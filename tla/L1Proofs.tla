------------------------------ MODULE L1Proofs ------------------------------
(***************************************************************************)
(* Safety of one L1 attempt for any plans, replies, tools, budgets and     *)
(* points at which the lease, the store, the provider or the process fail. *)
(***************************************************************************)
EXTENDS L1Attempt, TLAPS, FiniteSetTheorems

-----------------------------------------------------------------------------
(* The inductive invariant *)

\* Plans, clauses and evidence are whatever the provider and the tools return.
IsSequence(s) == s \in Seq(ToSet(s))

JobShape ==
    /\ job \in [at : {"queued", "check", "append", "plan", "collect", "answer", "waiting",
                      "ending", "complete", "ended"},
                script : {job.script}, next : {"plan", "collect", "answer", "ending"},
                stage : Stage, selected : {job.selected}, terminal : Ended \cup {"none"}]
    /\ IsSequence(job.script) /\ IsSequence(trace)
    /\ reserved \subseteq Stage

AgentShape ==
    agent \in [plan : {agent.plan}, step : {agent.step}, todo : {agent.todo}, ids : {agent.ids},
               outputs : {agent.outputs}, attempts : 0..ToolBudget, retries : 0..1,
               evidence : {agent.evidence}, calls : Seq(ToolCallSummary), done : BOOLEAN]

\* The budget of collect is the budget of the run: there is one plan.
Budgeted ==
    /\ toolCalls = agent.attempts
    /\ job.stage = "planning" => toolCalls = 0

\* Which stage leads to which operation, and when the script is empty.
Placed ==
    /\ job.next = "plan" => job.stage = "planning"
    /\ job.next = "collect" => job.stage = "evidence"
    /\ job.next = "answer" => job.stage = "answer"
    /\ job.at \in {"plan", "collect", "answer"} => job.next = job.at
    /\ job.at = "waiting" => job.next \in {"plan", "answer"}
    /\ job.at = "append" => job.script # <<>>
    /\ job.at \in {"plan", "collect", "answer", "waiting"} => job.script = <<>>
    /\ job.at = "queued" => job.script = <<>> /\ job.next = "plan" /\ job.terminal = "none"
    /\ status = "queued" => job.at \in {"queued", "ended"} /\ trace = <<>> /\ reserved = {}
    /\ Completed => job.at = "ended"

\* The attempt may still complete the run.
Hopeful ==
    /\ status = "running" /\ job.at \notin {"queued", "ended"}
    /\ job.at \in {"ending", "complete"} => job.terminal # "none"

\* The events of a sequence report exactly the requests of S, each of them once.
Told(F, S) ==
    \A s \in Stage :
      /\ s \in S <=> \E i \in DOMAIN F : F[i] = Admitted(s)
      /\ \A i, j \in DOMAIN F : F[i] = Admitted(s) /\ F[j] = Admitted(s) => i = j

\* A refusal of the policy is reported only when it decides the outcome.
BlockedLast(F, S, terminal) ==
    \A s \in Stage, i \in DOMAIN F :
      F[i] = Blocked(s) => s \notin S /\ terminal = "egress_blocked"

Disclosed(F, selected) ==
    \E i \in DOMAIN F : F[i] = EvidenceSummary({ContentHash[c] : c \in ToSet(selected)})

Cited(F) ==
    \E i, j \in DOMAIN F :
      /\ i < j /\ F[i].kind = "evidence" /\ F[j].kind = "verifier"
      /\ F[j].passed # {} /\ F[j].faults = {} /\ F[j].passed \subseteq F[i].ids

\* What the trace will be once the script is appended.
Whole == trace \o job.script

\* The reservations that this trace accounts for: all but the one under way.
Counted == IF job.at = "waiting" THEN reserved \ {job.stage} ELSE reserved

Promised ==
    /\ job.at \in {"ending", "complete"} => job.script = <<>>
    /\ job.next = "ending" <=> job.terminal # "none"
    /\ job.next = "plan" => Counted = {}
    /\ job.next \in {"collect", "answer"} => Counted = {"planning"}
    /\ job.at = "waiting" => job.stage \in reserved
    /\ Told(Whole, Counted)
    /\ BlockedLast(Whole, reserved, job.terminal)
    /\ job.next = "answer" => Disclosed(Whole, job.selected)
    /\ job.terminal = "answered" => Cited(Whole) /\ "answer" \in reserved

\* What a completed run shows.
Shown ==
    /\ Told(trace, reserved) /\ BlockedLast(trace, reserved, status)
    /\ status = "answered" => Cited(trace) /\ "answer" \in reserved

L1Inv ==
    /\ JobShape /\ AgentShape /\ Budgeted /\ Placed
    /\ Hopeful => Promised
    /\ Completed => Shown

-----------------------------------------------------------------------------
(* Sequences *)

LEMMA SelfTyped ==
    ASSUME NEW S, NEW s \in Seq(S)
    PROVE  IsSequence(s)
  <1>1. Len(s) \in Nat /\ DOMAIN s = 1..Len(s) /\ s = [i \in 1..Len(s) |-> s[i]]
    OBVIOUS
  <1>2. \A i \in 1..Len(s) : s[i] \in ToSet(s)
    BY <1>1 DEF ToSet
  <1>3. s \in [1..Len(s) -> ToSet(s)]
    BY <1>1, <1>2
  <1> QED
    BY <1>1, <1>3 DEF IsSequence

LEMMA Tuples ==
    ASSUME NEW a, NEW b, NEW c, NEW d
    PROVE  /\ IsSequence(<<>>) /\ IsSequence(<<a>>) /\ IsSequence(<<a, b>>)
           /\ IsSequence(<<a, b, c>>) /\ IsSequence(<<a, b, c, d>>)
  <1> DEFINE S == {a, b, c, d}
  <1>1. /\ <<>> \in Seq(S) /\ <<a>> \in Seq(S) /\ <<a, b>> \in Seq(S)
        /\ <<a, b, c>> \in Seq(S) /\ <<a, b, c, d>> \in Seq(S)
    OBVIOUS
  <1> HIDE DEF S
  <1> QED
    BY <1>1, SelfTyped

LEMMA Joined ==
    ASSUME NEW F, NEW G, IsSequence(F), IsSequence(G)
    PROVE  /\ IsSequence(F \o G)
           /\ Len(F) \in Nat /\ Len(G) \in Nat /\ Len(F \o G) = Len(F) + Len(G)
           /\ DOMAIN F = 1..Len(F) /\ DOMAIN G = 1..Len(G)
           /\ DOMAIN (F \o G) = 1..(Len(F) + Len(G))
           /\ \A i \in 1..Len(F) : (F \o G)[i] = F[i]
           /\ \A i \in 1..Len(G) : (F \o G)[Len(F) + i] = G[i]
  <1> DEFINE S == ToSet(F) \cup ToSet(G)
  <1>1. F \in Seq(S) /\ G \in Seq(S)
    BY DEF IsSequence
  <1> HIDE DEF S
  <1>2. F \o G \in Seq(S)
    BY <1>1
  <1>3. /\ Len(F) \in Nat /\ Len(G) \in Nat /\ Len(F \o G) = Len(F) + Len(G)
        /\ DOMAIN F = 1..Len(F) /\ DOMAIN G = 1..Len(G)
        /\ DOMAIN (F \o G) = 1..(Len(F) + Len(G))
    BY <1>1, <1>2
  <1>4. /\ \A i \in 1..Len(F) : (F \o G)[i] = F[i]
        /\ \A i \in 1..Len(G) : (F \o G)[Len(F) + i] = G[i]
    BY <1>1
  <1> QED
    BY <1>2, <1>3, <1>4, SelfTyped

LEMMA BothParts ==
    ASSUME NEW F, NEW G, IsSequence(F), IsSequence(G)
    PROVE  /\ \A i \in DOMAIN F : i \in DOMAIN (F \o G) /\ (F \o G)[i] = F[i]
           /\ \A i \in DOMAIN G : /\ Len(F) + i \in DOMAIN (F \o G)
                                 /\ (F \o G)[Len(F) + i] = G[i]
                                 /\ \A j \in DOMAIN F : j < Len(F) + i
  <1> DEFINE N == F \o G
  <1>1. /\ Len(F) \in Nat /\ Len(G) \in Nat
        /\ DOMAIN F = 1..Len(F) /\ DOMAIN G = 1..Len(G) /\ DOMAIN N = 1..(Len(F) + Len(G))
        /\ \A j \in 1..Len(F) : N[j] = F[j]
        /\ \A j \in 1..Len(G) : N[Len(F) + j] = G[j]
    BY Joined
  <1> HIDE DEF N
  <1>2. /\ \A i \in DOMAIN F : i \in DOMAIN N /\ N[i] = F[i]
        /\ \A i \in DOMAIN G : /\ Len(F) + i \in DOMAIN N /\ N[Len(F) + i] = G[i]
                              /\ \A j \in DOMAIN F : j < Len(F) + i
    BY <1>1
  <1> QED
    BY <1>2 DEF N

LEMMA FromEither ==
    ASSUME NEW F, NEW G, IsSequence(F), IsSequence(G), NEW i \in DOMAIN (F \o G)
    PROVE  \/ i \in DOMAIN F /\ (F \o G)[i] = F[i]
           \/ \E j \in DOMAIN G : i = Len(F) + j /\ (F \o G)[i] = G[j]
  <1> DEFINE N == F \o G
  <1>1. /\ i \in DOMAIN N /\ Len(F) \in Nat /\ Len(G) \in Nat
        /\ DOMAIN F = 1..Len(F) /\ DOMAIN G = 1..Len(G) /\ DOMAIN N = 1..(Len(F) + Len(G))
        /\ \A j \in 1..Len(F) : N[j] = F[j]
        /\ \A j \in 1..Len(G) : N[Len(F) + j] = G[j]
    BY Joined
  <1> HIDE DEF N
  <1>2. CASE i \in 1..Len(F)
    BY <1>1, <1>2 DEF N
  <1>3. CASE i \notin 1..Len(F)
    <2>1. i - Len(F) \in 1..Len(G) /\ i = Len(F) + (i - Len(F))
      BY <1>1, <1>3
    <2>2. N[i] = G[i - Len(F)]
      BY <1>1, <2>1
    <2> QED
      BY <1>1, <2>1, <2>2 DEF N
  <1> QED
    BY <1>2, <1>3

LEMMA JoinedEmpty ==
    ASSUME NEW F, IsSequence(F)
    PROVE  F \o <<>> = F
  BY DEF IsSequence

\* Moving the head of a script to the end of the trace changes nothing.
LEMMA HeadMoves ==
    ASSUME NEW F, NEW G, IsSequence(F), IsSequence(G), G # <<>>
    PROVE  /\ Append(F, Head(G)) \o Tail(G) = F \o G
           /\ IsSequence(Append(F, Head(G))) /\ IsSequence(Tail(G))
  <1> DEFINE S == ToSet(F) \cup ToSet(G)
  <1>1. F \in Seq(S) /\ G \in Seq(S)
    BY DEF IsSequence
  <1> HIDE DEF S
  <1>2. Head(G) \in S /\ Tail(G) \in Seq(S) /\ Append(F, Head(G)) \in Seq(S)
    BY <1>1
  <1>3. Append(F, Head(G)) \o Tail(G) = F \o G
    BY <1>1, <1>2
  <1> QED
    BY <1>2, <1>3, SelfTyped

LEMMA Appended ==
    ASSUME NEW F, NEW e, IsSequence(F)
    PROVE  /\ IsSequence(Append(F, e)) /\ Len(F) \in Nat
           /\ DOMAIN F = 1..Len(F) /\ DOMAIN Append(F, e) = 1..(Len(F) + 1)
           /\ \A i \in 1..Len(F) : Append(F, e)[i] = F[i]
           /\ Append(F, e)[Len(F) + 1] = e
  <1> DEFINE S == ToSet(F) \cup {e}
  <1>1. F \in Seq(S) /\ e \in S
    BY DEF IsSequence
  <1> HIDE DEF S
  <1>2. Append(F, e) \in Seq(S) /\ Len(F) \in Nat
    BY <1>1
  <1>3. DOMAIN F = 1..Len(F) /\ DOMAIN Append(F, e) = 1..(Len(F) + 1)
    BY <1>1
  <1>4. /\ \A i \in 1..Len(F) : Append(F, e)[i] = F[i]
        /\ Append(F, e)[Len(F) + 1] = e
    BY <1>1
  <1>5. IsSequence(Append(F, e))
    BY <1>2, SelfTyped
  <1> QED
    BY <1>2, <1>3, <1>4, <1>5

-----------------------------------------------------------------------------
(* What more events change of what the trace tells *)

\* No event of G is about egress.
Quiet(G) == \A i \in DOMAIN G : G[i].kind # "egress"

LEMMA EgressKinds ==
    \A s, t \in Stage :
      /\ Admitted(s).kind = "egress" /\ Blocked(s).kind = "egress"
      /\ Admitted(s) = Admitted(t) => s = t
      /\ Blocked(s) = Blocked(t) => s = t
      /\ Admitted(s) # Blocked(t)
  BY DEF Admitted, Blocked

LEMMA QuietTold ==
    ASSUME NEW F, NEW G, IsSequence(F), IsSequence(G), Quiet(G), NEW S, Told(F, S)
    PROVE  Told(F \o G, S)
  <1>1. SUFFICES ASSUME NEW s \in Stage
                 PROVE  /\ s \in S <=> \E i \in DOMAIN (F \o G) : (F \o G)[i] = Admitted(s)
                        /\ \A i, j \in DOMAIN (F \o G) :
                             (F \o G)[i] = Admitted(s) /\ (F \o G)[j] = Admitted(s) => i = j
    BY DEF Told
  <1> DEFINE N == F \o G
  <1>2. \A i \in DOMAIN N : N[i] = Admitted(s) => i \in DOMAIN F /\ N[i] = F[i]
    <2>1. SUFFICES ASSUME NEW i \in DOMAIN N, N[i] = Admitted(s)
                   PROVE  i \in DOMAIN F /\ N[i] = F[i]
      OBVIOUS
    <2>2. N[i].kind = "egress"
      BY <2>1, EgressKinds
    <2> QED
      BY <2>2, FromEither DEF Quiet
  <1>3. \A i \in DOMAIN F : i \in DOMAIN N /\ N[i] = F[i]
    BY Joined
  <1> HIDE DEF N
  <1>4. /\ s \in S <=> \E i \in DOMAIN N : N[i] = Admitted(s)
        /\ \A i, j \in DOMAIN N : N[i] = Admitted(s) /\ N[j] = Admitted(s) => i = j
    BY <1>2, <1>3 DEF Told
  <1> QED
    BY <1>4 DEF N

LEMMA AdmittedTold ==
    ASSUME NEW F, NEW G, IsSequence(F), IsSequence(G), NEW S, Told(F, S),
           NEW r \in Stage, r \notin S,
           1 \in DOMAIN G, G[1] = Admitted(r),
           \A i \in DOMAIN G : i # 1 => G[i].kind # "egress"
    PROVE  Told(F \o G, S \cup {r})
  <1>1. SUFFICES ASSUME NEW s \in Stage
                 PROVE  /\ s \in S \cup {r} <=> \E i \in DOMAIN (F \o G) : (F \o G)[i] = Admitted(s)
                        /\ \A i, j \in DOMAIN (F \o G) :
                             (F \o G)[i] = Admitted(s) /\ (F \o G)[j] = Admitted(s) => i = j
    BY DEF Told
  <1> DEFINE N == F \o G
             n == Len(F) + 1
  <1>2. \A i \in DOMAIN N : N[i] = Admitted(s) => (i \in DOMAIN F /\ N[i] = F[i]) \/ (i = n /\ s = r)
    <2>1. ASSUME NEW i \in DOMAIN N, N[i] = Admitted(s), i \notin DOMAIN F PROVE i = n /\ s = r
      <3>1. PICK j \in DOMAIN G : i = Len(F) + j /\ N[i] = G[j]
        BY <2>1, FromEither
      <3>2. j = 1
        BY <2>1, <3>1, EgressKinds
      <3> QED
        BY <2>1, <3>1, <3>2, EgressKinds
    <2> QED
      BY <2>1, Joined
  <1>3. \A i \in DOMAIN F : i \in DOMAIN N /\ N[i] = F[i] /\ i # n
    BY Joined
  <1>4. n \in DOMAIN N /\ N[n] = Admitted(r)
    BY Joined
  <1> HIDE DEF N, n
  <1>5. /\ s \in S <=> \E i \in DOMAIN F : F[i] = Admitted(s)
        /\ \A i, j \in DOMAIN F : F[i] = Admitted(s) /\ F[j] = Admitted(s) => i = j
    BY DEF Told
  <1>6. CASE s = r
    <2>1. \A i \in DOMAIN F : F[i] # Admitted(s)
      BY <1>5, <1>6
    <2> QED
      BY <1>2, <1>4, <1>6, <2>1 DEF N
  <1>7. CASE s # r
    <2>1. \A i \in DOMAIN N : N[i] = Admitted(s) => i \in DOMAIN F /\ F[i] = Admitted(s)
      BY <1>2, <1>7
    <2>2. \A i \in DOMAIN F : F[i] = Admitted(s) => i \in DOMAIN N /\ N[i] = Admitted(s)
      BY <1>3
    <2>3. /\ s \in S \cup {r} <=> \E i \in DOMAIN N : N[i] = Admitted(s)
          /\ \A i, j \in DOMAIN N : N[i] = Admitted(s) /\ N[j] = Admitted(s) => i = j
      BY <1>5, <1>7, <2>1, <2>2
    <2> QED
      BY <2>3 DEF N
  <1> QED
    BY <1>6, <1>7

\* A trace without refusals has none after events that are none.
LEMMA NotBlocked ==
    ASSUME NEW F, NEW G, IsSequence(F), IsSequence(G), NEW S, NEW T, NEW t, NEW u,
           BlockedLast(F, S, t), t # "egress_blocked",
           \A s \in Stage, i \in DOMAIN G : G[i] # Blocked(s)
    PROVE  BlockedLast(F \o G, T, u)
  <1>1. SUFFICES ASSUME NEW s \in Stage, NEW i \in DOMAIN (F \o G), (F \o G)[i] = Blocked(s)
                 PROVE  FALSE
    BY DEF BlockedLast
  <1>2. \A j \in DOMAIN F : F[j] # Blocked(s)
    BY DEF BlockedLast
  <1> QED
    BY <1>1, <1>2, FromEither

LEMMA CitedStays ==
    ASSUME NEW F, NEW G, IsSequence(F), IsSequence(G), Cited(F)
    PROVE  Cited(F \o G)
  <1> DEFINE N == F \o G
  <1>1. \A i \in DOMAIN F : i \in DOMAIN N /\ N[i] = F[i]
    BY Joined
  <1> HIDE DEF N
  <1>2. Cited(N)
    BY <1>1 DEF Cited
  <1> QED
    BY <1>2 DEF N

LEMMA DisclosedStays ==
    ASSUME NEW F, NEW G, IsSequence(F), IsSequence(G), NEW q, Disclosed(F, q)
    PROVE  Disclosed(F \o G, q)
  <1> DEFINE N == F \o G
  <1>1. \A i \in DOMAIN F : i \in DOMAIN N /\ N[i] = F[i]
    BY Joined
  <1> HIDE DEF N
  <1>2. Disclosed(N, q)
    BY <1>1 DEF Disclosed
  <1> QED
    BY <1>2 DEF N

-----------------------------------------------------------------------------
(* Steps of the attempt *)

Waits == {"plan", "collect", "answer", "waiting"}

\* The next value of job: a script to append, and what follows it.
Becomes(j, G, n, st, sel, t) ==
    j \in [at : {"check"}, script : {G}, next : {n}, stage : {st}, selected : {sel},
           terminal : {t}]

LEMMA ThenBecomes ==
    ASSUME JobShape, NEW G, NEW n
    PROVE  /\ Becomes(Then(G, n), G, n, job.stage, job.selected, job.terminal)
           /\ \A t : Becomes([Then(G, n) EXCEPT !.terminal = t],
                             G, n, job.stage, job.selected, t)
           /\ \A st : Becomes([Then(G, n) EXCEPT !.stage = st],
                              G, n, st, job.selected, job.terminal)
           /\ \A st, sel : Becomes([Then(G, n) EXCEPT !.selected = sel, !.stage = st],
                                   G, n, st, sel, job.terminal)
  <1> DEFINE T == Then(G, n)
  <1>1. T \in [at : {"check"}, script : {G}, next : {n}, stage : {job.stage},
               selected : {job.selected}, terminal : {job.terminal}]
    BY DEF JobShape, Then
  <1> HIDE DEF T
  <1>2. /\ Becomes(T, G, n, job.stage, job.selected, job.terminal)
        /\ \A t : Becomes([T EXCEPT !.terminal = t], G, n, job.stage, job.selected, t)
        /\ \A st : Becomes([T EXCEPT !.stage = st], G, n, st, job.selected, job.terminal)
        /\ \A st, sel : Becomes([T EXCEPT !.selected = sel, !.stage = st],
                                G, n, st, sel, job.terminal)
    BY <1>1 DEF Becomes
  <1> QED
    BY <1>2 DEF T

\* What the attempt knows of the trace at an operation, if it still may complete.
LEMMA AtOperation ==
    ASSUME L1Inv, job.at \in Waits
    PROVE  /\ ~Completed /\ status # "queued" /\ job.script = <<>>
           /\ status = "running" =>
                /\ Told(trace, Counted) /\ BlockedLast(trace, reserved, "none")
                /\ job.terminal = "none" /\ job.next # "ending"
                /\ job.next = "plan" => Counted = {}
                /\ job.next # "plan" => Counted = {"planning"}
                /\ job.at = "waiting" => job.stage \in reserved
                /\ job.next = "answer" => Disclosed(trace, job.selected)
  <1>1. /\ ~Completed /\ status # "queued" /\ job.script = <<>>
        /\ job.next \in {"plan", "collect", "answer"} /\ IsSequence(trace)
        /\ job.terminal \in Ended \cup {"none"}
    BY DEF L1Inv, Placed, Waits, JobShape
  <1>2. Whole = trace
    BY <1>1, JoinedEmpty DEF Whole
  <1>3. status = "running" => Hopeful
    BY DEF Hopeful, Waits
  <1>4. status = "running" => job.terminal = "none" /\ Promised
    BY <1>1, <1>3 DEF L1Inv, Promised
  <1> QED
    BY <1>1, <1>2, <1>4 DEF Promised

LEMMA ScriptKeeps ==
    ASSUME L1Inv, job.at \in Waits, NEW G, NEW n \in {"plan", "collect", "answer", "ending"},
           NEW st \in Stage, NEW sel, NEW t \in Ended \cup {"none"},
           Becomes(job', G, n, st, sel, t), IsSequence(G), AgentShape',
           toolCalls' = toolCalls, status' = status, trace' = trace, reserved' = reserved,
           agent'.attempts = agent.attempts, st = "planning" => job.stage = "planning",
           n = "collect" => st = "evidence", n = "answer" => st = "answer", n # "plan",
           status = "running" =>
             /\ n = "ending" <=> t # "none"
             /\ n \in {"collect", "answer"} => reserved = {"planning"}
             /\ Told(trace \o G, reserved) /\ BlockedLast(trace \o G, reserved, t)
             /\ n = "answer" => Disclosed(trace \o G, sel)
             /\ t = "answered" => Cited(trace \o G) /\ "answer" \in reserved
    PROVE  L1Inv'
  <1>1. /\ job'.at = "check" /\ job'.script = G /\ job'.next = n /\ job'.stage = st
        /\ job'.selected = sel /\ job'.terminal = t
    BY DEF Becomes
  <1>2. JobShape'
    BY <1>1 DEF L1Inv, JobShape, Becomes
  <1>3. ~Completed /\ status # "queued"
    BY AtOperation
  <1>4. ~Completed' /\ status' # "queued"
    BY <1>3 DEF Completed
  <1>5. Placed'
    BY <1>1, <1>4 DEF Placed
  <1>6. Budgeted'
    BY <1>1 DEF L1Inv, Budgeted
  <1>7. Hopeful' => Promised'
    <2>1. Whole' = trace \o G /\ Counted' = reserved
      BY <1>1 DEF Whole, Counted
    <2>2. Hopeful' => status = "running"
      BY DEF Hopeful
    <2> QED
      BY <1>1, <2>1, <2>2 DEF Promised
  <1> QED
    BY <1>2, <1>4, <1>5, <1>6, <1>7 DEF L1Inv

\* An attempt that raises leaves the run to its lease.
LEMMA EndKeeps ==
    ASSUME L1Inv, job.at # "ended", job' = [job EXCEPT !.at = "ended"],
           UNCHANGED <<agent, toolCalls, status, reserved>>, IsSequence(trace'),
           status = "queued" => trace' = trace
    PROVE  L1Inv'
  <1>1. /\ job'.at = "ended" /\ job'.script = job.script /\ job'.next = job.next
        /\ job'.stage = job.stage /\ job'.selected = job.selected /\ job'.terminal = job.terminal
    BY DEF L1Inv, JobShape
  <1>2. JobShape'
    <2>1. job' \in [at : {"queued", "check", "append", "plan", "collect", "answer", "waiting",
                          "ending", "complete", "ended"},
                    script : {job.script}, next : {"plan", "collect", "answer", "ending"},
                    stage : Stage, selected : {job.selected}, terminal : Ended \cup {"none"}]
      BY DEF L1Inv, JobShape
    <2> QED
      BY <1>1, <2>1 DEF L1Inv, JobShape
  <1>3. ~Completed
    BY DEF L1Inv, Placed
  <1>4. ~Completed'
    BY <1>3 DEF Completed
  <1>5. Placed' /\ Budgeted' /\ AgentShape'
    BY <1>1, <1>4 DEF L1Inv, Placed, Budgeted, AgentShape
  <1>6. ~Hopeful'
    BY <1>1 DEF Hopeful
  <1> QED
    BY <1>2, <1>4, <1>5, <1>6 DEF L1Inv

\* Time and the heartbeat change nothing that the invariant reads.
LEMMA SameKeeps ==
    ASSUME L1Inv, UNCHANGED <<agent, toolCalls, status, trace, reserved, job>>
    PROVE  L1Inv'
  BY DEF L1Inv, JobShape, AgentShape, Budgeted, Placed, Hopeful, Promised, Completed, Shown,
     Whole, Counted

\* reconcile_expired by another process: what the attempt does no longer counts.
LEMMA ReconcileKeeps ==
    ASSUME L1Inv, ReconcileExpired
    PROVE  L1Inv'
  <1>1. /\ status' = "interrupted" /\ trace' = Append(trace, TerminalEvent("interrupted"))
        /\ UNCHANGED <<agent, toolCalls, reserved, job>>
    BY DEF ReconcileExpired, agentVars
  <1>2. ~Completed' /\ ~Hopeful'
    BY <1>1 DEF Completed, Ended, Hopeful
  <1>3. IsSequence(trace')
    BY <1>1, Appended DEF L1Inv, JobShape
  <1> QED
    BY <1>1, <1>2, <1>3 DEF L1Inv, JobShape, AgentShape, Budgeted, Placed

LEMMA ClaimKeeps ==
    ASSUME L1Inv, Claim
    PROVE  L1Inv'
  <1>1. CASE ~Leased("queued")
    BY <1>1, EndKeeps DEF Claim, agentVars, L1Inv, JobShape
  <1>2. CASE Leased("queued")
    <2> DEFINE G == <<Started("planning")>>
               T == Then(G, "plan")
    <2>1. /\ status = "queued" /\ status' = "running" /\ job.at = "queued"
          /\ job' = [T EXCEPT !.at = "append"]
          /\ UNCHANGED <<agent, toolCalls, trace, reserved>>
      BY <1>2 DEF Claim, Leased, agentVars
    <2>2. /\ trace = <<>> /\ reserved = {} /\ job.stage = "planning" /\ job.terminal = "none"
          /\ JobShape
      BY <2>1 DEF L1Inv, Placed
    <2>3. Becomes(T, G, "plan", "planning", job.selected, "none")
      BY <2>2, ThenBecomes
    <2>4. IsSequence(G) /\ G # <<>>
      BY Tuples
    <2> HIDE DEF T
    <2>5. /\ job' \in [at : {"append"}, script : {G}, next : {"plan"}, stage : {"planning"},
                       selected : {job.selected}, terminal : {"none"}]
          /\ job'.at = "append" /\ job'.script = G /\ job'.next = "plan"
          /\ job'.stage = "planning" /\ job'.terminal = "none" /\ job'.selected = job.selected
      BY <2>1, <2>3 DEF Becomes
    <2>6. JobShape'
      BY <2>1, <2>2, <2>4, <2>5 DEF JobShape, Stage
    <2>7. ~Completed' /\ Placed' /\ Budgeted' /\ AgentShape'
      BY <2>1, <2>2, <2>4, <2>5 DEF Completed, Ended, L1Inv, Placed, Budgeted, AgentShape
    <2>8. Promised'
      <3>1. Whole' = G /\ Counted' = {} /\ reserved' = {}
        BY <2>1, <2>2, <2>5 DEF Whole, Counted
      <3>2. \A i \in DOMAIN G : G[i].kind = "started"
        BY DEF Started
      <3> HIDE DEF G
      <3>3. Told(G, {}) /\ BlockedLast(G, {}, "none")
        BY <3>2, EgressKinds DEF Told, BlockedLast
      <3> QED
        BY <2>5, <3>1, <3>3 DEF Promised
    <2> QED
      BY <2>6, <2>7, <2>8 DEF L1Inv
  <1> QED
    BY <1>1, <1>2

LEMMA CheckKeeps ==
    ASSUME L1Inv, CheckLease
    PROVE  L1Inv'
  <1> DEFINE at == IF leaseLost THEN "ending"
                   ELSE IF job.script # <<>> THEN "append" ELSE job.next
             t == IF leaseLost THEN "none" ELSE job.terminal
  <1>1. /\ job.at = "check" /\ job' = [job EXCEPT !.at = at, !.terminal = t]
        /\ UNCHANGED <<agent, toolCalls, status, trace, reserved>>
    BY DEF CheckLease, agentVars, storeVars, L1Inv, JobShape
  <1>2. at \in {"ending", "append", "plan", "collect", "answer"} /\ t \in Ended \cup {"none"}
    BY DEF L1Inv, JobShape
  <1>3. /\ leaseLost => at = "ending" /\ t = "none"
        /\ ~leaseLost => t = job.terminal
        /\ ~leaseLost /\ job.script # <<>> => at = "append"
        /\ ~leaseLost /\ job.script = <<>> => at = job.next
    OBVIOUS
  <1> HIDE DEF at, t
  <1>4. /\ job' \in [at : {at}, script : {job.script}, next : {job.next},
                     stage : {job.stage}, selected : {job.selected}, terminal : {t}]
    BY <1>1 DEF L1Inv, JobShape
  <1>5. /\ job'.at = at /\ job'.script = job.script /\ job'.next = job.next
        /\ job'.stage = job.stage /\ job'.selected = job.selected /\ job'.terminal = t
    BY <1>4
  <1>6. JobShape'
    BY <1>1, <1>2, <1>4, <1>5 DEF L1Inv, JobShape
  <1>7. ~Completed /\ status # "queued"
    BY <1>1 DEF L1Inv, Placed
  <1>8. ~Completed'
    BY <1>1, <1>7 DEF Completed
  <1>9. Placed' /\ Budgeted' /\ AgentShape'
    BY <1>1, <1>2, <1>3, <1>5, <1>7, <1>8 DEF L1Inv, JobShape, Placed, Budgeted, AgentShape
  <1>10. Hopeful' => Promised'
    <2>1. SUFFICES ASSUME Hopeful' PROVE Promised'
      OBVIOUS
    <2>2. Hopeful /\ ~leaseLost
      BY <1>1, <1>3, <1>5, <2>1 DEF Hopeful
    <2>3. Promised /\ Whole' = Whole /\ Counted' = Counted /\ t = job.terminal
      BY <1>1, <1>2, <1>3, <1>5, <2>2 DEF L1Inv, Whole, Counted
    <2> QED
      BY <1>1, <1>2, <1>3, <1>5, <2>2, <2>3 DEF Promised
  <1> QED
    BY <1>6, <1>8, <1>9, <1>10 DEF L1Inv

LEMMA AppendKeeps ==
    ASSUME L1Inv, AppendNext
    PROVE  L1Inv'
  <1> DEFINE rest == Tail(job.script)
             at == IF rest # <<>> /\ Head(job.script).kind = "tool" /\ Head(rest).kind = "tool"
                   THEN "append" ELSE "check"
  <1>1. /\ job.at = "append" /\ job' = [job EXCEPT !.script = rest, !.at = at]
        /\ trace' = Append(trace, Head(job.script))
        /\ UNCHANGED <<agent, toolCalls, status, reserved>>
    BY DEF AppendNext, agentVars
  <1>2. at \in {"append", "check"} /\ (at = "append" => rest # <<>>)
    OBVIOUS
  <1>3. /\ job.script # <<>> /\ IsSequence(job.script) /\ IsSequence(trace)
        /\ ~Completed /\ status # "queued"
    BY <1>1 DEF L1Inv, JobShape, Placed
  <1>4. /\ Append(trace, Head(job.script)) \o rest = trace \o job.script
        /\ IsSequence(Append(trace, Head(job.script))) /\ IsSequence(rest)
    BY <1>3, HeadMoves
  <1> HIDE DEF rest, at
  <1>5. job' \in [at : {at}, script : {rest}, next : {job.next},
                  stage : {job.stage}, selected : {job.selected}, terminal : {job.terminal}]
    BY <1>1 DEF L1Inv, JobShape
  <1>6. /\ job'.at = at /\ job'.script = rest /\ job'.next = job.next
        /\ job'.stage = job.stage /\ job'.selected = job.selected /\ job'.terminal = job.terminal
    BY <1>5
  <1>7. JobShape'
    BY <1>1, <1>2, <1>4, <1>5, <1>6 DEF L1Inv, JobShape
  <1>8. ~Completed'
    BY <1>1, <1>3 DEF Completed
  <1>9. Placed' /\ Budgeted' /\ AgentShape'
    BY <1>1, <1>2, <1>3, <1>6, <1>8 DEF L1Inv, Placed, Budgeted, AgentShape
  <1>10. Hopeful' => Promised'
    <2>1. SUFFICES ASSUME Hopeful' PROVE Promised'
      OBVIOUS
    <2>2. Hopeful
      BY <1>1, <2>1 DEF Hopeful
    <2>3. Promised /\ Whole' = Whole /\ Counted' = Counted
      BY <1>1, <1>2, <1>4, <1>6, <2>2 DEF L1Inv, Whole, Counted
    <2> QED
      BY <1>1, <1>2, <1>6, <2>3 DEF Promised
  <1> QED
    BY <1>7, <1>8, <1>9, <1>10 DEF L1Inv

LEMMA AppendRaisesKeeps ==
    ASSUME L1Inv, AppendRaises
    PROVE  L1Inv'
  <1>1. IsSequence(trace')
    <2>1. IsSequence(trace) /\ IsSequence(Append(trace, Head(job.script)))
      BY Appended DEF L1Inv, JobShape
    <2>2. trace' = trace \/ trace' = Append(trace, Head(job.script))
      BY DEF AppendRaises
    <2> QED
      BY <2>1, <2>2
  <1>2. job.at = "append" /\ status # "queued"
    BY DEF AppendRaises, L1Inv, Placed
  <1> QED
    BY <1>1, <1>2, EndKeeps DEF AppendRaises, Raise, agentVars

LEMMA SendKeeps ==
    ASSUME L1Inv, Send
    PROVE  L1Inv'
  <1>1. /\ job.at \in {"plan", "answer"} /\ job' = [job EXCEPT !.at = "waiting"]
        /\ reserved' = reserved \cup {job.stage}
        /\ UNCHANGED <<agent, toolCalls, status, trace>>
    BY DEF Send, agentVars, storeVars
  <1>2. job' \in [at : {"waiting"}, script : {job.script}, next : {job.next},
                  stage : {job.stage}, selected : {job.selected}, terminal : {job.terminal}]
    BY <1>1 DEF L1Inv, JobShape
  <1>3. /\ job'.at = "waiting" /\ job'.script = job.script /\ job'.next = job.next
        /\ job'.stage = job.stage /\ job'.selected = job.selected /\ job'.terminal = job.terminal
    BY <1>2
  <1>4. JobShape'
    BY <1>1, <1>2, <1>3 DEF L1Inv, JobShape
  <1>5. /\ ~Completed /\ status # "queued" /\ job.script = <<>> /\ job.next = job.at
        /\ job.stage = (IF job.next = "plan" THEN "planning" ELSE "answer")
    BY <1>1 DEF L1Inv, Placed
  <1>6. ~Completed' /\ Placed' /\ Budgeted' /\ AgentShape'
    BY <1>1, <1>3, <1>5 DEF L1Inv, Completed, Placed, Budgeted, AgentShape
  <1>7. Hopeful' => Promised'
    <2>1. SUFFICES ASSUME status = "running" PROVE Promised'
      BY <1>1 DEF Hopeful
    <2>2. /\ Told(trace, reserved) /\ BlockedLast(trace, reserved, "none") /\ job.terminal = "none"
          /\ job.next = "plan" => reserved = {}
          /\ job.next # "plan" => reserved = {"planning"}
          /\ job.next = "answer" => Disclosed(trace, job.selected)
      BY <1>1, <2>1, AtOperation DEF Waits, Counted
    <2>3. Whole' = trace
      BY <1>1, <1>3, <1>5, JoinedEmpty DEF Whole, L1Inv, JobShape
    <2>4. Counted' = reserved
      BY <1>1, <1>3, <1>5, <2>2 DEF Counted
    <2>5. BlockedLast(trace, reserved', "none")
      BY <2>2 DEF BlockedLast
    <2> QED
      BY <1>1, <1>3, <1>5, <2>2, <2>3, <2>4, <2>5 DEF Promised
  <1> QED
    BY <1>4, <1>6, <1>7 DEF L1Inv

\* A handler of _run_l1 that reports one event of egress and closes its stage.
LEMMA HandleKeeps ==
    ASSUME L1Inv, job.at \in Waits, NEW e, NEW error, NEW t \in Ended \ {"answered"},
           job' = Handle(e, error, t),
           UNCHANGED <<agent, toolCalls, status, trace, reserved>>,
           status = "running" =>
             \/ /\ e = Admitted(job.stage) /\ job.stage \notin Counted
                /\ reserved = Counted \cup {job.stage}
             \/ /\ e = Blocked(job.stage) /\ job.stage \notin reserved
                /\ reserved = Counted /\ t = "egress_blocked"
    PROVE  L1Inv'
  <1> DEFINE f == Finished(job.stage, error)
             G == <<e, f>>
  <1>2. JobShape /\ job.stage \in Stage /\ IsSequence(trace)
    BY DEF L1Inv, JobShape
  <1>3. Becomes(job', G, "ending", job.stage, job.selected, t)
    BY <1>2, ThenBecomes DEF Handle, FinishErrorStage
  <1>4. IsSequence(G)
    BY Tuples
  <1>5. AgentShape' /\ t # "none" /\ t # "answered" /\ t \in Ended \cup {"none"}
    BY DEF L1Inv, AgentShape, Ended
  <1>6. /\ DOMAIN G = {1, 2} /\ G[1] = e /\ G[2] = f /\ f.kind = "finished"
    BY DEF Finished
  <1> HIDE DEF f, G
  <1>7. ASSUME status = "running"
        PROVE  Told(trace \o G, reserved) /\ BlockedLast(trace \o G, reserved, t)
    <2>1. Told(trace, Counted) /\ BlockedLast(trace, reserved, "none")
      BY <1>7, AtOperation
    <2>2. CASE e = Admitted(job.stage) /\ job.stage \notin Counted
               /\ reserved = Counted \cup {job.stage}
      <3>1. Told(trace \o G, Counted \cup {job.stage})
        BY <1>2, <1>4, <1>6, <2>1, <2>2, AdmittedTold
      <3>2. \A s \in Stage, i \in DOMAIN G : G[i] # Blocked(s)
        BY <1>2, <1>6, <2>2, EgressKinds
      <3>3. BlockedLast(trace \o G, reserved, t)
        BY <1>2, <1>4, <2>1, <3>2, NotBlocked
      <3> QED
        BY <2>2, <3>1, <3>3
    <2>3. CASE e = Blocked(job.stage) /\ job.stage \notin reserved
               /\ reserved = Counted /\ t = "egress_blocked"
      <3>1. \A s \in Stage, i \in DOMAIN trace : trace[i] # Blocked(s)
        BY <2>1 DEF BlockedLast
      <3>2. \A s \in Stage, i \in DOMAIN G : G[i] # Admitted(s)
        BY <1>2, <1>6, <2>3, EgressKinds
      <3>3. \A s \in Stage, i \in DOMAIN G : G[i] = Blocked(s) => s = job.stage
        BY <1>2, <1>6, <2>3, EgressKinds
      <3>4. Told(trace \o G, reserved)
        <4> DEFINE N == trace \o G
        <4>1. SUFFICES ASSUME NEW s \in Stage
                       PROVE  /\ s \in reserved <=> \E i \in DOMAIN N : N[i] = Admitted(s)
                              /\ \A i, j \in DOMAIN N :
                                   N[i] = Admitted(s) /\ N[j] = Admitted(s) => i = j
          BY DEF Told
        <4>2. \A i \in DOMAIN N : N[i] = Admitted(s) => i \in DOMAIN trace /\ trace[i] = Admitted(s)
          BY <1>2, <1>4, <3>2, FromEither
        <4>3. \A i \in DOMAIN trace : i \in DOMAIN N /\ N[i] = trace[i]
          BY <1>2, <1>4, Joined
        <4> HIDE DEF N
        <4> QED
          BY <2>1, <2>3, <4>2, <4>3 DEF Told
      <3>5. BlockedLast(trace \o G, reserved, t)
        <4>1. SUFFICES ASSUME NEW s \in Stage, NEW i \in DOMAIN (trace \o G),
                              (trace \o G)[i] = Blocked(s)
                       PROVE  s = job.stage
          BY <2>3 DEF BlockedLast
        <4> QED
          BY <1>2, <1>4, <3>1, <3>3, <4>1, FromEither
      <3> QED
        BY <3>4, <3>5
    <2> QED
      BY <1>7, <2>2, <2>3
  <1> DEFINE n == "ending"
             st == job.stage
             sel == job.selected
  <1>8. /\ n \in {"plan", "collect", "answer", "ending"} /\ st \in Stage
        /\ Becomes(job', G, n, st, sel, t) /\ n = "ending" /\ st = job.stage
    BY <1>2, <1>3
  <1> HIDE DEF n, st, sel
  <1> QED
    BY <1>4, <1>5, <1>7, <1>8, ScriptKeeps

LEMMA SendBlockedKeeps ==
    ASSUME L1Inv, SendBlocked
    PROVE  L1Inv'
  <1>1. /\ job.at \in {"plan", "answer"} /\ job.at \in Waits
        /\ UNCHANGED <<agent, toolCalls, status, trace, reserved>>
    BY DEF SendBlocked, agentVars, storeVars, Waits, Raise
  <1>2. CASE Raise
    BY <1>1, <1>2, EndKeeps DEF Raise, L1Inv, JobShape
  <1>3. CASE job' = Handle(Blocked(job.stage), "policy", "egress_blocked")
    <2>1. status = "running" => job.stage \notin reserved /\ reserved = Counted
      BY <1>1, AtOperation DEF L1Inv, Placed, Counted
    <2>2. "egress_blocked" \in Ended \ {"answered"}
      BY DEF Ended
    <2> QED
      BY <1>1, <1>3, <2>1, <2>2, HandleKeeps
  <1> QED
    BY <1>2, <1>3 DEF SendBlocked

LEMMA PlanKeeps ==
    ASSUME L1Inv, PlanReceived
    PROVE  L1Inv'
  <1>1. /\ job.at = "waiting" /\ job.at \in Waits /\ job.stage = "planning" /\ job.next = "plan"
        /\ UNCHANGED <<toolCalls, status, trace, reserved>>
    BY DEF PlanReceived, agentVars, storeVars, Waits, Raise, L1Inv, Placed
  <1>2. status = "running" => Counted = {} /\ reserved = {"planning"}
    BY <1>1, AtOperation DEF Counted
  <1>3. CASE Raise
    BY <1>1, <1>3, EndKeeps DEF Raise, agentVars, L1Inv, JobShape
  <1>4. ASSUME NEW error, NEW t \in {"refused", "failed"},
               job' = Handle(Admitted("planning"), error, t), UNCHANGED agent
        PROVE  L1Inv'
    <2>1. t \in Ended \ {"answered"}
      BY DEF Ended
    <2> QED
      BY <1>1, <1>2, <1>4, <2>1, HandleKeeps
  <1>5. ASSUME NEW plan \in Plan, agent' = Collecting(plan),
               job' = [Then(<<Admitted("planning"), PlanSummary, Finished("planning", "none"),
                              Started("evidence")>>, "collect") EXCEPT !.stage = "evidence"]
        PROVE  L1Inv'
    <2> DEFINE G == <<Admitted("planning"), PlanSummary, Finished("planning", "none"),
                      Started("evidence")>>
    <2>1. JobShape /\ IsSequence(trace) /\ job.terminal \in Ended \cup {"none"}
      BY DEF L1Inv, JobShape
    <2>2. Becomes(job', G, "collect", "evidence", job.selected, job.terminal)
      BY <1>5, <2>1, ThenBecomes
    <2>3. IsSequence(G)
      BY Tuples
    <2>4. /\ 1 \in DOMAIN G /\ G[1] = Admitted("planning")
          /\ \A i \in DOMAIN G : i # 1 => G[i].kind # "egress"
      BY DEF PlanSummary, Finished, Started
    <2> HIDE DEF G
    <2>5. AgentShape' /\ agent'.attempts = agent.attempts
      <3> DEFINE a == Collecting(plan)
      <3>1. a \in [plan : {a.plan}, step : {a.step}, todo : {a.todo}, ids : {a.ids},
                   outputs : {a.outputs}, attempts : {0}, retries : {0},
                   evidence : {a.evidence}, calls : {<<>>}, done : BOOLEAN]
        BY DEF Collecting, Resting
      <3>2. 0 \in 0..ToolBudget /\ 0 \in 0..1 /\ <<>> \in Seq(ToolCallSummary)
        BY AgentAssumption
      <3>3. agent' = a
        BY <1>5
      <3> HIDE DEF a
      <3>4. agent.attempts = 0 /\ a.attempts = 0
        BY <1>1, <3>1 DEF L1Inv, Budgeted
      <3> QED
        BY <3>1, <3>2, <3>3, <3>4 DEF AgentShape
    <2>6. ASSUME status = "running"
          PROVE  /\ Told(trace \o G, reserved) /\ BlockedLast(trace \o G, reserved, job.terminal)
                 /\ job.terminal = "none"
      <3>1. /\ Told(trace, {}) /\ BlockedLast(trace, reserved, "none") /\ job.terminal = "none"
            /\ reserved = {} \cup {"planning"} /\ "planning" \in Stage
        BY <1>1, <1>2, <2>6, AtOperation DEF Stage
      <3>2. Told(trace \o G, {} \cup {"planning"})
        BY <2>1, <2>3, <2>4, <3>1, AdmittedTold
      <3>3. \A s \in Stage, i \in DOMAIN G : G[i] # Blocked(s)
        BY <2>4, <3>1, EgressKinds
      <3>4. BlockedLast(trace \o G, reserved, "none")
        BY <2>1, <2>3, <3>1, <3>3, NotBlocked
      <3> QED
        BY <3>1, <3>2, <3>4
    <2> DEFINE n == "collect"
               st == "evidence"
               t == job.terminal
               sel == job.selected
    <2>7. /\ n = "collect" /\ st = "evidence" /\ st \in Stage /\ t = job.terminal
          /\ n \in {"plan", "collect", "answer", "ending"} /\ t \in Ended \cup {"none"}
          /\ Becomes(job', G, n, st, sel, t)
      BY <2>1, <2>2 DEF Stage
    <2> HIDE DEF n, st, t, sel
    <2> QED
      BY <1>1, <1>2, <2>3, <2>5, <2>6, <2>7, ScriptKeeps
  <1>6. ASSUME NEW plan \in Plan,
               IF ValidPlan(plan)
               THEN /\ agent' = Collecting(plan)
                    /\ job' = [Then(<<Admitted("planning"), PlanSummary,
                                      Finished("planning", "none"), Started("evidence")>>,
                                    "collect") EXCEPT !.stage = "evidence"]
               ELSE job' = InvalidPlan /\ UNCHANGED agent
        PROVE  L1Inv'
    BY <1>4, <1>5, <1>6 DEF InvalidPlan
  <1>7. ASSUME job' = Handle(Admitted("planning"), "provider_error", "failed"),
               UNCHANGED agentVars
        PROVE  L1Inv'
    BY <1>4, <1>7 DEF agentVars
  <1> QED
    BY <1>3, <1>6, <1>7 DEF PlanReceived

LEMMA StopsKeeps ==
    ASSUME NEW a, NEW error \in ToolError, NEW retries \in 0..1,
           a \in [plan : {a.plan}, step : {a.step}, todo : {a.todo}, ids : {a.ids},
                  outputs : {a.outputs}, attempts : 0..ToolBudget, retries : 0..1,
                  evidence : {a.evidence}, calls : Seq(ToolCallSummary), done : BOOLEAN],
           agent' = Stops(a, Summary(retries, error))
    PROVE  AgentShape' /\ agent'.attempts = a.attempts
  <1>1. Append(a.calls, Summary(retries, error)) \in Seq(ToolCallSummary)
    BY DEF ToolCallSummary, Summary
  <1> DEFINE calls == Append(a.calls, Summary(retries, error))
             z == Stops(a, Summary(retries, error))
  <1>2. z = [a EXCEPT !.calls = calls, !.done = TRUE]
    BY DEF Stops
  <1> HIDE DEF calls, z
  <1>3. z \in [plan : {z.plan}, step : {z.step}, todo : {z.todo}, ids : {z.ids},
               outputs : {z.outputs}, attempts : 0..ToolBudget, retries : 0..1,
               evidence : {z.evidence}, calls : {calls}, done : BOOLEAN]
        /\ z.attempts = a.attempts
    BY <1>2
  <1> QED
    BY <1>1, <1>3 DEF AgentShape, z, calls

LEMMA CollectKeeps ==
    ASSUME AgentShape, toolCalls = agent.attempts, Collect
    PROVE  AgentShape' /\ toolCalls' = agent'.attempts
  <1> DEFINE n == agent.attempts
             more == [agent EXCEPT !.attempts = n + 1]
  <1>1. /\ n \in 0..ToolBudget /\ agent.retries \in 0..1 /\ 0 \in 0..1
        /\ ToolBudget \in Nat /\ agent.calls \in Seq(ToolCallSummary)
        /\ {"unresolved", "budget", "timeout", "tool_error", "none"} \subseteq ToolError
    BY AgentAssumption DEF AgentShape, ToolError
  <1>2. CASE Unresolved \/ BudgetSpent
    <2>1. UNCHANGED toolCalls
      BY <1>2 DEF Unresolved, BudgetSpent
    <2>2. PICK error \in {"unresolved", "budget"} : agent' = Stops(agent, Summary(0, error))
      BY <1>2 DEF Unresolved, BudgetSpent
    <2>3. error \in ToolError
      BY <1>1
    <2> QED
      BY <1>1, <2>1, <2>2, <2>3, StopsKeeps DEF AgentShape
  <1>3. CASE CallTool
    <2>1. n < ToolBudget /\ toolCalls' = n + 1 /\ n + 1 \in 0..ToolBudget
      BY <1>1, <1>3 DEF CallTool
    <2>2. more \in [plan : {more.plan}, step : {more.step}, todo : {more.todo}, ids : {more.ids},
                    outputs : {more.outputs}, attempts : 0..ToolBudget, retries : 0..1,
                    evidence : {more.evidence}, calls : Seq(ToolCallSummary), done : BOOLEAN]
          /\ more.attempts = n + 1 /\ more.retries = agent.retries
      BY <2>1 DEF AgentShape
    <2>3. ASSUME NEW error \in {"timeout", "tool_error"},
                 agent' = Stops(more, Summary(agent.retries, error))
          PROVE  AgentShape' /\ agent'.attempts = n + 1
      <3> HIDE DEF more
      <3>1. error \in ToolError
        BY <1>1
      <3> QED
        BY <1>1, <2>2, <2>3, <3>1, StopsKeeps
    <2>4. ASSUME MayRetry, agent' = [agent EXCEPT !.attempts = @ + 1, !.retries = @ + 1]
          PROVE  AgentShape' /\ agent'.attempts = n + 1
      <3>1. agent.retries + 1 \in 0..1
        BY <2>4 DEF MayRetry
      <3> DEFINE z == [agent EXCEPT !.attempts = n + 1, !.retries = agent.retries + 1]
      <3>2. z \in [plan : {z.plan}, step : {z.step}, todo : {z.todo}, ids : {z.ids},
                   outputs : {z.outputs}, attempts : 0..ToolBudget, retries : 0..1,
                   evidence : {z.evidence}, calls : Seq(ToolCallSummary), done : BOOLEAN]
            /\ z.attempts = n + 1
        BY <2>1, <3>1 DEF AgentShape
      <3>3. agent' = z
        BY <2>4
      <3> HIDE DEF z, n
      <3> QED
        BY <3>2, <3>3 DEF AgentShape
    <2>5. ASSUME NEW found, Returned(found) PROVE AgentShape' /\ agent'.attempts = n + 1
      <3> DEFINE todo == Tail(agent.todo)
                 calls == Append(agent.calls, Summary(agent.retries, "none"))
                 ids == agent.ids \o found
                 items == IF agent.plan[agent.step].kind = "get"
                          THEN Append(agent.evidence, Head(agent.todo)) ELSE agent.evidence
                 a == [agent EXCEPT !.attempts = n + 1, !.retries = 0, !.todo = todo,
                         !.calls = calls, !.ids = ids, !.evidence = items]
      <3>1. agent' = IF a.todo = <<>> THEN FinishStep(a) ELSE a
        BY <2>5 DEF Returned
      <3>2. calls \in Seq(ToolCallSummary)
        BY <1>1 DEF ToolCallSummary, Summary
      <3> HIDE DEF todo, calls, ids, items
      <3>3. a \in [plan : {a.plan}, step : {a.step}, todo : {a.todo}, ids : {a.ids},
                   outputs : {a.outputs}, attempts : 0..ToolBudget, retries : 0..1,
                   evidence : {a.evidence}, calls : Seq(ToolCallSummary), done : BOOLEAN]
            /\ a.attempts = n + 1
        BY <1>1, <2>1, <3>2 DEF AgentShape
      <3> HIDE DEF a
      <3> DEFINE z == FinishStep(a)
      <3>4. z \in [plan : {z.plan}, step : {z.step}, todo : {z.todo}, ids : {z.ids},
                   outputs : {z.outputs}, attempts : 0..ToolBudget, retries : 0..1,
                   evidence : {z.evidence}, calls : Seq(ToolCallSummary), done : BOOLEAN]
            /\ z.attempts = n + 1
        BY <3>3 DEF FinishStep
      <3> HIDE DEF z, n
      <3> QED
        BY <3>1, <3>3, <3>4 DEF AgentShape, z
    <2>6. AgentShape' /\ agent'.attempts = n + 1
      BY <1>3, <2>3, <2>4, <2>5 DEF CallTool
    <2> QED
      BY <2>1, <2>6
  <1> QED
    BY <1>2, <1>3 DEF Collect

LEMMA CollectStepKeeps ==
    ASSUME L1Inv, CollectStep
    PROVE  L1Inv'
  <1>1. /\ job.at = "collect" /\ Collect /\ UNCHANGED <<status, trace, reserved, job>>
    BY DEF CollectStep, storeVars
  <1>2. AgentShape' /\ toolCalls' = agent'.attempts
    BY <1>1, CollectKeeps DEF L1Inv, Budgeted
  <1>3. job.stage = "evidence"
    BY <1>1 DEF L1Inv, Placed
  <1>4. Budgeted'
    BY <1>1, <1>2, <1>3 DEF Budgeted
  <1>5. JobShape' /\ Placed' /\ (Hopeful' => Promised') /\ (Completed' => Shown')
    BY <1>1 DEF L1Inv, JobShape, Placed, Hopeful, Promised, Completed, Shown, Whole, Counted
  <1> QED
    BY <1>2, <1>4, <1>5 DEF L1Inv

LEMMA CollectedKeeps ==
    ASSUME L1Inv, Collected
    PROVE  L1Inv'
  <1> DEFINE sel == SelectedEvidence(DedupeEvidence(agent.evidence))
             calls == [i \in DOMAIN agent.calls |-> ToolFinished(agent.calls[i])]
             ids == {ContentHash[c] : c \in ToSet(sel)}
             last == <<EvidenceSummary(ids), Finished("evidence", "none"), Started("answer")>>
             G == calls \o last
  <1>1. /\ job.at = "collect" /\ job.at \in Waits /\ job.next = "collect"
        /\ job.stage = "evidence"
        /\ UNCHANGED <<agent, toolCalls, status, trace, reserved>>
    BY DEF Collected, agentVars, storeVars, Waits, L1Inv, Placed
  <1>2. JobShape /\ IsSequence(trace) /\ job.terminal \in Ended \cup {"none"} /\ AgentShape'
    BY <1>1 DEF L1Inv, JobShape, AgentShape
  <1>3. Becomes(job', G, "answer", "answer", sel, job.terminal)
    BY <1>2, ThenBecomes DEF Collected
  <1>4. calls \in Seq({ToolFinished(c) : c \in ToolCallSummary})
    <2>1. agent.calls \in Seq(ToolCallSummary)
      BY DEF L1Inv, AgentShape
    <2>2. \A i \in DOMAIN agent.calls : agent.calls[i] \in ToolCallSummary
      BY <2>1
    <2> QED
      BY <2>1, <2>2
  <1>5. IsSequence(calls) /\ \A i \in DOMAIN calls : calls[i].kind = "tool"
    <2>1. IsSequence(calls)
      BY <1>4, SelfTyped
    <2> QED
      BY <2>1 DEF ToolFinished
  <1>6. IsSequence(last)
    BY Tuples
  <1>7. /\ DOMAIN last = 1..3 /\ Len(last) = 3 /\ last[1] = EvidenceSummary(ids)
        /\ \A i \in DOMAIN last : last[i].kind # "egress"
    BY DEF EvidenceSummary, Finished, Started
  <1> HIDE DEF calls, last
  <1>8. IsSequence(G) /\ Quiet(G) /\ \E i \in DOMAIN G : G[i] = EvidenceSummary(ids)
    <2>1. IsSequence(G)
      BY <1>5, <1>6, Joined
    <2>2. ASSUME NEW i \in DOMAIN G PROVE G[i].kind # "egress"
      BY <1>5, <1>6, <1>7, FromEither
    <2>3. Len(calls) + 1 \in DOMAIN G /\ G[Len(calls) + 1] = last[1]
      BY <1>5, <1>6, <1>7, Joined
    <2> QED
      BY <1>7, <2>1, <2>2, <2>3 DEF Quiet
  <1> HIDE DEF G
  <1>9. ASSUME status = "running"
        PROVE  /\ Told(trace \o G, reserved) /\ BlockedLast(trace \o G, reserved, job.terminal)
               /\ job.terminal = "none" /\ reserved = {"planning"}
               /\ Disclosed(trace \o G, sel)
    <2>1. /\ Told(trace, reserved) /\ BlockedLast(trace, reserved, "none") /\ job.terminal = "none"
          /\ reserved = {"planning"}
      BY <1>1, <1>9, AtOperation DEF Counted
    <2>2. Told(trace \o G, reserved)
      BY <1>2, <1>8, <2>1, QuietTold
    <2>3. \A s \in Stage, i \in DOMAIN G : G[i] # Blocked(s)
      BY <1>8, EgressKinds DEF Quiet
    <2>4. BlockedLast(trace \o G, reserved, "none")
      BY <1>2, <1>8, <2>1, <2>3, NotBlocked
    <2>5. Disclosed(trace \o G, sel)
      <3> DEFINE N == trace \o G
      <3>1. PICK i \in DOMAIN G : G[i] = EvidenceSummary(ids)
        BY <1>8
      <3>2. Len(trace) + i \in DOMAIN N /\ N[Len(trace) + i] = EvidenceSummary(ids)
        BY <1>2, <1>8, <3>1, BothParts
      <3> HIDE DEF N, sel
      <3>3. Disclosed(N, sel)
        BY <3>2 DEF Disclosed
      <3> QED
        BY <3>3 DEF N
    <2> QED
      BY <2>1, <2>2, <2>4, <2>5
  <1> DEFINE n == "answer"
             st == "answer"
             t == job.terminal
  <1>10. /\ n = "answer" /\ st = "answer" /\ st \in Stage /\ t = job.terminal
         /\ n \in {"plan", "collect", "answer", "ending"} /\ t \in Ended \cup {"none"}
         /\ Becomes(job', G, n, st, sel, t)
    BY <1>2, <1>3 DEF Stage, G
  <1> HIDE DEF n, st, t, sel
  <1> QED
    BY <1>1, <1>2, <1>8, <1>9, <1>10, ScriptKeeps

LEMMA ReportKeeps ==
    ASSUME L1Inv, job.at \in Waits, job.next = "answer", job.stage = "answer",
           NEW o,
           o \in [verdict : {"answered", "refused"}, reason : {o.reason},
                  citations : SUBSET ToSet(job.selected), faults : {o.faults},
                  admitted : BOOLEAN, provider : BOOLEAN],
           o.verdict = "answered" => o.citations # {} /\ o.faults = {} /\ o.admitted,
           job' = Report(o), UNCHANGED <<agent, toolCalls, status, trace, reserved>>,
           o.admitted <=> job.at = "waiting"
    PROVE  L1Inv'
  <1> DEFINE first == IF o.admitted THEN <<Admitted("answer")>> ELSE <<>>
             passed == {ContentHash[c] : c \in o.citations}
             f == Finished("answer", IF o.provider THEN "provider_error" ELSE "none")
             last == <<VerifierSummary(passed, o.faults), AnswerEvent(o), f>>
             G == first \o last
             t == ProjectAnswerOutcome(o)
  <1>1. JobShape /\ IsSequence(trace) /\ AgentShape' /\ "answer" \in Stage
    BY DEF L1Inv, JobShape, AgentShape, Stage
  <1>2. t \in Ended /\ t # "none" /\ (t = "answered" => o.verdict = "answered")
    BY DEF ProjectAnswerOutcome, Ended
  <1>3. Becomes(job', G, "ending", "answer", job.selected, t)
    <2>1. job' = [Then(G, "ending") EXCEPT !.terminal = t]
      BY Zenon DEF Report
    <2> HIDE DEF G, t
    <2>2. \A u : Becomes([Then(G, "ending") EXCEPT !.terminal = u],
                        G, "ending", job.stage, job.selected, u)
      BY <1>1, ThenBecomes
    <2> QED
      BY <2>1, <2>2
  <1> HIDE DEF t
  <1>4. IsSequence(first) /\ IsSequence(last)
    BY Tuples
  <1>5. /\ o.admitted => DOMAIN first = {1} /\ Len(first) = 1 /\ first[1] = Admitted("answer")
        /\ ~o.admitted => DOMAIN first = {} /\ Len(first) = 0
    OBVIOUS
  <1>6. /\ DOMAIN last = 1..3 /\ Len(last) = 3
        /\ last[1].kind = "verifier" /\ last[1].passed = passed /\ last[1].faults = o.faults
        /\ \A i \in DOMAIN last : last[i].kind # "egress"
    BY DEF VerifierSummary, AnswerEvent, Finished
  <1> HIDE DEF first, last, passed
  <1>7. IsSequence(G)
    BY <1>4, Joined
  <1>8. ASSUME NEW i \in DOMAIN G, G[i].kind = "egress"
        PROVE  o.admitted /\ i = 1 /\ G[i] = Admitted("answer")
    BY <1>4, <1>5, <1>6, <1>8, FromEither
  <1>9. o.admitted => 1 \in DOMAIN G /\ G[1] = Admitted("answer")
    <2>1. o.admitted => 1 \in DOMAIN first
      BY <1>5
    <2> QED
      BY <1>4, <1>5, <2>1, BothParts
  <1>10. PICK j \in DOMAIN G : G[j] = last[1]
    <2>1. Len(first) + 1 \in DOMAIN G /\ G[Len(first) + 1] = last[1]
      <3>1. 1 \in DOMAIN last
        BY <1>6
      <3> QED
        BY <1>4, <3>1, BothParts
    <2> QED
      BY <2>1
  <1> HIDE DEF G
  <1>11. ASSUME status = "running"
         PROVE  /\ Told(trace \o G, reserved) /\ BlockedLast(trace \o G, reserved, t)
                /\ t = "answered" => Cited(trace \o G) /\ "answer" \in reserved
    <2>1. /\ Told(trace, Counted) /\ BlockedLast(trace, reserved, "none")
          /\ Counted = {"planning"} /\ Disclosed(trace, job.selected)
          /\ job.at = "waiting" => "answer" \in reserved
      BY <1>11, AtOperation
    <2>2. Told(trace \o G, reserved)
      <3>1. CASE o.admitted
        <4>1. "answer" \notin Counted /\ reserved = Counted \cup {"answer"}
          BY <2>1, <3>1 DEF Counted
        <4>2. \A i \in DOMAIN G : i # 1 => G[i].kind # "egress"
          BY <1>8
        <4>3. Told(trace \o G, Counted \cup {"answer"})
          BY <1>1, <1>7, <1>9, <2>1, <3>1, <4>1, <4>2, AdmittedTold
        <4> QED
          BY <4>1, <4>3
      <3>2. CASE ~o.admitted
        <4>1. Quiet(G) /\ reserved = Counted
          BY <1>8, <3>2 DEF Quiet, Counted
        <4> QED
          BY <1>1, <1>7, <2>1, <4>1, QuietTold
      <3> QED
        BY <3>1, <3>2
    <2>3. BlockedLast(trace \o G, reserved, t)
      <3>1. \A s \in Stage, i \in DOMAIN G : G[i] # Blocked(s)
        BY <1>1, <1>8, EgressKinds
      <3> QED
        BY <1>1, <1>7, <2>1, <3>1, NotBlocked
    <2>4. ASSUME t = "answered" PROVE Cited(trace \o G) /\ "answer" \in reserved
      <3>1. o.citations # {} /\ o.faults = {} /\ o.admitted /\ o.citations \subseteq ToSet(job.selected)
        BY <1>2, <2>4
      <3>2. PICK i \in DOMAIN trace :
              trace[i] = EvidenceSummary({ContentHash[c] : c \in ToSet(job.selected)})
        BY <2>1 DEF Disclosed
      <3>3. /\ trace[i].kind = "evidence"
            /\ trace[i].ids = {ContentHash[c] : c \in ToSet(job.selected)}
        BY <3>2 DEF EvidenceSummary
      <3>4. passed # {} /\ passed \subseteq trace[i].ids
        BY <3>1, <3>3 DEF passed
      <3> DEFINE N == trace \o G
                 k == Len(trace) + j
      <3>5. /\ i \in DOMAIN N /\ k \in DOMAIN N /\ i < k /\ N[i] = trace[i] /\ N[k] = G[j]
        BY <1>1, <1>7, Joined
      <3> HIDE DEF N, k
      <3>6. Cited(N)
        BY <1>6, <1>10, <3>1, <3>3, <3>4, <3>5 DEF Cited
      <3> QED
        BY <2>1, <3>1, <3>6 DEF N
    <2> QED
      BY <2>2, <2>3, <2>4
  <1> DEFINE n == "ending"
             st == "answer"
             sel == job.selected
  <1>12. /\ n = "ending" /\ st = "answer" /\ st \in Stage /\ t \in Ended \cup {"none"}
         /\ n \in {"plan", "collect", "answer", "ending"} /\ Becomes(job', G, n, st, sel, t)
    BY <1>1, <1>2, <1>3 DEF G
  <1> HIDE DEF n, st, sel
  <1> QED
    BY <1>1, <1>2, <1>7, <1>11, <1>12, ScriptKeeps

LEMMA AnswerKeeps ==
    ASSUME L1Inv, AnswerUnsent \/ AnswerReceived
    PROVE  L1Inv'
  <1>1. /\ job.at \in Waits /\ job.next = "answer" /\ job.stage = "answer"
        /\ UNCHANGED <<agent, toolCalls, status, trace, reserved>>
    <2>1. CASE AnswerUnsent
      BY <2>1 DEF AnswerUnsent, agentVars, storeVars, Waits, L1Inv, Placed
    <2>2. CASE AnswerReceived
      BY <2>2 DEF AnswerReceived, agentVars, storeVars, Waits, Raise, L1Inv, Placed
    <2> QED
      BY <2>1, <2>2
  <1> DEFINE Sound(o) ==
               /\ o \in [verdict : {"answered", "refused"}, reason : {o.reason},
                         citations : SUBSET ToSet(job.selected), faults : {o.faults},
                         admitted : BOOLEAN, provider : BOOLEAN]
               /\ o.verdict = "answered" => o.citations # {} /\ o.faults = {} /\ o.admitted
               /\ o.admitted <=> job.at = "waiting"
  <1>2. ASSUME NEW o, Sound(o), job' = Report(o) PROVE L1Inv'
    BY <1>1, <1>2, ReportKeeps
  <1>3. ASSUME NEW reason, NEW faults, NEW admitted \in BOOLEAN, NEW provider \in BOOLEAN,
               admitted <=> job.at = "waiting"
        PROVE  Sound(Refused(reason, faults, admitted, provider))
    <2> DEFINE o == Refused(reason, faults, admitted, provider)
    <2>1. /\ o.verdict = "refused" /\ o.citations = {} /\ o.admitted = admitted
          /\ o \in [verdict : {"refused"}, reason : {reason}, citations : {{}},
                    faults : {faults}, admitted : {admitted}, provider : {provider}]
      BY DEF Refused
    <2> HIDE DEF o
    <2>2. Sound(o)
      BY <1>3, <2>1
    <2> QED
      BY <2>2 DEF o
  <1>4. CASE AnswerUnsent
    <2>1. job' = Report(NothingRetrieved) /\ job.at = "answer"
      BY <1>4 DEF AnswerUnsent
    <2>2. Sound(NothingRetrieved)
      BY <1>3, <2>1 DEF NothingRetrieved
    <2> HIDE DEF Sound
    <2> QED
      BY <1>2, <2>1, <2>2
  <1>5. CASE AnswerReceived
    <2>1. job.at = "waiting"
      BY <1>5 DEF AnswerReceived
    <2>2. CASE Raise
      BY <1>1, <2>1, <2>2, EndKeeps DEF Raise, L1Inv, JobShape
    <2>3. CASE job' = Report(ProviderFailed)
      <3>1. Sound(ProviderFailed)
        BY <1>3, <2>1 DEF ProviderFailed
      <3> HIDE DEF Sound
      <3> QED
        BY <1>2, <2>3, <3>1
    <2>4. ASSUME NEW reply \in Reply, job' = Report(VerifyResponse(job.selected, reply))
          PROVE  L1Inv'
      <3> DEFINE sel == job.selected
                 cited == reply.cited
      <3>1. Sound(VerifyAnswer(sel, cited))
        <4> DEFINE shown == {ContentHash[c] : c \in ToSet(sel)}
                   faults == cited \ shown
                   verified == {c \in ToSet(sel) : ContentHash[c] \in cited}
        <4>1. CASE faults # {} \/ verified = {}
          <5> DEFINE fault == IF faults = {} THEN {"no_citation"} ELSE faults
          <5>1. VerifyAnswer(sel, cited) = Refused("unverifiable", fault, TRUE, FALSE)
            BY <4>1 DEF VerifyAnswer
          <5> HIDE DEF fault, Sound
          <5>2. Sound(Refused("unverifiable", fault, TRUE, FALSE))
            BY <1>3, <2>1
          <5> QED
            BY <5>1, <5>2
        <4>2. CASE ~(faults # {} \/ verified = {})
          <5> DEFINE o == VerifyAnswer(sel, cited)
          <5>1. o = [verdict |-> "answered", reason |-> "none", citations |-> verified,
                     faults |-> {}, admitted |-> TRUE, provider |-> FALSE]
            BY <4>2 DEF VerifyAnswer
          <5>2. verified # {} /\ verified \in SUBSET ToSet(job.selected)
            BY <4>2
          <5> HIDE DEF o, verified
          <5>3. Sound(o)
            BY <2>1, <5>1, <5>2
          <5> QED
            BY <5>3 DEF o
        <4> QED
          BY <4>1, <4>2
      <3> DEFINE r == VerifyResponse(sel, reply)
      <3>2. \/ r = Refused("insufficient", {"parse_fault"}, TRUE, FALSE)
            \/ r = Refused("insufficient", {}, TRUE, FALSE)
            \/ r = VerifyAnswer(sel, cited)
        BY DEF VerifyResponse
      <3> HIDE DEF Sound, r
      <3>3. /\ Sound(Refused("insufficient", {"parse_fault"}, TRUE, FALSE))
            /\ Sound(Refused("insufficient", {}, TRUE, FALSE))
        BY <1>3, <2>1
      <3>4. Sound(r)
        BY <3>1, <3>2, <3>3
      <3>5. job' = Report(r)
        BY <2>4 DEF r
      <3> QED
        BY <1>2, <3>4, <3>5
    <2> QED
      BY <1>5, <2>2, <2>3, <2>4 DEF AnswerReceived
  <1> QED
    BY <1>4, <1>5

LEMMA StopKeeps ==
    ASSUME L1Inv, StopHeartbeat
    PROVE  L1Inv'
  <1>1. /\ job.at = "ending" /\ job' = [job EXCEPT !.at = "complete"]
        /\ UNCHANGED <<agent, toolCalls, status, trace, reserved>>
    BY DEF StopHeartbeat, agentVars, storeVars
  <1>2. job' \in [at : {"complete"}, script : {job.script}, next : {job.next},
                  stage : {job.stage}, selected : {job.selected}, terminal : {job.terminal}]
    BY <1>1 DEF L1Inv, JobShape
  <1>3. /\ job'.at = "complete" /\ job'.script = job.script /\ job'.next = job.next
        /\ job'.stage = job.stage /\ job'.selected = job.selected /\ job'.terminal = job.terminal
    BY <1>2
  <1>4. JobShape'
    BY <1>1, <1>2, <1>3 DEF L1Inv, JobShape
  <1>5. ~Completed /\ status # "queued"
    BY <1>1 DEF L1Inv, Placed
  <1>6. ~Completed' /\ Placed' /\ Budgeted' /\ AgentShape'
    BY <1>1, <1>3, <1>5 DEF L1Inv, Completed, Placed, Budgeted, AgentShape
  <1>7. Hopeful' => Hopeful /\ Promised
    BY <1>1, <1>3 DEF L1Inv, Hopeful
  <1>8. Hopeful' => Promised'
    BY <1>1, <1>3, <1>7 DEF Promised, Whole, Counted
  <1> QED
    BY <1>4, <1>6, <1>8 DEF L1Inv

LEMMA CompleteKeeps ==
    ASSUME L1Inv, Complete
    PROVE  L1Inv'
  <1>1. /\ job.at = "complete" /\ job' = [job EXCEPT !.at = "ended"]
        /\ UNCHANGED <<agent, toolCalls, reserved>>
    BY DEF Complete, agentVars
  <1>2. IsSequence(trace)
    BY DEF L1Inv, JobShape
  <1>3. CASE UNCHANGED <<status, trace>>
    BY <1>1, <1>2, <1>3, EndKeeps
  <1>4. CASE /\ job.terminal # "none" /\ ~leaseLost /\ Leased("running")
             /\ status' = job.terminal
             /\ trace' = Append(trace, TerminalEvent(job.terminal))
    <2>1. Hopeful /\ Promised /\ job.terminal \in Ended /\ job.script = <<>>
      BY <1>1, <1>4 DEF L1Inv, JobShape, Hopeful, Leased, Promised
    <2>2. Told(trace, reserved) /\ BlockedLast(trace, reserved, job.terminal)
          /\ (job.terminal = "answered" => Cited(trace) /\ "answer" \in reserved)
      BY <1>1, <1>2, <2>1, JoinedEmpty DEF Promised, Whole, Counted
    <2> DEFINE e == TerminalEvent(job.terminal)
               N == Append(trace, e)
    <2>3. e.kind = "terminal"
      BY DEF TerminalEvent
    <2>4. /\ IsSequence(N) /\ Len(trace) \in Nat
          /\ DOMAIN trace = 1..Len(trace) /\ DOMAIN N = 1..(Len(trace) + 1)
          /\ \A i \in 1..Len(trace) : N[i] = trace[i]
          /\ N[Len(trace) + 1] = e
      BY <1>2, Appended
    <2>5. trace' = N
      BY <1>4
    <2> HIDE DEF e, N
    <2>6. /\ \A i \in DOMAIN trace : i \in DOMAIN N /\ N[i] = trace[i]
          /\ \A i \in DOMAIN N : (i \in DOMAIN trace /\ N[i] = trace[i]) \/ N[i].kind = "terminal"
      BY <2>3, <2>4
    <2>7. Told(N, reserved)
      <3>1. SUFFICES ASSUME NEW s \in Stage
                     PROVE  /\ s \in reserved <=> \E i \in DOMAIN N : N[i] = Admitted(s)
                            /\ \A i, j \in DOMAIN N :
                                 N[i] = Admitted(s) /\ N[j] = Admitted(s) => i = j
        BY DEF Told
      <3>2. \A i \in DOMAIN N : N[i] = Admitted(s) => i \in DOMAIN trace /\ trace[i] = Admitted(s)
        BY <2>6, EgressKinds
      <3> QED
        BY <2>2, <2>6, <3>2 DEF Told
    <2>8. BlockedLast(N, reserved, job.terminal)
      BY <2>2, <2>6, EgressKinds DEF BlockedLast
    <2>9. Cited(trace) => Cited(N)
      BY <2>6 DEF Cited
    <2>10. Shown'
      BY <1>1, <1>4, <2>2, <2>5, <2>7, <2>8, <2>9 DEF Shown
    <2>11. /\ job'.at = "ended" /\ job'.script = job.script /\ job'.next = job.next
           /\ job'.stage = job.stage /\ job'.selected = job.selected /\ job'.terminal = job.terminal
           /\ job' \in [at : {"ended"}, script : {job.script}, next : {job.next},
                        stage : {job.stage}, selected : {job.selected}, terminal : {job.terminal}]
      BY <1>1 DEF L1Inv, JobShape
    <2>12. JobShape'
      BY <1>1, <2>4, <2>5, <2>11 DEF L1Inv, JobShape
    <2>13. status' # "queued" /\ status' # "running"
      BY <1>4, <2>1 DEF Ended
    <2>14. Placed' /\ Budgeted' /\ AgentShape' /\ ~Hopeful'
      BY <1>1, <2>11, <2>13 DEF L1Inv, Placed, Budgeted, AgentShape, Hopeful
    <2> QED
      BY <2>10, <2>12, <2>14 DEF L1Inv
  <1> QED
    BY <1>3, <1>4 DEF Complete

LEMMA NextInv ==
    ASSUME L1Inv, [Next]_vars
    PROVE  L1Inv'
  <1>1. ASSUME UNCHANGED vars PROVE L1Inv'
    BY <1>1, SameKeeps DEF vars
  <1>2. ASSUME Beat \/ BeatFails \/ LeaseExpires PROVE L1Inv'
    BY <1>2, SameKeeps DEF Beat, BeatFails, LeaseExpires, agentVars, storeVars
  <1>3. ASSUME CollectRaises \/ Die PROVE L1Inv'
    BY <1>3, EndKeeps DEF CollectRaises, Die, Raise, agentVars, storeVars, L1Inv, JobShape
  <1> QED
    BY <1>1, <1>2, <1>3, ReconcileKeeps, ClaimKeeps, CheckKeeps, AppendKeeps, AppendRaisesKeeps,
       SendKeeps, SendBlockedKeeps, PlanKeeps, CollectStepKeeps, CollectedKeeps, AnswerKeeps,
       StopKeeps, CompleteKeeps
       DEF Next, Attempt

LEMMA InitInv ==
    ASSUME Init
    PROVE  L1Inv
  <1>1. /\ job = [at |-> "queued", script |-> <<>>, next |-> "plan", stage |-> "planning",
                  selected |-> <<>>, terminal |-> "none"]
        /\ agent = Resting /\ toolCalls = 0 /\ status = "queued" /\ trace = <<>> /\ reserved = {}
    BY DEF Init
  <1>2. IsSequence(<<>>)
    BY Tuples
  <1>3. JobShape
    BY <1>1, <1>2 DEF JobShape, Stage
  <1>4. AgentShape /\ agent.attempts = 0
    <2>1. 0 \in 0..ToolBudget /\ 0 \in 0..1 /\ <<>> \in Seq(ToolCallSummary)
      BY AgentAssumption
    <2> QED
      BY <1>1, <2>1 DEF AgentShape, Resting
  <1>5. ~Completed /\ ~Hopeful
    BY <1>1 DEF Completed, Ended, Hopeful
  <1> QED
    BY <1>1, <1>3, <1>4, <1>5 DEF L1Inv, Budgeted, Placed

-----------------------------------------------------------------------------
(* Results *)

\* While an attempt may still complete its run, the trace and what it is about
\* to append account together for every request it made.
THEOREM L1Invariance == Spec => []L1Inv
  BY InitInv, NextInv, PTL DEF Spec

\* The trace of a completed run reports each request that was reserved, once,
\* and no other, whichever handler of _run_l1 ended the attempt.
THEOREM RequestsAreReported == Spec => []EgressReported
  <1>1. L1Inv => EgressReported
    <2>1. SUFFICES ASSUME L1Inv, Completed, NEW s \in Stage
                   PROVE  /\ s \in reserved <=> Occurs(Admitted(s))
                          /\ Cardinality({i \in DOMAIN trace : trace[i] = Admitted(s)}) <= 1
                          /\ Occurs(Blocked(s)) => s \notin reserved /\ status = "egress_blocked"
      BY DEF EgressReported
    <2>2. Told(trace, reserved) /\ BlockedLast(trace, reserved, status)
      BY <2>1 DEF L1Inv, Shown
    <2>3. /\ s \in reserved <=> Occurs(Admitted(s))
          /\ Occurs(Blocked(s)) => s \notin reserved /\ status = "egress_blocked"
      BY <2>2 DEF Told, BlockedLast, Occurs
    <2> DEFINE I == {i \in DOMAIN trace : trace[i] = Admitted(s)}
    <2>4. \A i, j \in I : i = j
      BY <2>2 DEF Told
    <2> HIDE DEF I
    <2>5. I = {} \/ \E i : I = {i}
      BY <2>4
    <2>6. Cardinality(I) <= 1
      <3>1. Cardinality(I) = 0 \/ Cardinality(I) = 1
        BY <2>5, FS_EmptySet, FS_Singleton, Zenon
      <3> QED
        BY <3>1
    <2> QED
      BY <2>3, <2>6 DEF I
  <1> QED
    BY <1>1, L1Invariance, PTL

\* An answered run passed a citation, failed none, and cites only what its own
\* request disclosed, for any reply of the provider and any result of the tools.
THEOREM AnswersAreCited == Spec => []AnsweredIsCited
  <1>1. L1Inv => AnsweredIsCited
    <2>1. SUFFICES ASSUME L1Inv, status = "answered"
                   PROVE  Cited(trace) /\ "answer" \in reserved
      BY DEF AnsweredIsCited, Cited
    <2>2. Completed
      BY <2>1 DEF Completed, Ended
    <2> QED
      BY <2>1, <2>2 DEF L1Inv, Shown
  <1> QED
    BY <1>1, L1Invariance, PTL

\* A settled run is final: append and complete are fenced by the running lease,
\* so that no late step of a worker changes its status or adds to its trace.
THEOREM SettledRunsAreFinal == Spec => SettledIsFinal
  <1>1. ASSUME [Next]_vars, Completed \/ status = "interrupted"
        PROVE  UNCHANGED <<status, trace>>
    <2>1. status # "queued" /\ status # "running"
      BY <1>1 DEF Completed, Ended
    <2> QED
      BY <1>1, <2>1 DEF Next, Attempt, vars, storeVars, Claim, CheckLease, AppendNext, AppendRaises,
         AppendFenced, Leased, Send, SendBlocked, PlanReceived, CollectStep, CollectRaises,
         Collected, AnswerUnsent, AnswerReceived, StopHeartbeat, Complete, Beat, BeatFails,
         LeaseExpires, ReconcileExpired, Die
  <1>2. [Next]_vars =>
            [(Completed \/ status = "interrupted") => UNCHANGED <<status, trace>>]_vars
    BY <1>1
  <1> QED
    BY <1>2, PTL DEF Spec, SettledIsFinal

-----------------------------------------------------------------------------
(* The calls that a trace accounts for *)

\* A trace followed by the summaries of calls.
Reports(F, calls) == F \o [i \in DOMAIN calls |-> ToolFinished(calls[i])]

\* A trace accounts for all of n calls but k.
Tally(F, k, n) == IsFiniteSet(CallsIn(F)) /\ Cardinality(CallsIn(F)) + k = n

\* The calls of the invocation under way, which has no summary yet.
Outstanding(a) == IF a.done THEN 0 ELSE a.retries

\* A retry is still to be called: collect checked the budget before it.
RetryPending == ~agent.done /\ agent.retries # 0 => agent.todo # <<>> /\ agent.attempts < ToolBudget

\* While collect works, its summaries account for the calls of finished
\* invocations; otherwise the trace with what is to be appended does for all.
Tallied ==
    /\ RetryPending
    /\ Hopeful /\ job.stage = "evidence" =>
         /\ job.next = "collect"
         /\ Tally(Reports(Whole, agent.calls), Outstanding(agent), toolCalls)
    /\ Hopeful /\ job.stage # "evidence" => Tally(Whole, 0, toolCalls)
    /\ Completed => Tally(trace, 0, toolCalls)

CallsAt(i, e) == {i} \X (1..CallsOf(e))

LEMMA CallsMember ==
    ASSUME NEW F, NEW x
    PROVE  x \in CallsIn(F) <=> \E i \in DOMAIN F : x \in CallsAt(i, F[i])
  BY DEF CallsIn, CallsAt

LEMMA CallsApart ==
    ASSUME NEW i, NEW j, NEW d, NEW e, NEW x, x \in CallsAt(i, d), x \in CallsAt(j, e)
    PROVE  i = j
  BY DEF CallsAt

LEMMA NoCalls ==
    ASSUME NEW i, NEW e, CallsOf(e) = 0
    PROVE  CallsAt(i, e) = {}
  BY DEF CallsAt

LEMMA CallsAtCount ==
    ASSUME NEW i, NEW e, NEW n \in Nat, CallsOf(e) = n
    PROVE  IsFiniteSet(CallsAt(i, e)) /\ Cardinality(CallsAt(i, e)) = n
  <1> DEFINE S == {i}
             I == 1..n
             P == S \X I
  <1>1. IsFiniteSet(S) /\ Cardinality(S) = 1
    BY FS_Singleton
  <1>2. IsFiniteSet(I) /\ Cardinality(I) = n
    BY FS_Interval
  <1>3. CallsAt(i, e) = P
    BY DEF CallsAt
  <1> HIDE DEF S, I
  <1>4. IsFiniteSet(P) /\ Cardinality(P) = Cardinality(S) * Cardinality(I)
    BY <1>1, <1>2, FS_Product, Zenon
  <1> HIDE DEF P
  <1>5. IsFiniteSet(P) /\ Cardinality(P) = n
    BY <1>1, <1>2, <1>4
  <1> QED
    BY <1>3, <1>5

\* Events that are not tool summaries account for no calls.
LEMMA QuietCalls ==
    ASSUME NEW F, NEW G, IsSequence(F), IsSequence(G), \A i \in DOMAIN G : G[i].kind # "tool"
    PROVE  CallsIn(F \o G) = CallsIn(F)
  <1> DEFINE N == F \o G
  <1>1. ASSUME NEW x, x \in CallsIn(N) PROVE x \in CallsIn(F)
    <2>1. PICK i \in DOMAIN N : x \in CallsAt(i, N[i])
      BY <1>1, CallsMember
    <2>2. CASE i \in DOMAIN F /\ N[i] = F[i]
      BY <2>1, <2>2, CallsMember
    <2>3. ASSUME NEW j \in DOMAIN G, N[i] = G[j] PROVE FALSE
      <3>1. CallsOf(N[i]) = 0
        BY <2>3 DEF CallsOf
      <3> QED
        BY <2>1, <3>1, NoCalls
    <2> QED
      BY <2>2, <2>3, FromEither
  <1>2. ASSUME NEW x, x \in CallsIn(F) PROVE x \in CallsIn(N)
    <2>1. PICK i \in DOMAIN F : x \in CallsAt(i, F[i])
      BY <1>2, CallsMember
    <2>2. i \in DOMAIN N /\ N[i] = F[i]
      BY BothParts
    <2> QED
      BY <2>1, <2>2, CallsMember
  <1> HIDE DEF N
  <1>3. CallsIn(N) = CallsIn(F)
    BY <1>1, <1>2
  <1> QED
    BY <1>3 DEF N

\* One more event adds its own calls.
LEMMA OneMoreCalls ==
    ASSUME NEW F, NEW e, IsSequence(F), IsFiniteSet(CallsIn(F)), NEW n \in Nat, CallsOf(e) = n
    PROVE  /\ IsFiniteSet(CallsIn(Append(F, e)))
           /\ Cardinality(CallsIn(Append(F, e))) = Cardinality(CallsIn(F)) + n
           /\ Cardinality(CallsIn(F)) \in Nat
  <1> DEFINE N == Append(F, e)
             k == Len(F) + 1
             P == CallsAt(k, e)
             T == CallsIn(F)
  <1>1. /\ DOMAIN F = 1..Len(F) /\ DOMAIN N = 1..k /\ Len(F) \in Nat
        /\ \A i \in 1..Len(F) : N[i] = F[i]
        /\ N[k] = e
    BY Appended
  <1> HIDE DEF N
  <1>2. /\ k \in DOMAIN N /\ k \notin DOMAIN F
        /\ \A i \in DOMAIN F : i \in DOMAIN N /\ N[i] = F[i]
        /\ \A i \in DOMAIN N : i \in DOMAIN F \/ i = k
    BY <1>1
  <1> HIDE DEF k
  <1>3. CallsIn(N) = T \cup P
    <2>1. ASSUME NEW x, x \in CallsIn(N) PROVE x \in T \cup P
      BY <1>1, <1>2, <2>1, CallsMember
    <2>2. ASSUME NEW x, x \in T \cup P PROVE x \in CallsIn(N)
      BY <1>1, <1>2, <2>2, CallsMember
    <2> HIDE DEF P, T
    <2> QED
      BY <2>1, <2>2
  <1>4. T \cap P = {}
    <2>1. ASSUME NEW x, x \in T, x \in P PROVE FALSE
      BY <1>2, <2>1, CallsMember, CallsApart
    <2> HIDE DEF P, T
    <2> QED
      BY <2>1
  <1>5. IsFiniteSet(P) /\ Cardinality(P) = n
    BY CallsAtCount
  <1> HIDE DEF P, T
  <1>6. /\ IsFiniteSet(T \cup P)
        /\ Cardinality(T \cup P) = Cardinality(T) + Cardinality(P) - Cardinality(T \cap P)
    BY <1>5, FS_Union DEF T
  <1>7. Cardinality(T \cap P) = 0 /\ Cardinality(T) \in Nat
    BY <1>4, FS_EmptySet, FS_CardinalityType DEF T
  <1>8. IsFiniteSet(CallsIn(N)) /\ Cardinality(CallsIn(N)) = Cardinality(T) + n
    BY <1>3, <1>5, <1>6, <1>7
  <1> QED
    BY <1>7, <1>8 DEF N, T

LEMMA QuietTally ==
    ASSUME NEW F, NEW G, IsSequence(F), IsSequence(G), \A i \in DOMAIN G : G[i].kind # "tool",
           NEW k, NEW n, Tally(F, k, n)
    PROVE  Tally(F \o G, k, n)
  BY QuietCalls DEF Tally

\* The summary of an invocation accounts for its calls and retries, or for none
\* when it never reached the client.
LEMMA SummaryTally ==
    ASSUME NEW F, IsSequence(F), NEW r \in 0..1, NEW error, NEW n \in Nat
    PROVE  /\ ~(error \in {"unresolved", "budget"}) /\ Tally(F, r, n) =>
                Tally(Append(F, ToolFinished(Summary(r, error))), 0, n + 1)
           /\ error \in {"unresolved", "budget"} /\ Tally(F, 0, n) =>
                Tally(Append(F, ToolFinished(Summary(r, error))), 0, n)
  <1> DEFINE e == ToolFinished(Summary(r, error))
             c == IF error \in {"unresolved", "budget"} THEN 0 ELSE 1 + r
  <1>1. CallsOf(e) = c /\ c \in Nat
    BY DEF CallsOf, ToolFinished, Summary, Uncalled
  <1> HIDE DEF e
  <1>2. IsFiniteSet(CallsIn(F)) =>
           /\ IsFiniteSet(CallsIn(Append(F, e)))
           /\ Cardinality(CallsIn(Append(F, e))) = Cardinality(CallsIn(F)) + c
           /\ Cardinality(CallsIn(F)) \in Nat
    <2> HIDE DEF c
    <2> QED
      BY <1>1, OneMoreCalls
  <1>3. /\ ~(error \in {"unresolved", "budget"}) /\ Tally(F, r, n) => Tally(Append(F, e), 0, n + 1)
        /\ error \in {"unresolved", "budget"} /\ Tally(F, 0, n) => Tally(Append(F, e), 0, n)
    BY <1>1, <1>2 DEF Tally
  <1> QED
    BY <1>3 DEF e

\* Adding a summary to the calls adds its event to what they report.
LEMMA ReportsAppend ==
    ASSUME NEW F, IsSequence(F), NEW calls \in Seq(ToolCallSummary), NEW c \in ToolCallSummary
    PROVE  /\ Reports(F, Append(calls, c)) = Append(Reports(F, calls), ToolFinished(c))
           /\ IsSequence(Reports(F, calls))
  <1> DEFINE M(q) == [i \in DOMAIN q |-> ToolFinished(q[i])]
             S == ToSet(F) \cup {ToolFinished(d) : d \in ToolCallSummary}
  <1>1. F \in Seq(S) /\ ToolFinished(c) \in S
    BY DEF IsSequence
  <1>2. ASSUME NEW q \in Seq(ToolCallSummary)
        PROVE  /\ M(q) \in Seq(S) /\ Len(M(q)) = Len(q) /\ DOMAIN M(q) = 1..Len(q)
               /\ \A i \in 1..Len(q) : M(q)[i] = ToolFinished(q[i])
    <2>1. Len(q) \in Nat /\ DOMAIN q = 1..Len(q) /\ \A i \in DOMAIN q : q[i] \in ToolCallSummary
      OBVIOUS
    <2>2. M(q) \in [1..Len(q) -> S]
      BY <2>1
    <2> QED
      BY <2>1, <2>2
  <1>3. Append(calls, c) \in Seq(ToolCallSummary)
    OBVIOUS
  <1>4. M(Append(calls, c)) = Append(M(calls), ToolFinished(c))
    <2> DEFINE A == M(Append(calls, c))
               B == Append(M(calls), ToolFinished(c))
    <2>1. A \in Seq(S) /\ B \in Seq(S) /\ Len(A) = Len(calls) + 1 /\ Len(B) = Len(calls) + 1
      BY <1>1, <1>2, <1>3
    <2>2. ASSUME NEW i \in 1..(Len(calls) + 1) PROVE A[i] = B[i]
      BY <1>1, <1>2, <1>3
    <2> HIDE DEF A, B, S
    <2>3. A = B
      BY <2>1, <2>2
    <2> QED
      BY <2>3 DEF A, B
  <1>5. M(calls) \in Seq(S)
    BY <1>2
  <1>6. /\ Reports(F, Append(calls, c)) = F \o M(Append(calls, c))
        /\ Reports(F, calls) = F \o M(calls)
    BY DEF Reports
  <1> HIDE DEF M, S
  <1>7. F \o Append(M(calls), ToolFinished(c)) = Append(F \o M(calls), ToolFinished(c))
    BY <1>1, <1>5
  <1>8. F \o M(calls) \in Seq(S)
    BY <1>1, <1>5
  <1>9. IsSequence(F \o M(calls))
    BY <1>8, SelfTyped
  <1> QED
    BY <1>4, <1>6, <1>7, <1>9

\* What a step of collect does to the summaries: it ends without a call, ends an
\* invocation with a summary of its calls, or retries.
EndsUncalled ==
    /\ agent.retries = 0 /\ toolCalls' = toolCalls /\ agent'.done
    /\ \E error \in {"unresolved", "budget"} :
         agent'.calls = Append(agent.calls, Summary(0, error))
EndsInvocation ==
    /\ toolCalls' = toolCalls + 1 /\ (agent'.done \/ agent'.retries = 0)
    /\ \E error \in {"none", "timeout", "tool_error"} :
         agent'.calls = Append(agent.calls, Summary(agent.retries, error))
Retries ==
    /\ toolCalls' = toolCalls + 1 /\ agent.retries = 0 /\ agent'.retries = 1
    /\ ~agent'.done /\ agent'.calls = agent.calls
    /\ agent'.todo # <<>> /\ agent'.attempts < ToolBudget

LEMMA StopsForm ==
    ASSUME AgentShape, NEW n, NEW c,
           agent' = Stops(agent, c) \/ agent' = Stops([agent EXCEPT !.attempts = n], c)
    PROVE  agent'.done /\ agent'.calls = Append(agent.calls, c)
  <1> DEFINE calls == Append(agent.calls, c)
  <1>1. agent' = [agent EXCEPT !.calls = calls, !.done = TRUE]
        \/ agent' = [[agent EXCEPT !.attempts = n] EXCEPT !.calls = calls, !.done = TRUE]
    BY DEF Stops, AgentShape
  <1> HIDE DEF calls
  <1>2. agent'.done /\ agent'.calls = calls
    BY <1>1 DEF AgentShape
  <1> QED
    BY <1>2 DEF calls

LEMMA CollectForm ==
    ASSUME AgentShape, RetryPending, Collect
    PROVE  ~agent.done /\ (EndsUncalled \/ EndsInvocation \/ Retries)
  <1>1. ~agent.done /\ agent.retries \in 0..1 /\ agent.attempts \in 0..ToolBudget /\ ToolBudget \in Nat
    BY AgentAssumption DEF AgentShape, Collect, Unresolved, BudgetSpent, CallTool
  <1>2. CASE Unresolved \/ BudgetSpent
    <2>1. agent.retries = 0 /\ UNCHANGED toolCalls
      BY <1>1, <1>2 DEF RetryPending, Unresolved, BudgetSpent
    <2>2. PICK error \in {"unresolved", "budget"} : agent' = Stops(agent, Summary(0, error))
      BY <1>2 DEF Unresolved, BudgetSpent
    <2>3. agent'.done /\ agent'.calls = Append(agent.calls, Summary(0, error))
      BY <2>2, StopsForm
    <2> QED
      BY <1>1, <2>1, <2>3 DEF EndsUncalled
  <1>3. CASE CallTool
    <2>1. toolCalls' = toolCalls + 1 /\ agent.todo # <<>>
      BY <1>3 DEF CallTool
    <2>2. ASSUME NEW error \in {"timeout", "tool_error"},
                 agent' = Stops([agent EXCEPT !.attempts = @ + 1], Summary(agent.retries, error))
          PROVE  EndsInvocation
      <3>1. agent'.done /\ agent'.calls = Append(agent.calls, Summary(agent.retries, error))
        BY <2>2, StopsForm
      <3> QED
        BY <2>1, <3>1 DEF EndsInvocation
    <2>3. ASSUME MayRetry, agent' = [agent EXCEPT !.attempts = @ + 1, !.retries = @ + 1]
          PROVE  Retries
      <3>1. /\ agent'.attempts = agent.attempts + 1 /\ agent'.retries = agent.retries + 1
            /\ agent'.todo = agent.todo /\ agent'.calls = agent.calls /\ agent'.done = agent.done
        BY <2>3 DEF AgentShape
      <3> QED
        BY <1>1, <2>1, <2>3, <3>1 DEF Retries, MayRetry
    <2>4. ASSUME NEW found, Returned(found) PROVE EndsInvocation
      <3> DEFINE todo == Tail(agent.todo)
                 calls == Append(agent.calls, Summary(agent.retries, "none"))
                 ids == agent.ids \o found
                 items == IF agent.plan[agent.step].kind = "get"
                          THEN Append(agent.evidence, Head(agent.todo)) ELSE agent.evidence
                 n == agent.attempts + 1
                 a == [agent EXCEPT !.attempts = n, !.retries = 0, !.todo = todo,
                         !.calls = calls, !.ids = ids, !.evidence = items]
      <3>1. agent' = IF a.todo = <<>> THEN FinishStep(a) ELSE a
        BY <2>4 DEF Returned
      <3> HIDE DEF todo, calls, ids, items, n
      <3>2. a \in [plan : {a.plan}, step : {a.step}, todo : {a.todo}, ids : {a.ids},
                   outputs : {a.outputs}, attempts : {a.attempts}, retries : {0},
                   evidence : {a.evidence}, calls : {calls}, done : BOOLEAN]
        BY DEF AgentShape
      <3> HIDE DEF a
      <3> DEFINE z == FinishStep(a)
      <3>3. z.retries = 0 /\ z.calls = calls
        BY <3>2 DEF FinishStep
      <3> HIDE DEF z
      <3>4. agent'.retries = 0 /\ agent'.calls = calls
        BY <3>1, <3>2, <3>3 DEF z
      <3> QED
        BY <2>1, <3>4 DEF EndsInvocation, calls
    <2> QED
      BY <1>1, <1>3, <2>2, <2>3, <2>4 DEF CallTool
  <1> QED
    BY <1>1, <1>2, <1>3 DEF Collect

LEMMA CollectTallies ==
    ASSUME AgentShape, RetryPending, Collect, toolCalls = agent.attempts,
           NEW F, IsSequence(F),
           Tally(Reports(F, agent.calls), Outstanding(agent), toolCalls)
    PROVE  Tally(Reports(F, agent'.calls), Outstanding(agent'), toolCalls')
  <1> DEFINE R == Reports(F, agent.calls)
  <1>1. /\ agent.retries \in 0..1 /\ agent.calls \in Seq(ToolCallSummary) /\ toolCalls \in Nat
    BY AgentAssumption DEF AgentShape
  <1>2. ~agent.done /\ (EndsUncalled \/ EndsInvocation \/ Retries)
    BY CollectForm
  <1>3. Tally(R, agent.retries, toolCalls)
    BY <1>2 DEF Outstanding
  <1>4. ASSUME NEW error \in ToolError
        PROVE  /\ Reports(F, Append(agent.calls, Summary(agent.retries, error))) =
                    Append(R, ToolFinished(Summary(agent.retries, error)))
               /\ IsSequence(R)
    <2>1. Summary(agent.retries, error) \in ToolCallSummary
      BY <1>1 DEF Summary, ToolCallSummary
    <2> QED
      BY <1>1, <2>1, ReportsAppend
  <1> HIDE DEF R
  <1>5. CASE EndsUncalled
    <2>1. PICK error \in {"unresolved", "budget"} :
            agent'.calls = Append(agent.calls, Summary(0, error))
      BY <1>5 DEF EndsUncalled
    <2>2. error \in ToolError /\ agent.retries = 0 /\ toolCalls' = toolCalls /\ agent'.done
      BY <1>5 DEF EndsUncalled, ToolError
    <2>3. Tally(Append(R, ToolFinished(Summary(agent.retries, error))), 0, toolCalls)
      BY <1>1, <1>3, <1>4, <2>2, SummaryTally
    <2>4. Reports(F, agent'.calls) = Append(R, ToolFinished(Summary(agent.retries, error)))
      BY <1>4, <2>1, <2>2
    <2> QED
      BY <2>2, <2>3, <2>4 DEF Outstanding
  <1>6. CASE EndsInvocation
    <2>1. PICK error \in {"none", "timeout", "tool_error"} :
            agent'.calls = Append(agent.calls, Summary(agent.retries, error))
      BY <1>6 DEF EndsInvocation
    <2>2. /\ error \in ToolError /\ error \notin {"unresolved", "budget"}
          /\ toolCalls' = toolCalls + 1 /\ (agent'.done \/ agent'.retries = 0)
      BY <1>6 DEF EndsInvocation, ToolError
    <2>3. Tally(Append(R, ToolFinished(Summary(agent.retries, error))), 0, toolCalls + 1)
      BY <1>1, <1>3, <1>4, <2>2, SummaryTally
    <2>4. Reports(F, agent'.calls) = Append(R, ToolFinished(Summary(agent.retries, error)))
      BY <1>4, <2>1, <2>2
    <2>5. Outstanding(agent') = 0
      BY <2>2 DEF Outstanding
    <2> QED
      BY <2>2, <2>3, <2>4, <2>5
  <1>7. CASE Retries
    <2>1. /\ toolCalls' = toolCalls + 1 /\ agent.retries = 0 /\ Outstanding(agent') = 1
          /\ Reports(F, agent'.calls) = R
      BY <1>7 DEF Retries, Outstanding, R
    <2>2. Tally(R, 1, toolCalls + 1)
      <3>1. IsFiniteSet(CallsIn(R)) /\ Cardinality(CallsIn(R)) + 0 = toolCalls
        BY <1>3, <2>1 DEF Tally
      <3>2. Cardinality(CallsIn(R)) \in Nat
        BY <3>1, FS_CardinalityType
      <3> QED
        BY <3>1, <3>2 DEF Tally
    <2> QED
      BY <2>1, <2>2
  <1> QED
    BY <1>2, <1>5, <1>6, <1>7

LEMMA CollectPending ==
    ASSUME AgentShape, RetryPending, Collect
    PROVE  RetryPending'
  BY CollectForm DEF RetryPending, EndsUncalled, EndsInvocation, Retries

-----------------------------------------------------------------------------
(* Every step keeps the tally *)

\* A step after which the trace and the script together are what they were, or
\* the attempt cannot complete the run.
LEMMA SameTally ==
    ASSUME Tallied, UNCHANGED <<agent, toolCalls>>, ~Completed' \/ UNCHANGED <<status, trace>>,
           Hopeful' => /\ Hopeful /\ Whole' = Whole
                       /\ job'.stage = job.stage /\ job'.next = job.next
    PROVE  Tallied'
  <1>1. RetryPending'
    BY DEF Tallied, RetryPending
  <1>2. Completed' => Tally(trace, 0, toolCalls)'
    BY DEF Tallied, Completed, Tally
  <1>3. Hopeful' => /\ job'.stage = "evidence" =>
                         /\ job'.next = "collect"
                         /\ Tally(Reports(Whole, agent.calls), Outstanding(agent), toolCalls)'
                    /\ job'.stage # "evidence" => Tally(Whole, 0, toolCalls)'
    BY DEF Tallied
  <1> QED
    BY <1>1, <1>2, <1>3 DEF Tallied

\* A script without tool summaries, in a stage that collects nothing.
LEMMA ScriptTally ==
    ASSUME L1Inv, Tallied, job.at \in Waits, job.stage # "evidence",
           NEW G, NEW n, NEW sel, NEW t, Becomes(job', G, n, job.stage, sel, t),
           IsSequence(G), \A i \in DOMAIN G : G[i].kind # "tool",
           UNCHANGED <<agent, toolCalls, status, trace>>
    PROVE  Tallied'
  <1>1. job'.script = G /\ job'.stage = job.stage /\ job'.at = "check"
    BY DEF Becomes
  <1>2. ~Completed /\ job.script = <<>> /\ IsSequence(trace)
    BY AtOperation DEF L1Inv, JobShape
  <1>3. Whole = trace /\ Whole' = trace \o G
    BY <1>1, <1>2, JoinedEmpty DEF Whole
  <1>4. Hopeful' => Hopeful
    BY <1>1 DEF Hopeful, Waits
  <1>5. Hopeful' => Tally(Whole', 0, toolCalls)
    BY <1>2, <1>3, <1>4, QuietTally DEF Tallied
  <1>6. RetryPending' /\ ~Completed'
    BY <1>2 DEF Tallied, RetryPending, Completed
  <1> QED
    BY <1>1, <1>5, <1>6 DEF Tallied

LEMMA EndTally ==
    ASSUME L1Inv, Tallied, job.at # "ended", job' = [job EXCEPT !.at = "ended"],
           UNCHANGED <<agent, toolCalls, status>>
    PROVE  Tallied'
  <1>1. job'.at = "ended"
    BY DEF L1Inv, JobShape
  <1>2. ~Completed' /\ ~Hopeful'
    BY <1>1 DEF L1Inv, Placed, Completed, Hopeful
  <1> QED
    BY <1>2, SameTally

LEMMA NothingTallied ==
    Tally(<<>>, 0, 0)
  <1>1. CallsIn(<<>>) = {}
    BY DEF CallsIn
  <1> QED
    BY <1>1, FS_EmptySet DEF Tally

LEMMA ClaimTally ==
    ASSUME L1Inv, Tallied, Claim
    PROVE  Tallied'
  <1>1. CASE ~Leased("queued")
    BY <1>1, EndTally DEF Claim, agentVars
  <1>2. CASE Leased("queued")
    <2> DEFINE G == <<Started("planning")>>
               T == Then(G, "plan")
    <2>1. /\ status = "queued" /\ status' = "running" /\ job' = [T EXCEPT !.at = "append"]
          /\ job.at = "queued" /\ UNCHANGED <<agent, toolCalls, trace>>
      BY <1>2 DEF Claim, Leased, agentVars
    <2>2. trace = <<>> /\ job.stage = "planning" /\ JobShape /\ toolCalls = 0
      BY <2>1 DEF L1Inv, Placed, Budgeted
    <2>3. Becomes(T, G, "plan", job.stage, job.selected, job.terminal)
      BY <2>2, ThenBecomes
    <2> HIDE DEF T
    <2>4. job'.script = G /\ job'.stage = "planning"
      BY <2>1, <2>2, <2>3 DEF Becomes
    <2>5. IsSequence(<<>>) /\ IsSequence(G) /\ \A i \in DOMAIN G : G[i].kind # "tool"
      <3>1. IsSequence(<<>>) /\ IsSequence(G)
        BY Tuples
      <3>2. \A i \in DOMAIN G : G[i].kind # "tool"
        BY DEF Started
      <3> QED
        BY <3>1, <3>2
    <2>6. Whole' = <<>> \o G
      BY <2>1, <2>2, <2>4 DEF Whole
    <2> HIDE DEF G
    <2>7. Tally(Whole, 0, toolCalls)'
      BY <2>1, <2>2, <2>5, <2>6, NothingTallied, QuietTally
    <2>8. RetryPending' /\ ~Completed'
      BY <2>1 DEF Tallied, RetryPending, Completed, Ended
    <2> QED
      BY <2>4, <2>7, <2>8 DEF Tallied
  <1> QED
    BY <1>1, <1>2

LEMMA CheckTally ==
    ASSUME L1Inv, Tallied, CheckLease
    PROVE  Tallied'
  <1>1. /\ job.at = "check" /\ UNCHANGED <<agent, toolCalls, status, trace>>
        /\ job'.script = job.script /\ job'.stage = job.stage /\ job'.next = job.next
    BY DEF CheckLease, agentVars, storeVars, L1Inv, JobShape
  <1>2. Hopeful' => Hopeful
    BY <1>1 DEF Hopeful
  <1> QED
    BY <1>1, <1>2, SameTally DEF Whole

LEMMA AppendTally ==
    ASSUME L1Inv, Tallied, AppendNext
    PROVE  Tallied'
  <1> DEFINE rest == Tail(job.script)
             at == IF rest # <<>> /\ Head(job.script).kind = "tool" /\ Head(rest).kind = "tool"
                   THEN "append" ELSE "check"
  <1>1. /\ job.at = "append" /\ job' = [job EXCEPT !.script = rest, !.at = at]
        /\ trace' = Append(trace, Head(job.script))
        /\ UNCHANGED <<agent, toolCalls, status>>
    BY DEF AppendNext, agentVars
  <1>2. /\ job.script # <<>> /\ IsSequence(job.script) /\ IsSequence(trace) /\ ~Completed
    BY <1>1 DEF L1Inv, JobShape, Placed
  <1>3. Append(trace, Head(job.script)) \o rest = trace \o job.script
    BY <1>2, HeadMoves
  <1> HIDE DEF rest, at
  <1>4. job'.script = rest /\ job'.stage = job.stage /\ job'.next = job.next
    BY <1>1 DEF L1Inv, JobShape
  <1>5. Whole' = Whole /\ ~Completed' /\ (Hopeful' => Hopeful)
    BY <1>1, <1>2, <1>3, <1>4 DEF Whole, Completed, Hopeful
  <1> QED
    BY <1>1, <1>4, <1>5, SameTally

\* Send, and the end of the heartbeat.
LEMMA MoveTally ==
    ASSUME L1Inv, Tallied, Send \/ StopHeartbeat
    PROVE  Tallied'
  <1>1. /\ job.at \in {"plan", "answer", "ending"} /\ UNCHANGED <<agent, toolCalls, status, trace>>
        /\ \/ job' = [job EXCEPT !.at = "waiting"]
           \/ job.at = "ending" /\ job' = [job EXCEPT !.at = "complete"]
    BY DEF Send, StopHeartbeat, agentVars, storeVars
  <1>2. /\ job'.script = job.script /\ job'.stage = job.stage /\ job'.next = job.next
        /\ job'.terminal = job.terminal
        /\ job'.at = "waiting" \/ (job.at = "ending" /\ job'.at = "complete")
    BY <1>1 DEF L1Inv, JobShape
  <1>3. Hopeful' => Hopeful
    <2>1. CASE Send
      BY <1>1, <2>1 DEF Hopeful, Send
    <2>2. CASE StopHeartbeat
      BY <1>1, <1>2, <2>2 DEF Hopeful, StopHeartbeat
    <2> QED
      BY <2>1, <2>2
  <1> QED
    BY <1>1, <1>2, <1>3, SameTally DEF Whole

LEMMA HandleTally ==
    ASSUME L1Inv, Tallied, job.at \in Waits, job.stage # "evidence", NEW e, NEW error, NEW t,
           e.kind # "tool", job' = Handle(e, error, t), UNCHANGED <<agent, toolCalls, status, trace>>
    PROVE  Tallied'
  <1> DEFINE f == Finished(job.stage, error)
             G == <<e, f>>
  <1>1. JobShape
    BY DEF L1Inv
  <1>2. Becomes(job', G, "ending", job.stage, job.selected, t)
    BY <1>1, ThenBecomes DEF Handle, FinishErrorStage
  <1>3. IsSequence(G)
    BY Tuples
  <1>4. \A i \in DOMAIN G : G[i].kind # "tool"
    BY DEF Finished
  <1> DEFINE n == "ending"
  <1>5. Becomes(job', G, n, job.stage, job.selected, t)
    BY <1>2
  <1> HIDE DEF G, n
  <1> QED
    BY <1>3, <1>4, <1>5, ScriptTally

LEMMA SendBlockedTally ==
    ASSUME L1Inv, Tallied, SendBlocked
    PROVE  Tallied'
  <1>1. /\ job.at \in {"plan", "answer"} /\ job.at \in Waits
        /\ UNCHANGED <<agent, toolCalls, status, trace>>
    BY DEF SendBlocked, agentVars, storeVars, Waits, Raise
  <1>2. job.stage # "evidence"
    BY <1>1 DEF L1Inv, Placed
  <1>3. CASE Raise
    BY <1>1, <1>3, EndTally DEF Raise
  <1>4. CASE job' = Handle(Blocked(job.stage), "policy", "egress_blocked")
    <2>1. Blocked(job.stage).kind # "tool"
      BY DEF Blocked
    <2> QED
      BY <1>1, <1>2, <1>4, <2>1, HandleTally
  <1> QED
    BY <1>3, <1>4 DEF SendBlocked

LEMMA PlanTally ==
    ASSUME L1Inv, Tallied, PlanReceived
    PROVE  Tallied'
  <1>1. /\ job.at = "waiting" /\ job.at \in Waits /\ job.stage = "planning" /\ toolCalls = 0
        /\ UNCHANGED <<toolCalls, status, trace>>
    BY DEF PlanReceived, agentVars, storeVars, Waits, Raise, L1Inv, Budgeted
  <1>2. CASE Raise
    BY <1>1, <1>2, EndTally DEF Raise, agentVars
  <1>3. ASSUME NEW error, NEW t, job' = Handle(Admitted("planning"), error, t), UNCHANGED agent
        PROVE  Tallied'
    <2>1. Admitted("planning").kind # "tool"
      BY DEF Admitted
    <2> QED
      BY <1>1, <1>3, <2>1, HandleTally
  <1>4. ASSUME NEW plan \in Plan, agent' = Collecting(plan),
               job' = [Then(<<Admitted("planning"), PlanSummary, Finished("planning", "none"),
                              Started("evidence")>>, "collect") EXCEPT !.stage = "evidence"]
        PROVE  Tallied'
    <2> DEFINE G == <<Admitted("planning"), PlanSummary, Finished("planning", "none"),
                      Started("evidence")>>
    <2>1. JobShape /\ IsSequence(trace) /\ ~Completed /\ job.script = <<>>
      BY <1>1, AtOperation DEF L1Inv, JobShape
    <2>2. Becomes(job', G, "collect", "evidence", job.selected, job.terminal)
      BY <1>4, <2>1, ThenBecomes
    <2>3. IsSequence(G)
      BY Tuples
    <2>4. \A i \in DOMAIN G : G[i].kind # "tool"
      BY DEF Admitted, PlanSummary, Finished, Started
    <2> HIDE DEF G
    <2>5. job'.script = G /\ job'.next = "collect" /\ job'.stage = "evidence" /\ job'.at = "check"
      BY <2>2 DEF Becomes
    <2>6. agent'.calls = <<>> /\ agent'.retries = 0 /\ Outstanding(agent') = 0 /\ RetryPending'
      BY <1>4 DEF Collecting, Resting, Outstanding, RetryPending
    <2>7. Whole = trace /\ Whole' = trace \o G /\ IsSequence(trace \o G)
      BY <1>1, <2>1, <2>3, <2>5, JoinedEmpty, Joined DEF Whole
    <2>8. Reports(Whole', <<>>) = Whole'
      <3>1. [i \in DOMAIN <<>> |-> ToolFinished(<<>>[i])] = <<>>
        OBVIOUS
      <3> QED
        BY <2>7, <3>1, JoinedEmpty DEF Reports
    <2>9. Hopeful' => Hopeful
      BY <1>1, <2>5 DEF Hopeful
    <2>10. Hopeful' => Tally(Whole', 0, toolCalls)
      BY <1>1, <2>1, <2>3, <2>4, <2>7, <2>9, QuietTally DEF Tallied
    <2>11. ~Completed'
      BY <1>1, <2>1 DEF Completed
    <2> QED
      BY <1>1, <2>5, <2>6, <2>8, <2>10, <2>11 DEF Tallied
  <1>5. ASSUME NEW plan \in Plan,
               IF ValidPlan(plan)
               THEN /\ agent' = Collecting(plan)
                    /\ job' = [Then(<<Admitted("planning"), PlanSummary,
                                      Finished("planning", "none"), Started("evidence")>>,
                                    "collect") EXCEPT !.stage = "evidence"]
               ELSE job' = InvalidPlan /\ UNCHANGED agent
        PROVE  Tallied'
    BY <1>3, <1>4, <1>5 DEF InvalidPlan
  <1> QED
    BY <1>2, <1>3, <1>5 DEF PlanReceived, agentVars

LEMMA CollectStepTally ==
    ASSUME L1Inv, Tallied, CollectStep
    PROVE  Tallied'
  <1>1. job.at = "collect" /\ Collect /\ UNCHANGED <<status, trace, job>>
    BY DEF CollectStep, storeVars
  <1>2. /\ AgentShape /\ RetryPending /\ toolCalls = agent.attempts /\ job.stage = "evidence"
        /\ IsSequence(trace) /\ IsSequence(job.script)
    BY <1>1 DEF L1Inv, Budgeted, Placed, Tallied, JobShape
  <1>3. IsSequence(Whole) /\ Whole' = Whole
    BY <1>1, <1>2, Joined DEF Whole
  <1>4. Hopeful' <=> Hopeful
    BY <1>1 DEF Hopeful
  <1>5. ~Completed'
    BY <1>1 DEF L1Inv, Placed, Completed
  <1>6. RetryPending'
    BY <1>1, <1>2, CollectPending
  <1>7. Hopeful => Tally(Reports(Whole, agent'.calls), Outstanding(agent'), toolCalls')
    BY <1>1, <1>2, <1>3, CollectTallies DEF Tallied
  <1> QED
    BY <1>1, <1>2, <1>3, <1>4, <1>5, <1>6, <1>7 DEF Tallied

LEMMA CollectedTally ==
    ASSUME L1Inv, Tallied, Collected
    PROVE  Tallied'
  <1> DEFINE sel == SelectedEvidence(DedupeEvidence(agent.evidence))
             calls == [i \in DOMAIN agent.calls |-> ToolFinished(agent.calls[i])]
             ids == {ContentHash[c] : c \in ToSet(sel)}
             last == <<EvidenceSummary(ids), Finished("evidence", "none"), Started("answer")>>
             G == calls \o last
  <1>1. /\ job.at = "collect" /\ job.at \in Waits /\ job.stage = "evidence" /\ agent.done
        /\ UNCHANGED <<agent, toolCalls, status, trace>>
    BY DEF Collected, agentVars, storeVars, Waits, L1Inv, Placed
  <1>2. JobShape /\ IsSequence(trace) /\ ~Completed /\ job.script = <<>>
    BY <1>1, AtOperation DEF L1Inv, JobShape
  <1>3. Becomes(job', G, "answer", "answer", sel, job.terminal)
    BY <1>2, ThenBecomes DEF Collected
  <1>4. IsSequence(calls)
    <2>1. agent.calls \in Seq(ToolCallSummary)
      BY DEF L1Inv, AgentShape
    <2>2. \A i \in DOMAIN agent.calls : agent.calls[i] \in ToolCallSummary
      BY <2>1
    <2>3. calls \in Seq({ToolFinished(c) : c \in ToolCallSummary})
      BY <2>1, <2>2
    <2> QED
      BY <2>3, SelfTyped
  <1>5. IsSequence(last)
    BY Tuples
  <1>6. \A i \in DOMAIN last : last[i].kind # "tool"
    BY DEF EvidenceSummary, Finished, Started
  <1>7. Reports(trace, agent.calls) = trace \o calls
    BY DEF Reports
  <1> HIDE DEF calls, last
  <1>8. job'.script = G /\ job'.stage = "answer" /\ job'.at = "check"
    BY <1>3 DEF Becomes
  <1>9. trace \o G = (trace \o calls) \o last
    <2> DEFINE S == ToSet(trace) \cup ToSet(calls) \cup ToSet(last)
    <2>1. trace \in Seq(S) /\ calls \in Seq(S) /\ last \in Seq(S)
      BY <1>2, <1>4, <1>5 DEF IsSequence
    <2> HIDE DEF S
    <2> QED
      BY <2>1
  <1>10. Whole = trace /\ Whole' = (trace \o calls) \o last
    BY <1>1, <1>2, <1>8, <1>9, JoinedEmpty DEF Whole
  <1>11. Hopeful' => Tally(Whole', 0, toolCalls)
    <2>1. SUFFICES ASSUME Hopeful' PROVE Tally(Whole', 0, toolCalls)
      OBVIOUS
    <2>2. Hopeful
      BY <1>1, <2>1 DEF Hopeful
    <2>3. Tally(trace \o calls, 0, toolCalls)
      BY <1>1, <1>7, <1>10, <2>2 DEF Tallied, Outstanding
    <2>4. IsSequence(trace \o calls)
      BY <1>2, <1>4, Joined
    <2> QED
      BY <1>5, <1>6, <1>10, <2>3, <2>4, QuietTally
  <1>12. RetryPending' /\ ~Completed'
    BY <1>1, <1>2 DEF Tallied, RetryPending, Completed
  <1> QED
    BY <1>1, <1>8, <1>11, <1>12 DEF Tallied

LEMMA AnswerTally ==
    ASSUME L1Inv, Tallied, AnswerUnsent \/ AnswerReceived
    PROVE  Tallied'
  <1>1. /\ job.at \in Waits /\ job.stage = "answer" /\ JobShape
        /\ UNCHANGED <<agent, toolCalls, status, trace>>
    <2>1. CASE AnswerUnsent
      BY <2>1 DEF AnswerUnsent, agentVars, storeVars, Waits, L1Inv, Placed
    <2>2. CASE AnswerReceived
      BY <2>2 DEF AnswerReceived, agentVars, storeVars, Waits, Raise, L1Inv, Placed
    <2> QED
      BY <2>1, <2>2
  <1>2. ASSUME NEW o, job' = Report(o) PROVE Tallied'
    <2> DEFINE first == IF o.admitted THEN <<Admitted("answer")>> ELSE <<>>
               v == VerifierSummary({ContentHash[c] : c \in o.citations}, o.faults)
               a == AnswerEvent(o)
               f == Finished("answer", IF o.provider THEN "provider_error" ELSE "none")
               last == <<v, a, f>>
               G == first \o last
               t == ProjectAnswerOutcome(o)
               n == "ending"
    <2>1. job' = [Then(G, n) EXCEPT !.terminal = t]
      BY <1>2 DEF Report
    <2>2. v.kind # "tool" /\ a.kind # "tool" /\ f.kind # "tool" /\ Admitted("answer").kind # "tool"
      BY DEF VerifierSummary, AnswerEvent, Finished, Admitted
    <2>3. IsSequence(first) /\ \A i \in DOMAIN first : first[i].kind # "tool"
      <3> DEFINE d == Admitted("answer")
      <3>1. first = <<d>> \/ first = <<>>
        OBVIOUS
      <3>2. d.kind # "tool"
        BY <2>2
      <3> HIDE DEF first, d
      <3>3. IsSequence(<<d>>) /\ IsSequence(<<>>)
        BY Tuples
      <3>4. (\A i \in DOMAIN <<d>> : <<d>>[i].kind # "tool")
            /\ (\A i \in DOMAIN <<>> : <<>>[i].kind # "tool")
        BY <3>2
      <3> QED
        BY <3>1, <3>3, <3>4
    <2> HIDE DEF v, a, f, first, t, n
    <2>4. IsSequence(last) /\ \A i \in DOMAIN last : last[i].kind # "tool"
      <3>1. IsSequence(last)
        BY Tuples
      <3>2. \A i \in DOMAIN last : last[i].kind # "tool"
        BY <2>2
      <3> QED
        BY <3>1, <3>2
    <2> HIDE DEF last
    <2>5. IsSequence(G) /\ \A i \in DOMAIN G : G[i].kind # "tool"
      <3>1. IsSequence(G)
        BY <2>3, <2>4, Joined
      <3>2. ASSUME NEW i \in DOMAIN G PROVE G[i].kind # "tool"
        BY <2>3, <2>4, FromEither
      <3> QED
        BY <3>1, <3>2
    <2> HIDE DEF G
    <2>6. Becomes(job', G, n, job.stage, job.selected, t)
      BY <1>1, <2>1, ThenBecomes
    <2> QED
      BY <1>1, <2>5, <2>6, ScriptTally
  <1>3. ASSUME Raise PROVE Tallied'
    BY <1>1, <1>3, EndTally DEF Raise, Waits
  <1> QED
    BY <1>2, <1>3 DEF AnswerUnsent, AnswerReceived

LEMMA CompleteTally ==
    ASSUME L1Inv, Tallied, Complete
    PROVE  Tallied'
  <1>1. /\ job.at = "complete" /\ job' = [job EXCEPT !.at = "ended"]
        /\ UNCHANGED <<agent, toolCalls>>
    BY DEF Complete, agentVars
  <1>2. CASE UNCHANGED <<status, trace>>
    BY <1>1, <1>2, EndTally
  <1>3. CASE /\ job.terminal # "none" /\ ~leaseLost /\ Leased("running")
             /\ status' = job.terminal
             /\ trace' = Append(trace, TerminalEvent(job.terminal))
    <2>1. Hopeful /\ Promised /\ job.script = <<>> /\ job.next = "ending" /\ IsSequence(trace)
      BY <1>1, <1>3 DEF L1Inv, JobShape, Hopeful, Leased, Promised
    <2>2. Tally(trace, 0, toolCalls)
      BY <2>1, JoinedEmpty DEF Tallied, Whole
    <2> DEFINE e == TerminalEvent(job.terminal)
               c == 0
    <2>3. CallsOf(e) = c /\ c \in Nat /\ c = 0
      BY DEF CallsOf, TerminalEvent
    <2> HIDE DEF e, c
    <2>4. /\ IsFiniteSet(CallsIn(Append(trace, e)))
          /\ Cardinality(CallsIn(Append(trace, e))) = Cardinality(CallsIn(trace)) + c
          /\ Cardinality(CallsIn(trace)) \in Nat
      BY <2>1, <2>2, <2>3, OneMoreCalls DEF Tally
    <2>5. Tally(trace, 0, toolCalls)'
      BY <1>1, <1>3, <2>2, <2>3, <2>4 DEF Tally, e
    <2>6. job'.at = "ended"
      BY <1>1 DEF L1Inv, JobShape
    <2>7. ~Hopeful' /\ RetryPending'
      BY <1>1, <2>6 DEF Hopeful, Tallied, RetryPending
    <2> QED
      BY <2>5, <2>7 DEF Tallied
  <1> QED
    BY <1>2, <1>3 DEF Complete

LEMMA NextTally ==
    ASSUME L1Inv, Tallied, [Next]_vars
    PROVE  Tallied'
  <1>1. ASSUME UNCHANGED <<agent, toolCalls, status, trace, job>> PROVE Tallied'
    BY <1>1, SameTally DEF Hopeful, Whole
  <1>2. ASSUME UNCHANGED vars \/ Beat \/ BeatFails \/ LeaseExpires PROVE Tallied'
    BY <1>1, <1>2 DEF vars, Beat, BeatFails, LeaseExpires, agentVars, storeVars
  <1>3. ASSUME CollectRaises \/ Die \/ AppendRaises PROVE Tallied'
    BY <1>3, EndTally DEF CollectRaises, Die, AppendRaises, Raise, agentVars, storeVars
  <1>4. ASSUME ReconcileExpired PROVE Tallied'
    <2>1. UNCHANGED <<agent, toolCalls>> /\ ~Completed' /\ ~Hopeful'
      BY <1>4 DEF ReconcileExpired, agentVars, Completed, Ended, Hopeful
    <2> QED
      BY <2>1, SameTally
  <1> QED
    BY <1>2, <1>3, <1>4, ClaimTally, CheckTally, AppendTally, MoveTally, SendBlockedTally,
       PlanTally, CollectStepTally, CollectedTally, AnswerTally, CompleteTally
       DEF Next, Attempt

\* The trace of a completed run accounts for every tool call that was made,
\* retries included, and for no more: collect leaves a summary whichever way an
\* invocation ends, and _run_l1 appends them all before it may complete.
THEOREM CallsAreReported == Spec => []CallsReported
  <1>1. Init => Tallied
    <2>1. SUFFICES ASSUME Init PROVE Tallied
      OBVIOUS
    <2>2. ~Completed /\ ~Hopeful /\ agent.done
      BY <2>1 DEF Init, Completed, Ended, Hopeful, Resting
    <2> QED
      BY <2>2 DEF Tallied, RetryPending
  <1>2. L1Inv /\ Tallied /\ [Next]_vars => Tallied'
    BY NextTally
  <1>3. L1Inv /\ Tallied => CallsReported
    <2>1. SUFFICES ASSUME L1Inv, Tallied PROVE CallsReported
      OBVIOUS
    <2>2. toolCalls <= ToolBudget
      BY <2>1, AgentAssumption DEF L1Inv, AgentShape, Budgeted
    <2>3. ASSUME Completed PROVE toolCalls = Cardinality(CallsIn(trace))
      <3>1. IsFiniteSet(CallsIn(trace)) /\ Cardinality(CallsIn(trace)) + 0 = toolCalls
        BY <2>1, <2>3 DEF Tallied, Tally
      <3>2. Cardinality(CallsIn(trace)) \in Nat
        BY <3>1, FS_CardinalityType
      <3> QED
        BY <3>1, <3>2
    <2> QED
      BY <2>2, <2>3 DEF CallsReported
  <1> QED
    BY <1>1, <1>2, <1>3, L1Invariance, PTL DEF Spec
=============================================================================
