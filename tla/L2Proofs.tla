------------------------------- MODULE L2Proofs -------------------------------
(***************************************************************************)
(* Safety of the attempts of an L2 run for any claims, budgets, numbers of *)
(* attempts and points at which an attempt is lost.                        *)
(***************************************************************************)
EXTENDS L2Attempt, TLAPS, FiniteSetTheorems, WellFoundedInduction

-----------------------------------------------------------------------------
(* The inductive invariant *)

\* What every checkpoint that was written satisfies, beyond its validators:
\* each generation number is below the number of generations written, what is
\* listed was announced, nothing is counted before the batch is built, and a
\* completed run has all its results.
Stored(c) ==
    /\ c \in RunCheckpoint /\ Valid(c)
    /\ IsFiniteSet(c.generations) /\ IsFiniteSet(c.completed)
    /\ c.listed \subseteq c.generations
    /\ \A g \in c.generations : g.generation < Cardinality(c.generations)
    /\ c.stage \in {"planned", "evidence_collected"} => c.count = 0 /\ c.completed = {}
    /\ c.stage = "completed" => c.count > 0 /\ Cardinality(c.completed) = c.count

Sending == {"prepare", "ready", "waiting"}

\* The steps of _one_claim, its semantic send included.
InClaim(f) ==
    \/ f.pc \in {"failed", "recover", "recovered", "verified", "close", "judged"}
    \/ f.pc \in Sending /\ f.key.stage = "verifier"

InPlanning(f) ==
    \/ f.pc \in {"planned", "collect", "collected"}
    \/ f.pc \in Sending /\ f.key.stage = "planning"

InCompliance(f) ==
    \/ f.pc = "complied"
    \/ f.pc \in Sending /\ f.key.stage = "compliance"

\* The key under which an attempt is about to send, sends or has sent.
Announced(f) ==
    /\ f.pc = "prepare" => f.key.generation = 0
    /\ f.pc \in {"ready", "waiting", "planned", "complied", "judged", "erring"} =>
         f.key \in f.cp.generations
    /\ f.listed \subseteq f.cp.generations

\* What an attempt knows of its budget and of recovery is not behind its
\* checkpoint; the reservation of recovery is ahead of what was used.
Budgeted(f) ==
    /\ f.tools <= ToolBudget
    /\ f.pc # "recover" => f.cp.tools <= f.tools /\ (f.cp.recovery => f.recovered)
    /\ f.pc = "recover" =>
         /\ f.cp.tools <= f.reserved /\ f.tools <= f.reserved /\ f.reserved <= ToolBudget
         /\ f.cp.recovery => f.recovered \/ f.reserved > f.tools
         /\ ~f.recovered /\ f.tools < ToolBudget /\ f.cost > 0 => f.cp.recovery
    /\ f.pc = "recovered" => f.recovered

\* Where an attempt stands: the claims still to do and those done are the batch
\* that the checkpoint counts.
Placed(f) ==
    /\ InPlanning(f) => f.cp.stage = "planned"
    /\ InCompliance(f) => f.cp.stage # "planned"
    /\ f.pc = "batched" =>
         /\ f.cp.stage \notin {"planned", "evidence_collected"}
         /\ IsFiniteSet(f.todo) /\ f.todo # {} /\ Cardinality(f.todo) <= MaxClaims
    /\ f.pc = "loop" \/ InClaim(f) =>
         /\ f.cp.stage \notin {"planned", "evidence_collected"}
         /\ IsFiniteSet(f.todo \cup f.cp.completed)
         /\ Cardinality(f.todo \cup f.cp.completed) = f.cp.count /\ f.cp.count > 0
    /\ InClaim(f) => f.claim \in f.todo
    /\ f.pc \in {"erring", "done"} => f.outcome \in Terminal
    /\ f.outcome = "answered" =>
         f.pc = "done" /\ f.cp.count > 0 /\ Cardinality(f.cp.completed) = f.cp.count

Running(f) == f.pc \notin {"idle", "first"}

Knows(f) == f.outer > 0 /\ Announced(f) /\ Budgeted(f) /\ Placed(f)

\* The sends and the recoveries of all attempts are in the stored checkpoint.
Accounted ==
    /\ checkpoint = NoRow => Sent = {} /\ recoveries = 0
    /\ checkpoint # NoRow => Sent \subseteq checkpoint.generations
    /\ frame.pc = "ready" => frame.key \notin Sent
    /\ frame.pc = "waiting" => frame.key \in Sent
    /\ recoveries <= 1 /\ (recoveries > 0 => checkpoint.recovery)
    /\ frame.pc = "recover" /\ ~frame.recovered => recoveries = 0

L2Inv ==
    /\ TypeOK
    /\ checkpoint # NoRow => Stored(checkpoint)
    /\ raised # "body"
    /\ frame.pc = "idle" => frame = IdleFrame
    /\ frame.pc = "first" => checkpoint = NoRow /\ frame = [IdleFrame EXCEPT !.pc = "first"]
    /\ Running(frame) => checkpoint # NoRow /\ frame.cp = checkpoint /\ Knows(frame)
    /\ frame.pc # "idle" => status = "running"
    /\ Accounted /\ AnsweredIsComplete

-----------------------------------------------------------------------------
(* Least and greatest elements *)

LEMMA MinOfTwo ==
    ASSUME NEW a \in Nat, NEW b \in Nat
    PROVE  Min({a, b}) = IF a <= b THEN a ELSE b
  <1> DEFINE m == IF a <= b THEN a ELSE b
  <1>1. m \in {a, b} /\ \A y \in {a, b} : m <= y
    OBVIOUS
  <1>2. \A x \in {a, b} : (\A y \in {a, b} : x <= y) => x = m
    OBVIOUS
  <1> HIDE DEF m
  <1>3. Min({a, b}) \in {a, b} /\ \A y \in {a, b} : Min({a, b}) <= y
    BY <1>1 DEF Min
  <1> QED
    BY <1>2, <1>3 DEF m

LEMMA MaxOfTwo ==
    ASSUME NEW a \in Nat, NEW b \in Nat
    PROVE  Max({a, b}) = IF a >= b THEN a ELSE b
  <1> DEFINE m == IF a >= b THEN a ELSE b
  <1>1. m \in {a, b} /\ \A y \in {a, b} : m >= y
    OBVIOUS
  <1>2. \A x \in {a, b} : (\A y \in {a, b} : x >= y) => x = m
    OBVIOUS
  <1> HIDE DEF m
  <1>3. Max({a, b}) \in {a, b} /\ \A y \in {a, b} : Max({a, b}) >= y
    BY <1>1 DEF Max
  <1> QED
    BY <1>2, <1>3 DEF m

\* A bounded set of naturals that is not empty has a greatest element.
LEMMA MaxIsMember ==
    ASSUME NEW S \in SUBSET Nat, S # {}, NEW n \in Nat, \A x \in S : x <= n
    PROVE  Max(S) \in S /\ \A x \in S : x <= Max(S)
  <1> DEFINE R == OpToRel(<, Nat)
             T == {n - x : x \in S}
  <1>1. IsWellFoundedOn(R, Nat)
    BY NatLessThanWellFounded
  <1>2. \A x, y \in Nat : x < y => <<x, y>> \in R
    BY DEF OpToRel
  <1> HIDE DEF R
  <1>3. T \subseteq Nat /\ T # {}
    <2>1. ASSUME NEW x \in S PROVE n - x \in Nat
      <3>1. x \in Nat /\ x <= n
        OBVIOUS
      <3> QED
        BY <3>1
    <2> QED
      BY <2>1
  <1>4. PICK t \in T : \A u \in T : ~ (<<u, t>> \in R)
    BY <1>1, <1>3, WFMin
  <1>5. PICK m \in S : t = n - m
    BY <1>4
  <1>6. ASSUME NEW x \in S PROVE m >= x
    <2>1. n - x \in T /\ n - x \in Nat /\ t \in Nat
      OBVIOUS
    <2>2. ~ (n - x < t)
      BY <1>2, <1>4, <2>1
    <2> QED
      BY <1>5, <2>2
  <1>7. \E x \in S : \A y \in S : x >= y
    BY <1>6
  <1>8. Max(S) \in S /\ \A y \in S : Max(S) >= y
    BY <1>7 DEF Max
  <1>9. ASSUME NEW x \in S PROVE x <= Max(S)
    <2>1. Max(S) \in Nat /\ x \in Nat
      BY <1>8
    <2> QED
      BY <1>8, <2>1
  <1> QED
    BY <1>8, <1>9

-----------------------------------------------------------------------------
(* Checkpoints *)

LEMMA AdvanceFields ==
    ASSUME NEW f \in Frame, f.cp \in RunCheckpoint, NEW stage \in CheckpointStage
    PROVE  LET c == Advance(f, stage) IN
           /\ c \in RunCheckpoint
           /\ c.version = f.cp.version + 1 /\ c.stage = stage /\ c.tools = f.tools
           /\ c.recovery = f.recovered /\ c.listed = f.cp.listed \cup f.listed
           /\ c.recoveryClaim = IF stage = "recovery_reserved" THEN f.cp.recoveryClaim
                                ELSE NoClaim
           /\ c.attempt = f.cp.attempt /\ c.evidence = f.cp.evidence
           /\ c.generations = f.cp.generations
           /\ c.count = f.cp.count /\ c.completed = f.cp.completed
  <1> DEFINE o == f.cp
             l == o.listed \cup f.listed
             r == IF stage = "recovery_reserved" THEN o.recoveryClaim ELSE NoClaim
             v == o.version + 1
             tools == f.tools
             rec == f.recovered
             c == [o EXCEPT !.version = v, !.stage = stage, !.tools = tools,
                            !.recovery = rec, !.listed = l, !.recoveryClaim = r]
  <1>1. /\ f.tools \in Nat /\ f.recovered \in BOOLEAN /\ f.listed \subseteq SendKey
    BY DEF Frame
  <1>2. /\ l \subseteq SendKey /\ r \in Claim \cup {NoClaim} /\ v \in Nat \ {0}
        /\ tools \in Nat /\ rec \in BOOLEAN
    BY <1>1 DEF RunCheckpoint
  <1>3. Advance(f, stage) = c
    BY DEF Advance
  <1> HIDE DEF l, r, v, tools, rec, o
  <1>4. o \in RunCheckpoint
    BY DEF o
  <1>5. /\ c \in RunCheckpoint /\ c.version = v /\ c.stage = stage /\ c.tools = tools
        /\ c.recovery = rec /\ c.listed = l /\ c.recoveryClaim = r
        /\ c.attempt = o.attempt /\ c.evidence = o.evidence
        /\ c.generations = o.generations
        /\ c.count = o.count /\ c.completed = o.completed
    BY <1>2, <1>4 DEF RunCheckpoint
  <1> HIDE DEF c
  <1> QED
    BY <1>3, <1>5 DEF l, r, v, tools, rec, o

\* What _advance writes is valid and a legal successor.
LEMMA AdvanceStored ==
    ASSUME NEW f \in Frame, Stored(f.cp), NEW stage \in CheckpointStage,
           f.listed \subseteq f.cp.generations,
           f.cp.tools <= f.tools, f.tools <= ToolBudget, f.cp.recovery => f.recovered,
           stage = "recovery_reserved" => f.cp.stage = "recovery_reserved",
           stage = "recovery_completed" => f.recovered,
           stage \in {"planned", "evidence_collected"} =>
             f.cp.stage \in {"planned", "evidence_collected"},
           stage = "completed" => f.cp.count > 0 /\ Cardinality(f.cp.completed) = f.cp.count
    PROVE  Stored(Advance(f, stage)) /\ Monotonic(f.cp, Advance(f, stage))
  <1> DEFINE c == Advance(f, stage)
             o == f.cp
  <1>1. o \in RunCheckpoint /\ Valid(o)
    BY DEF Stored
  <1>2. /\ c \in RunCheckpoint /\ c.stage = stage /\ c.tools = f.tools
        /\ c.recovery = f.recovered /\ c.listed = o.listed \cup f.listed
        /\ c.recoveryClaim = IF stage = "recovery_reserved" THEN o.recoveryClaim ELSE NoClaim
        /\ c.attempt = o.attempt
        /\ c.generations = o.generations
        /\ c.count = o.count /\ c.completed = o.completed
    BY <1>1, AdvanceFields
  <1> HIDE DEF c
  <1>3. /\ o.count \in Nat /\ o.tools \in Nat
    BY <1>1 DEF RunCheckpoint
  <1>4. c.listed \subseteq c.generations
    BY <1>2 DEF Stored
  <1>5. Cardinality(c.listed) <= GenerationBudget
    <2>1. IsFiniteSet(c.generations) /\ Cardinality(c.generations) <= GenerationBudget
      BY <1>1, <1>2 DEF Stored, Valid
    <2>2. Cardinality(c.listed) <= Cardinality(c.generations)
          /\ Cardinality(c.listed) \in Nat /\ Cardinality(c.generations) \in Nat
      BY <1>4, <2>1, FS_Subset, FS_CardinalityType
    <2> QED
      BY <2>1, <2>2, L2Assumption
  <1>6. Valid(c)
    <2>1. c.stage \in {"recovery_reserved", "recovery_completed"} => c.recovery
      BY <1>1, <1>2 DEF Valid
    <2>2. c.stage = "recovery_reserved" <=> c.recoveryClaim # NoClaim
      BY <1>1, <1>2 DEF Valid
    <2> QED
      BY <1>1, <1>2, <1>5, <2>1, <2>2 DEF Valid
  <1>7. Stored(c)
    BY <1>2, <1>4, <1>6 DEF Stored
  <1>8. Monotonic(o, c)
    BY <1>2, <1>3 DEF Monotonic
  <1> QED
    BY <1>7, <1>8 DEF c

-----------------------------------------------------------------------------
(* Steps of an attempt *)

\* The locals of an attempt that runs.
LEMMA Locals ==
    ASSUME L2Inv, Running(frame)
    PROVE  /\ frame \in Frame /\ frame.cp = checkpoint /\ frame.cp \in RunCheckpoint
           /\ Stored(frame.cp) /\ Knows(frame) /\ checkpoint # NoRow
           /\ frame.tools \in Nat /\ frame.reserved \in Nat /\ frame.cost \in 0..2
           /\ frame.cp.tools \in Nat /\ frame.cp.count \in Nat
           /\ frame.recovered \in BOOLEAN
  BY DEF L2Inv, TypeOK, Stored, Frame, RunCheckpoint

\* The attempt moves on and writes nothing.
LEMMA FrameMoves ==
    ASSUME L2Inv, Running(frame), NEW f \in Frame, frame' = f,
           Running(f), f.cp = frame.cp, Knows(f),
           f.pc = "ready" => f.key \notin Sent,
           f.pc = "waiting" => f.key \in Sent,
           f.pc = "recover" /\ ~f.recovered => recoveries = 0,
           UNCHANGED <<status, checkpoint, sends, raised, recoveries>>,
           sealed' \in BOOLEAN, leaseLive' \in BOOLEAN
    PROVE  L2Inv'
  <1>1. TypeOK'
    BY DEF L2Inv, TypeOK
  <1>2. Accounted'
    BY DEF L2Inv, Accounted, Sent
  <1>3. AnsweredIsComplete'
    BY DEF L2Inv, AnsweredIsComplete
  <1>4. frame.cp = checkpoint /\ checkpoint # NoRow /\ frame.pc # "idle" /\ f.pc # "idle"
    BY DEF L2Inv, Running
  <1> QED
    BY <1>1, <1>2, <1>3, <1>4 DEF L2Inv, Running

\* The attempt is over, without a result.
LEMMA AttemptOver ==
    ASSUME L2Inv, Running(frame), frame' = IdleFrame,
           UNCHANGED <<status, checkpoint, recoveries>>,
           sends' \in [SendKey -> SendState], Sent' = Sent,
           raised' \in {"none", "stale", "stage", "body"}, raised' # "body",
           sealed' \in BOOLEAN, leaseLive' \in BOOLEAN
    PROVE  L2Inv'
  <1>1. IdleFrame.pc = "idle" /\ IdleFrame \in Frame
    BY L2Assumption DEF IdleFrame, Frame, Planning, Target, SendKey, Pc, Terminal
  <1>2. TypeOK'
    BY <1>1 DEF L2Inv, TypeOK
  <1>3. Accounted'
    BY <1>1 DEF L2Inv, Accounted
  <1>4. AnsweredIsComplete'
    BY DEF L2Inv, AnsweredIsComplete
  <1> QED
    BY <1>1, <1>2, <1>3, <1>4 DEF L2Inv, Running

\* A write that was built from the checkpoint the attempt holds: it succeeds,
\* or raises for its version or its stage and ends the attempt.
LEMMA WriteKeeps ==
    ASSUME L2Inv, Running(frame), NEW new, NEW f \in Frame, WriteThen(new, f),
           Stored(new), Monotonic(checkpoint, new),
           Running(f), f.cp = new, Knows(f),
           f.pc = "ready" => f.key \notin Sent,
           f.pc # "waiting",
           f.pc = "recover" /\ ~f.recovered => recoveries = 0,
           UNCHANGED <<status, leaseLive, sends, sealed, recoveries>>
    PROVE  L2Inv'
  <1>0. Stored(checkpoint) /\ checkpoint # NoRow /\ status = "running"
    BY DEF L2Inv, Running
  <1>1. CASE WriteResult(new) # "none" /\ raised' = WriteResult(new) /\ frame' = IdleFrame
             /\ UNCHANGED checkpoint
    <2>1. WriteResult(new) \in {"stale", "stage"}
      BY <1>0, <1>1 DEF WriteResult, Stored
    <2>2. Sent' = Sent
      BY DEF Sent
    <2> QED
      BY <1>1, <2>1, <2>2, AttemptOver DEF L2Inv, TypeOK
  <1>2. CASE checkpoint' = new /\ frame' = f /\ UNCHANGED raised
    <2>1. new \in RunCheckpoint /\ new # NoRow
      BY NoRowAssumption DEF Stored
    <2>2. TypeOK'
      BY <1>2, <2>1 DEF L2Inv, TypeOK
    <2>3. Accounted'
      <3>1. Sent' = Sent
        BY DEF Sent
      <3>2. Sent \subseteq new.generations
        BY <1>0 DEF L2Inv, Accounted, Monotonic
      <3>3. recoveries <= 1 /\ (recoveries > 0 => new.recovery)
        BY DEF L2Inv, Accounted, Monotonic
      <3> QED
        BY <1>2, <2>1, <3>1, <3>2, <3>3 DEF Accounted
    <2>4. AnsweredIsComplete'
      BY <1>0 DEF AnsweredIsComplete
    <2> QED
      BY <1>0, <1>2, <2>1, <2>2, <2>3, <2>4 DEF L2Inv, Running
  <1> QED
    BY <1>1, <1>2 DEF WriteThen

\* Two frames that differ in pc at most.
Alike(f, g) ==
    /\ g.cp = f.cp /\ g.outer = f.outer /\ g.key = f.key /\ g.tools = f.tools
    /\ g.recovered = f.recovered /\ g.listed = f.listed /\ g.todo = f.todo
    /\ g.claim = f.claim /\ g.cost = f.cost /\ g.reserved = f.reserved
    /\ g.semantic = f.semantic /\ g.resumed = f.resumed /\ g.outcome = f.outcome

LEMMA GotoFields ==
    ASSUME NEW f \in Frame, NEW pc \in Pc
    PROVE  Goto(f, pc) \in Frame /\ Goto(f, pc).pc = pc /\ Alike(f, Goto(f, pc))
  BY DEF Goto, Frame, Alike

LEMMA FinishFields ==
    ASSUME NEW f \in Frame, NEW outcome \in Terminal
    PROVE  LET g == Finish(f, outcome) IN
           /\ g \in Frame /\ g.pc = "done" /\ g.outcome = outcome
           /\ g.cp = f.cp /\ g.outer = f.outer /\ g.tools = f.tools
           /\ g.recovered = f.recovered /\ g.listed = f.listed
  BY DEF Finish, Frame, Pc

LEMMA Finishes ==
    ASSUME L2Inv, Running(frame), frame.pc # "recover", NEW outcome \in Terminal,
           frame' = Finish(frame, outcome),
           outcome = "answered" =>
             frame.cp.count > 0 /\ Cardinality(frame.cp.completed) = frame.cp.count,
           UNCHANGED <<status, checkpoint, sends, sealed, leaseLive, raised, recoveries>>
    PROVE  L2Inv'
  <1> DEFINE g == Finish(frame, outcome)
  <1>1. /\ g \in Frame /\ g.pc = "done" /\ g.outcome = outcome
        /\ g.cp = frame.cp /\ g.outer = frame.outer /\ g.tools = frame.tools
        /\ g.recovered = frame.recovered /\ g.listed = frame.listed
    BY Locals, FinishFields
  <1>2. frame' = g
    OBVIOUS
  <1> HIDE DEF g
  <1>3. Running(g)
    BY <1>1 DEF Running
  <1>4. Knows(g)
    BY <1>1, Locals DEF Knows, Announced, Budgeted, Placed, InPlanning, InCompliance,
       InClaim, Sending
  <1>5. sealed \in BOOLEAN /\ leaseLive \in BOOLEAN
    BY DEF L2Inv, TypeOK
  <1> QED
    BY <1>1, <1>2, <1>3, <1>4, <1>5, FrameMoves

LEMMA TargetTypes ==
    /\ Planning \in SendKey /\ Compliance \in SendKey
    /\ Planning.stage = "planning" /\ Compliance.stage = "compliance"
    /\ Planning.generation = 0 /\ Compliance.generation = 0
    /\ \A c \in Claim, r \in BOOLEAN :
         LET k == Target("verifier", c, r) IN
         k \in SendKey /\ k.stage = "verifier" /\ k.generation = 0
  BY L2Assumption DEF Planning, Compliance, Target, SendKey

LEMMA EnterKeeps ==
    ASSUME L2Inv, NEW restored \in BOOLEAN, Enter(restored)
    PROVE  L2Inv'
  <1>1. /\ frame.pc = "entry" /\ Running(frame)
        /\ UNCHANGED <<status, checkpoint, sends, sealed, leaseLive, raised, recoveries>>
    BY DEF Enter, Running, runVars, ledgerVars
  <1>2. CASE ResultsComplete(frame.cp) /\ frame' = Finish(frame, "answered")
    <2>1. frame.cp.count > 0 /\ Cardinality(frame.cp.completed) = frame.cp.count
      BY <1>1, <1>2, Locals DEF ResultsComplete, Stored
    <2>2. "answered" \in Terminal
      BY DEF Terminal
    <2> QED
      BY <1>1, <1>2, <2>1, <2>2, Finishes
  <1>3. CASE frame' = Finish(frame, "refused")
    <2>1. "refused" \in Terminal
      BY DEF Terminal
    <2> QED
      BY <1>1, <1>3, <2>1, Finishes
  <1>4. CASE /\ \/ frame.cp.stage = "planned"
                     /\ frame' = [frame EXCEPT !.pc = "prepare", !.key = Planning]
                \/ frame.cp.stage # "planned"
                     /\ frame' = [frame EXCEPT !.pc = "prepare", !.key = Compliance]
    <2>1. PICK k \in {Planning, Compliance} :
            /\ frame' = [frame EXCEPT !.pc = "prepare", !.key = k]
            /\ k = Planning => frame.cp.stage = "planned"
            /\ k = Compliance => frame.cp.stage # "planned"
      BY <1>4, TargetTypes
    <2> DEFINE g == [frame EXCEPT !.pc = "prepare", !.key = k]
    <2>2. /\ g \in Frame /\ g.pc = "prepare" /\ g.key = k /\ g.outcome = frame.outcome
          /\ g.cp = frame.cp /\ g.outer = frame.outer /\ g.tools = frame.tools
          /\ g.recovered = frame.recovered /\ g.listed = frame.listed
      BY <1>1, Locals, TargetTypes DEF Frame, Pc
    <2>3. frame' = g
      BY <2>1
    <2> HIDE DEF g
    <2>4. Running(g)
      BY <2>2 DEF Running
    <2>5. Knows(g)
      BY <1>1, <2>1, <2>2, Locals, TargetTypes DEF Knows, Announced, Budgeted, Placed,
         InPlanning, InCompliance, InClaim, Sending
    <2>6. sealed \in BOOLEAN /\ leaseLive \in BOOLEAN
      BY DEF L2Inv, TypeOK
    <2> QED
      BY <1>1, <2>2, <2>3, <2>4, <2>5, <2>6, FrameMoves
  <1> QED
    BY <1>2, <1>3, <1>4 DEF Enter

LEMMA TransmitKeeps ==
    ASSUME L2Inv, Transmit
    PROVE  L2Inv'
  <1> DEFINE g == Goto(frame, "waiting")
             k == frame.key
  <1>1. /\ frame.pc = "ready" /\ Running(frame) /\ frame' = g
        /\ sends' = [sends EXCEPT ![k] = "reserved"]
        /\ UNCHANGED <<status, checkpoint, sealed, leaseLive, raised, recoveries>>
    BY DEF Transmit, Running, runVars
  <1>2. k \in SendKey /\ sends \in [SendKey -> SendState] /\ status = "running"
    BY <1>1, Locals DEF L2Inv, TypeOK, Frame
  <1>3. g \in Frame /\ g.pc = "waiting" /\ Alike(frame, g)
    BY <1>1, Locals, GotoFields DEF Pc
  <1>4. sends' \in [SendKey -> SendState] /\ Sent' = Sent \cup {k}
    BY <1>1, <1>2 DEF Sent, SendState
  <1> HIDE DEF g
  <1>5. Knows(g) /\ Running(g)
    BY <1>1, <1>3, Locals DEF Knows, Announced, Budgeted, Placed,
       InPlanning, InCompliance, InClaim, Sending, Alike, Running
  <1>6. TypeOK'
    BY <1>1, <1>3, <1>4 DEF L2Inv, TypeOK
  <1>7. Accounted'
    <2>1. k \in checkpoint.generations /\ checkpoint # NoRow /\ g.key = k
      BY <1>1, <1>3, Locals DEF Knows, Announced, Alike
    <2> QED
      BY <1>1, <1>3, <1>4, <2>1 DEF L2Inv, Accounted
  <1>8. AnsweredIsComplete'
    BY <1>1, <1>2 DEF AnsweredIsComplete
  <1>9. frame.cp = checkpoint /\ checkpoint # NoRow /\ g.cp = frame.cp
    BY <1>1, <1>3, Locals DEF Alike
  <1> QED
    BY <1>1, <1>2, <1>3, <1>5, <1>6, <1>7, <1>8, <1>9 DEF L2Inv, Running

\* A result that is recorded is that of a send that was reserved.
LEMMA SettledSends ==
    ASSUME L2Inv, frame.pc = "waiting", NEW state \in SendState \ {"none"},
           sends' = [sends EXCEPT ![frame.key] = state]
    PROVE  sends' \in [SendKey -> SendState] /\ Sent' = Sent
  <1>1. /\ frame.key \in SendKey /\ sends \in [SendKey -> SendState]
        /\ frame.key \in Sent
    BY DEF L2Inv, TypeOK, Frame, Accounted
  <1> QED
    BY <1>1 DEF Sent

\* After a send the attempt moves on with what it knew.
LEMMA AfterSend ==
    ASSUME L2Inv, frame.pc = "waiting", NEW g \in Frame, frame' = g, Running(g), Knows(g),
           g.cp = frame.cp, g.pc \notin {"ready", "waiting", "recover"},
           NEW state \in SendState \ {"none"}, sends' = [sends EXCEPT ![frame.key] = state],
           UNCHANGED <<status, checkpoint, sealed, leaseLive, raised, recoveries>>
    PROVE  L2Inv'
  <1>1. sends' \in [SendKey -> SendState] /\ Sent' = Sent
    BY SettledSends
  <1>2. status = "running" /\ frame.cp = checkpoint /\ checkpoint # NoRow
    BY DEF L2Inv, Running
  <1>3. TypeOK'
    BY <1>1 DEF L2Inv, TypeOK
  <1>4. Accounted'
    BY <1>1 DEF L2Inv, Accounted
  <1>5. AnsweredIsComplete'
    BY <1>2 DEF AnsweredIsComplete
  <1> QED
    BY <1>2, <1>3, <1>4, <1>5 DEF L2Inv, Running

LEMMA ReceiveKeeps ==
    ASSUME L2Inv, Receive
    PROVE  L2Inv'
  <1> DEFINE pc == ResultPc(frame.key)
             g == Goto(frame, pc)
  <1>1. /\ frame.pc = "waiting" /\ Running(frame) /\ frame' = g
        /\ sends' = [sends EXCEPT ![frame.key] = "succeeded"]
        /\ UNCHANGED <<status, checkpoint, sealed, leaseLive, raised, recoveries>>
    BY DEF Receive, Running, runVars
  <1>2. /\ pc \in {"planned", "complied", "judged"}
        /\ pc = "planned" <=> frame.key.stage = "planning"
        /\ pc = "complied" <=> frame.key.stage = "compliance"
        /\ pc = "judged" <=> frame.key.stage = "verifier"
    BY <1>1, Locals DEF ResultPc, Frame, SendKey
  <1> HIDE DEF pc
  <1>3. g \in Frame /\ g.pc = pc /\ Alike(frame, g)
    BY <1>1, <1>2, Locals, GotoFields DEF Pc
  <1> HIDE DEF g
  <1>4. Knows(g) /\ Running(g)
    BY <1>1, <1>2, <1>3, Locals DEF Knows, Announced, Budgeted, Placed,
       InPlanning, InCompliance, InClaim, Sending, Alike, Running
  <1>5. g.cp = frame.cp /\ "succeeded" \in SendState \ {"none"}
    BY <1>3 DEF Alike, SendState
  <1> QED
    BY <1>1, <1>2, <1>3, <1>4, <1>5, AfterSend

LEMMA ReceiveErrorKeeps ==
    ASSUME L2Inv, NEW outcome \in {"failed", "refused"}, ReceiveError(outcome)
    PROVE  L2Inv'
  <1> DEFINE g == [frame EXCEPT !.pc = "erring", !.outcome = outcome]
             state == IF outcome = "failed" THEN "failed_known" ELSE "succeeded"
  <1>1. /\ frame.pc = "waiting" /\ Running(frame) /\ frame' = g
        /\ sends' = [sends EXCEPT ![frame.key] = state]
        /\ UNCHANGED <<status, checkpoint, sealed, leaseLive, raised, recoveries>>
    BY DEF ReceiveError, Running, runVars
  <1>2. /\ g \in Frame /\ g.pc = "erring" /\ g.outcome = outcome
        /\ g.cp = frame.cp /\ g.outer = frame.outer /\ g.tools = frame.tools
        /\ g.recovered = frame.recovered /\ g.listed = frame.listed /\ g.key = frame.key
    BY <1>1, Locals DEF Frame, Pc, Terminal
  <1>3. state \in SendState \ {"none"}
    BY DEF SendState
  <1> HIDE DEF g, state
  <1>4. Knows(g) /\ Running(g)
    BY <1>1, <1>2, Locals DEF Knows, Announced, Budgeted, Placed,
       InPlanning, InCompliance, InClaim, Sending, Running, Terminal
  <1> QED
    BY <1>1, <1>2, <1>3, <1>4, AfterSend

LEMMA SendAbortsKeeps ==
    ASSUME L2Inv, NEW state \in SendState \ {"none"}, SendAborts(state)
    PROVE  L2Inv'
  <1>1. /\ frame.pc = "waiting" /\ Running(frame) /\ frame' = IdleFrame
        /\ sends' = [sends EXCEPT ![frame.key] = state] /\ sealed' = TRUE
        /\ UNCHANGED <<status, checkpoint, leaseLive, raised, recoveries>>
    BY DEF SendAborts, Running, runVars
  <1>2. sends' \in [SendKey -> SendState] /\ Sent' = Sent
    BY <1>1, SettledSends
  <1> QED
    BY <1>1, <1>2, AttemptOver DEF L2Inv, TypeOK

LEMMA RefuseSendKeeps ==
    ASSUME L2Inv, RefuseSend
    PROVE  L2Inv'
  <1>1. /\ frame.pc = "ready" /\ Running(frame)
        /\ UNCHANGED <<status, checkpoint, sends, sealed, leaseLive, raised, recoveries>>
    BY DEF RefuseSend, Running, runVars, ledgerVars
  <1>2. CASE frame' = Finish(frame, "egress_blocked")
    <2>1. "egress_blocked" \in Terminal
      BY DEF Terminal
    <2> QED
      BY <1>1, <1>2, <2>1, Finishes
  <1>3. CASE frame' = [frame EXCEPT !.pc = "erring", !.outcome = "refused"]
    <2> DEFINE g == [frame EXCEPT !.pc = "erring", !.outcome = "refused"]
    <2>1. /\ g \in Frame /\ g.pc = "erring" /\ g.outcome = "refused"
          /\ g.cp = frame.cp /\ g.outer = frame.outer /\ g.tools = frame.tools
          /\ g.recovered = frame.recovered /\ g.listed = frame.listed /\ g.key = frame.key
      BY <1>1, Locals DEF Frame, Pc, Terminal
    <2>2. frame' = g
      BY <1>3
    <2> HIDE DEF g
    <2>3. Knows(g) /\ Running(g)
      BY <1>1, <2>1, Locals DEF Knows, Announced, Budgeted, Placed,
         InPlanning, InCompliance, InClaim, Sending, Running, Terminal
    <2>4. sealed \in BOOLEAN /\ leaseLive \in BOOLEAN
      BY DEF L2Inv, TypeOK
    <2> QED
      BY <1>1, <2>1, <2>2, <2>3, <2>4, FrameMoves
  <1> QED
    BY <1>2, <1>3 DEF RefuseSend

-----------------------------------------------------------------------------
(* Generations *)

\* A key that _prepare_generation makes was never announced, and its generation
\* is within the budget.
LEMMA NextGenerationFresh ==
    ASSUME NEW c, Stored(c), NEW k \in SendKey, k.generation = 0,
           Cardinality(c.generations) < GenerationBudget
    PROVE  LET next == [k EXCEPT !.generation = NextGeneration(c, k)] IN
           /\ next \in SendKey /\ next \notin c.generations /\ next.stage = k.stage
           /\ next.generation <= Cardinality(c.generations)
  <1> DEFINE n == Cardinality(c.generations)
             G == Generations(c, k)
             S == {g.generation : g \in G}
             m == NextGeneration(c, k)
             next == [k EXCEPT !.generation = m]
  <1>1. /\ c.generations \subseteq SendKey /\ n \in Nat
        /\ \A g \in c.generations : g.generation < n
    BY FS_CardinalityType DEF Stored, RunCheckpoint
  <1>2. G \subseteq c.generations
    BY DEF Generations
  <1>3. \A g \in SendKey : g.generation \in Nat
    BY L2Assumption DEF SendKey
  <1>4. \A x \in S : x \in Nat /\ x < n
    BY <1>1, <1>2, <1>3
  <1> HIDE DEF G
  <1>5. m \in Nat /\ m <= n /\ \A g \in G : g.generation < m
    <2>1. CASE G = {}
      BY <1>1, <2>1 DEF NextGeneration, G
    <2>2. CASE G # {}
      <3>1. S # {} /\ S \in SUBSET Nat /\ \A x \in S : x <= n
        BY <1>1, <1>4, <2>2
      <3> HIDE DEF S
      <3>2. Max(S) \in S /\ \A x \in S : x <= Max(S)
        BY <1>1, <3>1, MaxIsMember
      <3>3. m = Max(S) + 1
        BY <2>2 DEF NextGeneration, G, S
      <3>4. Max(S) \in Nat /\ Max(S) < n
        BY <1>4, <3>2
      <3>5. m \in Nat /\ m <= n
        BY <1>1, <3>3, <3>4
      <3>6. ASSUME NEW g \in G PROVE g.generation < m
        <4>1. g.generation \in S
          BY DEF S
        <4>2. g.generation \in Nat /\ g.generation <= Max(S)
          BY <1>4, <3>2, <4>1
        <4> QED
          BY <3>3, <3>4, <4>2
      <3> QED
        BY <3>5, <3>6
    <2> QED
      BY <2>1, <2>2
  <1>6. m \in 0..GenerationBudget
    BY <1>1, <1>5, L2Assumption
  <1> HIDE DEF m
  <1>7. /\ next \in SendKey /\ next.stage = k.stage /\ next.generation = m
    BY <1>6 DEF SendKey
  <1>8. [next EXCEPT !.generation = 0] = k
    BY <1>6 DEF SendKey
  <1> HIDE DEF next
  <1>9. next \notin c.generations
    <2> SUFFICES ASSUME next \in c.generations PROVE FALSE
      OBVIOUS
    <2>1. next \in G
      BY <1>8 DEF G, Generations
    <2> QED
      BY <1>5, <1>7, <2>1
  <1> QED
    BY <1>5, <1>7, <1>9 DEF next, m

\* The checkpoint with one more generation.
LEMMA OneMoreGeneration ==
    ASSUME NEW c, Stored(c), NEW next \in SendKey, next \notin c.generations,
           next.generation <= Cardinality(c.generations),
           Cardinality(c.generations) < GenerationBudget
    PROVE  LET new == [c EXCEPT !.version = @ + 1, !.generations = @ \cup {next}] IN
           /\ Stored(new) /\ Monotonic(c, new)
           /\ new.generations = c.generations \cup {next}
           /\ new.tools = c.tools /\ new.recovery = c.recovery /\ new.stage = c.stage
           /\ new.count = c.count /\ new.completed = c.completed
           /\ new.version = c.version + 1
  <1> DEFINE s == c.generations \cup {next}
             v == c.version + 1
             new == [c EXCEPT !.version = v, !.generations = s]
  <1>1. c \in RunCheckpoint /\ Valid(c) /\ IsFiniteSet(c.generations)
    BY DEF Stored
  <1>2. s \subseteq SendKey /\ v \in Nat \ {0}
    BY <1>1 DEF RunCheckpoint
  <1>3. IsFiniteSet(s) /\ Cardinality(s) = Cardinality(c.generations) + 1
        /\ Cardinality(c.generations) \in Nat
    BY <1>1, FS_AddElement, FS_CardinalityType
  <1> HIDE DEF s, v
  <1>4. /\ new \in RunCheckpoint /\ new.version = v /\ new.generations = s
        /\ new.stage = c.stage /\ new.tools = c.tools /\ new.recovery = c.recovery
        /\ new.listed = c.listed /\ new.recoveryClaim = c.recoveryClaim
        /\ new.attempt = c.attempt /\ new.count = c.count /\ new.completed = c.completed
    BY <1>1, <1>2 DEF RunCheckpoint
  <1>5. c.tools \in Nat /\ c.count \in Nat
    BY <1>1 DEF RunCheckpoint
  <1> HIDE DEF new
  <1>6. Valid(new)
    BY <1>1, <1>3, <1>4, L2Assumption DEF Valid
  <1>7. \A g \in s : g.generation < Cardinality(s)
    <2>1. \A g \in c.generations : g.generation < Cardinality(c.generations) /\ g.generation \in Nat
      BY <1>1, L2Assumption DEF Stored, RunCheckpoint, SendKey
    <2>2. next.generation \in Nat
      BY L2Assumption DEF SendKey
    <2> QED
      BY <1>3, <2>1, <2>2 DEF s
  <1>8. c.listed \subseteq s /\ c.generations \subseteq s
    BY DEF Stored, s
  <1>9. Stored(new)
    BY <1>3, <1>4, <1>6, <1>7, <1>8 DEF Stored
  <1>10. Monotonic(c, new)
    BY <1>4, <1>5, <1>8 DEF Monotonic
  <1> QED
    BY <1>4, <1>9, <1>10 DEF new, s, v

LEMMA InnerOuterFields ==
    ASSUME NEW f \in Frame, NEW c \in RunCheckpoint
    PROVE  /\ Inner(f, c) \in Frame /\ Inner(f, c).cp = c /\ Inner(f, c).outer = f.outer
           /\ Outer(f, c) \in Frame /\ Outer(f, c).cp = c /\ Outer(f, c).outer = c.version
           /\ \A g \in {Inner(f, c), Outer(f, c)} :
                /\ g.pc = f.pc /\ g.key = f.key /\ g.tools = f.tools
                /\ g.recovered = f.recovered /\ g.listed = f.listed /\ g.todo = f.todo
                /\ g.claim = f.claim /\ g.cost = f.cost /\ g.reserved = f.reserved
                /\ g.outcome = f.outcome
  <1> DEFINE v == c.version
  <1>1. v \in Nat
    BY DEF RunCheckpoint
  <1> HIDE DEF v
  <1>2. Outer(f, c) = [f EXCEPT !.cp = c, !.outer = v]
    BY DEF Outer, v
  <1>3. /\ Inner(f, c) \in Frame /\ Inner(f, c).cp = c /\ Inner(f, c).outer = f.outer
    BY DEF Inner, Frame
  <1>4. Outer(f, c) \in Frame /\ Outer(f, c).cp = c /\ Outer(f, c).outer = v
    BY <1>1, <1>2 DEF Frame
  <1>5. LET g == Inner(f, c) IN
          /\ g.pc = f.pc /\ g.key = f.key /\ g.tools = f.tools
          /\ g.recovered = f.recovered /\ g.listed = f.listed /\ g.todo = f.todo
          /\ g.claim = f.claim /\ g.cost = f.cost /\ g.reserved = f.reserved
          /\ g.outcome = f.outcome
    BY DEF Inner, Frame
  <1>6. LET g == Outer(f, c) IN
          /\ g.pc = f.pc /\ g.key = f.key /\ g.tools = f.tools
          /\ g.recovered = f.recovered /\ g.listed = f.listed /\ g.todo = f.todo
          /\ g.claim = f.claim /\ g.cost = f.cost /\ g.reserved = f.reserved
          /\ g.outcome = f.outcome
    BY <1>2 DEF Frame
  <1> QED
    BY <1>3, <1>4, <1>5, <1>6 DEF v

\* The generation is written before the send, under a key never used.
LEMMA PrepareGenerationKeeps ==
    ASSUME L2Inv, PrepareGeneration
    PROVE  L2Inv'
  <1> DEFINE c == frame.cp
             next == [frame.key EXCEPT !.generation = NextGeneration(frame.cp, frame.key)]
             new == [frame.cp EXCEPT !.version = @ + 1, !.generations = @ \cup {next}]
             then == [frame EXCEPT !.pc = "ready", !.key = next]
             g == IF next.stage = "verifier" THEN Inner(then, new) ELSE Outer(then, new)
  <1>1. /\ frame.pc = "prepare" /\ Running(frame)
        /\ UNCHANGED <<status, sends, sealed, leaseLive, recoveries>>
    BY DEF PrepareGeneration, Running, runVars, ledgerVars
  <1>2. CASE frame' = Finish(frame, "refused") /\ UNCHANGED <<checkpoint, raised>>
    <2>1. "refused" \in Terminal
      BY DEF Terminal
    <2> QED
      BY <1>1, <1>2, <2>1, Finishes
  <1>3. CASE ~(Cardinality(c.generations) >= GenerationBudget) /\ WriteThen(new, g)
    <2>1. /\ frame \in Frame /\ Stored(c) /\ Knows(frame) /\ c = checkpoint
          /\ frame.key \in SendKey /\ frame.key.generation = 0
      BY <1>1, Locals DEF Knows, Announced, Frame
    <2>2. Cardinality(c.generations) < GenerationBudget
      BY <1>3, <2>1, FS_CardinalityType, L2Assumption DEF Stored
    <2>3. /\ next \in SendKey /\ next \notin c.generations /\ next.stage = frame.key.stage
          /\ next.generation <= Cardinality(c.generations)
      BY <2>1, <2>2, NextGenerationFresh
    <2> HIDE DEF next
    <2>4. /\ Stored(new) /\ Monotonic(c, new)
          /\ new.generations = c.generations \cup {next}
          /\ new.tools = c.tools /\ new.recovery = c.recovery /\ new.stage = c.stage
          /\ new.count = c.count /\ new.completed = c.completed
          /\ new.version = c.version + 1
      BY <2>1, <2>2, <2>3, OneMoreGeneration
    <2>5. /\ then \in Frame /\ then.pc = "ready" /\ then.key = next
          /\ then.outer = frame.outer /\ then.tools = frame.tools
          /\ then.recovered = frame.recovered /\ then.listed = frame.listed
          /\ then.todo = frame.todo /\ then.claim = frame.claim
          /\ then.outcome = frame.outcome
      BY <2>1, <2>3 DEF Frame, Pc
    <2>6. new \in RunCheckpoint
      BY <2>4 DEF Stored
    <2> HIDE DEF new, then
    <2>7. new.version > 0 /\ frame.outer > 0
      BY <2>1, <2>6 DEF RunCheckpoint, Knows
    <2>8. /\ g \in Frame /\ g.cp = new /\ g.outer > 0 /\ g.pc = "ready" /\ g.key = next
          /\ g.tools = frame.tools /\ g.recovered = frame.recovered
          /\ g.listed = frame.listed /\ g.todo = frame.todo /\ g.claim = frame.claim
          /\ g.outcome = frame.outcome
      BY <2>5, <2>6, <2>7, InnerOuterFields
    <2> HIDE DEF g
    <2>9. Knows(g) /\ Running(g)
      <3>1. Announced(g)
        BY <2>1, <2>4, <2>8 DEF Knows, Announced
      <3>2. Budgeted(g)
        BY <1>1, <2>1, <2>4, <2>8 DEF Knows, Budgeted
      <3>3. Placed(g)
        BY <1>1, <2>1, <2>3, <2>4, <2>8 DEF Knows, Placed, InPlanning, InCompliance, InClaim,
           Sending
      <3> QED
        BY <2>8, <3>1, <3>2, <3>3 DEF Knows, Running
    <2>10. next \notin Sent
      BY <1>1, <2>1, <2>3, Locals DEF L2Inv, Accounted
    <2> QED
      BY <1>1, <1>3, <2>1, <2>4, <2>8, <2>9, <2>10, WriteKeeps
  <1> QED
    BY <1>2, <1>3 DEF PrepareGeneration

LEMMA IdleFrameFields ==
    /\ IdleFrame \in Frame /\ IdleFrame.pc = "idle" /\ IdleFrame.key = Planning
    /\ IdleFrame.tools = 0 /\ IdleFrame.recovered = FALSE /\ IdleFrame.listed = {}
    /\ IdleFrame.outcome = "none"
  BY L2Assumption DEF IdleFrame, Frame, Planning, Target, SendKey, Pc, Terminal

LEMMA FirstCheckpointKeeps ==
    ASSUME L2Inv, FirstCheckpoint
    PROVE  L2Inv'
  <1> DEFINE first == [version |-> 1, attempt |-> 1, stage |-> "planned",
                       evidence |-> FALSE, tools |-> 0, listed |-> {},
                       generations |-> {Planning}, recovery |-> FALSE,
                       recoveryClaim |-> NoClaim, count |-> 0, completed |-> {}]
             h == Goto(frame, "ready")
             g == Outer(h, first)
  <1>1. /\ frame.pc = "first" /\ checkpoint' = first /\ frame' = g
        /\ UNCHANGED <<status, leaseLive, sends, sealed, raised, recoveries>>
    BY DEF FirstCheckpoint, runVars, ledgerVars
  <1>2. /\ frame = [IdleFrame EXCEPT !.pc = "first"] /\ frame \in Frame
        /\ checkpoint = NoRow /\ status = "running"
    BY <1>1 DEF L2Inv, TypeOK
  <1>3. /\ frame.key = Planning /\ frame.tools = 0 /\ frame.recovered = FALSE
        /\ frame.listed = {} /\ frame.outcome = "none"
    BY <1>2, IdleFrameFields DEF Frame
  <1>4. h \in Frame /\ h.pc = "ready" /\ Alike(frame, h)
    BY <1>2, GotoFields DEF Pc
  <1>5. /\ first \in RunCheckpoint /\ first.generations = {Planning} /\ first.tools = 0
        /\ first.listed = {} /\ first.completed = {} /\ first.count = 0
        /\ first.stage = "planned" /\ first.version = 1 /\ first.recovery = FALSE
        /\ first.recoveryClaim = NoClaim
    BY TargetTypes DEF RunCheckpoint, CheckpointStage
  <1> HIDE DEF first, h
  <1>6. Stored(first)
    <2>1. /\ IsFiniteSet({Planning}) /\ Cardinality({Planning}) = 1
          /\ IsFiniteSet({}) /\ Cardinality({}) = 0
      BY FS_Singleton, FS_EmptySet
    <2>2. Valid(first)
      BY <1>5, <2>1, L2Assumption DEF Valid
    <2> QED
      BY <1>5, <2>1, <2>2, TargetTypes DEF Stored
  <1>7. /\ g \in Frame /\ g.cp = first /\ g.outer = 1 /\ g.pc = "ready" /\ g.key = Planning
        /\ g.tools = 0 /\ g.recovered = FALSE /\ g.listed = {} /\ g.outcome = "none"
    BY <1>3, <1>4, <1>5, InnerOuterFields DEF Alike
  <1> HIDE DEF g
  <1>8. Knows(g) /\ Running(g)
    BY <1>5, <1>7, TargetTypes, L2Assumption DEF Knows, Announced, Budgeted, Placed,
       InPlanning, InCompliance, InClaim, Sending, Running
  <1>9. first # NoRow
    BY <1>5, NoRowAssumption
  <1>10. TypeOK'
    BY <1>1, <1>5, <1>7 DEF L2Inv, TypeOK
  <1>11. Accounted'
    <2>1. Sent' = Sent /\ Sent = {} /\ recoveries = 0
      BY <1>1, <1>2 DEF Sent, L2Inv, Accounted
    <2> QED
      BY <1>1, <1>7, <1>9, <2>1 DEF Accounted
  <1>12. AnsweredIsComplete'
    BY <1>1, <1>2 DEF AnsweredIsComplete
  <1> QED
    BY <1>1, <1>2, <1>6, <1>7, <1>8, <1>9, <1>10, <1>11, <1>12 DEF L2Inv, Running

LEMMA ResumeKeeps ==
    ASSUME L2Inv, Resume
    PROVE  L2Inv'
  <1> DEFINE v == checkpoint.version + 1
             n == checkpoint.attempt + 1
             taken == [checkpoint EXCEPT !.version = v, !.attempt = n]
             h == [IdleFrame EXCEPT !.pc = "entry", !.tools = taken.tools,
                                    !.recovered = taken.recovery, !.listed = taken.listed]
             g == Outer(h, taken)
  <1>1. /\ status = "interrupted" /\ checkpoint # NoRow /\ Valid(checkpoint)
        /\ checkpoint' = taken /\ frame' = g /\ status' = "running" /\ leaseLive' = TRUE
        /\ UNCHANGED <<sends, sealed, raised, recoveries>>
    BY DEF Resume, ledgerVars
  <1>2. Stored(checkpoint) /\ checkpoint \in RunCheckpoint
    BY <1>1 DEF L2Inv, Stored
  <1>3. v \in Nat \ {0} /\ n \in Nat \ {0}
    BY <1>2 DEF RunCheckpoint
  <1> HIDE DEF v, n
  <1>4. /\ taken \in RunCheckpoint /\ taken.version = v
        /\ taken.generations = checkpoint.generations
        /\ taken.stage = checkpoint.stage /\ taken.tools = checkpoint.tools
        /\ taken.recovery = checkpoint.recovery /\ taken.listed = checkpoint.listed
        /\ taken.recoveryClaim = checkpoint.recoveryClaim
        /\ taken.count = checkpoint.count /\ taken.completed = checkpoint.completed
    BY <1>2, <1>3 DEF RunCheckpoint
  <1> HIDE DEF taken
  <1>5. Stored(taken)
    BY <1>2, <1>4 DEF Stored, Valid
  <1>6. /\ taken.tools \in Nat /\ taken.recovery \in BOOLEAN /\ taken.listed \subseteq SendKey
        /\ taken # NoRow
    BY <1>4, NoRowAssumption DEF RunCheckpoint
  <1>7. /\ h \in Frame /\ h.pc = "entry" /\ h.tools = taken.tools
        /\ h.recovered = taken.recovery /\ h.listed = taken.listed
        /\ h.outcome = IdleFrame.outcome
    BY <1>6, IdleFrameFields DEF Frame, Pc
  <1> HIDE DEF h
  <1>8. /\ g \in Frame /\ g.cp = taken /\ g.outer = v /\ g.pc = "entry"
        /\ g.tools = taken.tools /\ g.recovered = taken.recovery
        /\ g.listed = taken.listed /\ g.outcome = "none"
    BY <1>4, <1>7, IdleFrameFields, InnerOuterFields
  <1> HIDE DEF g
  <1>9. taken.tools <= ToolBudget /\ taken.listed \subseteq taken.generations
    BY <1>5 DEF Stored, Valid
  <1>10. Announced(g) /\ Placed(g)
    BY <1>8, <1>9 DEF Announced, Placed, InPlanning, InCompliance, InClaim, Sending
  <1>11. Budgeted(g) /\ g.outer > 0
    BY <1>3, <1>6, <1>8, <1>9 DEF Budgeted
  <1>12. TypeOK'
    BY <1>1, <1>4, <1>8 DEF L2Inv, TypeOK
  <1>13. Accounted'
    <2>1. Sent' = Sent
      BY <1>1 DEF Sent
    <2> QED
      BY <1>1, <1>4, <1>6, <1>8, <2>1 DEF L2Inv, Accounted
  <1>14. AnsweredIsComplete'
    BY <1>1 DEF AnsweredIsComplete
  <1> QED
    BY <1>1, <1>5, <1>6, <1>8, <1>10, <1>11, <1>12, <1>13, <1>14 DEF L2Inv, Running, Knows

-----------------------------------------------------------------------------
(* Writes of run_l2_attempt and of _one_claim *)

LEMMA ListFields ==
    ASSUME NEW f \in Frame
    PROVE  LET g == List(f) IN
           /\ g \in Frame /\ g.listed = f.listed \cup {f.key}
           /\ g.pc = f.pc /\ g.cp = f.cp /\ g.outer = f.outer /\ g.key = f.key
           /\ g.tools = f.tools /\ g.recovered = f.recovered /\ g.todo = f.todo
           /\ g.claim = f.claim /\ g.outcome = f.outcome
  <1> DEFINE l == f.listed \cup {f.key}
             g == [f EXCEPT !.listed = l]
  <1>1. List(f) = g /\ l \subseteq SendKey
    BY DEF List, Frame
  <1> HIDE DEF l
  <1>2. /\ g \in Frame /\ g.listed = l
        /\ g.pc = f.pc /\ g.cp = f.cp /\ g.outer = f.outer /\ g.key = f.key
        /\ g.tools = f.tools /\ g.recovered = f.recovered /\ g.todo = f.todo
        /\ g.claim = f.claim /\ g.outcome = f.outcome
    BY <1>1 DEF Frame
  <1> HIDE DEF g
  <1> QED
    BY <1>1, <1>2 DEF l

\* The handler's write, with run_l2_attempt's version, which may be behind.
LEMMA HandleErrorKeeps ==
    ASSUME L2Inv, HandleError
    PROVE  L2Inv'
  <1> DEFINE o == [frame.cp EXCEPT !.version = frame.outer]
             e == [frame EXCEPT !.cp = o]
             f == List(e)
             new == Advance(f, f.cp.stage)
             h == Outer(f, new)
             g == Finish(h, frame.outcome)
  <1>1. /\ frame.pc = "erring" /\ Running(frame)
        /\ WriteThen(new, g)
        /\ UNCHANGED <<status, leaseLive, sends, sealed, recoveries>>
    BY DEF HandleError, Running, runVars, ledgerVars
  <1>2. /\ frame \in Frame /\ frame.cp \in RunCheckpoint /\ Stored(frame.cp) /\ Knows(frame)
        /\ frame.cp = checkpoint /\ frame.outer \in Nat \ {0}
    BY <1>1, Locals DEF Knows, Frame
  <1>3. /\ o \in RunCheckpoint /\ o.stage = frame.cp.stage /\ o.tools = frame.cp.tools
        /\ o.recovery = frame.cp.recovery /\ o.listed = frame.cp.listed
        /\ o.recoveryClaim = frame.cp.recoveryClaim /\ o.attempt = frame.cp.attempt
        /\ o.generations = frame.cp.generations
        /\ o.count = frame.cp.count /\ o.completed = frame.cp.completed
    BY <1>2 DEF RunCheckpoint
  <1> HIDE DEF o
  <1>4. /\ e \in Frame /\ e.pc = "erring" /\ e.cp = o /\ e.key = frame.key
        /\ e.tools = frame.tools /\ e.recovered = frame.recovered
        /\ e.listed = frame.listed /\ e.outcome = frame.outcome
    BY <1>1, <1>2, <1>3 DEF Frame
  <1> HIDE DEF e
  <1>5. /\ f \in Frame /\ f.listed = e.listed \cup {e.key} /\ f.cp = o
        /\ f.tools = e.tools /\ f.recovered = e.recovered
    BY <1>4, ListFields
  <1> HIDE DEF f
  <1>6. Stored(o)
    BY <1>2, <1>3 DEF Stored, Valid
  <1>7. o.stage \in CheckpointStage
    BY <1>3 DEF RunCheckpoint
  <1>8. /\ f.listed \subseteq f.cp.generations
        /\ f.cp.tools <= f.tools /\ f.tools <= ToolBudget /\ (f.cp.recovery => f.recovered)
    BY <1>1, <1>2, <1>3, <1>4, <1>5 DEF Knows, Announced, Budgeted
  <1>9. Stored(new) /\ Monotonic(o, new)
    <2>1. o.stage = "recovery_completed" => f.recovered
      BY <1>5, <1>6, <1>8 DEF Stored, Valid
    <2>2. o.stage = "completed" => o.count > 0 /\ Cardinality(o.completed) = o.count
      BY <1>6 DEF Stored
    <2> QED
      BY <1>5, <1>6, <1>7, <1>8, <2>1, <2>2, AdvanceStored
  <1>10. Monotonic(checkpoint, new)
    BY <1>2, <1>3, <1>9 DEF Monotonic
  <1>11. /\ new \in RunCheckpoint /\ new.tools = f.tools /\ new.recovery = f.recovered
         /\ new.listed = o.listed \cup f.listed /\ new.generations = o.generations
         /\ new.version = o.version + 1
    BY <1>3, <1>5, <1>7, AdvanceFields
  <1> HIDE DEF new
  <1>12. /\ h \in Frame /\ h.cp = new /\ h.outer = new.version
         /\ h.tools = f.tools /\ h.recovered = f.recovered /\ h.listed = f.listed
    BY <1>5, <1>11, InnerOuterFields
  <1> HIDE DEF h
  <1>13. frame.outcome \in Terminal /\ frame.outcome # "answered"
    BY <1>1, <1>2 DEF Knows, Placed
  <1>14. /\ g \in Frame /\ g.pc = "done" /\ g.outcome = frame.outcome
        /\ g.cp = new /\ g.outer = new.version /\ g.tools = f.tools
        /\ g.recovered = f.recovered /\ g.listed = f.listed
    BY <1>12, <1>13, FinishFields
  <1> HIDE DEF g
  <1>15. new.version > 0 /\ new.tools \in Nat
    BY <1>11 DEF RunCheckpoint
  <1>16. Announced(g)
    BY <1>5, <1>8, <1>11, <1>14 DEF Announced
  <1>17. Budgeted(g)
    BY <1>8, <1>11, <1>14, <1>15 DEF Budgeted
  <1>18. Placed(g)
    BY <1>13, <1>14 DEF Placed, InPlanning, InCompliance, InClaim, Sending
  <1>19. Knows(g) /\ Running(g)
    BY <1>14, <1>15, <1>16, <1>17, <1>18 DEF Knows, Running
  <1> QED
    BY <1>1, <1>9, <1>10, <1>14, <1>19, WriteKeeps

\* f is g but for the evidence of its checkpoint.
SameButEvidence(g, f) ==
    /\ f.tools = g.tools /\ f.recovered = g.recovered /\ f.listed = g.listed
    /\ f.cp \in RunCheckpoint /\ f.cp.version = g.cp.version /\ f.cp.attempt = g.cp.attempt
    /\ f.cp.stage = g.cp.stage /\ f.cp.tools = g.cp.tools /\ f.cp.listed = g.cp.listed
    /\ f.cp.generations = g.cp.generations /\ f.cp.recovery = g.cp.recovery
    /\ f.cp.recoveryClaim = g.cp.recoveryClaim /\ f.cp.count = g.cp.count
    /\ f.cp.completed = g.cp.completed

\* An _advance to a stage after the batch, from where the attempt goes on as next.
LEMMA AdvanceThenKeeps ==
    ASSUME L2Inv, Running(frame), frame.pc # "recover",
           NEW stage \in {"recovery_completed", "deterministic_verified",
                          "semantic_verified", "completed"},
           NEW f \in Frame, SameButEvidence(frame, f),
           NEW next \in Frame, AdvanceThen(f, stage, next),
           stage = "recovery_completed" => frame.recovered,
           stage = "completed" =>
             frame.cp.count > 0 /\ Cardinality(frame.cp.completed) = frame.cp.count,
           Running(next), Knows(next), ~InPlanning(next), next.cp = frame.cp,
           next.tools = frame.tools, next.recovered = frame.recovered,
           next.pc \notin {"recover", "ready", "waiting"},
           UNCHANGED <<status, leaseLive, sends, sealed, recoveries>>
    PROVE  L2Inv'
  <1> DEFINE new == Advance(f, stage)
             g == Inner(next, new)
  <1>1. /\ frame \in Frame /\ frame.cp \in RunCheckpoint /\ Stored(frame.cp) /\ Knows(frame)
        /\ frame.cp = checkpoint /\ stage \in CheckpointStage
    BY Locals DEF CheckpointStage
  <1>2. CASE frame' = next /\ UNCHANGED <<checkpoint, raised>>
    <2>1. sealed \in BOOLEAN /\ leaseLive \in BOOLEAN
      BY DEF L2Inv, TypeOK
    <2> QED
      BY <1>2, <2>1, FrameMoves
  <1>3. CASE WriteThen(new, g)
    <2>1. Stored(new) /\ Monotonic(f.cp, new)
      <3>1. /\ frame.listed \subseteq frame.cp.generations /\ frame.cp.tools <= frame.tools
            /\ frame.tools <= ToolBudget /\ (frame.cp.recovery => frame.recovered)
        BY <1>1 DEF Knows, Announced, Budgeted
      <3>2. Stored(f.cp)
        BY <1>1 DEF SameButEvidence, Stored, Valid
      <3> QED
        BY <1>1, <3>1, <3>2, AdvanceStored DEF SameButEvidence
    <2>2. /\ new \in RunCheckpoint /\ new.stage = stage /\ new.tools = frame.tools
          /\ new.recovery = frame.recovered /\ new.generations = frame.cp.generations
          /\ new.count = frame.cp.count /\ new.completed = frame.cp.completed
      BY <1>1, AdvanceFields DEF SameButEvidence
    <2> HIDE DEF new
    <2>3. Monotonic(checkpoint, new)
      BY <1>1, <2>1 DEF SameButEvidence, Monotonic
    <2>4. /\ g \in Frame /\ g.cp = new /\ g.outer = next.outer /\ g.pc = next.pc
          /\ g.key = next.key /\ g.tools = next.tools /\ g.recovered = next.recovered
          /\ g.listed = next.listed /\ g.todo = next.todo /\ g.claim = next.claim
          /\ g.outcome = next.outcome
      BY <2>2, InnerOuterFields
    <2> HIDE DEF g
    <2>5. Announced(g)
      BY <2>2, <2>4 DEF Knows, Announced
    <2>6. Budgeted(g)
      BY <1>1, <2>2, <2>4 DEF Knows, Budgeted, Frame
    <2>7. Placed(g)
      BY <2>2, <2>4 DEF Knows, Placed, InPlanning, InCompliance, InClaim, Sending
    <2>8. Knows(g) /\ Running(g)
      BY <2>4, <2>5, <2>6, <2>7 DEF Knows, Running
    <2> QED
      BY <1>3, <2>1, <2>3, <2>4, <2>8, WriteKeeps
  <1> QED
    BY <1>2, <1>3 DEF AdvanceThen

LEMMA SameAsItself ==
    ASSUME L2Inv, Running(frame)
    PROVE  frame \in Frame /\ SameButEvidence(frame, frame)
  BY Locals DEF SameButEvidence

LEMMA RecordPlanKeeps ==
    ASSUME L2Inv, RecordPlan
    PROVE  L2Inv'
  <1> DEFINE h == Goto(frame, "collect")
             f == List(h)
             new == Advance(f, "planned")
             g == Outer(f, new)
  <1>1. /\ frame.pc = "planned" /\ Running(frame)
        /\ UNCHANGED <<status, leaseLive, sends, sealed, recoveries>>
    BY DEF RecordPlan, Running, runVars, ledgerVars
  <1>2. /\ frame \in Frame /\ frame.cp \in RunCheckpoint /\ Stored(frame.cp) /\ Knows(frame)
        /\ frame.cp = checkpoint /\ frame.cp.stage = "planned"
    BY <1>1, Locals DEF Knows, Placed, InPlanning
  <1>3. h \in Frame /\ h.pc = "collect" /\ Alike(frame, h)
    BY <1>2, GotoFields DEF Pc
  <1> HIDE DEF h
  <1>4. /\ f \in Frame /\ f.listed = frame.listed \cup {frame.key} /\ f.pc = "collect"
        /\ f.cp = frame.cp /\ f.outer = frame.outer /\ f.key = frame.key
        /\ f.tools = frame.tools /\ f.recovered = frame.recovered
        /\ f.outcome = frame.outcome
    BY <1>3, ListFields DEF Alike
  <1>5. (f.cp.attempt = 1 /\ WriteThen(new, g)) \/ (frame' = f /\ UNCHANGED <<checkpoint, raised>>)
    BY DEF RecordPlan, h
  <1> HIDE DEF f
  <1>6. /\ f.listed \subseteq f.cp.generations /\ f.cp.tools <= f.tools
        /\ f.tools <= ToolBudget /\ (f.cp.recovery => f.recovered) /\ f.outer > 0
        /\ f.outcome # "answered"
    BY <1>1, <1>2, <1>4 DEF Knows, Announced, Budgeted, Placed
  <1>7. Running(f) /\ Knows(f)
    BY <1>2, <1>4, <1>6 DEF Running, Knows, Announced, Budgeted, Placed, InPlanning,
       InCompliance, InClaim, Sending
  <1>8. CASE frame' = f /\ UNCHANGED <<checkpoint, raised>>
    <2>1. sealed \in BOOLEAN /\ leaseLive \in BOOLEAN
      BY DEF L2Inv, TypeOK
    <2> QED
      BY <1>1, <1>4, <1>7, <1>8, <2>1, FrameMoves
  <1>9. CASE WriteThen(new, g)
    <2>0. "planned" \in CheckpointStage
      BY DEF CheckpointStage
    <2>1. Stored(new) /\ Monotonic(checkpoint, new)
      BY <1>2, <1>4, <1>6, <2>0, AdvanceStored
    <2>2. /\ new \in RunCheckpoint /\ new.stage = "planned" /\ new.tools = f.tools
          /\ new.recovery = f.recovered /\ new.generations = f.cp.generations
      BY <1>2, <1>4, <2>0, AdvanceFields
    <2> HIDE DEF new
    <2>3. /\ g \in Frame /\ g.cp = new /\ g.outer = new.version /\ g.pc = "collect"
          /\ g.tools = f.tools /\ g.recovered = f.recovered
          /\ g.listed = f.listed /\ g.outcome = f.outcome
      BY <1>4, <2>2, InnerOuterFields
    <2> HIDE DEF g
    <2>4. new.version > 0 /\ new.tools \in Nat
      BY <2>2 DEF RunCheckpoint
    <2>5. Knows(g) /\ Running(g)
      BY <1>6, <2>2, <2>3, <2>4 DEF Running, Knows, Announced, Budgeted, Placed, InPlanning,
         InCompliance, InClaim, Sending
    <2> QED
      BY <1>1, <1>9, <2>1, <2>3, <2>5, WriteKeeps
  <1> QED
    BY <1>5, <1>8, <1>9

LEMMA CollectKeeps ==
    ASSUME L2Inv, NEW calls \in 1..ToolBudget, Collect(calls)
    PROVE  L2Inv'
  <1> DEFINE n == frame.tools + calls
             g == [frame EXCEPT !.pc = "collected", !.tools = n]
  <1>1. /\ frame.pc = "collect" /\ Running(frame) /\ n <= ToolBudget /\ frame' = g
        /\ UNCHANGED <<status, checkpoint, sends, sealed, leaseLive, raised, recoveries>>
    BY DEF Collect, Running, runVars, ledgerVars
  <1>2. /\ frame \in Frame /\ Knows(frame) /\ frame.tools \in Nat /\ frame.cp.tools \in Nat
    BY <1>1, Locals
  <1>3. n \in Nat /\ n >= frame.tools
    BY <1>2, L2Assumption
  <1> HIDE DEF n
  <1>4. /\ g \in Frame /\ g.pc = "collected" /\ g.tools = n /\ g.cp = frame.cp
        /\ g.outer = frame.outer /\ g.recovered = frame.recovered
        /\ g.listed = frame.listed /\ g.outcome = frame.outcome
    BY <1>2, <1>3 DEF Frame, Pc
  <1> HIDE DEF g
  <1>5. Knows(g) /\ Running(g)
    <2>1. Budgeted(g)
      BY <1>1, <1>2, <1>3, <1>4 DEF Knows, Budgeted
    <2> QED
      BY <1>1, <1>2, <1>4, <2>1 DEF Running, Knows, Announced, Placed, InPlanning,
         InCompliance, InClaim, Sending
  <1>6. sealed \in BOOLEAN /\ leaseLive \in BOOLEAN
    BY DEF L2Inv, TypeOK
  <1> QED
    BY <1>1, <1>4, <1>5, <1>6, FrameMoves

LEMMA RecordEvidenceKeeps ==
    ASSUME L2Inv, NEW found \in BOOLEAN, RecordEvidence(found)
    PROVE  L2Inv'
  <1> DEFINE f == [frame EXCEPT !.pc = "prepare", !.key = Compliance]
             adv == Advance(f, "evidence_collected")
             new == [adv EXCEPT !.evidence = found]
             g == Outer(f, new)
  <1>1. /\ frame.pc = "collected" /\ Running(frame) /\ WriteThen(new, g)
        /\ UNCHANGED <<status, leaseLive, sends, sealed, recoveries>>
    BY DEF RecordEvidence, Running, runVars, ledgerVars
  <1>2. /\ frame \in Frame /\ frame.cp \in RunCheckpoint /\ Stored(frame.cp) /\ Knows(frame)
        /\ frame.cp = checkpoint /\ frame.cp.stage = "planned"
    BY <1>1, Locals DEF Knows, Placed, InPlanning
  <1>3. /\ f \in Frame /\ f.pc = "prepare" /\ f.key = Compliance
        /\ f.cp = frame.cp /\ f.tools = frame.tools /\ f.recovered = frame.recovered
        /\ f.listed = frame.listed /\ f.outcome = frame.outcome
    BY <1>2, TargetTypes DEF Frame, Pc
  <1> HIDE DEF f
  <1>4. /\ f.listed \subseteq f.cp.generations /\ f.cp.tools <= f.tools
        /\ f.tools <= ToolBudget /\ (f.cp.recovery => f.recovered)
        /\ f.outcome # "answered"
    BY <1>1, <1>2, <1>3 DEF Knows, Announced, Budgeted, Placed
  <1>5. "evidence_collected" \in CheckpointStage
    BY DEF CheckpointStage
  <1>6. Stored(adv) /\ Monotonic(checkpoint, adv)
    BY <1>2, <1>3, <1>4, <1>5, AdvanceStored
  <1>7. /\ adv \in RunCheckpoint /\ adv.stage = "evidence_collected" /\ adv.tools = f.tools
        /\ adv.recovery = f.recovered /\ adv.generations = f.cp.generations
    BY <1>2, <1>3, <1>5, AdvanceFields
  <1> HIDE DEF adv
  <1>8. /\ new \in RunCheckpoint /\ new.version = adv.version /\ new.attempt = adv.attempt
        /\ new.stage = adv.stage /\ new.tools = adv.tools /\ new.listed = adv.listed
        /\ new.generations = adv.generations /\ new.recovery = adv.recovery
        /\ new.recoveryClaim = adv.recoveryClaim
        /\ new.completed = adv.completed /\ new.count = adv.count
    BY <1>7 DEF RunCheckpoint
  <1> HIDE DEF new
  <1>9. Stored(new) /\ Monotonic(checkpoint, new)
    BY <1>6, <1>8 DEF Stored, Valid, Monotonic
  <1>10. /\ g \in Frame /\ g.cp = new /\ g.outer = new.version /\ g.pc = "prepare"
         /\ g.key = Compliance /\ g.tools = f.tools /\ g.recovered = f.recovered
         /\ g.listed = f.listed /\ g.outcome = f.outcome
    BY <1>3, <1>8, InnerOuterFields
  <1> HIDE DEF g
  <1>11. new.version > 0 /\ new.tools \in Nat
    BY <1>8 DEF RunCheckpoint
  <1>12. Knows(g) /\ Running(g)
    BY <1>4, <1>7, <1>8, <1>10, <1>11, TargetTypes DEF Running, Knows, Announced, Budgeted,
       Placed, InPlanning, InCompliance, InClaim, Sending
  <1> QED
    BY <1>1, <1>9, <1>10, <1>12, WriteKeeps

LEMMA RecordCandidatesKeeps ==
    ASSUME L2Inv, NEW batch \in SUBSET Claim, batch # {}, IsFiniteSet(batch),
           Cardinality(batch) <= MaxClaims, RecordCandidates(batch)
    PROVE  L2Inv'
  <1> DEFINE h == [frame EXCEPT !.pc = "batched", !.todo = batch]
             f == List(h)
             adv == Advance(f, "candidate_built")
             n == Cardinality(batch)
             new == [adv EXCEPT !.count = n]
             g == Outer(f, new)
  <1>1. /\ frame.pc = "complied" /\ Running(frame)
        /\ UNCHANGED <<status, leaseLive, sends, sealed, recoveries>>
    BY DEF RecordCandidates, Running, runVars, ledgerVars
  <1>2. /\ frame \in Frame /\ frame.cp \in RunCheckpoint /\ Stored(frame.cp) /\ Knows(frame)
        /\ frame.cp = checkpoint /\ frame.cp.stage # "planned" /\ frame.cp.count \in Nat
    BY <1>1, Locals DEF Knows, Placed, InCompliance
  <1>3. /\ h \in Frame /\ h.pc = "batched" /\ h.todo = batch /\ h.cp = frame.cp
        /\ h.outer = frame.outer /\ h.key = frame.key /\ h.tools = frame.tools
        /\ h.recovered = frame.recovered /\ h.listed = frame.listed
        /\ h.outcome = frame.outcome
    BY <1>2 DEF Frame, Pc
  <1> HIDE DEF h
  <1>4. /\ f \in Frame /\ f.listed = frame.listed \cup {frame.key} /\ f.pc = "batched"
        /\ f.cp = frame.cp /\ f.outer = frame.outer /\ f.tools = frame.tools
        /\ f.recovered = frame.recovered /\ f.outcome = frame.outcome /\ f.todo = batch
    BY <1>3, ListFields
  <1>5. \/ f.cp.stage = "evidence_collected" /\ WriteThen(new, g)
        \/ f.cp.stage # "evidence_collected" /\ frame' = f /\ UNCHANGED <<checkpoint, raised>>
    BY DEF RecordCandidates, h
  <1> HIDE DEF f
  <1>6. /\ f.listed \subseteq f.cp.generations /\ f.cp.tools <= f.tools
        /\ f.tools <= ToolBudget /\ (f.cp.recovery => f.recovered) /\ f.outer > 0
        /\ f.outcome # "answered"
    BY <1>1, <1>2, <1>4 DEF Knows, Announced, Budgeted, Placed
  <1>7. n \in Nat
    BY FS_CardinalityType
  <1>8. CASE f.cp.stage # "evidence_collected" /\ frame' = f /\ UNCHANGED <<checkpoint, raised>>
    <2>1. sealed \in BOOLEAN /\ leaseLive \in BOOLEAN
      BY DEF L2Inv, TypeOK
    <2>2. Running(f) /\ Knows(f)
      BY <1>2, <1>4, <1>6, <1>8 DEF Running, Knows, Announced, Budgeted, Placed, InPlanning,
         InCompliance, InClaim, Sending
    <2> QED
      BY <1>1, <1>4, <1>8, <2>1, <2>2, FrameMoves
  <1>9. CASE f.cp.stage = "evidence_collected" /\ WriteThen(new, g)
    <2>0. "candidate_built" \in CheckpointStage
      BY DEF CheckpointStage
    <2>1. Stored(adv) /\ Monotonic(checkpoint, adv)
      BY <1>2, <1>4, <1>6, <2>0, AdvanceStored
    <2>2. /\ adv \in RunCheckpoint /\ adv.stage = "candidate_built" /\ adv.tools = f.tools
          /\ adv.recovery = f.recovered /\ adv.generations = f.cp.generations
          /\ adv.count = f.cp.count /\ adv.completed = f.cp.completed
      BY <1>2, <1>4, <2>0, AdvanceFields
    <2>3. adv.count = 0 /\ adv.completed = {}
      BY <1>2, <1>4, <1>9, <2>2 DEF Stored
    <2> HIDE DEF adv, n
    <2>4. /\ new \in RunCheckpoint /\ new.version = adv.version /\ new.attempt = adv.attempt
          /\ new.stage = adv.stage /\ new.tools = adv.tools /\ new.listed = adv.listed
          /\ new.generations = adv.generations /\ new.recovery = adv.recovery
          /\ new.recoveryClaim = adv.recoveryClaim
          /\ new.completed = adv.completed /\ new.count = n
      BY <1>7, <2>2 DEF RunCheckpoint
    <2> HIDE DEF new
    <2>5. Cardinality(new.completed) <= n /\ n <= MaxClaims /\ n >= checkpoint.count
      BY <1>2, <1>4, <1>7, <2>2, <2>3, <2>4, FS_EmptySet DEF n
    <2>6. Stored(new) /\ Monotonic(checkpoint, new)
      BY <2>1, <2>2, <2>4, <2>5 DEF Stored, Valid, Monotonic
    <2>7. /\ g \in Frame /\ g.cp = new /\ g.outer = new.version /\ g.pc = "batched"
          /\ g.tools = f.tools /\ g.recovered = f.recovered /\ g.todo = batch
          /\ g.listed = f.listed /\ g.outcome = f.outcome
      BY <1>4, <2>4, InnerOuterFields
    <2> HIDE DEF g
    <2>8. new.version > 0 /\ new.tools \in Nat
      BY <2>4 DEF RunCheckpoint
    <2>9. Knows(g) /\ Running(g)
      BY <1>6, <2>2, <2>4, <2>7, <2>8 DEF Running, Knows, Announced, Budgeted, Placed,
         InPlanning, InCompliance, InClaim, Sending
    <2> QED
      BY <1>1, <1>9, <2>6, <2>7, <2>9, WriteKeeps
  <1> QED
    BY <1>5, <1>8, <1>9

\* A reconstructed batch agrees with the one that was counted.
LEMMA AcceptBatchKeeps ==
    ASSUME L2Inv, AcceptBatch
    PROVE  L2Inv'
  <1> DEFINE c == frame.cp
             rest == frame.todo \ c.completed
             f == [frame EXCEPT !.pc = "loop", !.todo = rest]
             adv == Advance(f, f.cp.stage)
             n == Cardinality(frame.todo)
             new == [adv EXCEPT !.count = n]
             g == Outer(f, new)
  <1>1. /\ frame.pc = "batched" /\ Running(frame)
        /\ UNCHANGED <<status, leaseLive, sends, sealed, recoveries>>
        /\ \/ BatchConsistent(c, frame.todo) /\ WriteThen(new, g)
           \/ frame' = Finish(frame, "refused") /\ UNCHANGED <<checkpoint, raised>>
    BY DEF AcceptBatch, Running, runVars, ledgerVars
  <1>2. /\ frame \in Frame /\ c \in RunCheckpoint /\ Stored(c) /\ Knows(frame)
        /\ c = checkpoint /\ c.count \in Nat /\ c.stage \in CheckpointStage
        /\ frame.todo \subseteq Claim /\ c.completed \subseteq Claim
    BY <1>1, Locals DEF Frame, RunCheckpoint
  <1>3. CASE frame' = Finish(frame, "refused") /\ UNCHANGED <<checkpoint, raised>>
    <2>1. "refused" \in Terminal
      BY DEF Terminal
    <2> QED
      BY <1>1, <1>3, <2>1, Finishes
  <1>4. CASE BatchConsistent(c, frame.todo) /\ WriteThen(new, g)
    <2>1. /\ c.stage \notin {"planned", "evidence_collected"}
          /\ IsFiniteSet(frame.todo) /\ frame.todo # {} /\ n <= MaxClaims
      BY <1>1, <1>2 DEF Knows, Placed
    <2>2. /\ c.count = 0 \/ n = c.count
          /\ c.completed \subseteq frame.todo
      BY <1>4 DEF BatchConsistent
    <2>3. /\ n \in Nat /\ n > 0 /\ Cardinality(c.completed) <= n
      BY <2>1, <2>2, FS_CardinalityType, FS_EmptySet, FS_Subset
    <2>4. rest \cup c.completed = frame.todo /\ rest \subseteq Claim
      BY <1>2, <2>2
    <2> HIDE DEF rest, n
    <2>5. /\ f \in Frame /\ f.pc = "loop" /\ f.todo = rest /\ f.cp = c
          /\ f.outer = frame.outer /\ f.tools = frame.tools
          /\ f.recovered = frame.recovered /\ f.listed = frame.listed
          /\ f.outcome = frame.outcome
      BY <1>2, <2>4 DEF Frame, Pc
    <2> HIDE DEF f
    <2>6. /\ f.listed \subseteq f.cp.generations /\ f.cp.tools <= f.tools
          /\ f.tools <= ToolBudget /\ (f.cp.recovery => f.recovered)
          /\ f.outcome # "answered"
      BY <1>1, <1>2, <2>5 DEF Knows, Announced, Budgeted, Placed
    <2>7. Stored(adv) /\ Monotonic(c, adv)
      <3>1. c.stage = "recovery_completed" => f.recovered
        BY <1>2, <2>5, <2>6 DEF Stored, Valid
      <3>2. c.stage = "completed" => c.count > 0 /\ Cardinality(c.completed) = c.count
        BY <1>2 DEF Stored
      <3> QED
        BY <1>2, <2>1, <2>5, <2>6, <3>1, <3>2, AdvanceStored
    <2>8. /\ adv \in RunCheckpoint /\ adv.stage = c.stage /\ adv.tools = f.tools
          /\ adv.recovery = f.recovered /\ adv.generations = c.generations
          /\ adv.count = c.count /\ adv.completed = c.completed
      BY <1>2, <2>5, AdvanceFields
    <2> HIDE DEF adv
    <2>9. /\ new \in RunCheckpoint /\ new.version = adv.version /\ new.attempt = adv.attempt
          /\ new.stage = adv.stage /\ new.tools = adv.tools /\ new.listed = adv.listed
          /\ new.generations = adv.generations /\ new.recovery = adv.recovery
          /\ new.recoveryClaim = adv.recoveryClaim
          /\ new.completed = adv.completed /\ new.count = n
      BY <2>3, <2>8 DEF RunCheckpoint
    <2> HIDE DEF new
    <2>10. n >= c.count /\ (c.stage = "completed" => Cardinality(c.completed) = n)
      BY <1>2, <2>2, <2>3 DEF Stored
    <2>11. Stored(new) /\ Monotonic(checkpoint, new)
      <3>1. Valid(new)
        BY <2>1, <2>3, <2>7, <2>8, <2>9 DEF Stored, Valid
      <3> QED
        BY <1>2, <2>1, <2>3, <2>7, <2>8, <2>9, <2>10, <3>1 DEF Stored, Monotonic
    <2>12. /\ g \in Frame /\ g.cp = new /\ g.outer = new.version /\ g.pc = "loop"
           /\ g.tools = f.tools /\ g.recovered = f.recovered /\ g.todo = rest
           /\ g.listed = f.listed /\ g.outcome = f.outcome
      BY <2>5, <2>9, InnerOuterFields
    <2> HIDE DEF g
    <2>13. new.version > 0 /\ new.tools \in Nat
      BY <2>9 DEF RunCheckpoint
    <2>14. Announced(g) /\ Budgeted(g)
      BY <2>5, <2>6, <2>8, <2>9, <2>12, <2>13 DEF Announced, Budgeted
    <2>15. Placed(g)
      <3>1. g.todo \cup g.cp.completed = frame.todo
        BY <2>4, <2>8, <2>9, <2>12
      <3> QED
        BY <2>1, <2>3, <2>6, <2>8, <2>9, <2>12, <3>1 DEF Placed, InPlanning, InCompliance,
           InClaim, Sending, n
    <2>16. Knows(g) /\ Running(g)
      BY <2>12, <2>13, <2>14, <2>15 DEF Running, Knows
    <2> QED
      BY <1>1, <1>4, <2>11, <2>12, <2>16, WriteKeeps
  <1> QED
    BY <1>1, <1>3, <1>4

LEMMA CompleteAttemptKeeps ==
    ASSUME L2Inv, CompleteAttempt
    PROVE  L2Inv'
  <1> DEFINE g == Finish(frame, "answered")
  <1>1. /\ frame.pc = "loop" /\ frame.todo = {} /\ Running(frame)
        /\ AdvanceThen(frame, "completed", g)
        /\ UNCHANGED <<status, leaseLive, sends, sealed, recoveries>>
    BY DEF CompleteAttempt, Running, runVars, ledgerVars
  <1>2. frame \in Frame /\ Knows(frame) /\ frame.cp \in RunCheckpoint
    BY <1>1, Locals
  <1>3. frame.cp.count > 0 /\ Cardinality(frame.cp.completed) = frame.cp.count
    <2>1. frame.todo \cup frame.cp.completed = frame.cp.completed
      BY <1>1
    <2> QED
      BY <1>1, <1>2, <2>1 DEF Knows, Placed
  <1>4. /\ g \in Frame /\ g.pc = "done" /\ g.outcome = "answered"
        /\ g.cp = frame.cp /\ g.outer = frame.outer /\ g.tools = frame.tools
        /\ g.recovered = frame.recovered /\ g.listed = frame.listed
    BY <1>2, FinishFields DEF Terminal
  <1> HIDE DEF g
  <1>5. Running(g) /\ Knows(g) /\ ~InPlanning(g)
    BY <1>1, <1>2, <1>3, <1>4 DEF Running, Knows, Announced, Budgeted, Placed, InPlanning,
       InCompliance, InClaim, Sending, Terminal
  <1> QED
    BY <1>1, <1>3, <1>4, <1>5, SameAsItself, AdvanceThenKeeps

-----------------------------------------------------------------------------
(* _one_claim *)

LEMMA TakeFields ==
    ASSUME L2Inv, Running(frame), NEW c \in Claim
    PROVE  LET g == Take(c) IN
           /\ g \in Frame /\ g.claim = c /\ g.pc = frame.pc /\ g.cp = frame.cp
           /\ g.outer = frame.outer /\ g.key = frame.key /\ g.tools = frame.tools
           /\ g.recovered = frame.recovered /\ g.listed = frame.listed
           /\ g.todo = frame.todo /\ g.outcome = frame.outcome
  <1> DEFINE r == frame.recovered
             g == [frame EXCEPT !.claim = c, !.semantic = FALSE, !.resumed = r]
  <1>1. frame \in Frame /\ r \in BOOLEAN /\ Take(c) = g
    BY Locals DEF Take
  <1> HIDE DEF r
  <1>2. /\ g \in Frame /\ g.claim = c /\ g.pc = frame.pc /\ g.cp = frame.cp
        /\ g.outer = frame.outer /\ g.key = frame.key /\ g.tools = frame.tools
        /\ g.recovered = frame.recovered /\ g.listed = frame.listed
        /\ g.todo = frame.todo /\ g.outcome = frame.outcome
    BY <1>1 DEF Frame
  <1> QED
    BY <1>1, <1>2

\* A claim is taken from the loop, whatever it is taken for.
LEMMA ClaimTaken ==
    ASSUME L2Inv, NEW c \in Claim, NextClaim(c), NEW g \in Frame, frame' = g,
           g.pc \in {"close", "verified", "failed"}, g.claim = c, g.cp = frame.cp,
           g.outer = frame.outer, g.listed = frame.listed, g.todo = frame.todo,
           g.outcome = frame.outcome,
           g.tools <= ToolBudget, g.cp.tools <= g.tools, g.cp.recovery => g.recovered,
           UNCHANGED <<status, checkpoint, sends, sealed, leaseLive, raised, recoveries>>
    PROVE  L2Inv'
  <1>1. frame.pc = "loop" /\ Running(frame) /\ c \in frame.todo
    BY DEF NextClaim, Running
  <1>2. frame \in Frame /\ Knows(frame)
    BY <1>1, Locals
  <1>3. Knows(g) /\ Running(g)
    BY <1>1, <1>2 DEF Running, Knows, Announced, Budgeted, Placed, InPlanning,
       InCompliance, InClaim, Sending
  <1>4. sealed \in BOOLEAN /\ leaseLive \in BOOLEAN
    BY DEF L2Inv, TypeOK
  <1> QED
    BY <1>1, <1>3, <1>4, FrameMoves

LEMMA ClaimInsufficientKeeps ==
    ASSUME L2Inv, NEW c \in Claim, ClaimInsufficient(c)
    PROVE  L2Inv'
  <1> DEFINE t == Take(c)
             n == frame.cp.tools
             lost == [t EXCEPT !.pc = "close", !.tools = n, !.recovered = TRUE]
             h == Goto(t, "close")
  <1>1. /\ NextClaim(c) /\ Running(frame) /\ frame' \in {lost, h}
        /\ UNCHANGED <<status, checkpoint, sends, sealed, leaseLive, raised, recoveries>>
    BY DEF ClaimInsufficient, NextClaim, Running, runVars, ledgerVars
  <1>2. /\ Knows(frame) /\ Stored(frame.cp) /\ n \in Nat
    BY <1>1, Locals
  <1>3. /\ t \in Frame /\ t.claim = c /\ t.cp = frame.cp
        /\ t.outer = frame.outer /\ t.tools = frame.tools
        /\ t.recovered = frame.recovered /\ t.listed = frame.listed
        /\ t.todo = frame.todo /\ t.outcome = frame.outcome
    BY <1>1, TakeFields
  <1> HIDE DEF t
  <1>4. n <= ToolBudget
    BY <1>2 DEF Stored, Valid
  <1> HIDE DEF n
  <1>5. CASE frame' = lost
    <2>1. /\ lost \in Frame /\ lost.pc = "close" /\ lost.claim = c /\ lost.cp = frame.cp
          /\ lost.outer = frame.outer /\ lost.tools = n /\ lost.recovered = TRUE
          /\ lost.listed = frame.listed /\ lost.todo = frame.todo
          /\ lost.outcome = frame.outcome
      BY <1>2, <1>3 DEF Frame, Pc
    <2> HIDE DEF lost
    <2>2. lost.cp.tools <= lost.tools
      BY <1>2, <2>1 DEF n
    <2> QED
      BY <1>1, <1>4, <1>5, <2>1, <2>2, ClaimTaken
  <1>6. CASE frame' = h
    <2>1. h \in Frame /\ h.pc = "close" /\ Alike(t, h)
      BY <1>3, GotoFields DEF Pc
    <2> HIDE DEF h
    <2>2. /\ frame.pc = "loop" /\ h.tools <= ToolBudget /\ h.cp.tools <= h.tools
          /\ (h.cp.recovery => h.recovered)
      BY <1>1, <1>2, <1>3, <2>1 DEF NextClaim, Knows, Budgeted, Alike
    <2> QED
      BY <1>1, <1>3, <1>6, <2>1, <2>2, ClaimTaken DEF Alike
  <1> QED
    BY <1>1, <1>5, <1>6

LEMMA ClaimPassesKeeps ==
    ASSUME L2Inv, NEW c \in Claim, ClaimPasses(c)
    PROVE  L2Inv'
  <1> DEFINE t == Take(c)
             h == Goto(t, "verified")
  <1>1. /\ NextClaim(c) /\ Running(frame) /\ frame' = h
        /\ UNCHANGED <<status, checkpoint, sends, sealed, leaseLive, raised, recoveries>>
    BY DEF ClaimPasses, NextClaim, Running, runVars, ledgerVars
  <1>2. /\ t \in Frame /\ t.claim = c /\ t.cp = frame.cp
        /\ t.outer = frame.outer /\ t.tools = frame.tools
        /\ t.recovered = frame.recovered /\ t.listed = frame.listed
        /\ t.todo = frame.todo /\ t.outcome = frame.outcome
    BY <1>1, TakeFields
  <1> HIDE DEF t
  <1>3. h \in Frame /\ h.pc = "verified" /\ Alike(t, h)
    BY <1>2, GotoFields DEF Pc
  <1> HIDE DEF h
  <1>4. /\ frame.pc = "loop" /\ h.tools <= ToolBudget /\ h.cp.tools <= h.tools
        /\ (h.cp.recovery => h.recovered)
    BY <1>1, <1>2, <1>3, Locals DEF NextClaim, Knows, Budgeted, Alike
  <1> QED
    BY <1>1, <1>2, <1>3, <1>4, ClaimTaken DEF Alike

LEMMA ClaimFailsKeeps ==
    ASSUME L2Inv, NEW c \in Claim, NEW cost \in 0..2, ClaimFails(c, cost)
    PROVE  L2Inv'
  <1> DEFINE t == Take(c)
             h == [t EXCEPT !.pc = "failed", !.cost = cost]
  <1>1. /\ NextClaim(c) /\ Running(frame) /\ frame' = h
        /\ UNCHANGED <<status, checkpoint, sends, sealed, leaseLive, raised, recoveries>>
    BY DEF ClaimFails, NextClaim, Running, runVars, ledgerVars
  <1>2. /\ t \in Frame /\ t.claim = c /\ t.cp = frame.cp
        /\ t.outer = frame.outer /\ t.tools = frame.tools
        /\ t.recovered = frame.recovered /\ t.listed = frame.listed
        /\ t.todo = frame.todo /\ t.outcome = frame.outcome
    BY <1>1, TakeFields
  <1> HIDE DEF t
  <1>3. /\ h \in Frame /\ h.pc = "failed" /\ h.claim = t.claim /\ h.cp = t.cp
        /\ h.outer = t.outer /\ h.tools = t.tools
        /\ h.recovered = t.recovered /\ h.listed = t.listed
        /\ h.todo = t.todo /\ h.outcome = t.outcome
    BY <1>2 DEF Frame, Pc
  <1> HIDE DEF h
  <1>4. /\ frame.pc = "loop" /\ h.tools <= ToolBudget /\ h.cp.tools <= h.tools
        /\ (h.cp.recovery => h.recovered)
    BY <1>1, <1>2, <1>3, Locals DEF NextClaim, Knows, Budgeted
  <1> QED
    BY <1>1, <1>2, <1>3, <1>4, ClaimTaken

\* Recovery is reserved in the checkpoint before the runner can call MCP, and
\* only by an attempt that knows of no recovery before.
LEMMA ReserveRecoveryKeeps ==
    ASSUME L2Inv, ReserveRecovery
    PROVE  L2Inv'
  <1> DEFINE reserved == IF frame.recovered THEN frame.tools
                         ELSE ReserveRecoveryAttempts(frame.tools, frame.cost)
             c == frame.cp
             f == [frame EXCEPT !.pc = "recover", !.reserved = reserved]
             adv == Advance(f, "recovery_reserved")
             claim == frame.claim
             new == [adv EXCEPT !.tools = reserved, !.recovery = TRUE, !.recoveryClaim = claim]
             g == Inner(f, new)
  <1>1. /\ frame.pc = "failed" /\ Running(frame)
        /\ UNCHANGED <<status, leaseLive, sends, sealed, recoveries>>
        /\ \/ reserved > frame.tools /\ WriteThen(new, g)
           \/ ~(reserved > frame.tools) /\ frame' = f /\ UNCHANGED <<checkpoint, raised>>
    BY DEF ReserveRecovery, Running, runVars, ledgerVars
  <1>2. /\ frame \in Frame /\ c \in RunCheckpoint /\ Stored(c) /\ Knows(frame)
        /\ c = checkpoint /\ frame.tools \in Nat /\ frame.cost \in 0..2
        /\ c.tools \in Nat /\ frame.recovered \in BOOLEAN
    BY <1>1, Locals
  <1>3. /\ frame.tools <= ToolBudget /\ c.tools <= frame.tools
        /\ (c.recovery => frame.recovered) /\ frame.listed \subseteq c.generations
        /\ frame.outer > 0 /\ frame.outcome # "answered"
        /\ c.stage \notin {"planned", "evidence_collected"}
        /\ claim \in frame.todo /\ claim \in Claim
    BY <1>1, <1>2 DEF Knows, Announced, Budgeted, Placed, InClaim, Frame
  <1>4. /\ reserved \in Nat /\ frame.tools <= reserved /\ reserved <= ToolBudget
        /\ frame.recovered => reserved = frame.tools
        /\ ~frame.recovered /\ frame.tools < ToolBudget /\ frame.cost > 0 =>
             reserved > frame.tools
    <2>1. CASE frame.recovered
      BY <1>2, <1>3, <2>1
    <2>2. CASE ~frame.recovered
      <3> DEFINE m == frame.tools + frame.cost
      <3>1. m \in Nat /\ m >= frame.tools /\ (frame.cost > 0 => m > frame.tools)
            /\ ToolBudget \in Nat
        BY <1>2, L2Assumption
      <3>2. reserved = IF ToolBudget <= m THEN ToolBudget ELSE m
        BY <2>2, <3>1, MinOfTwo DEF ReserveRecoveryAttempts
      <3> HIDE DEF reserved, m
      <3> QED
        BY <1>2, <1>3, <2>2, <3>1, <3>2
    <2> QED
      BY <2>1, <2>2
  <1>5. ~frame.recovered => recoveries = 0
    <2>1. recoveries \in Nat /\ (recoveries > 0 => checkpoint.recovery)
      BY DEF L2Inv, Accounted, TypeOK
    <2> QED
      BY <1>2, <1>3, <2>1
  <1> HIDE DEF reserved, claim
  <1>6. /\ f \in Frame /\ f.pc = "recover" /\ f.reserved = reserved /\ f.cp = c
        /\ f.outer = frame.outer /\ f.key = frame.key /\ f.tools = frame.tools
        /\ f.recovered = frame.recovered /\ f.listed = frame.listed /\ f.todo = frame.todo
        /\ f.claim = frame.claim /\ f.cost = frame.cost /\ f.outcome = frame.outcome
    BY <1>2, <1>4 DEF Frame, Pc
  <1> HIDE DEF f
  <1>7. CASE ~(reserved > frame.tools) /\ frame' = f /\ UNCHANGED <<checkpoint, raised>>
    <2>1. Announced(f)
      BY <1>2, <1>3, <1>6 DEF Announced
    <2>2. Budgeted(f)
      BY <1>2, <1>3, <1>4, <1>6, <1>7 DEF Budgeted
    <2>3. Placed(f)
      BY <1>1, <1>2, <1>6 DEF Knows, Placed, InPlanning, InCompliance, InClaim, Sending
    <2>4. Knows(f) /\ Running(f) /\ sealed \in BOOLEAN /\ leaseLive \in BOOLEAN
      BY <1>3, <1>6, <2>1, <2>2, <2>3 DEF Knows, Running, L2Inv, TypeOK
    <2> QED
      BY <1>1, <1>5, <1>6, <1>7, <2>4, FrameMoves
  <1>8. CASE reserved > frame.tools /\ WriteThen(new, g)
    <2>1. ~frame.recovered /\ ~c.recovery
      BY <1>2, <1>3, <1>4, <1>8
    <2>2. c.stage # "recovery_reserved"
      BY <1>2, <2>1 DEF Stored, Valid
    <2>3. "recovery_reserved" \in CheckpointStage
      BY DEF CheckpointStage
    <2>4. /\ adv \in RunCheckpoint /\ adv.stage = "recovery_reserved"
          /\ adv.listed = c.listed \cup frame.listed /\ adv.attempt = c.attempt
          /\ adv.generations = c.generations
          /\ adv.count = c.count /\ adv.completed = c.completed
      BY <1>2, <1>6, <2>3, AdvanceFields
    <2> HIDE DEF adv
    <2>5. /\ new \in RunCheckpoint /\ new.stage = "recovery_reserved"
          /\ new.tools = reserved /\ new.recovery = TRUE /\ new.recoveryClaim = claim
          /\ new.listed = c.listed \cup frame.listed /\ new.attempt = c.attempt
          /\ new.generations = c.generations
          /\ new.count = c.count /\ new.completed = c.completed
      BY <1>3, <1>4, <2>4 DEF RunCheckpoint
    <2> HIDE DEF new
    <2>6. new.listed \subseteq new.generations /\ Cardinality(new.listed) <= GenerationBudget
      <3>1. new.listed \subseteq new.generations
        BY <1>2, <1>3, <2>5 DEF Stored
      <3>2. IsFiniteSet(new.generations) /\ Cardinality(new.generations) <= GenerationBudget
        BY <1>2, <2>5 DEF Stored, Valid
      <3>3. Cardinality(new.listed) <= Cardinality(new.generations)
            /\ Cardinality(new.listed) \in Nat /\ Cardinality(new.generations) \in Nat
        BY <3>1, <3>2, FS_Subset, FS_CardinalityType
      <3> QED
        BY <3>1, <3>2, <3>3, L2Assumption
    <2>7. Valid(new)
      <3>1. claim # NoClaim
        BY <1>3, L2Assumption
      <3> QED
        BY <1>2, <1>4, <2>5, <2>6, <3>1 DEF Stored, Valid
    <2>8. Stored(new)
      BY <1>2, <2>5, <2>6, <2>7 DEF Stored
    <2>9. Monotonic(checkpoint, new)
      <3>1. c.count \in Nat
        BY <1>2 DEF RunCheckpoint
      <3> QED
        BY <1>2, <1>3, <1>4, <2>2, <2>5, <3>1 DEF Monotonic
    <2>10. /\ g \in Frame /\ g.cp = new /\ g.outer = f.outer
           /\ g.pc = f.pc /\ g.key = f.key /\ g.tools = f.tools
           /\ g.recovered = f.recovered /\ g.listed = f.listed /\ g.todo = f.todo
           /\ g.claim = f.claim /\ g.cost = f.cost /\ g.reserved = f.reserved
           /\ g.outcome = f.outcome
      BY <1>6, <2>5, InnerOuterFields
    <2> HIDE DEF g
    <2>11. Announced(g)
      BY <1>2, <1>3, <1>6, <2>5, <2>10 DEF Announced
    <2>12. Budgeted(g)
      BY <1>2, <1>3, <1>4, <1>6, <1>8, <2>5, <2>10 DEF Budgeted
    <2>13. Placed(g)
      BY <1>1, <1>2, <1>6, <2>5, <2>10 DEF Knows, Placed, InPlanning, InCompliance, InClaim,
         Sending
    <2>14. Knows(g) /\ Running(g)
      BY <1>3, <1>6, <2>10, <2>11, <2>12, <2>13 DEF Knows, Running
    <2> QED
      BY <1>1, <1>5, <1>6, <1>8, <2>8, <2>9, <2>10, <2>14, WriteKeeps
  <1> QED
    BY <1>1, <1>7, <1>8

LEMMA NoRecoveryKeeps ==
    ASSUME L2Inv, NoRecovery
    PROVE  L2Inv'
  <1> DEFINE r == frame.recovered \/ frame.reserved > frame.tools
             n == frame.reserved
             g == [frame EXCEPT !.pc = "close", !.tools = n, !.recovered = r]
  <1>1. /\ frame.pc = "recover" /\ Running(frame) /\ frame' = g
        /\ UNCHANGED <<status, checkpoint, sends, sealed, leaseLive, raised, recoveries>>
    BY DEF NoRecovery, Running, runVars, ledgerVars
  <1>2. /\ frame \in Frame /\ Knows(frame) /\ n \in Nat /\ r \in BOOLEAN
    BY <1>1, Locals
  <1>3. n <= ToolBudget /\ frame.cp.tools <= n /\ (frame.cp.recovery => r)
    BY <1>1, <1>2 DEF Knows, Budgeted
  <1> HIDE DEF r, n
  <1>4. /\ g \in Frame /\ g.pc = "close" /\ g.tools = n /\ g.recovered = r
        /\ g.cp = frame.cp /\ g.outer = frame.outer /\ g.key = frame.key
        /\ g.listed = frame.listed /\ g.todo = frame.todo /\ g.claim = frame.claim
        /\ g.outcome = frame.outcome
    BY <1>2 DEF Frame, Pc
  <1> HIDE DEF g
  <1>5. Knows(g) /\ Running(g)
    BY <1>1, <1>2, <1>3, <1>4 DEF Running, Knows, Announced, Budgeted, Placed, InPlanning,
       InCompliance, InClaim, Sending
  <1>6. sealed \in BOOLEAN /\ leaseLive \in BOOLEAN
    BY DEF L2Inv, TypeOK
  <1> QED
    BY <1>1, <1>4, <1>5, <1>6, FrameMoves

\* MCP is called for recovery after the reservation was written, once.
LEMMA RecoverKeeps ==
    ASSUME L2Inv, NEW calls \in 0..2, Recover(calls)
    PROVE  L2Inv'
  <1> DEFINE n == frame.tools + calls
             m == Max({n, frame.reserved})
             g == [frame EXCEPT !.pc = "recovered", !.recovered = TRUE, !.tools = m]
  <1>1. /\ frame.pc = "recover" /\ Running(frame) /\ frame' = g
        /\ ~frame.recovered /\ frame.tools < ToolBudget
        /\ calls <= frame.cost /\ n <= ToolBudget
        /\ recoveries' = recoveries + (IF calls > 0 THEN 1 ELSE 0)
        /\ UNCHANGED <<status, checkpoint, sends, sealed, leaseLive, raised>>
    BY DEF Recover, CanRecover, Running, runVars, ledgerVars
  <1>2. /\ frame \in Frame /\ Knows(frame) /\ frame.tools \in Nat /\ frame.reserved \in Nat
        /\ frame.cost \in 0..2 /\ frame.cp = checkpoint /\ checkpoint # NoRow
        /\ frame.cp.tools \in Nat
    BY <1>1, Locals
  <1>3. /\ frame.cp.tools <= frame.reserved /\ frame.reserved <= ToolBudget
        /\ frame.cost > 0 => frame.cp.recovery
    BY <1>1, <1>2 DEF Knows, Budgeted
  <1>4. m \in Nat /\ m <= ToolBudget /\ frame.reserved <= m
    <2>1. n \in Nat /\ ToolBudget \in Nat
      BY <1>2, L2Assumption
    <2>2. m = IF n >= frame.reserved THEN n ELSE frame.reserved
      BY <1>2, <2>1, MaxOfTwo
    <2> HIDE DEF n, m
    <2> QED
      BY <1>1, <1>2, <1>3, <2>1, <2>2
  <1> HIDE DEF m
  <1>5. /\ g \in Frame /\ g.pc = "recovered" /\ g.tools = m /\ g.recovered = TRUE
        /\ g.cp = frame.cp /\ g.outer = frame.outer /\ g.key = frame.key
        /\ g.listed = frame.listed /\ g.todo = frame.todo /\ g.claim = frame.claim
        /\ g.outcome = frame.outcome
    BY <1>2, <1>4 DEF Frame, Pc
  <1> HIDE DEF g
  <1>6. g.cp.tools <= g.tools
    BY <1>2, <1>3, <1>4, <1>5
  <1>7. Knows(g) /\ Running(g)
    <2>1. Budgeted(g)
      BY <1>4, <1>5, <1>6 DEF Budgeted
    <2> QED
      BY <1>1, <1>2, <1>5, <2>1 DEF Running, Knows, Announced, Placed, InPlanning,
         InCompliance, InClaim, Sending
  <1>8. recoveries = 0 /\ recoveries' \in Nat /\ recoveries' <= 1
        /\ (recoveries' > 0 => checkpoint.recovery)
    BY <1>1, <1>2, <1>3 DEF L2Inv, Accounted
  <1>9. TypeOK'
    BY <1>1, <1>5, <1>8 DEF L2Inv, TypeOK
  <1>10. Accounted'
    <2>1. Sent' = Sent
      BY <1>1 DEF Sent
    <2> QED
      BY <1>1, <1>2, <1>5, <1>8, <2>1 DEF L2Inv, Accounted
  <1>11. AnsweredIsComplete'
    BY <1>1 DEF L2Inv, AnsweredIsComplete
  <1> QED
    BY <1>1, <1>2, <1>5, <1>7, <1>9, <1>10, <1>11 DEF L2Inv, Running

LEMMA RecordRecoveryKeeps ==
    ASSUME L2Inv, NEW passes \in BOOLEAN, NEW found \in BOOLEAN,
           RecordRecovery(passes, found)
    PROVE  L2Inv'
  <1> DEFINE pc == IF passes THEN "verified" ELSE "close"
             g == Goto(frame, pc)
             f == [frame EXCEPT !.cp.evidence = @ \/ found]
  <1>1. /\ frame.pc = "recovered" /\ Running(frame)
        /\ AdvanceThen(f, "recovery_completed", g)
        /\ UNCHANGED <<status, leaseLive, sends, sealed, recoveries>>
    BY DEF RecordRecovery, Running, runVars, ledgerVars
  <1>2. frame \in Frame /\ Knows(frame) /\ pc \in {"verified", "close"}
    BY <1>1, Locals
  <1> HIDE DEF pc
  <1>3. f \in Frame /\ SameButEvidence(frame, f)
    <2> DEFINE o == frame.cp
               e == o.evidence \/ found
               c == [o EXCEPT !.evidence = e]
    <2>1. o \in RunCheckpoint /\ e \in BOOLEAN
      BY <1>1, Locals DEF RunCheckpoint
    <2>2. f = [frame EXCEPT !.cp = c]
      BY <1>2 DEF Frame
    <2> HIDE DEF o, e
    <2>3. /\ c \in RunCheckpoint /\ c.version = o.version /\ c.attempt = o.attempt
          /\ c.stage = o.stage /\ c.tools = o.tools /\ c.listed = o.listed
          /\ c.generations = o.generations /\ c.recovery = o.recovery
          /\ c.recoveryClaim = o.recoveryClaim /\ c.count = o.count
          /\ c.completed = o.completed
      BY <2>1 DEF RunCheckpoint
    <2> HIDE DEF c, f
    <2>4. /\ f \in Frame /\ f.cp = c /\ f.tools = frame.tools /\ f.recovered = frame.recovered
          /\ f.listed = frame.listed
      BY <1>2, <2>2, <2>3 DEF Frame
    <2> QED
      BY <2>3, <2>4 DEF SameButEvidence, o
  <1> HIDE DEF f
  <1>4. g \in Frame /\ g.pc = pc /\ Alike(frame, g)
    BY <1>2, GotoFields DEF Pc
  <1> HIDE DEF g
  <1>5. Running(g) /\ Knows(g) /\ ~InPlanning(g) /\ frame.recovered
    BY <1>1, <1>2, <1>4 DEF Running, Knows, Announced, Budgeted, Placed, InPlanning,
       InCompliance, InClaim, Sending, Alike
  <1> QED
    BY <1>1, <1>2, <1>4, <1>5, <1>3, AdvanceThenKeeps DEF Alike

LEMMA RecordVerifiedKeeps ==
    ASSUME L2Inv, NEW holds \in BOOLEAN, RecordVerified(holds)
    PROVE  L2Inv'
  <1> DEFINE k == Target("verifier", frame.claim, frame.recovered)
             h == [frame EXCEPT !.pc = "prepare", !.key = k]
             g == Goto(frame, "close")
  <1>1. /\ frame.pc = "verified" /\ Running(frame)
        /\ \/ AdvanceThen(frame, "deterministic_verified", h)
           \/ AdvanceThen(frame, "deterministic_verified", g)
        /\ UNCHANGED <<status, leaseLive, sends, sealed, recoveries>>
    <2>1. AdvanceThen(frame, "deterministic_verified", IF holds THEN h ELSE g)
      BY DEF RecordVerified
    <2> QED
      BY <2>1 DEF RecordVerified, Running, runVars, ledgerVars
  <1>2. frame \in Frame /\ Knows(frame) /\ frame.claim \in Claim /\ frame.recovered \in BOOLEAN
    BY <1>1, Locals DEF Knows, Placed, InClaim, Frame
  <1>3. CASE AdvanceThen(frame, "deterministic_verified", g)
    <2>1. g \in Frame /\ g.pc = "close" /\ Alike(frame, g)
      BY <1>2, GotoFields DEF Pc
    <2> HIDE DEF g
    <2>2. Running(g) /\ Knows(g) /\ ~InPlanning(g)
      BY <1>1, <1>2, <2>1 DEF Running, Knows, Announced, Budgeted, Placed, InPlanning,
         InCompliance, InClaim, Sending, Alike
    <2> QED
      BY <1>1, <1>3, <2>1, <2>2, SameAsItself, AdvanceThenKeeps DEF Alike
  <1>4. CASE AdvanceThen(frame, "deterministic_verified", h)
    <2>1. k \in SendKey /\ k.stage = "verifier" /\ k.generation = 0
      BY <1>2, TargetTypes
    <2> HIDE DEF k
    <2>2. /\ h \in Frame /\ h.pc = "prepare" /\ h.key = k /\ h.cp = frame.cp
          /\ h.outer = frame.outer /\ h.tools = frame.tools
          /\ h.recovered = frame.recovered /\ h.listed = frame.listed
          /\ h.todo = frame.todo /\ h.claim = frame.claim /\ h.outcome = frame.outcome
      BY <1>2, <2>1 DEF Frame, Pc
    <2> HIDE DEF h
    <2>3. Running(h) /\ Knows(h) /\ ~InPlanning(h)
      BY <1>1, <1>2, <2>1, <2>2 DEF Running, Knows, Announced, Budgeted, Placed, InPlanning,
         InCompliance, InClaim, Sending
    <2> QED
      BY <1>1, <1>4, <2>2, <2>3, SameAsItself, AdvanceThenKeeps
  <1> QED
    BY <1>1, <1>3, <1>4

LEMMA RecordJudgementKeeps ==
    ASSUME L2Inv, RecordJudgement
    PROVE  L2Inv'
  <1> DEFINE c == frame.cp
             f == List(frame)
             new == Advance(f, f.cp.stage)
             g == Inner(f, new)
  <1>1. /\ frame.pc = "judged" /\ Running(frame) /\ WriteThen(new, g)
        /\ UNCHANGED <<status, leaseLive, sends, sealed, recoveries>>
    BY DEF RecordJudgement, Running, runVars, ledgerVars
  <1>2. /\ frame \in Frame /\ c \in RunCheckpoint /\ Stored(c) /\ Knows(frame)
        /\ c = checkpoint /\ c.stage \in CheckpointStage
    BY <1>1, Locals DEF RunCheckpoint
  <1>3. /\ f \in Frame /\ f.listed = frame.listed \cup {frame.key} /\ f.pc = "judged"
        /\ f.cp = c /\ f.outer = frame.outer /\ f.key = frame.key
        /\ f.tools = frame.tools /\ f.recovered = frame.recovered /\ f.todo = frame.todo
        /\ f.claim = frame.claim /\ f.outcome = frame.outcome
    BY <1>1, <1>2, ListFields
  <1> HIDE DEF f
  <1>4. /\ f.listed \subseteq c.generations /\ c.tools <= f.tools
        /\ f.tools <= ToolBudget /\ (c.recovery => f.recovered)
    BY <1>1, <1>2, <1>3 DEF Knows, Announced, Budgeted
  <1>5. Stored(new) /\ Monotonic(c, new)
    <2>1. c.stage = "recovery_completed" => f.recovered
      BY <1>2, <1>4 DEF Stored, Valid
    <2>2. c.stage = "completed" => c.count > 0 /\ Cardinality(c.completed) = c.count
      BY <1>2 DEF Stored
    <2> QED
      BY <1>2, <1>3, <1>4, <2>1, <2>2, AdvanceStored
  <1>6. /\ new \in RunCheckpoint /\ new.stage = c.stage /\ new.tools = f.tools
        /\ new.recovery = f.recovered /\ new.generations = c.generations
        /\ new.count = c.count /\ new.completed = c.completed
    BY <1>2, <1>3, AdvanceFields
  <1> HIDE DEF new
  <1>7. /\ g \in Frame /\ g.cp = new /\ g.outer = f.outer /\ g.pc = f.pc /\ g.key = f.key
        /\ g.tools = f.tools /\ g.recovered = f.recovered /\ g.listed = f.listed
        /\ g.todo = f.todo /\ g.claim = f.claim /\ g.outcome = f.outcome
    BY <1>3, <1>6, InnerOuterFields
  <1> HIDE DEF g
  <1>8. Announced(g)
    BY <1>1, <1>2, <1>3, <1>4, <1>6, <1>7 DEF Knows, Announced
  <1>9. Budgeted(g)
    BY <1>2, <1>3, <1>4, <1>6, <1>7 DEF Budgeted, Frame
  <1>10. Placed(g)
    BY <1>1, <1>2, <1>3, <1>6, <1>7 DEF Knows, Placed, InPlanning, InCompliance, InClaim,
       Sending
  <1>11. Knows(g) /\ Running(g)
    BY <1>2, <1>3, <1>7, <1>8, <1>9, <1>10 DEF Knows, Running
  <1> QED
    BY <1>1, <1>2, <1>3, <1>5, <1>7, <1>11, WriteKeeps

LEMMA SupportedKeeps ==
    ASSUME L2Inv, Supported
    PROVE  L2Inv'
  <1> DEFINE g == Goto(frame, "close")
  <1>1. /\ frame.pc = "judged" /\ Running(frame)
        /\ AdvanceThen(frame, "semantic_verified", g)
        /\ UNCHANGED <<status, leaseLive, sends, sealed, recoveries>>
    BY DEF Supported, Running, runVars, ledgerVars
  <1>2. frame \in Frame /\ Knows(frame)
    BY <1>1, Locals
  <1>3. g \in Frame /\ g.pc = "close" /\ Alike(frame, g)
    BY <1>2, GotoFields DEF Pc
  <1> HIDE DEF g
  <1>4. Running(g) /\ Knows(g) /\ ~InPlanning(g)
    BY <1>1, <1>2, <1>3 DEF Running, Knows, Announced, Budgeted, Placed, InPlanning,
       InCompliance, InClaim, Sending, Alike
  <1> QED
    BY <1>1, <1>3, <1>4, SameAsItself, AdvanceThenKeeps DEF Alike

LEMMA UnsupportedKeeps ==
    ASSUME L2Inv, NEW cost \in {0, 2}, Unsupported(cost)
    PROVE  L2Inv'
  <1> DEFINE h == Goto(frame, "close")
             f == [frame EXCEPT !.pc = "failed", !.cost = cost, !.semantic = TRUE]
  <1>1. /\ frame.pc = "judged" /\ Running(frame) /\ frame' \in {h, f}
        /\ UNCHANGED <<status, checkpoint, sends, sealed, leaseLive, raised, recoveries>>
    BY DEF Unsupported, Running, runVars, ledgerVars
  <1>2. frame \in Frame /\ Knows(frame) /\ cost \in 0..2
    BY <1>1, Locals
  <1>3. /\ h \in Frame /\ h.pc = "close" /\ Alike(frame, h)
    BY <1>2, GotoFields DEF Pc
  <1>4. /\ f \in Frame /\ f.pc = "failed" /\ f.cp = frame.cp /\ f.outer = frame.outer
        /\ f.key = frame.key /\ f.tools = frame.tools /\ f.recovered = frame.recovered
        /\ f.listed = frame.listed /\ f.todo = frame.todo /\ f.claim = frame.claim
        /\ f.outcome = frame.outcome
    BY <1>2 DEF Frame, Pc
  <1> HIDE DEF h, f
  <1>5. PICK g \in {h, f} : frame' = g
    BY <1>1
  <1>6. /\ g \in Frame /\ g.pc \in {"close", "failed"} /\ g.cp = frame.cp
        /\ g.outer = frame.outer
        /\ g.key = frame.key /\ g.tools = frame.tools /\ g.recovered = frame.recovered
        /\ g.listed = frame.listed /\ g.todo = frame.todo /\ g.claim = frame.claim
        /\ g.outcome = frame.outcome
    BY <1>3, <1>4, <1>5 DEF Alike
  <1>7. Running(g) /\ Knows(g)
    BY <1>1, <1>2, <1>6 DEF Running, Knows, Announced, Budgeted, Placed, InPlanning,
       InCompliance, InClaim, Sending
  <1>8. sealed \in BOOLEAN /\ leaseLive \in BOOLEAN
    BY DEF L2Inv, TypeOK
  <1> QED
    BY <1>1, <1>5, <1>6, <1>7, <1>8, FrameMoves

\* The batch that the checkpoint counts stays what is done and what is to do.
LEMMA CloseClaimKeeps ==
    ASSUME L2Inv, CloseClaim
    PROVE  L2Inv'
  <1> DEFINE c == frame.cp
             rest == frame.todo \ {frame.claim}
             done == c.completed \cup {frame.claim}
             f == [frame EXCEPT !.pc = "loop", !.todo = rest]
             adv == Advance(f, "semantic_verified")
             new == [adv EXCEPT !.completed = done]
             g == Outer(f, new)
  <1>1. /\ frame.pc = "close" /\ Running(frame)
        /\ UNCHANGED <<status, leaseLive, sends, sealed, recoveries>>
    BY DEF CloseClaim, Running, runVars, ledgerVars
  <1>2. /\ frame \in Frame /\ c \in RunCheckpoint /\ Stored(c) /\ Knows(frame)
        /\ c = checkpoint /\ c.count \in Nat
        /\ frame.todo \subseteq Claim /\ c.completed \subseteq Claim
    BY <1>1, Locals DEF Frame, RunCheckpoint
  <1>3. /\ frame.claim \in frame.todo /\ IsFiniteSet(frame.todo \cup c.completed)
        /\ Cardinality(frame.todo \cup c.completed) = c.count /\ c.count > 0
        /\ c.stage \notin {"planned", "evidence_collected"}
    BY <1>1, <1>2 DEF Knows, Placed, InClaim
  <1>4. /\ rest \cup done = frame.todo \cup c.completed /\ rest \subseteq Claim
        /\ done \subseteq Claim /\ done \subseteq frame.todo \cup c.completed
    BY <1>2, <1>3
  <1>5. IsFiniteSet(done) /\ Cardinality(done) <= c.count
    BY <1>3, <1>4, FS_Subset
  <1>6. c.completed \subseteq done
    OBVIOUS
  <1>7. f.cp = c /\ WriteThen([Advance(f, "semantic_verified") EXCEPT
                                 !.completed = @ \cup {frame.claim}],
                       Outer(f, [Advance(f, "semantic_verified") EXCEPT
                                 !.completed = @ \cup {frame.claim}]))
    BY <1>2 DEF CloseClaim, Frame
  <1> HIDE DEF rest
  <1>8. /\ f \in Frame /\ f.pc = "loop" /\ f.todo = rest
        /\ f.outer = frame.outer /\ f.tools = frame.tools
        /\ f.recovered = frame.recovered /\ f.listed = frame.listed
        /\ f.outcome = frame.outcome
    BY <1>2, <1>4 DEF Frame, Pc
  <1> HIDE DEF f
  <1>9. /\ f.listed \subseteq c.generations /\ c.tools <= f.tools
        /\ f.tools <= ToolBudget /\ (c.recovery => f.recovered)
        /\ f.outcome # "answered"
    BY <1>1, <1>2, <1>8 DEF Knows, Announced, Budgeted, Placed
  <1>10. "semantic_verified" \in CheckpointStage
    BY DEF CheckpointStage
  <1>11. Stored(adv) /\ Monotonic(c, adv)
    BY <1>2, <1>7, <1>8, <1>9, <1>10, AdvanceStored
  <1>12. /\ adv \in RunCheckpoint /\ adv.stage = "semantic_verified" /\ adv.tools = f.tools
         /\ adv.recovery = f.recovered /\ adv.generations = c.generations
         /\ adv.count = c.count /\ adv.completed = c.completed
    BY <1>2, <1>7, <1>8, <1>10, AdvanceFields
  <1>13. WriteThen(new, g)
    BY <1>7, <1>12
  <1> HIDE DEF adv, done
  <1>14. /\ new \in RunCheckpoint /\ new.version = adv.version /\ new.attempt = adv.attempt
         /\ new.stage = adv.stage /\ new.tools = adv.tools /\ new.listed = adv.listed
         /\ new.generations = adv.generations /\ new.recovery = adv.recovery
         /\ new.recoveryClaim = adv.recoveryClaim
         /\ new.completed = done /\ new.count = adv.count
    BY <1>4, <1>12 DEF RunCheckpoint
  <1> HIDE DEF new
  <1>15. Stored(new) /\ Monotonic(checkpoint, new)
    <2>1. Valid(new)
      BY <1>5, <1>11, <1>12, <1>14 DEF Stored, Valid
    <2>2. Stored(new)
      BY <1>5, <1>11, <1>12, <1>14, <2>1 DEF Stored
    <2> QED
      BY <1>2, <1>6, <1>11, <1>12, <1>14, <2>2 DEF Monotonic
  <1>16. /\ g \in Frame /\ g.cp = new /\ g.outer = new.version /\ g.pc = "loop"
         /\ g.tools = f.tools /\ g.recovered = f.recovered /\ g.todo = rest
         /\ g.listed = f.listed /\ g.outcome = f.outcome
    BY <1>8, <1>14, InnerOuterFields
  <1> HIDE DEF g
  <1>17. new.version > 0 /\ new.tools \in Nat
    BY <1>14 DEF RunCheckpoint
  <1>18. Announced(g) /\ Budgeted(g)
    BY <1>9, <1>12, <1>14, <1>16, <1>17 DEF Announced, Budgeted
  <1>19. Placed(g)
    <2>1. g.todo \cup g.cp.completed = frame.todo \cup c.completed
      BY <1>4, <1>14, <1>16
    <2> QED
      BY <1>3, <1>9, <1>12, <1>14, <1>16, <2>1 DEF Placed, InPlanning, InCompliance,
         InClaim, Sending
  <1>20. Knows(g) /\ Running(g)
    BY <1>16, <1>17, <1>18, <1>19 DEF Running, Knows
  <1> QED
    BY <1>1, <1>13, <1>15, <1>16, <1>20, WriteKeeps

-----------------------------------------------------------------------------
(* The end of an attempt, and the invariant *)

LEMMA CompleteRunKeeps ==
    ASSUME L2Inv, CompleteRun
    PROVE  L2Inv'
  <1>1. /\ frame.pc = "done" /\ Running(frame) /\ status' = frame.outcome
        /\ frame' = IdleFrame
        /\ UNCHANGED <<leaseLive, checkpoint, sends, sealed, raised, recoveries>>
    BY DEF CompleteRun, Running, ledgerVars
  <1>2. /\ frame.outcome \in Terminal /\ frame.cp = checkpoint
        /\ frame.outcome = "answered" =>
             frame.cp.count > 0 /\ Cardinality(frame.cp.completed) = frame.cp.count
    BY <1>1, Locals DEF Knows, Placed
  <1>3. TypeOK'
    BY <1>1, <1>2, IdleFrameFields DEF L2Inv, TypeOK
  <1>4. Accounted'
    <2>1. Sent' = Sent
      BY <1>1 DEF Sent
    <2> QED
      BY <1>1, <2>1, IdleFrameFields DEF L2Inv, Accounted
  <1>5. AnsweredIsComplete'
    BY <1>1, <1>2 DEF AnsweredIsComplete
  <1> QED
    BY <1>1, <1>3, <1>4, <1>5, IdleFrameFields DEF L2Inv, Running

LEMMA AttemptEndsKeeps ==
    ASSUME L2Inv, AttemptEnds
    PROVE  L2Inv'
  <1>1. /\ frame.pc # "idle" /\ frame' = IdleFrame
        /\ UNCHANGED <<status, leaseLive, checkpoint, sends, sealed, raised, recoveries>>
    BY DEF AttemptEnds, runVars, ledgerVars
  <1>2. TypeOK'
    BY <1>1, IdleFrameFields DEF L2Inv, TypeOK
  <1>3. Accounted'
    <2>1. Sent' = Sent
      BY <1>1 DEF Sent
    <2> QED
      BY <1>1, <2>1, IdleFrameFields DEF L2Inv, Accounted
  <1>4. AnsweredIsComplete'
    BY <1>1 DEF L2Inv, AnsweredIsComplete
  <1> QED
    BY <1>1, <1>2, <1>3, <1>4, IdleFrameFields DEF L2Inv, Running

\* The steps that leave the attempt, the checkpoint and the ledger alone.
LEMMA OutsideKeeps ==
    ASSUME L2Inv, LoseLease \/ Interrupt \/ UNCHANGED vars
    PROVE  L2Inv'
  <1>1. /\ UNCHANGED <<checkpoint, sends, sealed, frame, raised, recoveries>>
        /\ leaseLive' \in {leaseLive, FALSE}
        /\ status' = status \/ (status' = "interrupted" /\ frame.pc = "idle")
    BY DEF LoseLease, Interrupt, vars, ledgerVars
  <1>2. TypeOK'
    BY <1>1 DEF L2Inv, TypeOK
  <1>3. Accounted'
    <2>1. Sent' = Sent
      BY <1>1 DEF Sent
    <2> QED
      BY <1>1, <2>1 DEF L2Inv, Accounted
  <1>4. AnsweredIsComplete'
    BY <1>1 DEF L2Inv, AnsweredIsComplete
  <1> QED
    BY <1>1, <1>2, <1>3, <1>4 DEF L2Inv

LEMMA InitKeeps ==
    ASSUME Init
    PROVE  L2Inv
  <1> DEFINE f == [IdleFrame EXCEPT !.pc = "first"]
  <1>1. frame = f /\ f \in Frame /\ f.pc = "first"
    BY IdleFrameFields DEF Init, Frame, Pc
  <1>2. TypeOK
    BY <1>1 DEF Init, TypeOK, SendState
  <1>3. Sent = {}
    BY DEF Init, Sent
  <1>4. Accounted /\ AnsweredIsComplete
    BY <1>1, <1>3 DEF Init, Accounted, AnsweredIsComplete
  <1> QED
    BY <1>1, <1>2, <1>4 DEF Init, L2Inv, Running

LEMMA NextKeeps ==
    ASSUME L2Inv, [Next]_vars
    PROVE  L2Inv'
  <1>1. CASE SendStep
    BY <1>1, PrepareGenerationKeeps, TransmitKeeps, RefuseSendKeeps, ReceiveKeeps,
       ReceiveErrorKeeps, SendAbortsKeeps, HandleErrorKeeps DEF SendStep
  <1>2. CASE ClaimStep
    BY <1>2, ClaimInsufficientKeeps, ClaimPassesKeeps, ClaimFailsKeeps, ReserveRecoveryKeeps,
       NoRecoveryKeeps, RecoverKeeps, RecordRecoveryKeeps, RecordVerifiedKeeps,
       RecordJudgementKeeps, SupportedKeeps, UnsupportedKeeps, CloseClaimKeeps DEF ClaimStep
  <1>3. CASE FirstCheckpoint \/ Resume \/ \E restored \in BOOLEAN : Enter(restored)
    BY <1>3, FirstCheckpointKeeps, ResumeKeeps, EnterKeeps
  <1>4. CASE \/ RecordPlan
             \/ \E calls \in 1..ToolBudget : Collect(calls)
             \/ \E found \in BOOLEAN : RecordEvidence(found)
    BY <1>4, RecordPlanKeeps, CollectKeeps, RecordEvidenceKeeps
  <1>5. CASE \E batch \in SUBSET Claim :
               /\ batch # {} /\ IsFiniteSet(batch) /\ Cardinality(batch) <= MaxClaims
               /\ RecordCandidates(batch)
    BY <1>5, RecordCandidatesKeeps
  <1>6. CASE AcceptBatch \/ CompleteAttempt
    BY <1>6, AcceptBatchKeeps, CompleteAttemptKeeps
  <1>7. CASE CompleteRun \/ LoseLease \/ AttemptEnds \/ Interrupt \/ UNCHANGED vars
    BY <1>7, CompleteRunKeeps, AttemptEndsKeeps, OutsideKeeps
  <1> QED
    BY <1>1, <1>2, <1>3, <1>4, <1>5, <1>6, <1>7 DEF Next

-----------------------------------------------------------------------------
(* Results *)

\* Every attempt of run_l2_attempt, resumed or not, works on the checkpoint
\* that is stored and knows no less than it says.
THEOREM L2Invariance == Spec => []L2Inv
  <1>1. Init => L2Inv
    BY InitKeeps
  <1>2. L2Inv /\ [Next]_vars => L2Inv'
    BY NextKeeps
  <1> QED
    BY <1>1, <1>2, PTL DEF Spec

\* No attempt, whatever loses the ones before, sends under a key that was used
\* or that _prepare_generation did not write first; together they send no more
\* than the generation budget allows.
THEOREM SendsAreAnnounced == Spec => []SendsAnnounced
  <1>1. ASSUME L2Inv PROVE SendsAnnounced
    <2>1. checkpoint = NoRow => Sent = {}
      BY <1>1 DEF L2Inv, Accounted
    <2>2. checkpoint # NoRow => Sent \subseteq checkpoint.generations
      BY <1>1 DEF L2Inv, Accounted
    <2>3. Cardinality(Sent) <= GenerationBudget
      <3>1. CASE checkpoint = NoRow
        BY <2>1, <3>1, FS_EmptySet, L2Assumption
      <3>2. CASE checkpoint # NoRow
        <4>1. /\ IsFiniteSet(checkpoint.generations)
              /\ Cardinality(checkpoint.generations) <= GenerationBudget
          BY <1>1, <3>2 DEF L2Inv, Stored, Valid
        <4>2. /\ Cardinality(Sent) <= Cardinality(checkpoint.generations)
              /\ Cardinality(Sent) \in Nat /\ Cardinality(checkpoint.generations) \in Nat
          BY <2>2, <3>2, <4>1, FS_Subset, FS_CardinalityType
        <4> QED
          BY <4>1, <4>2, L2Assumption
      <3> QED
        BY <3>1, <3>2
    <2>4. frame.pc = "ready" => frame.key \notin Sent
      BY <1>1 DEF L2Inv, Accounted
    <2> QED
      BY <2>1, <2>2, <2>3, <2>4 DEF SendsAnnounced
  <1> QED
    BY <1>1, L2Invariance, PTL

\* The durable reservation of recovery makes the attempts of a run call MCP for
\* recovery once at most, and never before the checkpoint says so.
THEOREM RecoveryHappensOnce == Spec => []RecoveryOnce
  <1>1. L2Inv => RecoveryOnce
    BY DEF L2Inv, Accounted, RecoveryOnce
  <1> QED
    BY <1>1, L2Invariance, PTL

\* No checkpoint that run_l2_attempt builds without validation is rejected by
\* the validators of the next read or write.
THEOREM CheckpointsStayValid == Spec => []CheckpointValid
  <1>1. L2Inv => CheckpointValid
    BY DEF L2Inv, Stored, CheckpointValid
  <1> QED
    BY <1>1, L2Invariance, PTL

\* A run is answered only with a result for each candidate it counted.
THEOREM AnswersAreComplete == Spec => []AnsweredIsComplete
  <1>1. L2Inv => AnsweredIsComplete
    BY DEF L2Inv
  <1> QED
    BY <1>1, L2Invariance, PTL
=============================================================================
