---------------------------- MODULE IntakeProofs ----------------------------
(***************************************************************************)
(* Safety of `archive inspect` for any number of processes, archives,      *)
(* policies, invocations, failing calls and kills.                         *)
(***************************************************************************)
EXTENDS ArchiveIntake, TLAPS, WellFoundedInduction

-----------------------------------------------------------------------------
(* The inductive invariant *)

\* An invocation that is under way has an archive, and one that is not has
\* forgotten everything.
Started(p) ==
    /\ proc[p].at = "idle" => proc[p] = Idle
    /\ proc[p].at # "idle" => proc[p].archive \in Archive

\* What an extraction knows: the archive passed the preflight, the private
\* directory is its own, a directory that is about to be renamed is complete,
\* and one that was renamed is still the destination.
Extracting(p) ==
    LET a == proc[p].archive IN
    /\ proc[p].at \in {"stat", "mkdir", "output", "copy", "rename"} =>
         Preflight(a, PolicyOf[p]) = "none"
    /\ proc[p].at \in {"output", "copy", "rename"} =>
         /\ tempDir[p] # NoEntry
         /\ tempDir[p].archive = a /\ tempDir[p].by = p
    /\ proc[p].at = "rename" =>
         /\ tempDir[p].file = "whole"
         /\ CopyFault(a, PolicyOf[p]) = "none"
    /\ proc[p].at \in {"renamed", "inspect"} =>
         dest = [archive |-> a, by |-> p, file |-> "whole"]

\* Nobody has accepted a document as long as an interrupt may still empty the
\* destination.
NotYetAccepted ==
    \A p \in Process : proc[p].at = "renamed" =>
      \A r \in reports : r.kind # "accepted"

\* What a publication knows: its temporary file is complete before it is
\* linked, a file it has linked is there, and it has come to the record only
\* after it saw the whole archive with a single link.
Publishing(p) ==
    LET a == proc[p].archive IN
    /\ proc[p].at \notin {"verify", "create", "write", "link", "unlink"} =>
         proc[p].entry = "archive" /\ ~proc[p].linked
    /\ proc[p].at = "link" => proc[p].file = "whole"
    /\ proc[p].linked => proc[p].at = "unlink" /\ quarantine[a][proc[p].entry] # NoEntry
    /\ proc[p].entry = "record" =>
         quarantine[a]["archive"] = [text |-> a, file |-> "whole", extra |-> FALSE]

IntakeInv ==
    /\ TypeOK
    /\ \A p \in Process : Started(p) /\ Extracting(p) /\ Publishing(p)
    /\ NotYetAccepted
    /\ VisibleIsWhole /\ AcceptedStays /\ RejectedIsKept

-----------------------------------------------------------------------------
(* The codes that the checks of an archive give *)

\* A set of naturals that is not empty has a least element.
LEMMA MinIsMember ==
    ASSUME NEW S \in SUBSET Nat, S # {}
    PROVE  Min(S) \in S
  <1> DEFINE R == OpToRel(<, Nat)
  <1>1. IsWellFoundedOn(R, Nat)
    BY NatLessThanWellFounded
  <1>2. \A x, y \in Nat : x < y => <<x, y>> \in R
    BY DEF OpToRel
  <1> HIDE DEF R
  <1>3. PICK x \in S : \A y \in S : ~ (<<y, x>> \in R)
    BY <1>1, WFMin
  <1>4. ASSUME NEW y \in S PROVE x <= y
    <2>1. x \in Nat /\ y \in Nat
      OBVIOUS
    <2>2. ~ (y < x)
      BY <1>2, <1>3, <2>1
    <2> QED
      BY <2>1, <2>2
  <1> QED
    BY <1>4 DEF Min

LEMMA MemberCodes ==
    ASSUME NEW a \in Archive, NEW i \in DOMAIN Contents[a].members
    PROVE  Contents[a].members[i].early \in Code /\ Contents[a].members[i].late \in Code
  BY DEF Code, ToSet

LEMMA PreflightCode ==
    ASSUME NEW a \in Archive, NEW policy
    PROVE  Preflight(a, policy) \in Code
  <1> DEFINE members == Contents[a].members
             faulty == {i \in DOMAIN members : FaultOf(members, i, policy) # "none"}
  <1>1. \A i \in DOMAIN members : FaultOf(members, i, policy) \in Code
    BY MemberCodes DEF FaultOf, Code
  <1>2. faulty # {} => Min(faulty) \in DOMAIN members
    <2>1. DOMAIN members \subseteq Nat
      BY IntakeAssumption
    <2> QED
      BY <2>1, MinIsMember
  <1>3. {"none", "invalid_zip", "too_many_members", "unexpected_member"} \subseteq Code
    BY DEF Code
  <1> HIDE DEF faulty, members
  <1>4. faulty # {} => FaultOf(members, Min(faulty), policy) \in Code
    BY <1>1, <1>2
  <1> QED
    BY <1>3, <1>4 DEF Preflight, faulty, members

LEMMA CopyFaultCode ==
    ASSUME NEW a \in Archive, NEW policy
    PROVE  CopyFault(a, policy) \in Code
  BY DEF CopyFault, Code

-----------------------------------------------------------------------------
(* Steps that no other process can see *)

\* A step of p that leaves destination and quarantine alone, prints neither an
\* acceptance nor a rejection and does not come from the rename.
LEMMA PrivateStep ==
    ASSUME IntakeInv, NEW p \in Process,
           proc' \in [Process -> Invocation],
           tempDir' \in [Process -> Directory \cup {NoEntry}],
           \A q \in Process : q # p => proc'[q] = proc[q] /\ tempDir'[q] = tempDir[q],
           dest' = dest, quarantine' = quarantine,
           runs' \in 0..MaxRuns, kills' \in 0..MaxKills,
           reports \subseteq reports', reports' \subseteq Report,
           \A r \in reports' \ reports : r.kind \notin {"accepted", "rejected"},
           Started(p)', Extracting(p)', Publishing(p)', proc'[p].at # "renamed"
    PROVE  IntakeInv'
  <1>1. TypeOK'
    BY DEF IntakeInv, TypeOK
  <1>2. ASSUME NEW q \in Process, q # p PROVE Started(q)' /\ Extracting(q)' /\ Publishing(q)'
    BY <1>2 DEF IntakeInv, Started, Extracting, Publishing
  <1>3. NotYetAccepted'
    BY DEF IntakeInv, NotYetAccepted
  <1>4. VisibleIsWhole'
    BY DEF IntakeInv, VisibleIsWhole, DestinationSafe, RecordHasArchive
  <1>5. AcceptedStays' /\ RejectedIsKept'
    BY DEF IntakeInv, AcceptedStays, RejectedIsKept
  <1> QED
    BY <1>1, <1>2, <1>3, <1>4, <1>5 DEF IntakeInv

\* The same for an invocation that moves to v and stays alive.
LEMMA ProcMoves ==
    ASSUME IntakeInv, NEW p \in Process, NEW v \in Invocation,
           proc' = [proc EXCEPT ![p] = v], v.at \notin {"idle", "renamed"},
           v.archive \in Archive,
           tempDir' \in [Process -> Directory \cup {NoEntry}],
           \A q \in Process : q # p => tempDir'[q] = tempDir[q],
           dest' = dest, quarantine' = quarantine, reports' = reports,
           runs' \in 0..MaxRuns, kills' = kills,
           Extracting(p)', Publishing(p)'
    PROVE  IntakeInv'
  <1>1. proc \in [Process -> Invocation] /\ kills \in 0..MaxKills /\ reports \subseteq Report
    BY DEF IntakeInv, TypeOK
  <1>2. proc' \in [Process -> Invocation] /\ proc'[p] = v
        /\ \A q \in Process : q # p => proc'[q] = proc[q]
    BY <1>1
  <1>3. Started(p)'
    BY <1>2 DEF Started
  <1> QED
    BY <1>1, <1>2, <1>3, PrivateStep

LEMMA IdleType == Idle \in Invocation
  BY DEF Idle, Invocation, Code, Written

\* An invocation ends, with an error or a refusal of the document, or is killed.
LEMMA ProcEnds ==
    ASSUME IntakeInv, NEW p \in Process,
           proc' = [proc EXCEPT ![p] = Idle],
           tempDir' \in [Process -> Directory \cup {NoEntry}],
           \A q \in Process : q # p => tempDir'[q] = tempDir[q],
           dest' = dest, quarantine' = quarantine,
           runs' = runs, kills' \in 0..MaxKills,
           reports \subseteq reports', reports' \subseteq Report,
           \A r \in reports' \ reports : r.kind \notin {"accepted", "rejected"}
    PROVE  IntakeInv'
  <1>1. proc \in [Process -> Invocation] /\ runs \in 0..MaxRuns
    BY DEF IntakeInv, TypeOK
  <1>2. proc' \in [Process -> Invocation] /\ proc'[p] = Idle
        /\ \A q \in Process : q # p => proc'[q] = proc[q]
    BY <1>1, IdleType
  <1>3. /\ Idle.at = "idle" /\ Idle.entry = "archive" /\ ~Idle.linked
    BY DEF Idle
  <1>4. Started(p)' /\ Extracting(p)' /\ Publishing(p)'
    BY <1>2, <1>3 DEF Started, Extracting, Publishing
  <1> QED
    BY <1>1, <1>2, <1>3, <1>4, PrivateStep

\* What an invocation prints when it ends is a report of its own archive.
LEMMA ExitReports ==
    ASSUME IntakeInv, NEW p \in Process, proc[p].at # "idle",
           NEW kind \in {"accepted", "rejected", "refused", "error"}, Exit(p, kind)
    PROVE  /\ proc' = [proc EXCEPT ![p] = Idle]
           /\ reports' = reports \cup
                {[kind |-> kind, by |-> p, archive |-> proc[p].archive, code |-> proc[p].code]}
           /\ reports' \subseteq Report
  <1>1. proc[p] \in Invocation /\ proc[p].archive \in Archive /\ reports \subseteq Report
    BY DEF IntakeInv, TypeOK, Started
  <1>2. [kind |-> kind, by |-> p, archive |-> proc[p].archive, code |-> proc[p].code] \in Report
    BY <1>1 DEF Report, Invocation
  <1> QED
    BY <1>1, <1>2 DEF Exit

\* An invocation that ends so and leaves its private directory as it is.
LEMMA ExitKeeps ==
    ASSUME IntakeInv, NEW p \in Process, proc[p].at # "idle",
           NEW kind \in {"refused", "error"}, Exit(p, kind),
           UNCHANGED <<dest, tempDir, quarantine, runs, kills>>
    PROVE  IntakeInv'
  <1>1. /\ proc' = [proc EXCEPT ![p] = Idle]
        /\ reports' = reports \cup
             {[kind |-> kind, by |-> p, archive |-> proc[p].archive, code |-> proc[p].code]}
        /\ reports' \subseteq Report
    BY ExitReports
  <1>2. tempDir \in [Process -> Directory \cup {NoEntry}] /\ kills \in 0..MaxKills
    BY DEF IntakeInv, TypeOK
  <1>3. \A r \in reports' \ reports : r.kind \notin {"accepted", "rejected"}
    BY <1>1
  <1> QED
    BY <1>1, <1>2, <1>3, ProcEnds

-----------------------------------------------------------------------------
(* The command and its extraction *)

\* The locals of an invocation under way.
LEMMA Underway ==
    ASSUME IntakeInv, NEW p \in Process, proc[p].at # "idle"
    PROVE  /\ proc[p] \in Invocation /\ proc[p].archive \in Archive
           /\ tempDir \in [Process -> Directory \cup {NoEntry}]
           /\ Extracting(p) /\ Publishing(p)
           /\ runs \in 0..MaxRuns /\ kills \in 0..MaxKills
  BY DEF IntakeInv, TypeOK, Started

LEMMA BeginKeeps ==
    ASSUME IntakeInv, NEW p \in Process, Begin(p)
    PROVE  IntakeInv'
  <1>1. PICK a \in Archive :
          proc' = [proc EXCEPT ![p] = [Idle EXCEPT !.at = "opened", !.archive = a]]
    BY DEF Begin
  <1> DEFINE v == [Idle EXCEPT !.at = "opened", !.archive = a]
  <1>2. /\ v \in Invocation /\ v.at = "opened" /\ v.archive = a
        /\ v.entry = "archive" /\ ~v.linked
    BY DEF Idle, Invocation, Code, Written
  <1>3. /\ proc \in [Process -> Invocation] /\ runs \in 0..MaxRuns
        /\ tempDir \in [Process -> Directory \cup {NoEntry}]
    BY DEF IntakeInv, TypeOK
  <1>4. runs' \in 0..MaxRuns /\ UNCHANGED <<dest, tempDir, quarantine, reports, kills>>
    BY <1>3, IntakeAssumption DEF Begin
  <1> HIDE DEF v
  <1>5. proc' = [proc EXCEPT ![p] = v] /\ proc'[p] = v
    BY <1>1, <1>3 DEF v
  <1>6. Extracting(p)' /\ Publishing(p)'
    BY <1>2, <1>5 DEF Extracting, Publishing
  <1> QED
    BY <1>2, <1>3, <1>4, <1>5, <1>6, ProcMoves

LEMMA PreflightMembersKeeps ==
    ASSUME IntakeInv, NEW p \in Process, PreflightMembers(p)
    PROVE  IntakeInv'
  <1> DEFINE code == Preflight(proc[p].archive, PolicyOf[p])
             v == [proc[p] EXCEPT !.code = code, !.at = IF code = "none" THEN "stat" ELSE "verify"]
  <1>1. proc[p].at = "opened" /\ proc' = [proc EXCEPT ![p] = v]
        /\ UNCHANGED <<dest, tempDir, quarantine, reports, runs, kills>>
    BY DEF PreflightMembers
  <1>2. code \in Code
    BY <1>1, Underway, PreflightCode
  <1> HIDE DEF code
  <1>3. /\ v \in Invocation /\ v.archive = proc[p].archive /\ v.entry = proc[p].entry
        /\ v.linked = proc[p].linked /\ v.at \in {"stat", "verify"}
        /\ v.at = "stat" => code = "none"
    BY <1>1, <1>2, Underway DEF Invocation
  <1> HIDE DEF v
  <1>4. proc'[p] = v
    BY <1>1 DEF IntakeInv, TypeOK
  <1>5. Extracting(p)' /\ Publishing(p)'
    BY <1>1, <1>3, <1>4, Underway DEF Extracting, Publishing, code
  <1> QED
    BY <1>1, <1>3, <1>5, Underway, ProcMoves

LEMMA StatDestinationKeeps ==
    ASSUME IntakeInv, NEW p \in Process, StatDestination(p)
    PROVE  IntakeInv'
  <1>1. proc[p].at = "stat" /\ UNCHANGED <<dest, tempDir, quarantine, runs, kills>>
    BY DEF StatDestination
  <1>2. CASE Exit(p, "error")
    BY <1>1, <1>2, ExitKeeps
  <1>3. CASE Goto(p, "mkdir") /\ UNCHANGED reports
    <2> DEFINE v == [proc[p] EXCEPT !.at = "mkdir"]
    <2>1. proc' = [proc EXCEPT ![p] = v]
      BY <1>3 DEF Goto
    <2>2. /\ v \in Invocation /\ v.archive = proc[p].archive /\ v.at = "mkdir"
          /\ v.entry = proc[p].entry /\ v.linked = proc[p].linked
      BY <1>1, Underway DEF Invocation
    <2> HIDE DEF v
    <2>3. proc'[p] = v
      BY <2>1 DEF IntakeInv, TypeOK
    <2>4. Extracting(p)' /\ Publishing(p)'
      BY <1>1, <2>2, <2>3, Underway DEF Extracting, Publishing
    <2> QED
      BY <1>1, <1>3, <2>1, <2>2, <2>4, Underway, ProcMoves
  <1> QED
    BY <1>2, <1>3 DEF StatDestination

\* Steps that build the private directory; a refused member is not renamed.
LEMMA PrivateDirectoryKeeps ==
    ASSUME IntakeInv, NEW p \in Process,
           CreateDirectory(p) \/ OpenOutput(p) \/ CopyMember(p)
    PROVE  IntakeInv'
  <1>1. /\ proc[p].at \in {"mkdir", "output", "copy"}
        /\ UNCHANGED <<dest, quarantine, reports, runs, kills>>
    BY DEF CreateDirectory, OpenOutput, CopyMember
  <1>2. /\ proc[p] \in Invocation /\ proc[p].archive \in Archive
        /\ tempDir \in [Process -> Directory \cup {NoEntry}]
        /\ Extracting(p) /\ Publishing(p)
        /\ runs \in 0..MaxRuns /\ kills \in 0..MaxKills
    BY <1>1, Underway
  <1>3. CASE CreateDirectory(p)
    <2> DEFINE v == [proc[p] EXCEPT !.at = "output"]
               d == [archive |-> proc[p].archive, by |-> p, file |-> "none"]
    <2>1. proc[p].at = "mkdir" /\ proc' = [proc EXCEPT ![p] = v]
          /\ tempDir' = [tempDir EXCEPT ![p] = d]
      BY <1>3 DEF CreateDirectory, Goto
    <2>2. /\ v \in Invocation /\ v.archive = proc[p].archive /\ v.at = "output"
          /\ v.entry = proc[p].entry /\ v.linked = proc[p].linked
      BY <1>2 DEF Invocation
    <2>3. d \in Directory /\ d # NoEntry /\ d.archive = proc[p].archive /\ d.by = p
      BY <1>2, NoEntryAssumption DEF Directory, Written
    <2> HIDE DEF v, d
    <2>4. proc'[p] = v /\ tempDir'[p] = d
          /\ tempDir' \in [Process -> Directory \cup {NoEntry}]
          /\ \A q \in Process : q # p => tempDir'[q] = tempDir[q]
      BY <1>2, <2>1, <2>3 DEF IntakeInv, TypeOK
    <2>5. Extracting(p)' /\ Publishing(p)'
      BY <1>1, <1>2, <2>1, <2>2, <2>3, <2>4 DEF Extracting, Publishing
    <2> QED
      BY <1>1, <1>2, <2>1, <2>2, <2>4, <2>5, ProcMoves
  <1>4. CASE OpenOutput(p)
    <2> DEFINE v == [proc[p] EXCEPT !.at = "copy"]
               d == [tempDir[p] EXCEPT !.file = "partial"]
    <2>1. proc[p].at = "output" /\ proc' = [proc EXCEPT ![p] = v]
          /\ tempDir' = [tempDir EXCEPT ![p] = d]
      BY <1>4 DEF OpenOutput, Goto
    <2>2. /\ v \in Invocation /\ v.archive = proc[p].archive /\ v.at = "copy"
          /\ v.entry = proc[p].entry /\ v.linked = proc[p].linked
      BY <1>2 DEF Invocation
    <2>3. tempDir[p] \in Directory /\ tempDir[p].archive = proc[p].archive /\ tempDir[p].by = p
      BY <1>2, <2>1 DEF Extracting
    <2>4. d \in Directory /\ d # NoEntry /\ d.archive = proc[p].archive /\ d.by = p
      BY <2>3, NoEntryAssumption DEF Directory, Written
    <2> HIDE DEF v, d
    <2>5. proc'[p] = v /\ tempDir'[p] = d
          /\ tempDir' \in [Process -> Directory \cup {NoEntry}]
          /\ \A q \in Process : q # p => tempDir'[q] = tempDir[q]
      BY <1>2, <2>1, <2>4 DEF IntakeInv, TypeOK
    <2>6. Extracting(p)' /\ Publishing(p)'
      BY <1>1, <1>2, <2>1, <2>2, <2>4, <2>5 DEF Extracting, Publishing
    <2> QED
      BY <1>1, <1>2, <2>1, <2>2, <2>5, <2>6, ProcMoves
  <1>5. CASE CopyMember(p)
    <2> DEFINE a == proc[p].archive
               code == CopyFault(a, PolicyOf[p])
    <2>1. proc[p].at = "copy" /\ code \in Code
      BY <1>2, <1>5, CopyFaultCode DEF CopyMember
    <2>2. CASE /\ code = "none" /\ Goto(p, "rename")
               /\ tempDir' = [tempDir EXCEPT ![p].file = "whole"]
      <3> DEFINE v == [proc[p] EXCEPT !.at = "rename"]
                 d == [tempDir[p] EXCEPT !.file = "whole"]
      <3>1. proc' = [proc EXCEPT ![p] = v] /\ tempDir' = [tempDir EXCEPT ![p] = d]
        BY <2>2 DEF Goto
      <3>2. /\ v \in Invocation /\ v.archive = proc[p].archive /\ v.at = "rename"
            /\ v.entry = proc[p].entry /\ v.linked = proc[p].linked
        BY <1>2 DEF Invocation
      <3>3. tempDir[p] \in Directory /\ tempDir[p].archive = proc[p].archive /\ tempDir[p].by = p
        BY <1>2, <2>1 DEF Extracting
      <3>4. d \in Directory /\ d # NoEntry /\ d.archive = proc[p].archive /\ d.by = p
            /\ d.file = "whole"
        BY <3>3, NoEntryAssumption DEF Directory, Written
      <3> HIDE DEF v, d
      <3>5. proc'[p] = v /\ tempDir'[p] = d
            /\ tempDir' \in [Process -> Directory \cup {NoEntry}]
            /\ \A q \in Process : q # p => tempDir'[q] = tempDir[q]
        BY <1>2, <3>1, <3>4 DEF IntakeInv, TypeOK
      <3>6. Extracting(p)' /\ Publishing(p)'
        BY <1>1, <1>2, <2>1, <2>2, <3>2, <3>4, <3>5 DEF Extracting, Publishing
      <3> QED
        BY <1>1, <1>2, <3>1, <3>2, <3>5, <3>6, ProcMoves
    <2>3. CASE /\ \/ proc' = [proc EXCEPT ![p].at = "cleanup", ![p].code = code]
                  \/ proc' = [proc EXCEPT ![p].at = "cleanup", ![p].failing = TRUE]
               /\ UNCHANGED tempDir
      <3> HIDE DEF code
      <3>1. PICK v \in Invocation :
              /\ proc' = [proc EXCEPT ![p] = v]
              /\ v.archive = proc[p].archive /\ v.at = "cleanup"
              /\ v.entry = proc[p].entry /\ v.linked = proc[p].linked
        <4>1. CASE proc' = [proc EXCEPT ![p].at = "cleanup", ![p].code = code]
          <5> DEFINE w == [proc[p] EXCEPT !.at = "cleanup", !.code = code]
          <5>1. /\ w \in Invocation /\ w.archive = proc[p].archive /\ w.at = "cleanup"
                /\ w.entry = proc[p].entry /\ w.linked = proc[p].linked
            BY <1>2, <2>1 DEF Invocation
          <5> QED
            BY <4>1, <5>1
        <4>2. CASE proc' = [proc EXCEPT ![p].at = "cleanup", ![p].failing = TRUE]
          <5> DEFINE w == [proc[p] EXCEPT !.at = "cleanup", !.failing = TRUE]
          <5>1. /\ w \in Invocation /\ w.archive = proc[p].archive /\ w.at = "cleanup"
                /\ w.entry = proc[p].entry /\ w.linked = proc[p].linked
            BY <1>2 DEF Invocation
          <5> QED
            BY <4>2, <5>1
        <4> QED
          BY <2>3, <4>1, <4>2
      <3>2. proc'[p] = v
        BY <3>1 DEF IntakeInv, TypeOK
      <3>3. Extracting(p)' /\ Publishing(p)'
        BY <1>1, <1>2, <2>1, <2>3, <3>1, <3>2 DEF Extracting, Publishing
      <3> QED
        BY <1>1, <1>2, <2>3, <3>1, <3>3, ProcMoves
    <2> QED
      BY <1>5, <2>2, <2>3 DEF CopyMember
  <1> QED
    BY <1>3, <1>4, <1>5

\* An archive that passes the preflight has exactly one member.
LEMMA PreflightNone ==
    ASSUME NEW a \in Archive, NEW policy, Preflight(a, policy) = "none"
    PROVE  Contents[a].members[1] \in ZipInfo
  <1> DEFINE members == Contents[a].members
             faulty == {i \in DOMAIN members : FaultOf(members, i, policy) # "none"}
  <1>1. members \in Seq(ZipInfo)
    BY IntakeAssumption
  <1>2. faulty # {} => FaultOf(members, Min(faulty), policy) # "none"
    <2>1. DOMAIN members \subseteq Nat
      BY <1>1
    <2> HIDE DEF members
    <2>2. ASSUME faulty # {} PROVE Min(faulty) \in faulty
      BY <2>1, <2>2, MinIsMember
    <2> QED
      BY <2>2
  <1>3. Len(members) = 1
    <2> HIDE DEF members, faulty
    <2> QED
      BY <1>2 DEF Preflight, members, faulty
  <1> QED
    BY <1>1, <1>3

\* A directory of the file system is not a missing one.
LEMMA DirectoryExists ==
    ASSUME NEW a \in Archive, NEW q \in Process, NEW f \in Written
    PROVE  /\ [archive |-> a, by |-> q, file |-> f] \in Directory
           /\ [archive |-> a, by |-> q, file |-> f] # NoEntry
           /\ [archive |-> a, by |-> q, file |-> f].file = f
           /\ [archive |-> a, by |-> q, file |-> f].by = q
  BY NoEntryAssumption DEF Directory

\* What is put at the destination passed the policy of who puts it there.
LEMMA RenameDirectoryKeeps ==
    ASSUME IntakeInv, NEW p \in Process, RenameDirectory(p)
    PROVE  IntakeInv'
  <1>1. proc[p].at = "rename" /\ UNCHANGED <<quarantine, reports, runs, kills>>
    BY DEF RenameDirectory
  <1>2. /\ proc[p] \in Invocation /\ proc[p].archive \in Archive
        /\ proc \in [Process -> Invocation]
        /\ tempDir \in [Process -> Directory \cup {NoEntry}]
        /\ Extracting(p) /\ Publishing(p)
        /\ runs \in 0..MaxRuns /\ kills \in 0..MaxKills /\ reports \subseteq Report
    BY <1>1, Underway DEF IntakeInv, TypeOK
  <1>3. CASE proc' = [proc EXCEPT ![p].at = "cleanup", ![p].failing = TRUE]
             /\ UNCHANGED <<dest, tempDir>>
    <2> DEFINE v == [proc[p] EXCEPT !.at = "cleanup", !.failing = TRUE]
    <2>1. proc' = [proc EXCEPT ![p] = v]
      BY <1>3
    <2>2. /\ v \in Invocation /\ v.archive = proc[p].archive /\ v.at = "cleanup"
          /\ v.entry = proc[p].entry /\ v.linked = proc[p].linked
      BY <1>2 DEF Invocation
    <2> HIDE DEF v
    <2>3. proc'[p] = v
      BY <1>2, <2>1
    <2>4. Extracting(p)' /\ Publishing(p)'
      BY <1>1, <1>2, <2>2, <2>3 DEF Extracting, Publishing
    <2> QED
      BY <1>1, <1>2, <1>3, <2>1, <2>2, <2>4, ProcMoves
  <1>4. CASE /\ dest = NoEntry \/ dest.file = "none"
             /\ dest' = tempDir[p] /\ tempDir' = [tempDir EXCEPT ![p] = NoEntry]
             /\ Goto(p, "renamed")
    <2> DEFINE v == [proc[p] EXCEPT !.at = "renamed"]
               a == proc[p].archive
    <2>1. proc' = [proc EXCEPT ![p] = v]
      BY <1>4 DEF Goto
    <2>2. /\ v \in Invocation /\ v.archive = a /\ v.at = "renamed"
          /\ v.entry = proc[p].entry /\ v.linked = proc[p].linked
      BY <1>2 DEF Invocation
    <2> HIDE DEF v
    <2>3. /\ proc' \in [Process -> Invocation] /\ proc'[p] = v
          /\ tempDir' \in [Process -> Directory \cup {NoEntry}]
          /\ \A q \in Process : q # p => proc'[q] = proc[q] /\ tempDir'[q] = tempDir[q]
      BY <1>2, <1>4, <2>1, <2>2
    <2>4. dest' \in Directory /\ dest' = [archive |-> a, by |-> p, file |-> "whole"]
      BY <1>1, <1>2, <1>4 DEF Extracting, Directory
    <2>5. \A q \in Process : proc[q].at \notin {"renamed", "inspect"}
      <3> SUFFICES ASSUME NEW q \in Process, proc[q].at \in {"renamed", "inspect"} PROVE FALSE
        OBVIOUS
      <3>1. proc[q].archive \in Archive
            /\ dest = [archive |-> proc[q].archive, by |-> q, file |-> "whole"]
        BY DEF IntakeInv, Started, Extracting
      <3>2. "whole" \in Written
        BY DEF Written
      <3> QED
        BY <1>4, <3>1, <3>2, DirectoryExists
    <2>6. \A r \in reports : r.kind # "accepted"
      <3> SUFFICES ASSUME NEW r \in reports, r.kind = "accepted" PROVE FALSE
        OBVIOUS
      <3>1. r.archive \in Archive /\ r.by \in Process
        BY <1>2 DEF Report
      <3>2. dest = [archive |-> r.archive, by |-> r.by, file |-> "whole"]
        BY DEF IntakeInv, AcceptedStays
      <3>3. "whole" \in Written
        BY DEF Written
      <3> QED
        BY <1>4, <3>1, <3>2, <3>3, DirectoryExists
    <2>7. TypeOK'
      BY <1>1, <2>3, <2>4 DEF IntakeInv, TypeOK
    <2>8. ASSUME NEW q \in Process PROVE Started(q)' /\ Extracting(q)' /\ Publishing(q)'
      <3>1. CASE q = p
        BY <1>1, <1>2, <2>2, <2>3, <2>4, <3>1 DEF Started, Extracting, Publishing
      <3>2. CASE q # p
        <4>1. proc'[q] = proc[q] /\ tempDir'[q] = tempDir[q]
              /\ proc[q].at \notin {"renamed", "inspect"}
              /\ Started(q) /\ Extracting(q) /\ Publishing(q)
          BY <2>3, <2>5, <3>2 DEF IntakeInv
        <4> QED
          BY <1>1, <4>1 DEF Started, Extracting, Publishing
      <3> QED
        BY <3>1, <3>2
    <2>9. DestinationSafe'
      <3> DEFINE document == Contents[a].members[1]
                 policy == PolicyOf[p]
      <3>1. Preflight(a, policy) = "none" /\ CopyFault(a, policy) = "none"
        BY <1>1, <1>2 DEF Extracting
      <3>2. document \in ZipInfo /\ policy \in [members : Nat, member : Nat, total : Nat]
        BY <1>2, <3>1, PreflightNone, IntakeAssumption
      <3>3. /\ document.actual \in Nat /\ policy.member \in Nat /\ policy.total \in Nat
        BY <3>2 DEF ZipInfo
      <3>4. /\ document.actual = document.declared
            /\ document.actual <= policy.member /\ document.actual <= policy.total
        <4>1. /\ document.actual = document.declared /\ document.ends # "bad_crc"
              /\ \A n \in ByteCounts(document) : n <= policy.member /\ n <= policy.total
          <5>1. \A n \in ByteCounts(document) : n \in Nat
            BY <3>3 DEF ByteCounts
          <5> QED
            BY <3>1, <3>3, <5>1 DEF CopyFault
        <4>2. document.actual > 0 => document.actual \in ByteCounts(document)
          BY <3>3, <4>1 DEF ByteCounts
        <4> QED
          BY <3>3, <4>1, <4>2
      <3>5. dest'.file = "whole" /\ dest'.archive = a /\ dest'.by = p
        BY <2>4
      <3> QED
        BY <3>1, <3>4, <3>5 DEF DestinationSafe
    <2>10. VisibleIsWhole'
      BY <1>1, <2>9 DEF IntakeInv, VisibleIsWhole, RecordHasArchive
    <2>11. NotYetAccepted' /\ AcceptedStays' /\ RejectedIsKept'
      BY <1>1, <2>6 DEF IntakeInv, NotYetAccepted, AcceptedStays, RejectedIsKept
    <2> QED
      BY <2>7, <2>8, <2>10, <2>11 DEF IntakeInv
  <1> QED
    BY <1>3, <1>4 DEF RenameDirectory

LEMMA ExtractedKeeps ==
    ASSUME IntakeInv, NEW p \in Process, Extracted(p)
    PROVE  IntakeInv'
  <1> DEFINE v == [proc[p] EXCEPT !.at = "inspect"]
  <1>1. /\ proc[p].at = "renamed" /\ proc' = [proc EXCEPT ![p] = v]
        /\ UNCHANGED <<dest, tempDir, quarantine, reports, runs, kills>>
    BY DEF Extracted, Goto
  <1>2. /\ v \in Invocation /\ v.archive = proc[p].archive /\ v.at = "inspect"
        /\ v.entry = proc[p].entry /\ v.linked = proc[p].linked
    BY <1>1, Underway DEF Invocation
  <1> HIDE DEF v
  <1>3. proc'[p] = v
    BY <1>1 DEF IntakeInv, TypeOK
  <1>4. Extracting(p)' /\ Publishing(p)'
    BY <1>1, <1>2, <1>3, Underway DEF Extracting, Publishing
  <1> QED
    BY <1>1, <1>2, <1>4, Underway, ProcMoves

\* An invocation that knows the destination to be its own is the only one.
LEMMA OwnDestination ==
    ASSUME IntakeInv, NEW p \in Process, proc[p].at \in {"renamed", "inspect"},
           NEW q \in Process, q # p
    PROVE  proc[q].at \notin {"renamed", "inspect"}
  <1> SUFFICES ASSUME proc[q].at \in {"renamed", "inspect"} PROVE FALSE
    OBVIOUS
  <1>1. /\ dest = [archive |-> proc[p].archive, by |-> p, file |-> "whole"]
        /\ dest = [archive |-> proc[q].archive, by |-> q, file |-> "whole"]
    BY DEF IntakeInv, Extracting
  <1> QED
    BY <1>1

\* An interrupt right after the rename empties a destination that nobody has
\* accepted.
LEMMA InterruptAfterRenameKeeps ==
    ASSUME IntakeInv, NEW p \in Process, InterruptAfterRename(p)
    PROVE  IntakeInv'
  <1>1. /\ proc[p].at = "renamed" /\ Exit(p, "error")
        /\ dest' = [dest EXCEPT !.file = "none"]
        /\ UNCHANGED <<tempDir, quarantine, runs, kills>>
    BY DEF InterruptAfterRename
  <1>2. /\ proc' = [proc EXCEPT ![p] = Idle]
        /\ reports' = reports \cup
             {[kind |-> "error", by |-> p, archive |-> proc[p].archive, code |-> proc[p].code]}
        /\ reports' \subseteq Report
    BY <1>1, ExitReports
  <1>3. /\ proc' \in [Process -> Invocation] /\ proc'[p] = Idle
        /\ \A q \in Process : q # p => proc'[q] = proc[q]
    BY <1>2, IdleType DEF IntakeInv, TypeOK
  <1>4. dest = [archive |-> proc[p].archive, by |-> p, file |-> "whole"]
        /\ proc[p].archive \in Archive
    BY <1>1, Underway DEF Extracting
  <1>5. dest' = [archive |-> proc[p].archive, by |-> p, file |-> "none"]
    BY <1>1, <1>4
  <1>6. dest' \in Directory /\ dest'.file = "none"
    BY <1>4, <1>5 DEF Directory, Written
  <1>7. \A r \in reports' : r.kind # "accepted"
    BY <1>1, <1>2 DEF IntakeInv, NotYetAccepted
  <1>8. TypeOK'
    BY <1>1, <1>2, <1>3, <1>6 DEF IntakeInv, TypeOK
  <1>9. ASSUME NEW q \in Process PROVE Started(q)' /\ Extracting(q)' /\ Publishing(q)'
    <2>1. CASE q = p
      <3>1. Idle.at = "idle" /\ Idle.entry = "archive" /\ ~Idle.linked
        BY DEF Idle
      <3> QED
        BY <1>3, <2>1, <3>1 DEF Started, Extracting, Publishing
    <2>2. CASE q # p
      <3>1. proc[q].at \notin {"renamed", "inspect"} /\ Started(q) /\ Extracting(q) /\ Publishing(q)
        BY <1>1, <2>2, OwnDestination DEF IntakeInv
      <3> QED
        BY <1>1, <1>3, <2>2, <3>1 DEF Started, Extracting, Publishing
    <2> QED
      BY <2>1, <2>2
  <1>10. VisibleIsWhole'
    BY <1>1, <1>6 DEF IntakeInv, VisibleIsWhole, DestinationSafe, RecordHasArchive
  <1>11. NotYetAccepted' /\ AcceptedStays' /\ RejectedIsKept'
    BY <1>1, <1>2, <1>7 DEF IntakeInv, NotYetAccepted, AcceptedStays, RejectedIsKept
  <1> QED
    BY <1>8, <1>9, <1>10, <1>11 DEF IntakeInv

LEMMA CleanUpKeeps ==
    ASSUME IntakeInv, NEW p \in Process, CleanUp(p)
    PROVE  IntakeInv'
  <1>1. /\ proc[p].at = "cleanup" /\ tempDir' = [tempDir EXCEPT ![p] = NoEntry]
        /\ UNCHANGED <<dest, quarantine, runs, kills>>
    BY DEF CleanUp, DestinationAfter, PrivateAfter
  <1>2. /\ tempDir' \in [Process -> Directory \cup {NoEntry}]
        /\ \A q \in Process : q # p => tempDir'[q] = tempDir[q]
        /\ kills \in 0..MaxKills
    BY <1>1 DEF IntakeInv, TypeOK
  <1>3. CASE Exit(p, "error")
    <2>1. /\ proc' = [proc EXCEPT ![p] = Idle]
          /\ reports' = reports \cup
               {[kind |-> "error", by |-> p, archive |-> proc[p].archive, code |-> proc[p].code]}
          /\ reports' \subseteq Report
      BY <1>1, <1>3, ExitReports
    <2>2. \A r \in reports' \ reports : r.kind \notin {"accepted", "rejected"}
      BY <2>1
    <2> QED
      BY <1>1, <1>2, <2>1, <2>2, ProcEnds
  <1>4. CASE Goto(p, "verify") /\ UNCHANGED reports
    <2> DEFINE v == [proc[p] EXCEPT !.at = "verify"]
    <2>1. proc' = [proc EXCEPT ![p] = v]
      BY <1>4 DEF Goto
    <2>2. /\ v \in Invocation /\ v.archive = proc[p].archive /\ v.at = "verify"
          /\ v.entry = proc[p].entry /\ v.linked = proc[p].linked
      BY <1>1, Underway DEF Invocation
    <2> HIDE DEF v
    <2>3. proc'[p] = v
      BY <2>1 DEF IntakeInv, TypeOK
    <2>4. Extracting(p)' /\ Publishing(p)'
      BY <1>1, <2>2, <2>3, Underway DEF Extracting, Publishing
    <2> QED
      BY <1>1, <1>2, <1>4, <2>1, <2>2, <2>4, Underway, ProcMoves
  <1> QED
    BY <1>3, <1>4 DEF CleanUp

LEMMA InspectDocxKeeps ==
    ASSUME IntakeInv, NEW p \in Process, InspectDocx(p)
    PROVE  IntakeInv'
  <1>1. /\ proc[p].at = "inspect"
        /\ UNCHANGED <<dest, tempDir, quarantine, runs, kills>>
    BY DEF InspectDocx
  <1>2. PICK kind \in {"accepted", "refused", "error"} : Exit(p, kind)
    BY DEF InspectDocx
  <1>3. CASE kind \in {"refused", "error"}
    BY <1>1, <1>2, <1>3, ExitKeeps
  <1>4. CASE kind = "accepted"
    <2>1. /\ proc' = [proc EXCEPT ![p] = Idle]
          /\ reports' = reports \cup
               {[kind |-> "accepted", by |-> p, archive |-> proc[p].archive, code |-> proc[p].code]}
          /\ reports' \subseteq Report
      BY <1>1, <1>2, <1>4, ExitReports
    <2>2. /\ proc' \in [Process -> Invocation] /\ proc'[p] = Idle
          /\ \A q \in Process : q # p => proc'[q] = proc[q]
      BY <2>1, IdleType DEF IntakeInv, TypeOK
    <2>3. Idle.at = "idle" /\ Idle.entry = "archive" /\ ~Idle.linked
      BY DEF Idle
    <2>4. TypeOK'
      BY <1>1, <2>1, <2>2 DEF IntakeInv, TypeOK
    <2>5. ASSUME NEW q \in Process PROVE Started(q)' /\ Extracting(q)' /\ Publishing(q)'
      <3>1. CASE q = p
        BY <2>2, <2>3, <3>1 DEF Started, Extracting, Publishing
      <3>2. CASE q # p
        BY <1>1, <2>2, <3>2 DEF IntakeInv, Started, Extracting, Publishing
      <3> QED
        BY <3>1, <3>2
    <2>6. \A q \in Process : proc'[q].at # "renamed"
      BY <1>1, <2>2, <2>3, OwnDestination
    <2>7. NotYetAccepted'
      BY <2>6 DEF NotYetAccepted
    <2>8. VisibleIsWhole'
      BY <1>1 DEF IntakeInv, VisibleIsWhole, DestinationSafe, RecordHasArchive
    <2>9. AcceptedStays'
      <3>1. dest = [archive |-> proc[p].archive, by |-> p, file |-> "whole"]
        BY <1>1, Underway DEF Extracting
      <3> QED
        BY <1>1, <2>1, <3>1 DEF IntakeInv, AcceptedStays
    <2>10. RejectedIsKept'
      BY <1>1, <2>1 DEF IntakeInv, RejectedIsKept
    <2> QED
      BY <2>4, <2>5, <2>7, <2>8, <2>9, <2>10 DEF IntakeInv
  <1> QED
    BY <1>2, <1>3, <1>4

-----------------------------------------------------------------------------
(* The quarantine *)

OnFile(text) == [text |-> text, file |-> "whole", extra |-> FALSE]

\* A file that the check accepts is the whole expected one.
LEMMA MatchesOnFile ==
    ASSUME IntakeInv, NEW p \in Process, proc[p].at = "verify",
           Stored(p) # NoEntry, Matches(p)
    PROVE  quarantine[proc[p].archive][proc[p].entry] = OnFile(Text(p))
  <1>1. proc[p] \in Invocation /\ proc[p].archive \in Archive
    BY Underway
  <1>2. proc[p].entry \in {"archive", "record"}
    BY <1>1 DEF Invocation
  <1>3. Stored(p) \in Entry
    BY <1>1, <1>2 DEF IntakeInv, TypeOK, Stored
  <1> QED
    BY <1>3 DEF Entry, Matches, Stored, OnFile

LEMMA VerifyEntryKeeps ==
    ASSUME IntakeInv, NEW p \in Process, VerifyEntry(p)
    PROVE  IntakeInv'
  <1>1. proc[p].at = "verify" /\ UNCHANGED <<dest, tempDir, quarantine, runs, kills>>
    BY DEF VerifyEntry
  <1>2. /\ proc[p] \in Invocation /\ proc[p].archive \in Archive
        /\ tempDir \in [Process -> Directory \cup {NoEntry}]
        /\ proc \in [Process -> Invocation]
        /\ Extracting(p) /\ Publishing(p)
        /\ runs \in 0..MaxRuns /\ kills \in 0..MaxKills
    BY <1>1, Underway DEF IntakeInv, TypeOK
  <1>3. CASE Exit(p, "error")
    BY <1>1, <1>3, ExitKeeps
  <1>4. CASE Goto(p, "create") /\ UNCHANGED reports
    <2> DEFINE v == [proc[p] EXCEPT !.at = "create"]
    <2>1. proc' = [proc EXCEPT ![p] = v]
      BY <1>4 DEF Goto
    <2>2. /\ v \in Invocation /\ v.archive = proc[p].archive /\ v.at = "create"
          /\ v.entry = proc[p].entry /\ v.linked = proc[p].linked
      BY <1>2 DEF Invocation
    <2> HIDE DEF v
    <2>3. proc'[p] = v
      BY <1>2, <2>1
    <2>4. Extracting(p)' /\ Publishing(p)'
      BY <1>1, <1>2, <2>2, <2>3 DEF Extracting, Publishing
    <2> QED
      BY <1>1, <1>2, <1>4, <2>1, <2>2, <2>4, ProcMoves
  <1>5. CASE Stored(p) # NoEntry /\ Matches(p) /\ NextEntry(p)
    <2>1. quarantine[proc[p].archive][proc[p].entry] = OnFile(Text(p))
      BY <1>1, <1>5, MatchesOnFile
    <2>2. CASE proc[p].entry = "archive"
      <3> DEFINE v == [proc[p] EXCEPT !.entry = "record", !.again = FALSE, !.at = "verify"]
      <3>1. proc' = [proc EXCEPT ![p] = v] /\ UNCHANGED reports
        BY <1>5, <2>2 DEF NextEntry
      <3>2. /\ v \in Invocation /\ v.archive = proc[p].archive /\ v.at = "verify"
            /\ v.entry = "record" /\ v.linked = proc[p].linked
        BY <1>2 DEF Invocation
      <3> HIDE DEF v
      <3>3. proc'[p] = v
        BY <1>2, <3>1
      <3>4. quarantine[v.archive]["archive"] = OnFile(v.archive)
        BY <2>1, <2>2, <3>2 DEF Text
      <3>5. Extracting(p)' /\ Publishing(p)'
        BY <1>1, <1>2, <3>2, <3>3, <3>4 DEF Extracting, Publishing, OnFile
      <3> QED
        BY <1>1, <1>2, <3>1, <3>2, <3>5, ProcMoves
    <2>3. CASE proc[p].entry = "record"
      <3>1. Exit(p, "rejected")
        BY <1>5, <2>3 DEF NextEntry
      <3>2. /\ proc' = [proc EXCEPT ![p] = Idle]
            /\ reports' = reports \cup
                 {[kind |-> "rejected", by |-> p, archive |-> proc[p].archive,
                   code |-> proc[p].code]}
            /\ reports' \subseteq Report
        BY <1>1, <3>1, ExitReports
      <3>3. /\ proc' \in [Process -> Invocation] /\ proc'[p] = Idle
            /\ \A q \in Process : q # p => proc'[q] = proc[q]
        BY <1>2, <3>2, IdleType
      <3>4. Idle.at = "idle" /\ Idle.entry = "archive" /\ ~Idle.linked
        BY DEF Idle
      <3>5. TypeOK'
        BY <1>1, <3>2, <3>3 DEF IntakeInv, TypeOK
      <3>6. ASSUME NEW q \in Process PROVE Started(q)' /\ Extracting(q)' /\ Publishing(q)'
        <4>1. CASE q = p
          BY <3>3, <3>4, <4>1 DEF Started, Extracting, Publishing
        <4>2. CASE q # p
          BY <1>1, <3>3, <4>2 DEF IntakeInv, Started, Extracting, Publishing
        <4> QED
          BY <4>1, <4>2
      <3>7. NotYetAccepted'
        BY <3>2, <3>3, <3>4 DEF IntakeInv, NotYetAccepted
      <3>8. VisibleIsWhole'
        BY <1>1 DEF IntakeInv, VisibleIsWhole, DestinationSafe, RecordHasArchive
      <3>9. AcceptedStays'
        BY <1>1, <3>2 DEF IntakeInv, AcceptedStays
      <3>10. /\ quarantine[proc[p].archive]["archive"] = OnFile(proc[p].archive)
             /\ quarantine[proc[p].archive]["record"] = OnFile(proc[p].code)
        BY <1>2, <2>1, <2>3 DEF Publishing, Text, OnFile
      <3>11. RejectedIsKept'
        <4> DEFINE new == [kind |-> "rejected", by |-> p, archive |-> proc[p].archive,
                           code |-> proc[p].code]
        <4>1. reports' = reports \cup {new} /\ new.archive = proc[p].archive
              /\ new.code = proc[p].code
          BY <3>2
        <4> HIDE DEF new
        <4> QED
          BY <1>1, <3>10, <4>1 DEF IntakeInv, RejectedIsKept, OnFile
      <3> QED
        BY <3>5, <3>6, <3>7, <3>8, <3>9, <3>11 DEF IntakeInv
    <2> QED
      BY <1>2, <2>2, <2>3 DEF Invocation
  <1> QED
    BY <1>3, <1>4, <1>5 DEF VerifyEntry

LEMMA WriteTemporaryKeeps ==
    ASSUME IntakeInv, NEW p \in Process, CreateFile(p) \/ WriteFile(p)
    PROVE  IntakeInv'
  <1>1. /\ proc[p].at \in {"create", "write"}
        /\ UNCHANGED <<dest, tempDir, quarantine, reports, runs, kills>>
    BY DEF CreateFile, WriteFile
  <1>2. PICK v \in Invocation :
          /\ proc' = [proc EXCEPT ![p] = v] /\ v.archive = proc[p].archive
          /\ v.entry = proc[p].entry /\ v.linked = proc[p].linked
          /\ v.at = "write" \/ (v.at = "link" /\ v.file = "whole")
    <2>1. CASE CreateFile(p)
      <3> DEFINE w == [proc[p] EXCEPT !.at = "write", !.file = "partial"]
      <3>1. /\ w \in Invocation /\ w.archive = proc[p].archive /\ w.at = "write"
            /\ w.entry = proc[p].entry /\ w.linked = proc[p].linked
        BY <1>1, Underway DEF Invocation, Written
      <3>2. proc' = [proc EXCEPT ![p] = w]
        BY <2>1 DEF CreateFile
      <3> HIDE DEF w
      <3> QED
        BY <3>1, <3>2
    <2>2. CASE WriteFile(p)
      <3> DEFINE w == [proc[p] EXCEPT !.at = "link", !.file = "whole"]
      <3>1. /\ w \in Invocation /\ w.archive = proc[p].archive /\ w.at = "link"
            /\ w.entry = proc[p].entry /\ w.linked = proc[p].linked /\ w.file = "whole"
        BY <1>1, Underway DEF Invocation, Written
      <3>2. proc' = [proc EXCEPT ![p] = w]
        BY <2>2 DEF WriteFile
      <3> HIDE DEF w
      <3> QED
        BY <3>1, <3>2
    <2> QED
      BY <2>1, <2>2
  <1>3. proc'[p] = v
    BY <1>2 DEF IntakeInv, TypeOK
  <1>4. Extracting(p)' /\ Publishing(p)'
    BY <1>1, <1>2, <1>3, Underway DEF Extracting, Publishing
  <1> QED
    BY <1>1, <1>2, <1>4, Underway, ProcMoves

\* A step of p that publishes a file or removes the second link of one.
LEMMA PublishStep ==
    ASSUME IntakeInv, NEW p \in Process,
           proc' \in [Process -> Invocation], proc'[p].at # "renamed",
           \A q \in Process : q # p => proc'[q] = proc[q],
           quarantine' \in [Archive -> [{"archive", "record"} -> Entry \cup {NoEntry}]],
           \A b \in Archive, e \in {"archive", "record"} :
             /\ quarantine[b][e] # NoEntry => quarantine'[b][e] # NoEntry
             /\ \A text \in Archive \cup Code :
                  quarantine[b][e] = OnFile(text) => quarantine'[b][e] = OnFile(text),
           RecordHasArchive',
           dest' = dest, tempDir' = tempDir, runs' = runs, kills' = kills,
           reports \subseteq reports', reports' \subseteq Report,
           \A r \in reports' \ reports : r.kind \notin {"accepted", "rejected"},
           Started(p)', Extracting(p)', Publishing(p)'
    PROVE  IntakeInv'
  <1>1. TypeOK'
    BY DEF IntakeInv, TypeOK
  <1>2. ASSUME NEW q \in Process, q # p PROVE Started(q)' /\ Extracting(q)' /\ Publishing(q)'
    <2>1. /\ proc'[q] = proc[q] /\ Started(q) /\ Extracting(q) /\ Publishing(q)
          /\ proc[q] \in Invocation
      BY <1>2 DEF IntakeInv, TypeOK
    <2>2. Started(q)' /\ Extracting(q)'
      BY <2>1 DEF Started, Extracting
    <2>3. CASE proc[q].at = "idle"
      <3>1. Idle.at = "idle" /\ Idle.entry = "archive" /\ ~Idle.linked
        BY DEF Idle
      <3> QED
        BY <2>1, <2>2, <2>3, <3>1 DEF Started, Publishing
    <2>4. CASE proc[q].at # "idle"
      <3>1. proc[q].archive \in Archive /\ proc[q].entry \in {"archive", "record"}
        BY <2>1, <2>4 DEF Started, Invocation
      <3>2. quarantine[proc[q].archive]["archive"] = OnFile(proc[q].archive)
              => quarantine'[proc[q].archive]["archive"] = OnFile(proc[q].archive)
        BY <3>1
      <3>3. quarantine[proc[q].archive][proc[q].entry] # NoEntry
              => quarantine'[proc[q].archive][proc[q].entry] # NoEntry
        BY <3>1
      <3> QED
        BY <2>1, <2>2, <3>2, <3>3 DEF Publishing, OnFile
    <2> QED
      BY <2>2, <2>3, <2>4
  <1>3. NotYetAccepted'
    BY DEF IntakeInv, NotYetAccepted
  <1>4. VisibleIsWhole'
    BY DEF IntakeInv, VisibleIsWhole, DestinationSafe
  <1>5. AcceptedStays'
    BY DEF IntakeInv, AcceptedStays
  <1>6. RejectedIsKept'
    <2> SUFFICES ASSUME NEW r \in reports', r.kind = "rejected"
                 PROVE  /\ quarantine'[r.archive]["archive"] = OnFile(r.archive)
                        /\ quarantine'[r.archive]["record"] = OnFile(r.code)
      BY DEF RejectedIsKept, OnFile
    <2>1. r \in reports /\ r.archive \in Archive /\ r.code \in Code
      BY DEF Report
    <2>2. /\ quarantine[r.archive]["archive"] = OnFile(r.archive)
          /\ quarantine[r.archive]["record"] = OnFile(r.code)
      BY <2>1 DEF IntakeInv, RejectedIsKept, OnFile
    <2> QED
      BY <2>1, <2>2
  <1> QED
    BY <1>1, <1>2, <1>3, <1>4, <1>5, <1>6 DEF IntakeInv

\* link(2) publishes a complete file under a name that was free.
LEMMA LinkFileKeeps ==
    ASSUME IntakeInv, NEW p \in Process, LinkFile(p)
    PROVE  IntakeInv'
  <1> DEFINE a == proc[p].archive
             e == proc[p].entry
  <1>1. proc[p].at = "link" /\ UNCHANGED <<dest, tempDir, reports, runs, kills>>
    BY DEF LinkFile
  <1>2. /\ proc[p] \in Invocation /\ a \in Archive /\ e \in {"archive", "record"}
        /\ proc[p].code \in Code
        /\ proc \in [Process -> Invocation]
        /\ quarantine \in [Archive -> [{"archive", "record"} -> Entry \cup {NoEntry}]]
        /\ reports \subseteq Report
        /\ Extracting(p) /\ Publishing(p)
    BY <1>1, Underway DEF IntakeInv, TypeOK, Invocation
  <1>3. CASE Stored(p) # NoEntry
    <2> DEFINE v == [proc[p] EXCEPT !.at = "unlink"]
    <2>1. proc' = [proc EXCEPT ![p] = v] /\ UNCHANGED quarantine
      BY <1>3 DEF LinkFile, Goto
    <2>2. /\ v \in Invocation /\ v.archive = a /\ v.at = "unlink"
          /\ v.entry = e /\ v.linked = proc[p].linked
      BY <1>2 DEF Invocation
    <2> HIDE DEF v
    <2>3. proc'[p] = v
      BY <1>2, <2>1
    <2>4. Extracting(p)' /\ Publishing(p)'
      BY <1>1, <1>2, <2>1, <2>2, <2>3 DEF Extracting, Publishing
    <2> QED
      BY <1>1, <1>2, <2>1, <2>2, <2>4, Underway, ProcMoves
  <1>4. CASE Stored(p) = NoEntry
    <2> DEFINE v == [proc[p] EXCEPT !.at = "unlink", !.linked = TRUE]
               new == [text |-> Text(p), file |-> proc[p].file, extra |-> TRUE]
    <2>1. /\ proc' = [proc EXCEPT ![p] = v]
          /\ quarantine' = [quarantine EXCEPT ![a][e] = new]
          /\ quarantine[a][e] = NoEntry
      BY <1>4 DEF LinkFile, Stored
    <2>2. /\ v \in Invocation /\ v.archive = a /\ v.at = "unlink"
          /\ v.entry = e /\ v.linked
      BY <1>2 DEF Invocation
    <2>3. /\ new \in Entry /\ new # NoEntry /\ new.file = "whole" /\ new.text = Text(p)
      <3>1. Text(p) \in Archive \cup Code /\ proc[p].file = "whole"
        BY <1>1, <1>2 DEF Text, Publishing
      <3>2. new \in Entry
        BY <3>1 DEF Entry, Written
      <3> QED
        BY <3>1, <3>2, NoEntryAssumption
    <2>4. \A text \in Archive \cup Code : OnFile(text) # NoEntry
      <3>1. \A text \in Archive \cup Code : OnFile(text) \in Entry
        BY DEF OnFile, Entry, Written
      <3> QED
        BY <3>1, NoEntryAssumption
    <2> HIDE DEF v, new
    <2>5. /\ proc' \in [Process -> Invocation] /\ proc'[p] = v
          /\ \A q \in Process : q # p => proc'[q] = proc[q]
      BY <1>2, <2>1, <2>2
    <2>6. /\ quarantine' \in [Archive -> [{"archive", "record"} -> Entry \cup {NoEntry}]]
          /\ quarantine'[a][e] = new
          /\ \A b \in Archive, f \in {"archive", "record"} :
               b # a \/ f # e => quarantine'[b][f] = quarantine[b][f]
      BY <1>2, <2>1, <2>3
    <2>7. \A b \in Archive, f \in {"archive", "record"} :
            /\ quarantine[b][f] # NoEntry => quarantine'[b][f] # NoEntry
            /\ \A text \in Archive \cup Code :
                 quarantine[b][f] = OnFile(text) => quarantine'[b][f] = OnFile(text)
      BY <1>2, <2>1, <2>3, <2>4, <2>6
    <2>8. RecordHasArchive'
      <3> SUFFICES ASSUME NEW b \in Archive
                   PROVE  /\ quarantine'[b]["record"] # NoEntry =>
                               quarantine'[b]["archive"] # NoEntry
                               /\ quarantine'[b]["record"].file = "whole"
                          /\ quarantine'[b]["archive"] # NoEntry =>
                               /\ quarantine'[b]["archive"].file = "whole"
                               /\ quarantine'[b]["archive"].text = b
        BY DEF RecordHasArchive
      <3>1. /\ quarantine[b]["record"] # NoEntry =>
                 quarantine[b]["archive"] # NoEntry /\ quarantine[b]["record"].file = "whole"
            /\ quarantine[b]["archive"] # NoEntry =>
                 /\ quarantine[b]["archive"].file = "whole"
                 /\ quarantine[b]["archive"].text = b
        BY DEF IntakeInv, VisibleIsWhole, RecordHasArchive
      <3>2. CASE b # a
        BY <2>6, <3>1, <3>2
      <3>3. CASE b = a /\ e = "archive"
        <4>1. Text(p) = b
          BY <3>3 DEF Text
        <4> QED
          BY <2>1, <2>3, <2>6, <3>1, <3>3, <4>1
      <3>4. CASE b = a /\ e = "record"
        <4>1. quarantine[b]["archive"] # NoEntry
          BY <1>2, <2>4, <3>4 DEF Publishing, OnFile
        <4> QED
          BY <2>3, <2>6, <3>1, <3>4, <4>1
      <3> QED
        BY <1>2, <3>2, <3>3, <3>4
    <2>9. Started(p)' /\ Extracting(p)'
      BY <1>2, <2>2, <2>5 DEF Started, Extracting
    <2>10. Publishing(p)'
      <3>1. e = "record" => quarantine'[a]["archive"] = OnFile(a)
        BY <1>2, <2>7 DEF Publishing, OnFile
      <3> QED
        BY <1>2, <2>2, <2>3, <2>5, <2>6, <3>1 DEF Publishing, OnFile
    <2> QED
      BY <1>1, <1>2, <2>2, <2>5, <2>6, <2>7, <2>8, <2>9, <2>10, PublishStep
  <1> QED
    BY <1>3, <1>4

LEMMA SecondLinkGone ==
    ASSUME NEW old \in Entry
    PROVE  LET new == [old EXCEPT !.extra = FALSE] IN
           /\ new \in Entry /\ new.file = old.file /\ new.text = old.text
           /\ \A text : old = OnFile(text) => new = OnFile(text)
  <1> DEFINE new == [old EXCEPT !.extra = FALSE]
  <1>1. /\ new \in Entry /\ ~new.extra /\ new.file = old.file /\ new.text = old.text
    BY DEF Entry
  <1> HIDE DEF new
  <1>2. ASSUME NEW text, old = OnFile(text) PROVE new = OnFile(text)
    <2>1. new.text = text /\ new.file = "whole" /\ new.extra = FALSE
      BY <1>1, <1>2 DEF OnFile, Entry
    <2> QED
      BY <1>1, <2>1 DEF OnFile, Entry
  <1> QED
    BY <1>1, <1>2 DEF new

\* Removing the temporary name changes nothing else about a published file.
LEMMA UnlinkFileKeeps ==
    ASSUME IntakeInv, NEW p \in Process, UnlinkFile(p)
    PROVE  IntakeInv'
  <1> DEFINE a == proc[p].archive
             e == proc[p].entry
  <1>1. proc[p].at = "unlink" /\ UNCHANGED <<dest, tempDir, runs, kills>>
    BY DEF UnlinkFile
  <1>2. /\ proc[p] \in Invocation /\ a \in Archive /\ e \in {"archive", "record"}
        /\ proc \in [Process -> Invocation]
        /\ quarantine \in [Archive -> [{"archive", "record"} -> Entry \cup {NoEntry}]]
        /\ reports \subseteq Report
        /\ Extracting(p) /\ Publishing(p)
    BY <1>1, Underway DEF IntakeInv, TypeOK, Invocation
  <1>3. /\ quarantine' \in [Archive -> [{"archive", "record"} -> Entry \cup {NoEntry}]]
        /\ \A b \in Archive, f \in {"archive", "record"} :
             /\ quarantine[b][f] = NoEntry <=> quarantine'[b][f] = NoEntry
             /\ quarantine[b][f] # NoEntry =>
                  /\ quarantine'[b][f].file = quarantine[b][f].file
                  /\ quarantine'[b][f].text = quarantine[b][f].text
             /\ \A text \in Archive \cup Code :
                  quarantine[b][f] = OnFile(text) => quarantine'[b][f] = OnFile(text)
    <2>1. CASE ~proc[p].linked
      BY <1>2, <2>1 DEF UnlinkFile
    <2>2. CASE proc[p].linked
      <3> DEFINE old == quarantine[a][e]
                 new == [old EXCEPT !.extra = FALSE]
      <3>1. old \in Entry
        BY <1>2, <2>2 DEF Publishing
      <3>2. /\ new \in Entry /\ new.file = old.file /\ new.text = old.text
            /\ \A text : old = OnFile(text) => new = OnFile(text)
        BY <3>1, SecondLinkGone
      <3>3. new # NoEntry /\ old # NoEntry
        BY <3>1, <3>2, NoEntryAssumption
      <3>4. quarantine' = [quarantine EXCEPT ![a][e] = new]
        BY <2>2 DEF UnlinkFile
      <3> HIDE DEF new
      <3>5. /\ quarantine' \in [Archive -> [{"archive", "record"} -> Entry \cup {NoEntry}]]
            /\ quarantine'[a][e] = new
            /\ \A b \in Archive, f \in {"archive", "record"} :
                 b # a \/ f # e => quarantine'[b][f] = quarantine[b][f]
        BY <1>2, <3>2, <3>4
      <3> QED
        BY <1>2, <3>2, <3>3, <3>5
    <2> QED
      BY <2>1, <2>2
  <1>4. RecordHasArchive'
    <2>1. RecordHasArchive
      BY DEF IntakeInv, VisibleIsWhole
    <2> QED
      BY <1>3, <2>1 DEF RecordHasArchive
  <1>5. CASE Exit(p, "error")
    <2>1. /\ proc' = [proc EXCEPT ![p] = Idle]
          /\ reports' = reports \cup
               {[kind |-> "error", by |-> p, archive |-> proc[p].archive, code |-> proc[p].code]}
          /\ reports' \subseteq Report
      BY <1>1, <1>5, ExitReports
    <2>2. \A r \in reports' \ reports : r.kind \notin {"accepted", "rejected"}
      BY <2>1
    <2>3. /\ proc' \in [Process -> Invocation] /\ proc'[p] = Idle
          /\ \A q \in Process : q # p => proc'[q] = proc[q]
      BY <1>2, <2>1, IdleType
    <2>4. Idle.at = "idle" /\ Idle.entry = "archive" /\ ~Idle.linked
      BY DEF Idle
    <2>5. Started(p)' /\ Extracting(p)' /\ Publishing(p)'
      BY <2>3, <2>4 DEF Started, Extracting, Publishing
    <2> QED
      BY <1>1, <1>3, <1>4, <2>1, <2>2, <2>3, <2>4, <2>5, PublishStep
  <1>6. CASE /\ proc' = [proc EXCEPT ![p].at = "verify", ![p].again = TRUE,
                                     ![p].file = "none", ![p].linked = FALSE]
             /\ UNCHANGED reports
    <2> DEFINE v == [proc[p] EXCEPT !.at = "verify", !.again = TRUE,
                                    !.file = "none", !.linked = FALSE]
    <2>1. proc' = [proc EXCEPT ![p] = v]
      BY <1>6
    <2>2. /\ v \in Invocation /\ v.archive = a /\ v.at = "verify"
          /\ v.entry = e /\ ~v.linked
      BY <1>2 DEF Invocation, Written
    <2> HIDE DEF v
    <2>3. /\ proc' \in [Process -> Invocation] /\ proc'[p] = v
          /\ \A q \in Process : q # p => proc'[q] = proc[q]
      BY <1>2, <2>1, <2>2
    <2>4. e = "record" => quarantine'[a]["archive"] = OnFile(a)
      BY <1>2, <1>3 DEF Publishing, OnFile
    <2>5. Started(p)' /\ Extracting(p)' /\ Publishing(p)'
      BY <1>2, <2>2, <2>3, <2>4 DEF Started, Extracting, Publishing, OnFile
    <2> QED
      BY <1>1, <1>2, <1>3, <1>4, <1>6, <2>2, <2>3, <2>5, PublishStep
  <1> QED
    BY <1>5, <1>6 DEF UnlinkFile

-----------------------------------------------------------------------------
(* What goes wrong *)

LEMMA FailKeeps ==
    ASSUME IntakeInv, NEW p \in Process, Fail(p)
    PROVE  IntakeInv'
  <1>1. UNCHANGED <<dest, tempDir, quarantine, runs, kills>>
    BY DEF Fail
  <1>2. CASE proc[p].at \in {"opened", "stat", "mkdir", "verify", "create"} /\ Exit(p, "error")
    BY <1>1, <1>2, ExitKeeps
  <1>3. CASE /\ proc[p].at \in {"output", "copy", "rename", "write", "link", "unlink"}
             /\ \E at \in {"cleanup", "unlink"} :
                  /\ proc' = [proc EXCEPT ![p].at = at, ![p].failing = TRUE]
                  /\ at = "unlink" <=> proc[p].at \in {"write", "link", "unlink"}
             /\ UNCHANGED reports
    <2>1. PICK at \in {"cleanup", "unlink"} :
            /\ proc' = [proc EXCEPT ![p].at = at, ![p].failing = TRUE]
            /\ at = "unlink" <=> proc[p].at \in {"write", "link", "unlink"}
      BY <1>3
    <2> DEFINE v == [proc[p] EXCEPT !.at = at, !.failing = TRUE]
    <2>2. proc' = [proc EXCEPT ![p] = v]
      BY <2>1
    <2>3. /\ v \in Invocation /\ v.archive = proc[p].archive /\ v.at = at
          /\ v.entry = proc[p].entry /\ v.linked = proc[p].linked
      BY <1>3, Underway DEF Invocation
    <2> HIDE DEF v
    <2>4. proc'[p] = v
      BY <2>2 DEF IntakeInv, TypeOK
    <2>5. Extracting(p)' /\ Publishing(p)'
      BY <1>1, <1>3, <2>1, <2>3, <2>4, Underway DEF Extracting, Publishing
    <2> QED
      BY <1>1, <1>3, <2>2, <2>3, <2>5, Underway, ProcMoves
  <1> QED
    BY <1>2, <1>3 DEF Fail, FailedPublication

LEMMA KillKeeps ==
    ASSUME IntakeInv, NEW p \in Process, Kill(p)
    PROVE  IntakeInv'
  <1>1. /\ kills' = kills + 1 /\ kills < MaxKills
        /\ tempDir' = [tempDir EXCEPT ![p] = NoEntry]
        /\ proc' = [proc EXCEPT ![p] = Idle]
        /\ UNCHANGED <<dest, quarantine, reports, runs>>
    BY DEF Kill
  <1>2. kills' \in 0..MaxKills
    BY <1>1, IntakeAssumption DEF IntakeInv, TypeOK
  <1>3. /\ tempDir' \in [Process -> Directory \cup {NoEntry}]
        /\ \A q \in Process : q # p => tempDir'[q] = tempDir[q]
        /\ reports \subseteq Report
    BY <1>1 DEF IntakeInv, TypeOK
  <1> QED
    BY <1>1, <1>2, <1>3, ProcEnds

-----------------------------------------------------------------------------
(* The theorems *)

LEMMA InitKeeps == Init => IntakeInv
  <1> SUFFICES ASSUME Init PROVE IntakeInv
    OBVIOUS
  <1>1. TypeOK
    BY IdleType, IntakeAssumption DEF Init, TypeOK
  <1>2. Idle.at = "idle" /\ Idle.entry = "archive" /\ ~Idle.linked
    BY DEF Idle
  <1>3. \A p \in Process : proc[p] = Idle
    BY DEF Init
  <1>4. \A p \in Process : Started(p) /\ Extracting(p) /\ Publishing(p)
    BY <1>2, <1>3 DEF Started, Extracting, Publishing
  <1>5. NotYetAccepted /\ AcceptedStays /\ RejectedIsKept
    BY DEF Init, NotYetAccepted, AcceptedStays, RejectedIsKept
  <1>6. VisibleIsWhole
    BY DEF Init, VisibleIsWhole, DestinationSafe, RecordHasArchive
  <1> QED
    BY <1>1, <1>4, <1>5, <1>6 DEF IntakeInv

LEMMA NextKeeps == IntakeInv /\ [Next]_vars => IntakeInv'
  <1> SUFFICES ASSUME IntakeInv, [Next]_vars PROVE IntakeInv'
    OBVIOUS
  <1>1. CASE UNCHANGED vars
    BY <1>1 DEF IntakeInv, vars, TypeOK, Started, Extracting, Publishing, NotYetAccepted,
       VisibleIsWhole, DestinationSafe, RecordHasArchive, AcceptedStays, RejectedIsKept
  <1>2. ASSUME NEW p \in Process, Begin(p) \/ PreflightMembers(p) PROVE IntakeInv'
    BY <1>2, BeginKeeps, PreflightMembersKeeps
  <1>3. ASSUME NEW p \in Process, Extraction(p) PROVE IntakeInv'
    BY <1>3, StatDestinationKeeps, PrivateDirectoryKeeps, RenameDirectoryKeeps, ExtractedKeeps,
       InterruptAfterRenameKeeps, CleanUpKeeps, InspectDocxKeeps DEF Extraction
  <1>4. ASSUME NEW p \in Process, Quarantine(p) PROVE IntakeInv'
    BY <1>4, VerifyEntryKeeps, WriteTemporaryKeeps, LinkFileKeeps, UnlinkFileKeeps
       DEF Quarantine
  <1>5. ASSUME NEW p \in Process, Fail(p) \/ Kill(p) PROVE IntakeInv'
    BY <1>5, FailKeeps, KillKeeps
  <1> QED
    BY <1>1, <1>2, <1>3, <1>4, <1>5 DEF Next

\* The inductive invariant of the command holds in every reachable state.
THEOREM IntakeInvariance == Spec => []IntakeInv
  BY InitKeeps, NextKeeps, PTL DEF Spec

\* The variables of the command keep their types.
THEOREM IntakeTypes == Spec => []TypeOK
  <1>1. IntakeInv => TypeOK
    BY DEF IntakeInv
  <1> QED
    BY <1>1, IntakeInvariance, PTL

\* Whatever fails and whoever is killed, and wherever: the destination is absent,
\* empty or a whole document that passes the policy of the process that put it
\* there, and the quarantine shows whole files only, no record without its
\* archive.
THEOREM OnlyWholeFilesAppear == Spec => []VisibleIsWhole
  <1>1. IntakeInv => VisibleIsWhole
    BY DEF IntakeInv
  <1> QED
    BY <1>1, IntakeInvariance, PTL

\* A document that `archive inspect` accepted stays at the destination: the
\* cleanup of any other invocation goes through its own private directory, and
\* the rename never replaces a directory with entries.
THEOREM AcceptedDocumentStays == Spec => []AcceptedStays
  <1>1. IntakeInv => AcceptedStays
    BY DEF IntakeInv
  <1> QED
    BY <1>1, IntakeInvariance, PTL

\* The archive and the code of every rejection that was printed stay in the
\* quarantine, with a single link each.
THEOREM RejectionStaysOnFile == Spec => []RejectedIsKept
  <1>1. IntakeInv => RejectedIsKept
    BY DEF IntakeInv
  <1> QED
    BY <1>1, IntakeInvariance, PTL
=============================================================================
