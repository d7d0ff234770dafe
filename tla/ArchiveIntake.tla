---------------------------- MODULE ArchiveIntake ----------------------------
(***************************************************************************)
(* `archive inspect`: the extraction of one expected document from a       *)
(* downloaded archive (ingestion/archive.py) or the quarantine of an       *)
(* archive that breaks the policy (ingestion/quarantine.py), by several    *)
(* invocations of the command that share a destination and a quarantine    *)
(* directory, with failing system calls, interrupts and killed processes.  *)
(*                                                                         *)
(* A step is one system call, or a run of them that no other process can   *)
(* tell apart. The archive is copied before it is read, so what its path   *)
(* holds later does not matter: a copy is one of the archives of Archive.  *)
(***************************************************************************)
EXTENDS Naturals, FiniteSetsExt, SequencesExt

CONSTANTS
    Process,
    Archive,            \* sha256 of an archive
    Contents,           \* what zipfile sees in each archive
    PolicyOf,           \* the ArchivePolicy each process runs with
    CopyChunk,          \* _COPY_CHUNK_BYTES
    NoEntry,            \* a name that does not exist
    MaxRuns,            \* invocations of the command
    MaxKills            \* invocations killed

\* early: a fault of the member's path, type or encryption; late: of its
\* compression ratio or its name. actual and ends say what reading it gives.
ZipInfo ==
    [early : STRING, declared : Nat, late : STRING, actual : Nat,
     ends : {"eof", "bad_crc", "raises"}]

ASSUME IntakeAssumption ==
    /\ NoEntry \notin Archive
    /\ MaxRuns \in Nat /\ MaxKills \in Nat /\ CopyChunk \in Nat \ {0}
    /\ Contents \in [Archive -> [zip : BOOLEAN, members : Seq(ZipInfo)]]
    /\ PolicyOf \in [Process -> [members : Nat, member : Nat, total : Nat]]

VARIABLES
    proc,               \* the locals of each invocation
    dest,               \* the destination directory
    tempDir,            \* the private directory of each extraction
    quarantine,         \* <sha256>/archive.zip and <sha256>/record.json
    reports,            \* history: what the invocations printed
    runs, kills         \* counters

vars == <<proc, dest, tempDir, quarantine, reports, runs, kills>>
-----------------------------------------------------------------------------
(* _preflight_members and the copy loop of _extract_member *)

Declared(members, i) == MapThenSumSet(LAMBDA j : members[j].declared, 1..i)

FaultOf(members, i, policy) ==
    IF members[i].early # "none" THEN members[i].early
    ELSE IF members[i].declared > policy.member THEN "member_too_large"
    ELSE IF Declared(members, i) > policy.total THEN "total_too_large"
    ELSE members[i].late

\* The code of the first fault, in the order of the archive's members.
Preflight(a, policy) ==
    LET members == Contents[a].members
        faulty == {i \in DOMAIN members : FaultOf(members, i, policy) # "none"} IN
    IF ~Contents[a].zip THEN "invalid_zip"
    ELSE IF Len(members) > policy.members THEN "too_many_members"
    ELSE IF faulty # {} THEN FaultOf(members, Min(faulty), policy)
    ELSE IF Len(members) = 1 THEN "none" ELSE "unexpected_member"

\* Mutant: the limits are compared with what the member declares only.
CopyFaultDeclared(a, policy) ==
    IF Contents[a].members[1].ends = "bad_crc" THEN "invalid_zip" ELSE "none"

\* The values of byte_count that are compared with the limits. The read that
\* reaches the end of a member with a bad checksum raises instead.
ByteCounts(member) ==
    {n \in 1..member.actual : IF n = member.actual THEN member.ends # "bad_crc"
                              ELSE n % CopyChunk = 0}

\* The limits are compared again with what is really read, chunk by chunk and
\* the member's first: a smaller total is met first when a chunk ends between.
CopyFault(a, policy) ==
    LET member == Contents[a].members[1] IN
    IF \E n \in ByteCounts(member) : policy.total < n /\ n <= policy.member
    THEN "total_too_large"
    ELSE IF \E n \in ByteCounts(member) : n > policy.member THEN "member_too_large"
    ELSE IF member.ends = "bad_crc" THEN "invalid_zip"
    ELSE IF member.actual = member.declared THEN "none" ELSE "size_mismatch"
-----------------------------------------------------------------------------
\* archive, the copy being handled; code, why it is refused; entry, the file of
\* the quarantine being published; again, is it verified for the second time;
\* file, the temporary file; linked, is it published; failing, is an exception
\* on its way out.
Idle ==
    [at |-> "idle", archive |-> NoEntry, code |-> "none", entry |-> "archive",
     again |-> FALSE, file |-> "none", linked |-> FALSE, failing |-> FALSE]

Code == {"none", "invalid_zip", "too_many_members", "member_too_large", "total_too_large",
         "unexpected_member", "size_mismatch"}
          \cup UNION {{m.early, m.late} : m \in UNION {ToSet(Contents[a].members) : a \in Archive}}

Written == {"none", "partial", "whole"}
Directory == [archive : Archive, by : Process, file : Written]

\* extra: the published file still has its temporary name, st_nlink = 2.
Entry == [text : Archive \cup Code, file : Written, extra : BOOLEAN]

ASSUME NoEntryAssumption == NoEntry \notin Directory \cup Entry

Report ==
    [kind : {"accepted", "rejected", "refused", "error"},
     by : Process, archive : Archive, code : Code]

Invocation ==
    [at : {"idle", "opened", "stat", "mkdir", "output", "copy", "rename", "renamed",
           "cleanup", "inspect", "verify", "create", "write", "link", "unlink"},
     archive : Archive \cup {NoEntry}, code : Code,
     entry : {"archive", "record"}, again : BOOLEAN,
     file : Written, linked : BOOLEAN, failing : BOOLEAN]

TypeOK ==
    /\ proc \in [Process -> Invocation]
    /\ dest \in Directory \cup {NoEntry}
    /\ tempDir \in [Process -> Directory \cup {NoEntry}]
    /\ quarantine \in [Archive -> [{"archive", "record"} -> Entry \cup {NoEntry}]]
    /\ reports \subseteq Report
    /\ runs \in 0..MaxRuns /\ kills \in 0..MaxKills

Init ==
    /\ proc = [p \in Process |-> Idle]
    /\ dest = NoEntry
    /\ tempDir = [p \in Process |-> NoEntry]
    /\ quarantine = [a \in Archive |-> [e \in {"archive", "record"} |-> NoEntry]]
    /\ reports = {}
    /\ runs = 0 /\ kills = 0

Goto(p, at) == proc' = [proc EXCEPT ![p].at = at]

\* The invocation prints its result, a rejection code or an error, and exits.
Exit(p, kind) ==
    /\ proc' = [proc EXCEPT ![p] = Idle]
    /\ reports' = reports \cup
         {[kind |-> kind, by |-> p, archive |-> proc[p].archive, code |-> proc[p].code]}

Begin(p) ==
    /\ proc[p].at = "idle" /\ runs < MaxRuns
    /\ runs' = runs + 1
    /\ \E a \in Archive : proc' = [proc EXCEPT ![p] = [Idle EXCEPT !.at = "opened", !.archive = a]]
    /\ UNCHANGED <<dest, tempDir, quarantine, reports, kills>>

PreflightMembers(p) ==
    /\ proc[p].at = "opened"
    /\ LET code == Preflight(proc[p].archive, PolicyOf[p]) IN
         proc' = [proc EXCEPT ![p].code = code, ![p].at = IF code = "none" THEN "stat" ELSE "verify"]
    /\ UNCHANGED <<dest, tempDir, quarantine, reports, runs, kills>>
-----------------------------------------------------------------------------
(* _extract_member *)

StatDestination(p) ==
    /\ proc[p].at = "stat"
    /\ \/ dest = NoEntry /\ Goto(p, "mkdir") /\ UNCHANGED reports
       \/ dest # NoEntry /\ Exit(p, "error")
    /\ UNCHANGED <<dest, tempDir, quarantine, runs, kills>>

CreateDirectory(p) ==
    /\ proc[p].at = "mkdir"
    /\ Goto(p, "output")
    /\ tempDir' = [tempDir EXCEPT ![p] = [archive |-> proc[p].archive, by |-> p, file |-> "none"]]
    /\ UNCHANGED <<dest, quarantine, reports, runs, kills>>

OpenOutput(p) ==
    /\ proc[p].at = "output"
    /\ Goto(p, "copy")
    /\ tempDir' = [tempDir EXCEPT ![p].file = "partial"]
    /\ UNCHANGED <<dest, quarantine, reports, runs, kills>>

\* The member is copied, or refused on the way, or cannot be decompressed,
\* which is none of the exceptions that lead to the quarantine.
CopyMember(p) ==
    /\ proc[p].at = "copy"
    /\ LET a == proc[p].archive
           code == CopyFault(a, PolicyOf[p]) IN
         \/ /\ Contents[a].members[1].ends # "raises" /\ code = "none"
            /\ Goto(p, "rename")
            /\ tempDir' = [tempDir EXCEPT ![p].file = "whole"]
         \/ /\ Contents[a].members[1].ends # "raises" /\ code # "none"
            /\ proc' = [proc EXCEPT ![p].at = "cleanup", ![p].code = code]
            /\ UNCHANGED tempDir
         \/ /\ Contents[a].members[1].ends = "raises"
            /\ proc' = [proc EXCEPT ![p].at = "cleanup", ![p].failing = TRUE]
            /\ UNCHANGED tempDir
    /\ UNCHANGED <<dest, quarantine, reports, runs, kills>>

\* rename(2) onto a directory that has entries fails.
RenameDirectory(p) ==
    /\ proc[p].at = "rename"
    /\ IF dest = NoEntry \/ dest.file = "none"
       THEN /\ dest' = tempDir[p]
            /\ tempDir' = [tempDir EXCEPT ![p] = NoEntry]
            /\ Goto(p, "renamed")
       ELSE /\ proc' = [proc EXCEPT ![p].at = "cleanup", ![p].failing = TRUE]
            /\ UNCHANGED <<dest, tempDir>>
    /\ UNCHANGED <<quarantine, reports, runs, kills>>

Extracted(p) ==
    /\ proc[p].at = "renamed"
    /\ Goto(p, "inspect")
    /\ UNCHANGED <<dest, tempDir, quarantine, reports, runs, kills>>

\* The descriptor cannot be closed, or an interrupt comes before it is forgotten:
\* the handler removes the document through it, and the destination stays empty.
InterruptAfterRename(p) ==
    /\ proc[p].at = "renamed"
    /\ dest' = [dest EXCEPT !.file = "none"]
    /\ Exit(p, "error")
    /\ UNCHANGED <<tempDir, quarantine, runs, kills>>

\* Mutant: the document is removed by the path it was to have.
DestinationAfterByPath(p) == IF dest = NoEntry THEN dest ELSE [dest EXCEPT !.file = "none"]

\* The document is removed through the descriptor of the private directory.
DestinationAfter(p) == dest

PrivateAfter(p) == NoEntry

\* The handler of _extract_member; the archive goes on to the quarantine when
\* the exception is a rejection.
CleanUp(p) ==
    /\ proc[p].at = "cleanup"
    /\ tempDir' = [tempDir EXCEPT ![p] = PrivateAfter(p)]
    /\ dest' = DestinationAfter(p)
    /\ IF proc[p].failing THEN Exit(p, "error") ELSE Goto(p, "verify") /\ UNCHANGED reports
    /\ UNCHANGED <<quarantine, runs, kills>>

\* inspect_docx, which leaves the destination where it is.
InspectDocx(p) ==
    /\ proc[p].at = "inspect"
    /\ \E kind \in {"accepted", "refused", "error"} : Exit(p, kind)
    /\ UNCHANGED <<dest, tempDir, quarantine, runs, kills>>
-----------------------------------------------------------------------------
(* quarantine_archive *)

Stored(p) == quarantine[proc[p].archive][proc[p].entry]

\* What the file published by p has to say.
Text(p) == IF proc[p].entry = "archive" THEN proc[p].archive ELSE proc[p].code

\* Mutant: a file that exists is taken for the one expected.
MatchesAny(p) == TRUE

\* _verify_archive and _verify_record, of a file that exists.
Matches(p) == ~Stored(p).extra /\ Stored(p).file = "whole" /\ Stored(p).text = Text(p)

\* The archive is dealt with before the record, and then the rejection is
\* raised to the command.
NextEntry(p) ==
    IF proc[p].entry = "archive"
    THEN /\ proc' = [proc EXCEPT ![p].entry = "record", ![p].again = FALSE, ![p].at = "verify"]
         /\ UNCHANGED reports
    ELSE Exit(p, "rejected")

\* A file found missing is published, and one that is not the expected one
\* raises FileExistsError. The second check would let a missing file pass, but
\* nothing removes one.
VerifyEntry(p) ==
    /\ proc[p].at = "verify"
    /\ \/ /\ Stored(p) = NoEntry /\ ~proc[p].again
          /\ Goto(p, "create") /\ UNCHANGED reports
       \/ Stored(p) # NoEntry /\ Matches(p) /\ NextEntry(p)
       \/ Stored(p) # NoEntry /\ ~Matches(p) /\ Exit(p, "error")
    /\ UNCHANGED <<dest, tempDir, quarantine, runs, kills>>

CreateFile(p) ==
    /\ proc[p].at = "create"
    /\ proc' = [proc EXCEPT ![p].at = "write", ![p].file = "partial"]
    /\ UNCHANGED <<dest, tempDir, quarantine, reports, runs, kills>>

WriteFile(p) ==
    /\ proc[p].at = "write"
    /\ proc' = [proc EXCEPT ![p].at = "link", ![p].file = "whole"]
    /\ UNCHANGED <<dest, tempDir, quarantine, reports, runs, kills>>

\* link(2) never replaces; a name that exists is left to the second check.
LinkFile(p) ==
    /\ proc[p].at = "link"
    /\ IF Stored(p) = NoEntry
       THEN /\ quarantine' = [quarantine EXCEPT ![proc[p].archive][proc[p].entry] =
                                [text |-> Text(p), file |-> proc[p].file, extra |-> TRUE]]
            /\ proc' = [proc EXCEPT ![p].at = "unlink", ![p].linked = TRUE]
       ELSE Goto(p, "unlink") /\ UNCHANGED quarantine
    /\ UNCHANGED <<dest, tempDir, reports, runs, kills>>

UnlinkFile(p) ==
    /\ proc[p].at = "unlink"
    /\ quarantine' = IF proc[p].linked
                     THEN [quarantine EXCEPT ![proc[p].archive][proc[p].entry].extra = FALSE]
                     ELSE quarantine
    /\ IF proc[p].failing
       THEN Exit(p, "error")
       ELSE /\ proc' = [proc EXCEPT ![p].at = "verify", ![p].again = TRUE,
                                    ![p].file = "none", ![p].linked = FALSE]
            /\ UNCHANGED reports
    /\ UNCHANGED <<dest, tempDir, runs, kills>>
-----------------------------------------------------------------------------
(* What goes wrong *)

FailedPublication(p) == proc' = [proc EXCEPT ![p].at = "unlink", ![p].failing = TRUE]

\* A system call other than a removal fails, or a directory was replaced: what
\* has been created is removed on the way out.
Fail(p) ==
    /\ \/ /\ proc[p].at \in {"opened", "stat", "mkdir", "verify", "create"}
          /\ Exit(p, "error")
       \/ /\ proc[p].at \in {"output", "copy", "rename"}
          /\ proc' = [proc EXCEPT ![p].at = "cleanup", ![p].failing = TRUE]
          /\ UNCHANGED reports
       \/ /\ \/ proc[p].at \in {"write", "link"}
             \/ proc[p].at = "unlink" /\ proc[p].linked /\ ~proc[p].failing
          /\ FailedPublication(p)
          /\ UNCHANGED reports
    /\ UNCHANGED <<dest, tempDir, quarantine, runs, kills>>

\* The process is killed. Its temporary names are random and never met again,
\* but a second link to a published file remains.
Kill(p) ==
    /\ proc[p].at # "idle" /\ kills < MaxKills
    /\ kills' = kills + 1
    /\ tempDir' = [tempDir EXCEPT ![p] = NoEntry]
    /\ proc' = [proc EXCEPT ![p] = Idle]
    /\ UNCHANGED <<dest, quarantine, reports, runs>>

Extraction(p) ==
    \/ StatDestination(p) \/ CreateDirectory(p) \/ OpenOutput(p) \/ CopyMember(p)
    \/ RenameDirectory(p) \/ Extracted(p) \/ InterruptAfterRename(p) \/ CleanUp(p)
    \/ InspectDocx(p)

Quarantine(p) ==
    VerifyEntry(p) \/ CreateFile(p) \/ WriteFile(p) \/ LinkFile(p) \/ UnlinkFile(p)

Next ==
    \E p \in Process :
      Begin(p) \/ PreflightMembers(p) \/ Extraction(p) \/ Quarantine(p) \/ Fail(p) \/ Kill(p)

Spec == Init /\ [][Next]_vars
-----------------------------------------------------------------------------
\* The destination never shows part of a document, nor one that the policy of
\* the process that put it there refuses, whoever dies and wherever: it is
\* absent, whole, or the empty directory an interrupt leaves.
DestinationSafe ==
    dest # NoEntry /\ dest.file # "none" =>
      LET document == Contents[dest.archive].members[1]
          policy == PolicyOf[dest.by] IN
      /\ dest.file = "whole"
      /\ Preflight(dest.archive, policy) = "none"
      /\ document.actual = document.declared
      /\ document.actual <= policy.member /\ document.actual <= policy.total

\* The document that an invocation accepted is still there, unchanged: no later
\* invocation, and no failure of one, replaces or removes it.
AcceptedStays ==
    \A r \in reports : r.kind = "accepted" =>
      dest = [archive |-> r.archive, by |-> r.by, file |-> "whole"]

\* A rejection that was printed is on file for good: the whole archive, and a
\* record with the code that was printed.
RejectedIsKept ==
    \A r \in reports : r.kind = "rejected" =>
      /\ quarantine[r.archive]["archive"] = [text |-> r.archive, file |-> "whole", extra |-> FALSE]
      /\ quarantine[r.archive]["record"] = [text |-> r.code, file |-> "whole", extra |-> FALSE]

\* A record speaks of an archive that is in the quarantine, and neither is ever
\* seen unfinished, through failures and kills at any point.
RecordHasArchive ==
    \A a \in Archive :
      LET q == quarantine[a] IN
      /\ q["record"] # NoEntry => q["archive"] # NoEntry /\ q["record"].file = "whole"
      /\ q["archive"] # NoEntry => q["archive"].file = "whole" /\ q["archive"].text = a

\* Nothing partial is ever visible to others: neither at the destination nor in
\* the quarantine, and no record without its archive.
VisibleIsWhole == DestinationSafe /\ RecordHasArchive
=============================================================================
