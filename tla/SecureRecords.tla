--------------------------- MODULE SecureRecords ---------------------------
(***************************************************************************)
(* SecureRecordDirectory (manifests/_secure_records.py): one directory of  *)
(* private, create-only records named by the hash of their content.        *)
(*                                                                         *)
(* publish makes a record visible by hard-linking a temporary file that    *)
(* has been written and flushed, and then unlinks the temporary name, so   *)
(* for one step the record has two links. Every read refuses a file whose  *)
(* link count is not one, and content_ids reads every name it lists, the   *)
(* temporary ones too.                                                     *)
(*                                                                         *)
(* A record stands for its own content hash: two records are the same name *)
(* exactly when they are the same bytes. An inode is identified with the   *)
(* temporary name that created it.                                         *)
(***************************************************************************)
EXTENDS Naturals, FiniteSets

CONSTANTS
    Publisher,      \* the processes that may publish into this directory
    Temp,           \* the temporary names, bounding the publications begun
    NoTemp,
    Record,         \* the records that may be published
    Blank           \* the content of a temporary file not yet written

ASSUME RecordAssumption == NoTemp \notin Temp /\ Blank \notin Record

VARIABLES
    temps,          \* the temporary names in the directory
    linked,         \* the record names in the directory, each with its inode
    body,           \* the content of every inode
    pub             \* what each publisher is doing

recordVars == <<temps, linked, body, pub>>

\* A call of publish: the record, the inode of its temporary file and whether
\* this call made the link.
Publication ==
    [at : {"idle", "created", "written", "linked", "unlinked", "stored"},
     rec : Record \cup {Blank}, ino : Temp \cup {NoTemp}, won : BOOLEAN]

NotPublishing == [at |-> "idle", rec |-> Blank, ino |-> NoTemp, won |-> FALSE]

RecordsInit ==
    /\ temps = {}
    /\ linked = {}
    /\ body = [t \in Temp |-> Blank]
    /\ pub = [p \in Publisher |-> NotPublishing]

RecordsTypeOK ==
    /\ temps \subseteq Temp
    /\ linked \subseteq [rec : Record, ino : Temp]
    /\ body \in [Temp -> Record \cup {Blank}]
    /\ pub \in [Publisher -> Publication]
-----------------------------------------------------------------------------
Stored == {e.rec : e \in linked}

\* st_nlink of the inode t.
Links(t) == (IF t \in temps THEN 1 ELSE 0) + Cardinality({e \in linked : e.ino = t})

\* read(): the name exists and passes every status check; the checks after the
\* read repeat the ones before it, so a successful read is one instant.
Readable(r) == \E e \in linked : e.rec = r /\ Links(e.ino) = 1

\* content_ids lists the directory and reads every name it listed. It succeeds
\* only if each of them still exists and has one link when it is read; a name
\* linked meanwhile is not listed. Both hold at the instant of the listing, so
\* a successful enumeration is one step that returns Stored at that instant.
ScanPasses ==
    /\ \A e \in linked : Links(e.ino) = 1
    /\ \A t \in temps : Links(t) = 1
-----------------------------------------------------------------------------
(* publish(), one action per system call that other processes can see.     *)

CreateTemporary(p, r) ==
    /\ pub[p].at = "idle"
    /\ \E t \in Temp :
         /\ t \notin temps /\ body[t] = Blank
         /\ \A q \in Publisher : pub[q].ino # t
         /\ temps' = temps \cup {t}
         /\ pub' = [pub EXCEPT ![p] =
                      [at |-> "created", rec |-> r, ino |-> t, won |-> FALSE]]
    /\ UNCHANGED <<linked, body>>

WriteTemporary(p) ==
    /\ pub[p].at = "created"
    /\ body' = [body EXCEPT ![pub[p].ino] = pub[p].rec]
    /\ pub' = [pub EXCEPT ![p].at = "written"]
    /\ UNCHANGED <<temps, linked>>

\* os.link, which fails when the name exists; that is not an error here.
LinkRecord(p) ==
    /\ pub[p].at = "written"
    /\ LET free == pub[p].rec \notin Stored IN
         /\ linked' = IF free
                      THEN linked \cup {[rec |-> pub[p].rec, ino |-> pub[p].ino]}
                      ELSE linked
         /\ pub' = [pub EXCEPT ![p].at = "linked", ![p].won = free]
    /\ UNCHANGED <<temps, body>>

UnlinkTemporary(p) ==
    /\ pub[p].at = "linked"
    /\ temps' = temps \ {pub[p].ino}
    /\ pub' = [pub EXCEPT ![p].at = "unlinked"]
    /\ UNCHANGED <<linked, body>>

\* The read back of the stored bytes, which must be the ones published.
ReadBack(p) ==
    /\ pub[p].at = "unlinked"
    /\ Readable(pub[p].rec)
    /\ \A e \in linked : e.rec = pub[p].rec => body[e.ino] = pub[p].rec
    /\ pub' = [pub EXCEPT ![p].at = "stored"]
    /\ UNCHANGED <<temps, linked, body>>

\* The except and finally clauses: a publisher that fails unlinks the record
\* only if it still names the inode this publisher linked, and its temporary
\* name if it is still there.
UndoPublish(p) ==
    /\ linked' = {e \in linked : ~(pub[p].won /\ pub[p].at # "stored"
                                    /\ e.rec = pub[p].rec /\ e.ino = pub[p].ino)}
    /\ temps' = temps \ {pub[p].ino}
    /\ pub' = [pub EXCEPT ![p] = NotPublishing]
    /\ UNCHANGED body

\* publish() has returned to its caller.
EndPublish(p) ==
    /\ pub' = [pub EXCEPT ![p] = NotPublishing]
    /\ UNCHANGED <<temps, linked, body>>
=============================================================================
