----------------------------- MODULE AuditChain -----------------------------
(***************************************************************************)
(* The tamper-evident audit log of                                         *)
(* internal/store/sqlstore/sql_audit_chain.go: replicas append rows to one *)
(* hash chain, the leader's maintenance moves old rows to an archive table *)
(* and checks the chain, and a request may check it at any time.           *)
(*                                                                         *)
(* An append is one transaction under the lock of the head row.  The       *)
(* archive and the check are several statements each, without a            *)
(* transaction: other replicas act between them and the process may end    *)
(* between any two.  Two replicas may archive at once while leadership     *)
(* changes hands.                                                          *)
(*                                                                         *)
(* A hash is the sequence of the contents it covers: two hashes are equal  *)
(* only if they cover the same rows, which is what SHA-256 stands for.     *)
(* Row IDs are given out in order and a row keeps its ID in the archive,   *)
(* so both tables are sets of IDs.  The counters and texts of the result   *)
(* of a check are left out, as are libraries without the chain's columns.  *)
(***************************************************************************)
EXTENDS Integers, Sequences, FiniteSets, FiniteSetsExt

CONSTANTS
    Replicas,   \* control planes that archive
    Tenants,
    Platform,   \* the scope of a check over all tenants
    Retain,     \* age from which a row is archived
    Skew,       \* how far a row's created_at may lie behind its append
    Batch,      \* rows per archive round
    Limit,      \* rows a check looks at
    MaxRows, MaxTime, MaxTampers    \* bounds of the model

ASSUME ConfigAssumption ==
    /\ Batch \in Nat \ {0} /\ Limit \in Nat \ {0}
    /\ Retain \in Nat /\ Skew \in Nat
    /\ Platform \notin Tenants
    /\ MaxRows \in Nat /\ MaxTime \in Nat

VARIABLES
    now,        \* the clock, in units of the retention
    row,        \* every row ever written, by ID
    online,     \* IDs in audit_log
    archive,    \* IDs in audit_log_archive
    head,       \* audit_chain_head: last_id and last_hash
    meta,       \* audit_archive_meta: archived_through_id and boundary_hash
    archiver,   \* per replica: where its ArchiveAuditLog is
    verifier,   \* a VerifyAuditChain under way
    tampered,   \* rows altered or removed by hand
    overlapped  \* two replicas have archived at once

tables == <<row, online, archive, head, meta>>
vars == <<now, tables, archiver, verifier, tampered, overlapped>>

\* The empty string: the hash before the first row, and the entry_hash of a row
\* that is not part of the chain.
NoHash == <<>>

\* auditEntryHash: covers the hash before and the fields of the row.
auditEntryHash(prev, r) == Append(prev, <<r.tenant, r.fields, r.at>>)

Chained(ids) == {i \in ids : row[i].entry # NoHash}

\* The last chained ID among ids, 0 if there is none; and its hash.
LastOf(ids) == IF Chained(ids) = {} THEN 0 ELSE Max(Chained(ids))
HashOf(i) == IF i = 0 THEN NoHash ELSE row[i].entry

Idle == [phase |-> "idle", cutoff |-> 0, ids |-> {}, hash |-> NoHash]
NotVerifying == [phase |-> "idle", scope |-> Platform, headRead |-> [id |-> 0, hash |-> NoHash],
                 ids |-> {}, calm |-> TRUE, ok |-> TRUE]
-----------------------------------------------------------------------------
Init ==
    /\ now = 0
    /\ row = <<>> /\ online = {} /\ archive = {}
    /\ head = [id |-> 0, hash |-> NoHash]
    /\ meta = [through |-> 0, boundary |-> NoHash]
    /\ archiver = [p \in Replicas |-> Idle]
    /\ verifier = NotVerifying
    /\ tampered = [altered |-> {}, removed |-> {}]
    /\ overlapped = FALSE

Tick ==
    /\ now < MaxTime /\ now' = now + 1
    /\ UNCHANGED <<tables, archiver, verifier, tampered, overlapped>>

\* insertChainedAudit: lock the head, write the row after it, move the head.
insertChainedAudit(t, at) ==
    /\ Len(row) < MaxRows
    /\ LET r == [tenant |-> t, fields |-> "event", at |-> at, prev |-> head.hash]
           entry == auditEntryHash(head.hash, r)
       IN  /\ row' = Append(row, [tenant |-> t, fields |-> "event", at |-> at,
                                  prev |-> head.hash, entry |-> entry])
           /\ head' = [id |-> Len(row) + 1, hash |-> entry]
    /\ online' = online \cup {Len(row) + 1}
    /\ verifier' = [verifier EXCEPT !.calm = @ /\ verifier.phase # "head"]
    /\ UNCHANGED <<now, archive, meta, archiver, tampered, overlapped>>

\* Audit when the transaction failed three times: the row is written without
\* a hash and is no part of the chain.
AuditUnchained(t, at) ==
    /\ Len(row) < MaxRows
    /\ row' = Append(row, [tenant |-> t, fields |-> "event", at |-> at,
                           prev |-> NoHash, entry |-> NoHash])
    /\ online' = online \cup {Len(row) + 1}
    /\ UNCHANGED <<now, archive, head, meta, archiver, verifier, tampered, overlapped>>

\* Mutant: the time of an event lies in the future.
AuditAhead ==
    \E t \in Tenants : insertChainedAudit(t, now + 1) \/ AuditUnchained(t, now + 1)

\* An event: its time was taken before the lock of the head was.
Audit ==
    \E t \in Tenants, d \in 0..Skew :
        /\ d <= now
        /\ insertChainedAudit(t, now - d) \/ AuditUnchained(t, now - d)
-----------------------------------------------------------------------------
(***************************************************************************)
(* ArchiveAuditLog: rounds of a batch each, until one is not full.         *)
(***************************************************************************)
Step(p, phase) == archiver' = [archiver EXCEPT ![p].phase = phase]

\* auditArchiveBatch: the old rows with the lowest IDs, and the last hash among
\* them.  The age is reckoned once, when ArchiveAuditLog starts.
auditArchiveBatch(p) ==
    LET cutoff == IF archiver[p].phase = "idle" THEN now - Retain ELSE archiver[p].cutoff
        aged == {i \in online : row[i].at < cutoff}
        ids == {i \in aged : Cardinality({j \in aged : j < i}) < Batch}
    IN  /\ archiver[p].phase \in {"idle", "select"}
        /\ archiver' = [archiver EXCEPT ![p] =
                          IF ids = {} THEN Idle
                          ELSE [phase |-> "insert", cutoff |-> cutoff, ids |-> ids,
                                hash |-> HashOf(LastOf(ids))]]
        /\ overlapped' = (overlapped \/ \E q \in Replicas \ {p} : archiver[q].phase # "idle")
        /\ UNCHANGED <<now, tables, verifier, tampered>>

\* auditArchiveCommit, statement by statement.
InsertArchive(p) ==
    /\ archiver[p].phase = "insert"
    /\ archive' = archive \cup (archiver[p].ids \cap online)
    /\ Step(p, "delete")
    /\ UNCHANGED <<now, row, online, head, meta, verifier, tampered, overlapped>>

\* Mutant: the rows are deleted by age and not by the list that was copied.
DeleteAged(p) ==
    /\ archiver[p].phase = "delete"
    /\ online' = {i \in online : row[i].at >= archiver[p].cutoff}
    /\ Step(p, "meta")
    /\ UNCHANGED <<now, row, archive, head, meta, verifier, tampered, overlapped>>

DeleteOnline(p) ==
    /\ archiver[p].phase = "delete"
    /\ online' = online \ archiver[p].ids
    /\ Step(p, "meta")
    /\ UNCHANGED <<now, row, archive, head, meta, verifier, tampered, overlapped>>

\* A batch without a chained row keeps the boundary that was there; where it cannot
\* be read, the error is passed over and the boundary is lost.
AdvanceMeta(p) ==
    /\ archiver[p].phase = "meta"
    /\ \E b \in IF archiver[p].hash = NoHash THEN {meta.boundary, NoHash}
               ELSE {archiver[p].hash} :
          /\ meta' = [through |-> Max(archiver[p].ids), boundary |-> b]
          /\ archiver' = [archiver EXCEPT ![p].phase = "head", ![p].hash = b]
    /\ UNCHANGED <<now, row, online, archive, head, verifier, tampered, overlapped>>

\* What the head row becomes when its own row was archived.
Rollback(p) ==
    LET i == LastOf(online)
    IN  IF i # 0 THEN [id |-> i, hash |-> HashOf(i)]
        ELSE [id |-> Max(archiver[p].ids), hash |-> archiver[p].hash]

\* Mutant: the head is set back whether or not its row was archived.
RollBackHeadAlways(p) ==
    /\ archiver[p].phase = "head"
    /\ head' = Rollback(p)
    /\ archiver' = [archiver EXCEPT ![p] =
                      IF Cardinality(archiver[p].ids) < Batch THEN Idle
                      ELSE [@ EXCEPT !.phase = "select", !.ids = {}, !.hash = NoHash]]
    /\ UNCHANGED <<now, row, online, archive, meta, verifier, tampered, overlapped>>

RollBackHead(p) ==
    /\ archiver[p].phase = "head"
    /\ head' = IF head.id \in archiver[p].ids THEN Rollback(p) ELSE head
    /\ archiver' = [archiver EXCEPT ![p] =
                      IF Cardinality(archiver[p].ids) < Batch THEN Idle
                      ELSE [@ EXCEPT !.phase = "select", !.ids = {}, !.hash = NoHash]]
    /\ UNCHANGED <<now, row, online, archive, meta, verifier, tampered, overlapped>>

\* A statement fails, the deadline passes or the process ends.
Interrupt(p) ==
    /\ archiver[p].phase # "idle"
    /\ archiver' = [archiver EXCEPT ![p] = Idle]
    /\ UNCHANGED <<now, tables, verifier, tampered, overlapped>>
-----------------------------------------------------------------------------
(***************************************************************************)
(* VerifyAuditChain.  The head, the rows and the row before them are read  *)
(* one after the other.                                                    *)
(***************************************************************************)
ReadHead ==
    /\ verifier.phase = "idle"
    /\ \E s \in Tenants \cup {Platform} :
          verifier' = [NotVerifying EXCEPT !.phase = "head", !.scope = s, !.headRead = head]
    /\ UNCHANGED <<now, tables, archiver, tampered, overlapped>>

InScope(i) == verifier.scope \in {Platform, row[i].tenant}

\* The window: the last Limit chained rows of the scope.  None: nothing to check.
ReadRows ==
    LET all == {i \in Chained(online) : InScope(i)}
        ids == {i \in all : Cardinality({j \in all : j > i}) < Limit}
    IN  /\ verifier.phase = "head"
        /\ verifier' = [verifier EXCEPT !.ids = ids,
                          !.phase = IF ids = {} THEN "done" ELSE "rows"]
        /\ UNCHANGED <<now, tables, archiver, tampered, overlapped>>

\* Every row hashes to its entry, and each follows the one before it.  A
\* tenant's check cannot see the rows of others between two of its own: it
\* compares neighbours only.
Linked(before, i, ids) ==
    LET lower == {j \in ids : j < i}
        follows == IF lower = {} THEN row[i].prev = before
                   ELSE row[i].prev = row[Max(lower)].entry
    IN  /\ row[i].entry = auditEntryHash(row[i].prev, row[i])
        /\ \/ follows
           \/ verifier.scope # Platform /\ lower # {} /\ Max(lower) # i - 1

\* Mutant: the head is not compared.
HeadUnchecked(ids) == verifier.headRead.id <= MaxRows

\* The head row is the last row of the window; a tenant's window may end before.
HeadConsistent(ids) ==
    IF verifier.headRead.id = Max(ids) THEN verifier.headRead.hash = row[Max(ids)].entry
    ELSE verifier.scope # Platform

Conclude(before) ==
    verifier' = [verifier EXCEPT !.phase = "done",
                   !.ok = /\ \A i \in verifier.ids : Linked(before, i, verifier.ids)
                          /\ HeadConsistent(verifier.ids)]

Below(ids) == {i \in ids : i < Min(verifier.ids)}

\* The row before the window, online or else in the archive.
ReadPredecessor ==
    /\ verifier.phase = "rows"
    /\ IF Chained(Below(online)) # {}
       THEN Conclude(HashOf(LastOf(Below(online))))
       ELSE verifier' = [verifier EXCEPT !.phase = "archive"]
    /\ UNCHANGED <<now, tables, archiver, tampered, overlapped>>

\* Mutant: the recorded boundary is taken for the row before the window.
ReadBoundary ==
    /\ verifier.phase = "archive"
    /\ Conclude(meta.boundary)
    /\ UNCHANGED <<now, tables, archiver, tampered, overlapped>>

ReadArchived ==
    /\ verifier.phase = "archive"
    /\ Conclude(HashOf(LastOf(Below(archive))))
    /\ UNCHANGED <<now, tables, archiver, tampered, overlapped>>

EndVerify ==
    /\ verifier.phase = "done"
    /\ verifier' = NotVerifying
    /\ UNCHANGED <<now, tables, archiver, tampered, overlapped>>
-----------------------------------------------------------------------------
(***************************************************************************)
(* What the chain is there for: a row is changed or removed by hand.       *)
(***************************************************************************)
Tamper ==
    /\ Cardinality(tampered.altered \cup tampered.removed) < MaxTampers
    /\ verifier.phase = "idle"
    /\ \E i \in Chained(online) \ archive :
          \/ /\ row' = [row EXCEPT ![i].fields = "forged"]
             /\ tampered' = [tampered EXCEPT !.altered = @ \cup {i}]
             /\ UNCHANGED online
          \/ /\ online' = online \ {i}
             /\ tampered' = [tampered EXCEPT !.removed = @ \cup {i}]
             /\ UNCHANGED row
    /\ UNCHANGED <<now, archive, head, meta, archiver, verifier, overlapped>>

Next ==
    \/ Tick \/ Audit \/ Tamper
    \/ \E p \in Replicas :
          \/ auditArchiveBatch(p) \/ InsertArchive(p) \/ DeleteOnline(p) \/ AdvanceMeta(p)
          \/ RollBackHead(p) \/ Interrupt(p)
    \/ ReadHead \/ ReadRows \/ ReadPredecessor \/ ReadArchived \/ EndVerify

Spec == Init /\ [][Next]_vars
-----------------------------------------------------------------------------
(***************************************************************************)
(* Properties.                                                             *)
(***************************************************************************)
IDs == 1..Len(row)

\* Every variable holds a value of its kind.
TypeOK ==
    /\ now \in 0..MaxTime /\ Len(row) <= MaxRows
    /\ \A i \in IDs : row[i].tenant \in Tenants /\ row[i].at \in 0..now
    /\ online \subseteq IDs /\ archive \subseteq IDs
    /\ head.id \in 0..Len(row) /\ meta.through \in 0..Len(row)
    /\ \A p \in Replicas :
          /\ archiver[p].phase \in {"idle", "select", "insert", "delete", "meta", "head"}
          /\ archiver[p].ids \subseteq IDs
          /\ archiver[p].phase \in {"insert", "delete", "meta", "head"} => archiver[p].ids # {}
    /\ verifier.phase \in {"idle", "head", "rows", "archive", "done"}
    /\ verifier.ids \subseteq IDs
    /\ tampered.altered \subseteq IDs /\ tampered.removed \subseteq IDs

\* Nobody has touched a row, rows are stamped in the order of the chain, and two
\* replicas that archived at once met chained rows only.
Untouched == tampered.altered = {} /\ tampered.removed = {}
InOrder == \A i, j \in IDs : i < j => row[i].at <= row[j].at
Orderly == InOrder /\ (overlapped => Chained(IDs) = IDs)

\* No event is lost: a row that was written is online or archived, wherever an
\* archive was interrupted, and though two replicas archive at once ("任何一步失败都
\* 不会丢数据").
NothingLost == IDs \subseteq online \cup archive \cup tampered.removed

\* One chain without a fork over both tables: each chained row follows the one
\* before it, and the next will follow the last ("链不分叉"), whatever was altered
\* or removed by hand in between.
OneChain ==
    Orderly =>
        /\ \A i \in Chained(IDs) : row[i].prev = HashOf(LastOf({j \in IDs : j < i}))
        /\ head.hash = HashOf(LastOf(IDs))

\* A check raises an alarm only if somebody changed a row, or a row was appended
\* between its reading of the head and of the rows: no archive that runs beside
\* it or was interrupted before it makes it fail.
AlarmMeansTampering ==
    verifier.phase = "done" /\ ~verifier.ok => ~Untouched \/ ~Orderly \/ ~verifier.calm

\* The chained rows after i.
After(i) == {j \in Chained(IDs) : j > i}

\* A check finds what was tampered with: a row of its window that was altered;
\* and, for the platform's check, a removed row that a row of the window follows,
\* or that the head names while some chained row is left online.  With none left
\* VerifyAuditChain does not look at the head and answers OK: it takes a log whose
\* last chained row was deleted for one that was archived.
TamperingFound ==
    verifier.phase = "done" /\ Orderly =>
        /\ verifier.ids \cap tampered.altered # {} => ~verifier.ok
        /\ verifier.scope = Platform =>
              \A i \in tampered.removed :
                  \/ After(i) # {} /\ Min(After(i)) \in verifier.ids
                  \/ i = verifier.headRead.id /\ verifier.ids # {}
                  => ~verifier.ok
=============================================================================
