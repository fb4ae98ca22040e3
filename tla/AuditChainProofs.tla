-------------------------- MODULE AuditChainProofs --------------------------
(***************************************************************************)
(* What the audit log promises, for any number of replicas that archive at *)
(* once and are interrupted anywhere, any batch size, window and skew: no  *)
(* row is lost, the rows form one chain, a check that fails means          *)
(* tampering, and a check finds what was tampered with in its window.      *)
(*                                                                         *)
(* LogInv says what the tables, the archivers and the verifier hold at any *)
(* time.  ChainInv says, of rows stamped in the order of the chain, where  *)
(* the chain ends and what an archiver has yet to do.  CheckInv says what  *)
(* a check that is under way has read.                                     *)
(***************************************************************************)
EXTENDS AuditChain, SequenceTheorems, FiniteSetTheorems, NaturalsInduction,
        WellFoundedInduction, TLAPS

Contents == Tenants \X {"event"} \X Nat
Hashes == Seq(Contents)

Resting == {"idle", "select"}
Working == {"insert", "delete", "meta", "head"}

Rows == [tenant : Tenants, fields : {"event", "forged"}, at : Nat,
         prev : Hashes, entry : Hashes]
Heads == [id : Nat, hash : Hashes]
Archivers == [phase : Resting \cup Working, cutoff : Int, ids : SUBSET Nat, hash : Hashes]
Verifiers == [phase : {"idle", "head", "rows", "archive", "done"},
              scope : Tenants \cup {Platform}, headRead : Heads,
              ids : SUBSET Nat, calm : BOOLEAN, ok : BOOLEAN]

\* Every variable is of its kind, and rows are known by the IDs given out.
Kinds ==
    /\ now \in 0..MaxTime
    /\ row \in Seq(Rows) /\ Len(row) <= MaxRows
    /\ online \subseteq IDs /\ archive \subseteq IDs
    /\ head \in Heads /\ head.id <= Len(row)
    /\ meta \in [through : Nat, boundary : Hashes] /\ meta.through <= Len(row)
    /\ archiver \in [Replicas -> Archivers]
    /\ verifier \in Verifiers /\ verifier.ids \subseteq IDs
    /\ tampered \in [altered : SUBSET IDs, removed : SUBSET IDs]
    /\ overlapped \in BOOLEAN

\* A row was stamped before it was written.
Stamped == \A i \in IDs : row[i].at <= now

\* An archiver has a batch of rows as long as it works on one.
Batched ==
    \A p \in Replicas :
        /\ archiver[p].ids \subseteq IDs
        /\ archiver[p].ids = {} <=> archiver[p].phase \in Resting

\* The entry of a chained row covers what the row said when it was written; the
\* rows somebody altered, and no others, say something else.
Hashed ==
    \A i \in IDs :
        /\ row[i].entry # NoHash =>
              row[i].entry = Append(row[i].prev, <<row[i].tenant, "event", row[i].at>>)
        /\ row[i].fields = IF i \in tampered.altered THEN "forged" ELSE "event"

\* Before an archiver deletes its batch, what is still online of it is archived;
\* after that, nothing of it is online.
Copied ==
    \A p \in Replicas :
        /\ archiver[p].phase = "delete" => archiver[p].ids \cap online \subseteq archive
        /\ archiver[p].phase \in {"meta", "head"} => archiver[p].ids \cap online = {}

\* A row removed by hand was in the chain, and is in neither table.
Gone ==
    /\ tampered.removed \subseteq Chained(IDs)
    /\ tampered.removed \cap (online \cup archive) = {}

\* Two replicas are at work only if it was noted that they were.
Alone ==
    ~overlapped =>
        \A p, q \in Replicas : p # q => archiver[p].phase = "idle" \/ archiver[q].phase = "idle"

LogInv == Kinds /\ Stamped /\ Batched /\ Hashed /\ Copied /\ NothingLost /\ Gone /\ Alone
-----------------------------------------------------------------------------
(***************************************************************************)
(* The last of a set of rows.  These facts are about any log r and any set *)
(* S of its IDs, so that they hold before a step and after it.             *)
(***************************************************************************)
Entered(r, S) == {i \in S : r[i].entry # NoHash}
LastIn(r, S) == IF Entered(r, S) = {} THEN 0 ELSE Max(Entered(r, S))
HashIn(r, i) == IF i = 0 THEN NoHash ELSE r[i].entry

\* m is the last chained row of S, or 0 if S has none.
IsLast(r, S, m) ==
    \/ m = 0 /\ \A i \in S : r[i].entry = NoHash
    \/ m \in S /\ r[m].entry # NoHash /\ \A i \in S : r[i].entry # NoHash => i <= m

\* Every set of naturals has a least element.
LEMMA LeastOfNat ==
    ASSUME NEW T, T \subseteq Nat, T # {}
    PROVE  \E x \in T : \A y \in T : x <= y
<1>1. IsWellFoundedOn(OpToRel(<, Nat), Nat)
  BY NatLessThanWellFounded, Zenon
<1>2. OpToRel(<, Nat) = {ss \in Nat \X Nat : ss[1] < ss[2]}
  BY DEF OpToRel
<1>3. PICK R : IsWellFoundedOn(R, Nat) /\ R = {ss \in Nat \X Nat : ss[1] < ss[2]}
  BY <1>1, <1>2, Zenon
<1>4. PICK x \in T : \A y \in T : <<y, x>> \notin R
  BY <1>3, WFMin
<1>5. \A y \in T : ~(y < x)
  BY <1>3, <1>4
<1> QED
  BY <1>5

\* A set of IDs has a first and a last one.
LEMMA FirstAndLast ==
    ASSUME NEW n \in Nat, NEW S, S \subseteq 1..n, S # {}
    PROVE  /\ Min(S) \in S /\ \A i \in S : Min(S) <= i
           /\ Max(S) \in S /\ \A i \in S : i <= Max(S)
<1>1. \E x \in S : \A y \in S : x <= y
  <2>1. S \subseteq Nat
    OBVIOUS
  <2> QED
    BY <2>1, LeastOfNat
<1>2. \E x \in S : \A y \in S : x >= y
  <2> DEFINE T == {k \in Nat : \E x \in S : k = n - x}
  <2>1. T \subseteq Nat /\ T # {}
    <3>1. PICK x \in S : TRUE
      OBVIOUS
    <3>2. n - x \in T
      OBVIOUS
    <3> QED
      BY <3>2
  <2>2. \A y \in S : n - y \in T
    OBVIOUS
  <2>3. \A k \in T : \E x \in S : k = n - x
    OBVIOUS
  <2> HIDE DEF T
  <2>4. PICK k \in T : \A j \in T : k <= j
    BY <2>1, LeastOfNat
  <2>5. PICK x \in S : k = n - x
    BY <2>3
  <2> QED
    BY <2>2, <2>4, <2>5
<1>3. Min(S) \in S /\ \A i \in S : Min(S) <= i
  <2> DEFINE m == CHOOSE x \in S : \A y \in S : x =< y
  <2>1. m \in S /\ \A y \in S : m =< y
    BY <1>1
  <2> QED
    BY <2>1 DEF Min
<1>4. Max(S) \in S /\ \A i \in S : i <= Max(S)
  <2> DEFINE m == CHOOSE x \in S : \A y \in S : x >= y
  <2>1. m \in S /\ \A y \in S : m >= y
    BY <1>2
  <2>2. \A y \in S : y <= m
    BY <2>1
  <2> QED
    BY <2>1, <2>2 DEF Max
<1> QED
  BY <1>3, <1>4

\* LastIn finds the last one, and there is one only.
LEMMA LastIsLast ==
    ASSUME NEW n \in Nat, NEW r, NEW S, S \subseteq 1..n
    PROVE  IsLast(r, S, LastIn(r, S)) /\ LastIn(r, S) \in 0..n
<1>1. CASE Entered(r, S) = {}
  BY <1>1 DEF IsLast, LastIn, Entered
<1>2. CASE Entered(r, S) # {}
  <2> DEFINE C == Entered(r, S)
  <2>1. C \subseteq S /\ C \subseteq 1..n /\ \A i \in S : i \in C <=> r[i].entry # NoHash
    BY DEF Entered
  <2>2. LastIn(r, S) = Max(C) /\ C # {}
    BY <1>2 DEF LastIn
  <2> HIDE DEF C
  <2>3. PICK m : m = LastIn(r, S) /\ m \in C /\ \A i \in C : i <= m
    BY <2>1, <2>2, FirstAndLast
  <2>4. IsLast(r, S, m) /\ m \in 0..n
    BY <2>1, <2>3 DEF IsLast
  <2> QED
    BY <2>3, <2>4
<1> QED
  BY <1>1, <1>2

LEMMA LastIsUnique ==
    ASSUME NEW n \in Nat, NEW r, NEW S, S \subseteq 1..n, NEW m, IsLast(r, S, m)
    PROVE  LastIn(r, S) = m
<1>1. PICK k : k = LastIn(r, S)
  OBVIOUS
<1>2. IsLast(r, S, k)
  BY <1>1, LastIsLast
<1>3. CASE m = 0
  <2>1. 0 \notin S
    OBVIOUS
  <2>2. \A i \in S : r[i].entry = NoHash
    BY <1>3, <2>1, Zenon DEF IsLast
  <2>3. k = 0
    BY <1>2, <2>2, Zenon DEF IsLast
  <2> QED
    BY <1>1, <1>3, <2>3
<1>4. CASE m # 0
  <2>1. m \in S /\ k \in S /\ k <= m /\ m <= k
    BY <1>2, <1>4 DEF IsLast
  <2>2. m \in Nat /\ k \in Nat
    BY <2>1
  <2> QED
    BY <1>1, <2>1, <2>2
<1> QED
  BY <1>1, <1>3, <1>4

\* Logs with the same entries have the same last row.
LEMMA LastAgrees ==
    ASSUME NEW r, NEW s, NEW S, \A i \in S : s[i].entry = r[i].entry
    PROVE  LastIn(s, S) = LastIn(r, S) /\ Entered(s, S) = Entered(r, S)
<1>1. Entered(s, S) = Entered(r, S)
  BY DEF Entered
<1> QED
  BY <1>1 DEF LastIn

\* What the names of the model stand for.
LEMMA ModelNames ==
    /\ \A S : Chained(S) = Entered(row, S) /\ LastOf(S) = LastIn(row, S)
    /\ \A i : HashOf(i) = HashIn(row, i)
  BY DEF Chained, Entered, LastOf, LastIn, HashOf, HashIn
-----------------------------------------------------------------------------
(***************************************************************************)
(* LogInv is inductive.                                                    *)
(***************************************************************************)
LEMMA LogInit == Init => LogInv
<1> SUFFICES ASSUME Init PROVE LogInv
  OBVIOUS
<1>1. NoHash \in Hashes /\ row \in Seq(Rows) /\ Len(row) = 0 /\ IDs = {}
  BY EmptySeq DEF Init, NoHash, Hashes, IDs
<1>2. Idle \in Archivers /\ Idle.ids = {} /\ Idle.phase = "idle"
  BY <1>1 DEF Idle, Archivers, Resting
<1>3. NotVerifying \in Verifiers /\ NotVerifying.ids = {}
  BY <1>1 DEF NotVerifying, Verifiers, Heads
<1>4. \A p \in Replicas : archiver[p].ids = {} /\ archiver[p].phase = "idle"
  BY <1>2 DEF Init
<1>5. archiver \in [Replicas -> Archivers]
  BY <1>2 DEF Init
<1>6. verifier \in Verifiers /\ verifier.ids \subseteq IDs
  BY <1>3 DEF Init
<1>7. head \in Heads /\ head.id <= Len(row)
  BY <1>1 DEF Init, Heads
<1>8. meta \in [through : Nat, boundary : Hashes] /\ meta.through <= Len(row)
  BY <1>1 DEF Init
<1>9. now \in 0..MaxTime /\ Len(row) <= MaxRows
  BY <1>1, ConfigAssumption DEF Init
<1>10. /\ tampered \in [altered : SUBSET IDs, removed : SUBSET IDs] /\ tampered.removed = {}
       /\ overlapped \in BOOLEAN
  BY DEF Init
<1>11. online = {} /\ archive = {}
  BY DEF Init
<1>12. Kinds
  BY <1>1, <1>5, <1>6, <1>7, <1>8, <1>9, <1>10, <1>11 DEF Kinds
<1> QED
  BY <1>1, <1>4, <1>10, <1>11, <1>12
  DEF LogInv, Stamped, Batched, Resting, Hashed, Copied, NothingLost, Gone, Alone

\* What is read off LogInv again and again.
LEMMA LogFacts ==
    ASSUME LogInv
    PROVE  /\ Len(row) \in Nat /\ IDs = 1..Len(row) /\ row \in Seq(Rows)
           /\ \A i \in IDs : row[i] \in Rows
           /\ online \subseteq IDs /\ archive \subseteq IDs
           /\ \A p \in Replicas : archiver[p] \in Archivers /\ archiver[p].ids \subseteq IDs
           /\ tampered.altered \subseteq IDs /\ tampered.removed \subseteq IDs
           /\ head \in Heads /\ verifier \in Verifiers /\ verifier.ids \subseteq IDs
<1>1. row \in Seq(Rows) /\ Kinds /\ Batched
  BY DEF LogInv, Kinds
<1>2. Len(row) \in Nat /\ \A i \in 1..Len(row) : row[i] \in Rows
  BY <1>1
<1> QED
  BY <1>1, <1>2 DEF Kinds, Batched, IDs

\* The log after a row is appended: the row's ID is new, the others stay.
LEMMA AppendedLog ==
    ASSUME LogInv, NEW x \in Rows, row' = Append(row, x)
    PROVE  /\ row' \in Seq(Rows) /\ Len(row') = Len(row) + 1
           /\ IDs' = IDs \cup {Len(row) + 1} /\ Len(row) + 1 \notin IDs
           /\ \A i \in IDs : row'[i] = row[i]
           /\ row'[Len(row) + 1] = x
<1>1. row \in Seq(Rows) /\ Len(row) \in Nat
  BY LogFacts
<1>2. row' \in Seq(Rows) /\ Len(row') = Len(row) + 1
  BY <1>1
<1>3. row'[Len(row) + 1] = x /\ \A i \in 1..Len(row) : row'[i] = row[i]
  BY <1>1
<1> QED
  BY <1>1, <1>2, <1>3 DEF IDs

\* A row is appended, chained or not.
LEMMA AppendKeeps ==
    ASSUME LogInv, NEW x \in Rows, x.fields = "event", x.at <= now,
           x.entry # NoHash => x.entry = Append(x.prev, <<x.tenant, "event", x.at>>),
           Len(row) < MaxRows, row' = Append(row, x), online' = online \cup {Len(row) + 1},
           head' \in Heads, head'.id <= Len(row) + 1,
           verifier' \in Verifiers, verifier'.ids = verifier.ids,
           UNCHANGED <<now, archive, meta, archiver, tampered, overlapped>>
    PROVE  LogInv'
<1> DEFINE k == Len(row) + 1
<1>1. /\ row' \in Seq(Rows) /\ Len(row') = k /\ IDs' = IDs \cup {k} /\ k \notin IDs
      /\ \A i \in IDs : row'[i] = row[i]
      /\ row'[k] = x
  BY AppendedLog
<1>2. Len(row) \in Nat /\ k \in Nat
  BY LogFacts
<1>3. Kinds'
  <2>1. Len(row') <= MaxRows
    BY <1>1, <1>2, ConfigAssumption
  <2>2. meta' \in [through : Nat, boundary : Hashes] /\ meta'.through <= Len(row')
    <3>1. meta.through \in Nat /\ meta.through <= Len(row)
      BY DEF LogInv, Kinds
    <3> QED
      BY <1>1, <1>2, <3>1 DEF LogInv, Kinds
  <2>3. tampered' \in [altered : SUBSET IDs', removed : SUBSET IDs']
    <3>1. tampered \in [altered : SUBSET IDs, removed : SUBSET IDs]
      BY DEF LogInv, Kinds
    <3>2. SUBSET IDs \subseteq SUBSET IDs'
      BY <1>1
    <3> QED
      BY <3>1, <3>2
  <2> QED
    BY <1>1, <2>1, <2>2, <2>3 DEF LogInv, Kinds
<1>4. Stamped'
  BY <1>1 DEF LogInv, Stamped
<1>5. Batched'
  BY <1>1 DEF LogInv, Batched
<1>6. k \notin tampered.altered /\ k \notin tampered.removed
  BY <1>1, LogFacts
<1>7. Hashed'
  BY <1>1, <1>6 DEF LogInv, Hashed
<1>8. Copied'
  BY <1>1 DEF LogInv, Copied, Batched
<1>9. NothingLost'
  BY <1>1 DEF LogInv, NothingLost
<1>10. Gone'
  BY <1>1, <1>6, LogFacts DEF LogInv, Gone, Chained
<1>11. Alone'
  BY DEF LogInv, Alone
<1> QED
  BY <1>3, <1>4, <1>5, <1>7, <1>8, <1>9, <1>10, <1>11 DEF LogInv

\* An archiver p becomes a, and the tables change so that nothing is lost.
LEMMA ArchiverKeeps ==
    ASSUME LogInv, NEW p \in Replicas, NEW a \in Archivers,
           archiver' = [archiver EXCEPT ![p] = a],
           a.ids \subseteq IDs, a.ids = {} <=> a.phase \in Resting,
           archive \subseteq archive', archive' \subseteq archive \cup online,
           online' \subseteq online, online \subseteq online' \cup archive',
           a.phase = "delete" => a.ids \cap online' \subseteq archive',
           a.phase \in {"meta", "head"} => a.ids \cap online' = {},
           head' \in Heads, head'.id <= Len(row),
           meta' \in [through : Nat, boundary : Hashes], meta'.through <= Len(row),
           overlapped' \in BOOLEAN,
           ~overlapped' => /\ ~overlapped
                           /\ \/ a.phase = "idle" \/ archiver[p].phase # "idle"
                              \/ \A q \in Replicas \ {p} : archiver[q].phase = "idle",
           UNCHANGED <<now, row, verifier, tampered>>
    PROVE  LogInv'
<1>1. /\ archiver'[p] = a
      /\ \A q \in Replicas \ {p} : archiver'[q] = archiver[q]
      /\ archiver' \in [Replicas -> Archivers]
  BY DEF LogInv, Kinds
<1>2. IDs' = IDs /\ \A S : Chained(S)' = Chained(S)
  BY DEF IDs, Chained
<1>3. Kinds'
  BY <1>1, <1>2 DEF LogInv, Kinds
<1>4. Stamped' /\ Hashed'
  BY <1>2 DEF LogInv, Stamped, Hashed
<1>5. Batched'
  <2> SUFFICES ASSUME NEW q \in Replicas
               PROVE  /\ archiver'[q].ids \subseteq IDs
                      /\ archiver'[q].ids = {} <=> archiver'[q].phase \in Resting
    BY <1>2 DEF Batched
  <2> QED
    BY <1>1 DEF LogInv, Batched
<1>6. Copied'
  <2> SUFFICES ASSUME NEW q \in Replicas
               PROVE  /\ archiver'[q].phase = "delete" => archiver'[q].ids \cap online' \subseteq archive'
                      /\ archiver'[q].phase \in {"meta", "head"} => archiver'[q].ids \cap online' = {}
    BY DEF Copied
  <2>1. CASE q = p
    BY <1>1, <2>1
  <2>2. CASE q # p
    BY <1>1, <2>2 DEF LogInv, Copied
  <2> QED
    BY <2>1, <2>2
<1>7. NothingLost'
  BY <1>2 DEF LogInv, NothingLost
<1>8. Gone'
  BY <1>2 DEF LogInv, Gone, Chained
<1>9. Alone'
  <2> SUFFICES ASSUME ~overlapped', NEW q \in Replicas, NEW s \in Replicas, q # s
               PROVE  archiver'[q].phase = "idle" \/ archiver'[s].phase = "idle"
    BY DEF Alone
  <2>1. archiver[q].phase = "idle" \/ archiver[s].phase = "idle"
    BY DEF LogInv, Alone
  <2> QED
    BY <1>1, <2>1
<1> QED
  BY <1>3, <1>4, <1>5, <1>6, <1>7, <1>8, <1>9 DEF LogInv

\* Steps of the verifier, and of the clock.
LEMMA OthersKeep ==
    ASSUME LogInv, verifier' \in Verifiers, verifier'.ids \subseteq IDs,
           now' \in 0..MaxTime, now <= now', UNCHANGED <<tables, archiver, tampered, overlapped>>
    PROVE  LogInv'
<1>1. UNCHANGED <<row, online, archive, head, meta>>
  BY DEF tables
<1>2. IDs' = IDs /\ \A S : Chained(S)' = Chained(S)
  BY <1>1 DEF IDs, Chained
<1>3. Kinds'
  BY <1>1, <1>2 DEF LogInv, Kinds
<1>4. Stamped'
  <2> SUFFICES ASSUME NEW i \in IDs PROVE row[i].at <= now'
    BY <1>1, <1>2 DEF Stamped
  <2>1. row[i].at \in Nat /\ row[i].at <= now /\ now \in Nat /\ now' \in Nat
    BY LogFacts DEF LogInv, Kinds, Stamped, Rows
  <2> QED
    BY <2>1
<1>5. Batched' /\ Hashed' /\ Copied' /\ NothingLost' /\ Alone'
  BY <1>1, <1>2 DEF LogInv, Batched, Hashed, Copied, NothingLost, Alone
<1>6. Gone'
  BY <1>1, <1>2 DEF LogInv, Gone, Chained
<1> QED
  BY <1>3, <1>4, <1>5, <1>6 DEF LogInv

\* What Audit writes: a row that says what happened, chained to the head or not.
LEMMA AuditEffect ==
    ASSUME LogInv, Audit
    PROVE  \E x \in Rows :
              /\ x.fields = "event" /\ x.at <= now
              /\ Len(row) < MaxRows /\ row' = Append(row, x)
              /\ online' = online \cup {Len(row) + 1}
              /\ UNCHANGED <<now, archive, meta, archiver, tampered, overlapped>>
              /\ \/ /\ x.prev = head.hash
                    /\ x.entry = Append(x.prev, <<x.tenant, "event", x.at>>)
                    /\ x.entry # NoHash /\ Len(x.entry) = Len(head.hash) + 1
                    /\ head' = [id |-> Len(row) + 1, hash |-> x.entry]
                    /\ verifier' = [verifier EXCEPT !.calm = @ /\ verifier.phase # "head"]
                 \/ x.entry = NoHash /\ UNCHANGED <<head, verifier>>
<1>1. PICK t \in Tenants, d \in 0..Skew :
         d <= now /\ (insertChainedAudit(t, now - d) \/ AuditUnchained(t, now - d))
  BY DEF Audit
<1>2. PICK at : at = now - d
  OBVIOUS
<1>3. now \in Nat /\ at \in Nat /\ at <= now
  BY <1>1, <1>2, ConfigAssumption DEF LogInv, Kinds
<1>4. head.hash \in Hashes /\ NoHash \in Hashes
  BY LogFacts DEF Heads, Hashes, NoHash
<1>5. CASE insertChainedAudit(t, at)
  <2> DEFINE c == <<t, "event", at>>
             e == Append(head.hash, c)
             x == [tenant |-> t, fields |-> "event", at |-> at, prev |-> head.hash, entry |-> e]
  <2>1. c \in Contents
    BY <1>3 DEF Contents
  <2> HIDE DEF c
  <2>2. e \in Hashes /\ Len(e) = Len(head.hash) + 1 /\ e # NoHash
    <3>1. PICK h \in Hashes : h = head.hash
      BY <1>4
    <3>2. Append(h, c) \in Hashes /\ Len(Append(h, c)) = Len(h) + 1 /\ Len(h) \in Nat
      BY <2>1 DEF Hashes
    <3>3. Append(h, c) # <<>>
      BY <3>2
    <3> QED
      BY <3>1, <3>2, <3>3 DEF NoHash
  <2>3. /\ Len(row) < MaxRows
        /\ row' = Append(row, x)
        /\ head' = [id |-> Len(row) + 1, hash |-> e]
        /\ online' = online \cup {Len(row) + 1}
        /\ verifier' = [verifier EXCEPT !.calm = @ /\ verifier.phase # "head"]
        /\ UNCHANGED <<now, archive, meta, archiver, tampered, overlapped>>
    BY <1>5 DEF insertChainedAudit, auditEntryHash, c
  <2>4. e = Append(head.hash, <<t, "event", at>>)
    BY DEF c
  <2> HIDE DEF e
  <2>5. x \in Rows /\ x.fields = "event" /\ x.at = at /\ x.prev = head.hash /\ x.entry = e
        /\ x.tenant = t
    BY <1>3, <1>4, <2>2 DEF Rows
  <2> HIDE DEF x
  <2> QED
    BY <1>3, <2>2, <2>3, <2>4, <2>5
<1>6. CASE AuditUnchained(t, at)
  <2> DEFINE x == [tenant |-> t, fields |-> "event", at |-> at, prev |-> NoHash, entry |-> NoHash]
  <2>1. /\ Len(row) < MaxRows
        /\ row' = Append(row, x)
        /\ online' = online \cup {Len(row) + 1}
        /\ UNCHANGED <<now, archive, head, meta, archiver, verifier, tampered, overlapped>>
    BY <1>6 DEF AuditUnchained
  <2>2. x \in Rows /\ x.fields = "event" /\ x.at = at /\ x.entry = NoHash
    BY <1>3, <1>4 DEF Rows
  <2> HIDE DEF x
  <2> QED
    BY <1>3, <2>1, <2>2
<1> QED
  BY <1>1, <1>2, <1>5, <1>6

\* An archiver that has nothing to do.
LEMMA IdleArchiver ==
    Idle \in Archivers /\ Idle.ids = {} /\ Idle.phase = "idle" /\ Idle.phase \in Resting
  BY DEF Idle, Archivers, Resting, Hashes, NoHash

\* What auditArchiveBatch takes: rows that are online, and with one of them
\* every earlier row that is online, if rows are stamped in order.
LEMMA BatchEffect ==
    ASSUME LogInv, NEW p \in Replicas, auditArchiveBatch(p)
    PROVE  \E a \in Archivers :
              /\ archiver' = [archiver EXCEPT ![p] = a]
              /\ a.ids \subseteq online
              /\ a.ids = {} <=> a.phase \in Resting
              /\ a.phase \in {"idle", "insert"}
              /\ a.ids # {} => a.hash = HashIn(row, LastIn(row, a.ids))
              /\ InOrder => \A i \in a.ids, j \in online : j < i => j \in a.ids
<1> DEFINE cutoff == IF archiver[p].phase = "idle" THEN now - Retain ELSE archiver[p].cutoff
           aged == {i \in online : row[i].at < cutoff}
           ids == {i \in aged : Cardinality({j \in aged : j < i}) < Batch}
           h == HashOf(LastOf(ids))
           a == IF ids = {} THEN Idle
                ELSE [phase |-> "insert", cutoff |-> cutoff, ids |-> ids, hash |-> h]
<1>1. archiver' = [archiver EXCEPT ![p] = a]
  BY DEF auditArchiveBatch
<1>2. cutoff \in Int
  <2>1. archiver[p].cutoff \in Int /\ now \in Int
    BY LogFacts DEF LogInv, Kinds, Archivers
  <2> QED
    BY <2>1, ConfigAssumption
<1> HIDE DEF cutoff
<1>3. ids \subseteq online /\ aged \subseteq online /\ online \subseteq IDs
  BY LogFacts
<1>4. InOrder => \A i \in ids, j \in online : j < i => j \in ids
  <2> SUFFICES ASSUME InOrder, NEW i \in ids, NEW j \in online, j < i
               PROVE  j \in ids
    OBVIOUS
  <2>1. i \in IDs /\ j \in IDs /\ i \in aged /\ row[i].at < cutoff
    BY <1>3
  <2>2. row[j].at \in Nat /\ row[i].at \in Nat /\ row[j].at <= row[i].at
    BY <2>1, LogFacts DEF InOrder, Rows
  <2>3. j \in aged
    BY <1>2, <2>1, <2>2
  <2> DEFINE A == {k \in aged : k < j}
             B == {k \in aged : k < i}
  <2>4. A \subseteq B /\ B \subseteq 1..Len(row) /\ IDs = 1..Len(row) /\ Len(row) \in Nat
    <3>1. IDs = 1..Len(row) /\ Len(row) \in Nat
      BY LogFacts
    <3>2. aged \subseteq 1..Len(row) /\ i \in Nat /\ j \in Nat
      BY <1>3, <2>1, <3>1
    <3> QED
      BY <3>1, <3>2
  <2>5. IsFiniteSet(B) /\ Cardinality(A) <= Cardinality(B)
        /\ Cardinality(A) \in Nat /\ Cardinality(B) \in Nat
    <3>1. IsFiniteSet(1..Len(row))
      <4>1. 1 \in Int /\ Len(row) \in Int
        BY <2>4
      <4> QED
        BY <4>1, FS_Interval, Zenon
    <3>2. IsFiniteSet(B)
      BY <2>4, <3>1, FS_Subset
    <3>3. IsFiniteSet(A) /\ Cardinality(A) <= Cardinality(B)
      BY <2>4, <3>2, FS_Subset
    <3> QED
      BY <3>2, <3>3, FS_CardinalityType
  <2>6. Cardinality(B) < Batch
    OBVIOUS
  <2>7. Cardinality(A) < Batch
    BY <2>5, <2>6, ConfigAssumption
  <2> QED
    BY <2>3, <2>7
<1> HIDE DEF ids
<1>5. h = HashIn(row, LastIn(row, ids)) /\ h \in Hashes
  <2>1. PICK m : m = LastOf(ids)
    OBVIOUS
  <2>2. m = LastIn(row, ids) /\ h = HashIn(row, m)
    BY <2>1, ModelNames
  <2>3. m \in 0..Len(row)
    BY <1>3, <2>2, LastIsLast, LogFacts
  <2>4. m # 0 => row[m] \in Rows
    BY <2>3, LogFacts
  <2>5. HashIn(row, m) \in Hashes
    BY <2>4 DEF HashIn, Rows, Hashes, NoHash
  <2> QED
    BY <2>2, <2>5
<1> HIDE DEF h
<1>6. IDs \subseteq Nat
  BY LogFacts
<1>7. CASE ids = {}
  <2>1. a = Idle
    BY <1>7
  <2> HIDE DEF a
  <2> QED
    BY <1>1, <2>1, IdleArchiver
<1>8. CASE ids # {}
  <2>1. a = [phase |-> "insert", cutoff |-> cutoff, ids |-> ids, hash |-> h]
    BY <1>8
  <2> HIDE DEF a
  <2>2. a \in Archivers /\ a.ids = ids /\ a.phase = "insert" /\ a.hash = h
    <3>1. ids \in SUBSET Nat /\ h \in Hashes /\ "insert" \in Resting \cup Working
      BY <1>3, <1>5, <1>6 DEF Working
    <3> HIDE DEF aged
    <3> QED
      BY <1>2, <2>1, <3>1 DEF Archivers
  <2>3. "insert" \notin Resting
    BY DEF Resting
  <2> QED
    BY <1>1, <1>3, <1>4, <1>5, <1>8, <2>2, <2>3
<1> QED
  BY <1>7, <1>8

\* An archiver's next statement: its phase moves on, its batch is kept.
LEMMA PhaseEffect ==
    ASSUME LogInv, NEW p \in Replicas, NEW f \in Working, archiver[p].phase \in Working,
           archiver' = [archiver EXCEPT ![p].phase = f]
    PROVE  \E a \in Archivers :
              /\ archiver' = [archiver EXCEPT ![p] = a]
              /\ a.phase = f /\ a.ids = archiver[p].ids /\ a.hash = archiver[p].hash
              /\ a.ids # {} /\ a.ids \subseteq IDs /\ a.phase \notin Resting
<1> DEFINE a == [archiver[p] EXCEPT !.phase = f]
<1>1. archiver[p] \in Archivers /\ archiver[p].ids \subseteq IDs
  BY LogFacts
<1>2. a \in Archivers /\ a.phase = f /\ a.ids = archiver[p].ids /\ a.hash = archiver[p].hash
  BY <1>1 DEF Archivers
<1>3. f \notin Resting /\ archiver[p].ids # {}
  BY DEF Working, Resting, LogInv, Batched
<1>4. archiver' = [archiver EXCEPT ![p] = a]
  OBVIOUS
<1> HIDE DEF a
<1> QED
  BY <1>1, <1>2, <1>3, <1>4

\* AdvanceMeta keeps the archiver's batch, and its hash if it has one.
LEMMA MetaEffect ==
    ASSUME LogInv, NEW p \in Replicas, AdvanceMeta(p)
    PROVE  \E a \in Archivers :
              /\ archiver' = [archiver EXCEPT ![p] = a]
              /\ a.phase = "head" /\ a.ids = archiver[p].ids
              /\ archiver[p].hash # NoHash => a.hash = archiver[p].hash
              /\ a.ids # {} /\ a.ids \subseteq IDs /\ a.phase \notin Resting
              /\ meta' \in [through : Nat, boundary : Hashes] /\ meta'.through <= Len(row)
<1>1. archiver[p] \in Archivers /\ archiver[p].ids \subseteq IDs /\ archiver[p].phase = "meta"
  BY LogFacts DEF AdvanceMeta
<1>2. PICK b \in IF archiver[p].hash = NoHash THEN {meta.boundary, NoHash}
                ELSE {archiver[p].hash} :
        /\ archiver' = [archiver EXCEPT ![p].phase = "head", ![p].hash = b]
        /\ meta' = [through |-> Max(archiver[p].ids), boundary |-> b]
  BY DEF AdvanceMeta
<1>3. b \in Hashes /\ (archiver[p].hash # NoHash => b = archiver[p].hash)
  BY <1>1 DEF LogInv, Kinds, Archivers, Hashes, NoHash
<1> DEFINE a == [archiver[p] EXCEPT !.phase = "head", !.hash = b]
<1>4. /\ a \in Archivers /\ a.phase = "head" /\ a.ids = archiver[p].ids /\ a.hash = b
  BY <1>1, <1>3 DEF Archivers, Working
<1>5. archiver' = [archiver EXCEPT ![p] = a]
  <2>1. archiver \in [Replicas -> Archivers]
    BY DEF LogInv, Kinds
  <2> QED
    BY <1>2, <2>1
<1>6. archiver[p].ids # {} /\ "head" \notin Resting
  BY <1>1 DEF Resting, LogInv, Batched
<1>7. Max(archiver[p].ids) \in IDs
  <2>1. archiver[p].ids \subseteq 1..Len(row) /\ Len(row) \in Nat
    BY <1>1, LogFacts
  <2> QED
    BY <1>1, <1>6, <2>1, FirstAndLast
<1>8. meta' \in [through : Nat, boundary : Hashes] /\ meta'.through <= Len(row)
  BY <1>2, <1>3, <1>7, LogFacts
<1> HIDE DEF a
<1> QED
  BY <1>1, <1>3, <1>4, <1>5, <1>6, <1>8

\* RollBackHead ends the round, and moves the head to the last row online or to
\* the end of the batch, if the head's own row was in the batch.
LEMMA RollBackEffect ==
    ASSUME LogInv, NEW p \in Replicas, RollBackHead(p)
    PROVE  /\ \E a \in Archivers :
                 /\ archiver' = [archiver EXCEPT ![p] = a]
                 /\ a.phase \in Resting /\ a.ids = {}
           /\ archiver[p].ids # {} /\ archiver[p].ids \cap online = {}
           /\ head' \in Heads /\ head'.id <= Len(row)
           /\ head.id \notin archiver[p].ids => head' = head
           /\ head.id \in archiver[p].ids /\ LastIn(row, online) = 0 =>
                 head'.id = Max(archiver[p].ids) /\ head'.hash = archiver[p].hash
<1> DEFINE b == [archiver[p] EXCEPT !.phase = "select", !.ids = {}, !.hash = NoHash]
           a == IF Cardinality(archiver[p].ids) < Batch THEN Idle ELSE b
<1>1. archiver[p] \in Archivers /\ archiver[p].ids \subseteq IDs /\ archiver[p].phase = "head"
  BY LogFacts DEF RollBackHead
<1>2. b \in Archivers /\ b.ids = {} /\ b.phase \in Resting
  <2>1. NoHash \in Hashes /\ "select" \in Resting
    BY DEF Resting, Hashes, NoHash
  <2> HIDE DEF a
  <2> QED
    BY <1>1, <2>1 DEF Archivers
<1>3. archiver' = [archiver EXCEPT ![p] = a]
  BY DEF RollBackHead
<1> HIDE DEF b
<1>4. a \in Archivers /\ a.ids = {} /\ a.phase \in Resting
  BY <1>2, IdleArchiver
<1> HIDE DEF a
<1>5. archiver[p].ids # {} /\ archiver[p].ids \cap online = {}
  BY <1>1 DEF Resting, LogInv, Batched, Copied
<1>6. PICK i : i = LastIn(row, online)
  OBVIOUS
<1>7. i \in 0..Len(row)
  BY <1>6, LastIsLast, LogFacts
<1>8. PICK m : m = Max(archiver[p].ids)
  OBVIOUS
<1>9. m \in IDs
  <2>1. archiver[p].ids \subseteq 1..Len(row) /\ Len(row) \in Nat
    BY <1>1, LogFacts
  <2> QED
    BY <1>1, <1>5, <1>8, <2>1, FirstAndLast
<1>10. Rollback(p) = IF i # 0 THEN [id |-> i, hash |-> HashIn(row, i)]
                     ELSE [id |-> m, hash |-> archiver[p].hash]
  BY <1>6, <1>8, ModelNames DEF Rollback
<1>11. head' = IF head.id \in archiver[p].ids THEN Rollback(p) ELSE head
  BY DEF RollBackHead
<1>12. head \in Heads /\ head.id <= Len(row) /\ IDs = 1..Len(row) /\ Len(row) \in Nat
  BY LogFacts DEF LogInv, Kinds
<1>13. i # 0 => HashIn(row, i) \in Hashes
  <2>1. i # 0 => row[i] \in Rows
    BY <1>7, LogFacts
  <2> QED
    BY <2>1 DEF HashIn, Rows
<1>14. archiver[p].hash \in Hashes
  BY <1>1 DEF Archivers
<1>15. head' \in Heads /\ head'.id <= Len(row)
  <2>1. CASE head.id \notin archiver[p].ids
    BY <1>11, <1>12, <2>1
  <2>2. CASE head.id \in archiver[p].ids /\ i # 0
    BY <1>7, <1>10, <1>11, <1>12, <1>13, <2>2 DEF Heads
  <2>3. CASE head.id \in archiver[p].ids /\ i = 0
    BY <1>9, <1>10, <1>11, <1>12, <1>14, <2>3 DEF Heads
  <2> QED
    BY <2>1, <2>2, <2>3
<1>16. head.id \in archiver[p].ids /\ i = 0 => head'.id = m /\ head'.hash = archiver[p].hash
  BY <1>10, <1>11
<1> QED
  BY <1>3, <1>4, <1>5, <1>6, <1>8, <1>11, <1>15, <1>16

\* A row is altered or removed by hand.
LEMMA TamperEffect ==
    ASSUME LogInv, Tamper
    PROVE  /\ UNCHANGED <<now, archive, head, meta, archiver, verifier, overlapped>>
           /\ verifier.phase = "idle"
           /\ row' \in Seq(Rows) /\ Len(row') = Len(row) /\ IDs' = IDs
           /\ \A i \in IDs : /\ row'[i].entry = row[i].entry /\ row'[i].prev = row[i].prev
                             /\ row'[i].at = row[i].at /\ row'[i].tenant = row[i].tenant
           /\ \E i \in IDs :
                 /\ i \in online /\ i \notin archive /\ row[i].entry # NoHash
                 /\ \/ /\ \A j \in IDs : row'[j].fields = IF j = i THEN "forged" ELSE row[j].fields
                       /\ online' = online
                       /\ tampered' \in [altered : SUBSET IDs, removed : SUBSET IDs]
                       /\ tampered'.altered = tampered.altered \cup {i}
                       /\ tampered'.removed = tampered.removed
                    \/ /\ row' = row /\ online' = online \ {i}
                       /\ tampered' \in [altered : SUBSET IDs, removed : SUBSET IDs]
                       /\ tampered'.altered = tampered.altered
                       /\ tampered'.removed = tampered.removed \cup {i}
<1>1. PICK i \in Chained(online) \ archive :
         \/ /\ row' = [row EXCEPT ![i].fields = "forged"]
            /\ tampered' = [tampered EXCEPT !.altered = @ \cup {i}]
            /\ UNCHANGED online
         \/ /\ online' = online \ {i}
            /\ tampered' = [tampered EXCEPT !.removed = @ \cup {i}]
            /\ UNCHANGED row
  BY DEF Tamper
<1>2. /\ UNCHANGED <<now, archive, head, meta, archiver, verifier, overlapped>>
      /\ verifier.phase = "idle"
  BY DEF Tamper
<1>3. i \in IDs /\ i \in online /\ i \notin archive /\ row[i].entry # NoHash
  BY <1>1, LogFacts DEF Chained
<1>4. /\ row \in Seq(Rows) /\ IDs = 1..Len(row) /\ Len(row) \in Nat
      /\ \A j \in IDs : row[j] \in Rows
      /\ tampered \in [altered : SUBSET IDs, removed : SUBSET IDs]
  BY LogFacts DEF LogInv, Kinds
<1>5. CASE /\ row' = [row EXCEPT ![i].fields = "forged"]
           /\ tampered' = [tampered EXCEPT !.altered = @ \cup {i}]
           /\ UNCHANGED online
  <2> DEFINE x == [row[i] EXCEPT !.fields = "forged"]
  <2>1. row' = [row EXCEPT ![i] = x]
    BY <1>5
  <2>2. /\ x \in Rows /\ x.fields = "forged" /\ x.entry = row[i].entry /\ x.prev = row[i].prev
        /\ x.at = row[i].at /\ x.tenant = row[i].tenant
    BY <1>3, <1>4 DEF Rows
  <2> HIDE DEF x
  <2>3. row' \in Seq(Rows) /\ Len(row') = Len(row)
    BY <1>3, <1>4, <2>1, <2>2, ExceptSeq
  <2>4. \A j \in IDs : row'[j] = IF j = i THEN x ELSE row[j]
    BY <1>3, <1>4, <2>1, ExceptSeq
  <2>5. /\ tampered' \in [altered : SUBSET IDs, removed : SUBSET IDs]
        /\ tampered'.altered = tampered.altered \cup {i} /\ tampered'.removed = tampered.removed
    BY <1>3, <1>4, <1>5
  <2>6. IDs' = IDs
    BY <2>3 DEF IDs
  <2>7. \A j \in IDs : /\ row'[j].entry = row[j].entry /\ row'[j].prev = row[j].prev
                       /\ row'[j].at = row[j].at /\ row'[j].tenant = row[j].tenant
    BY <2>2, <2>4
  <2>8. \A j \in IDs : row'[j].fields = IF j = i THEN "forged" ELSE row[j].fields
    BY <2>2, <2>4
  <2> QED
    BY <1>2, <1>3, <1>5, <2>3, <2>5, <2>6, <2>7, <2>8
<1>6. CASE /\ online' = online \ {i}
           /\ tampered' = [tampered EXCEPT !.removed = @ \cup {i}]
           /\ UNCHANGED row
  <2>1. /\ tampered' \in [altered : SUBSET IDs, removed : SUBSET IDs]
        /\ tampered'.altered = tampered.altered /\ tampered'.removed = tampered.removed \cup {i}
    BY <1>3, <1>4, <1>6
  <2>2. IDs' = IDs
    BY <1>6 DEF IDs
  <2> QED
    BY <1>2, <1>3, <1>4, <1>6, <2>1, <2>2
<1> QED
  BY <1>1, <1>5, <1>6

LEMMA TamperKeeps ==
    ASSUME LogInv, Tamper
    PROVE  LogInv'
<1>1. /\ UNCHANGED <<now, archive, head, meta, archiver, verifier, overlapped>>
      /\ row' \in Seq(Rows) /\ Len(row') = Len(row) /\ IDs' = IDs
      /\ \A i \in IDs : /\ row'[i].entry = row[i].entry /\ row'[i].prev = row[i].prev
                        /\ row'[i].at = row[i].at /\ row'[i].tenant = row[i].tenant
  BY TamperEffect
<1>2. PICK i \in IDs :
         /\ i \in online /\ i \notin archive /\ row[i].entry # NoHash
         /\ \/ /\ \A j \in IDs : row'[j].fields = IF j = i THEN "forged" ELSE row[j].fields
               /\ online' = online
               /\ tampered' \in [altered : SUBSET IDs, removed : SUBSET IDs]
               /\ tampered'.altered = tampered.altered \cup {i}
               /\ tampered'.removed = tampered.removed
            \/ /\ row' = row /\ online' = online \ {i}
               /\ tampered' \in [altered : SUBSET IDs, removed : SUBSET IDs]
               /\ tampered'.altered = tampered.altered
               /\ tampered'.removed = tampered.removed \cup {i}
  BY TamperEffect
<1>3. tampered' \in [altered : SUBSET IDs, removed : SUBSET IDs] /\ online' \subseteq online
  BY <1>2
<1>4. Kinds'
  BY <1>1, <1>3 DEF LogInv, Kinds
<1>5. Stamped' /\ Batched' /\ Alone'
  BY <1>1 DEF LogInv, Stamped, Batched, Alone
<1>6. Copied'
  BY <1>1, <1>3 DEF LogInv, Copied
<1>7. Hashed'
  <2> SUFFICES ASSUME NEW j \in IDs
               PROVE  /\ row'[j].entry # NoHash =>
                           row'[j].entry = Append(row'[j].prev, <<row'[j].tenant, "event", row'[j].at>>)
                      /\ row'[j].fields = IF j \in tampered'.altered THEN "forged" ELSE "event"
    BY <1>1 DEF Hashed
  <2>1. row[j].fields = IF j \in tampered.altered THEN "forged" ELSE "event"
    BY DEF LogInv, Hashed
  <2>2. row'[j].fields = IF j \in tampered'.altered THEN "forged" ELSE "event"
    BY <1>2, <2>1
  <2> QED
    BY <1>1, <2>2 DEF LogInv, Hashed
<1>8. NothingLost'
  BY <1>1, <1>2 DEF LogInv, NothingLost
<1>9. Gone'
  BY <1>1, <1>2 DEF LogInv, Gone, Chained
<1> QED
  BY <1>4, <1>5, <1>6, <1>7, <1>8, <1>9 DEF LogInv

\* The steps of a check read the head, a window of rows, and what is before it.
LEMMA ReadHeadEffect ==
    ASSUME LogInv, ReadHead
    PROVE  /\ verifier' \in Verifiers /\ verifier'.phase = "head" /\ verifier'.headRead = head
           /\ verifier'.ids = {} /\ verifier'.ok
<1>1. PICK s \in Tenants \cup {Platform} :
         verifier' = [NotVerifying EXCEPT !.phase = "head", !.scope = s, !.headRead = head]
  BY DEF ReadHead
<1>2. head \in Heads
  BY LogFacts
<1>3. verifier' = [phase |-> "head", scope |-> s, headRead |-> head, ids |-> {},
                   calm |-> TRUE, ok |-> TRUE]
  BY <1>1 DEF NotVerifying
<1> QED
  BY <1>2, <1>3 DEF Verifiers

LEMMA ReadRowsEffect ==
    ASSUME LogInv, ReadRows
    PROVE  \E W :
              /\ W \subseteq Entered(row, online)
              /\ verifier.scope = Platform =>
                    \A i \in W, j \in Entered(row, online) : i < j => j \in W
              /\ verifier.phase = "head" /\ verifier' \in Verifiers
              /\ verifier' = [verifier EXCEPT !.ids = W,
                                !.phase = IF W = {} THEN "done" ELSE "rows"]
<1> DEFINE all == {i \in Chained(online) : InScope(i)}
           W == {i \in all : Cardinality({j \in all : j > i}) < Limit}
<1>1. /\ verifier.phase = "head"
      /\ verifier' = [verifier EXCEPT !.ids = W, !.phase = IF W = {} THEN "done" ELSE "rows"]
  BY DEF ReadRows
<1>2. Chained(online) = Entered(row, online)
  BY ModelNames
<1>3. Entered(row, online) \subseteq 1..Len(row) /\ Len(row) \in Nat
  BY LogFacts DEF Entered
<1>4. ASSUME verifier.scope = Platform, NEW i \in W, NEW j \in Entered(row, online), i < j
      PROVE  j \in W
  <2>1. j \in all
    BY <1>2, <1>4 DEF InScope
  <2> DEFINE A == {k \in all : k > j}
             B == {k \in all : k > i}
  <2>2. A \subseteq B /\ B \subseteq 1..Len(row)
    <3>1. all \subseteq 1..Len(row) /\ i \in Nat /\ j \in Nat
      BY <1>2, <1>3, <1>4
    <3> QED
      BY <1>4, <3>1
  <2>3. /\ Cardinality(A) <= Cardinality(B)
        /\ Cardinality(A) \in Nat /\ Cardinality(B) \in Nat
    <3>1. 1 \in Int /\ Len(row) \in Int
      BY <1>3
    <3>2. IsFiniteSet(1..Len(row))
      BY <3>1, FS_Interval, Zenon
    <3>3. IsFiniteSet(B)
      BY <2>2, <3>2, FS_Subset
    <3>4. IsFiniteSet(A) /\ Cardinality(A) <= Cardinality(B)
      BY <2>2, <3>3, FS_Subset
    <3> QED
      BY <3>3, <3>4, FS_CardinalityType
  <2>4. Cardinality(B) < Limit
    BY <1>4
  <2>5. Cardinality(A) < Limit
    BY <2>3, <2>4, ConfigAssumption
  <2> QED
    BY <2>1, <2>5
<1>5. W \subseteq Entered(row, online)
  BY <1>2
<1> HIDE DEF W
<1>6. verifier' \in Verifiers
  <2>1. verifier \in Verifiers /\ W \subseteq Nat
    BY <1>3, <1>5, LogFacts
  <2> QED
    BY <1>1, <2>1 DEF Verifiers
<1> QED
  BY <1>1, <1>4, <1>5, <1>6

\* A check concludes from the rows of its window and the row k before it.
LEMMA ConcludeEffect ==
    ASSUME LogInv, NEW b, Conclude(b)
    PROVE  /\ verifier' \in Verifiers /\ verifier'.phase = "done"
           /\ verifier'.ids = verifier.ids /\ verifier'.scope = verifier.scope
           /\ verifier'.headRead = verifier.headRead /\ verifier'.calm = verifier.calm
           /\ verifier'.ok <=> /\ \A i \in verifier.ids : Linked(b, i, verifier.ids)
                               /\ HeadConsistent(verifier.ids)
<1>1. PICK v : v \in BOOLEAN /\ verifier' = [verifier EXCEPT !.phase = "done", !.ok = v]
               /\ (v <=> /\ \A i \in verifier.ids : Linked(b, i, verifier.ids)
                         /\ HeadConsistent(verifier.ids))
  BY Zenon DEF Conclude
<1>2. verifier \in Verifiers
  BY LogFacts
<1> QED
  BY <1>1, <1>2 DEF Verifiers

LEMMA VerifierEffect ==
    ASSUME LogInv, ReadHead \/ ReadRows \/ ReadPredecessor \/ ReadArchived \/ EndVerify
    PROVE  /\ UNCHANGED <<now, tables, archiver, tampered, overlapped>>
           /\ verifier' \in Verifiers /\ verifier'.ids \subseteq IDs
<1>1. UNCHANGED <<now, tables, archiver, tampered, overlapped>>
  BY DEF ReadHead, ReadRows, ReadPredecessor, ReadArchived, EndVerify
<1>2. verifier \in Verifiers /\ verifier.ids \subseteq IDs /\ online \subseteq IDs
  BY LogFacts
<1>3. CASE ReadHead
  BY <1>1, <1>3, ReadHeadEffect
<1>4. CASE ReadRows
  <2>1. PICK W : /\ W \subseteq Entered(row, online) /\ verifier' \in Verifiers
                 /\ verifier' = [verifier EXCEPT !.ids = W,
                                   !.phase = IF W = {} THEN "done" ELSE "rows"]
    BY <1>4, ReadRowsEffect
  <2>2. verifier'.ids = W /\ W \subseteq IDs
    BY <1>2, <2>1 DEF Verifiers, Entered
  <2> QED
    BY <1>1, <2>1, <2>2
<1>5. ASSUME NEW b, Conclude(b) PROVE verifier' \in Verifiers /\ verifier'.ids \subseteq IDs
  BY <1>2, <1>5, ConcludeEffect
<1>6. CASE ReadPredecessor
  <2>1. CASE verifier' = [verifier EXCEPT !.phase = "archive"]
    BY <1>1, <1>2, <2>1 DEF Verifiers
  <2> QED
    BY <1>1, <1>5, <1>6, <2>1 DEF ReadPredecessor
<1>7. CASE ReadArchived
  BY <1>1, <1>5, <1>7 DEF ReadArchived
<1>8. CASE EndVerify
  <2>1. NotVerifying \in Verifiers /\ NotVerifying.ids = {}
    BY DEF NotVerifying, Verifiers, Heads, Hashes, NoHash
  <2> QED
    BY <1>1, <1>8, <2>1 DEF EndVerify
<1> QED
  BY <1>3, <1>4, <1>6, <1>7, <1>8

LEMMA LogNext == LogInv /\ [Next]_vars => LogInv'
<1> SUFFICES ASSUME LogInv, [Next]_vars PROVE LogInv'
  OBVIOUS
<1>1. CASE Tick
  <2>1. now \in Nat /\ now < MaxTime /\ now' = now + 1 /\ UNCHANGED verifier
    BY <1>1 DEF Tick, LogInv, Kinds
  <2>2. now' \in 0..MaxTime /\ now <= now'
    BY <2>1, ConfigAssumption
  <2> QED
    BY <1>1, <2>1, <2>2, LogFacts, OthersKeep DEF Tick
<1>2. CASE Audit
  <2>1. PICK x \in Rows :
              /\ x.fields = "event" /\ x.at <= now
              /\ Len(row) < MaxRows /\ row' = Append(row, x)
              /\ online' = online \cup {Len(row) + 1}
              /\ UNCHANGED <<now, archive, meta, archiver, tampered, overlapped>>
              /\ \/ /\ x.entry = Append(x.prev, <<x.tenant, "event", x.at>>)
                    /\ head' = [id |-> Len(row) + 1, hash |-> x.entry]
                    /\ verifier' = [verifier EXCEPT !.calm = @ /\ verifier.phase # "head"]
                 \/ x.entry = NoHash /\ UNCHANGED <<head, verifier>>
    BY <1>2, AuditEffect
  <2>2. Len(row) \in Nat /\ head \in Heads /\ head.id <= Len(row) /\ verifier \in Verifiers
    BY LogFacts DEF LogInv, Kinds
  <2>3. head' \in Heads /\ head'.id <= Len(row) + 1
    BY <2>1, <2>2 DEF Heads, Rows
  <2>4. verifier' \in Verifiers /\ verifier'.ids = verifier.ids
    BY <2>1, <2>2 DEF Verifiers
  <2>5. x.entry # NoHash => x.entry = Append(x.prev, <<x.tenant, "event", x.at>>)
    BY <2>1
  <2> QED
    BY <2>1, <2>3, <2>4, <2>5, AppendKeeps
<1>3. CASE Tamper
  BY <1>3, TamperKeeps
<1>4. /\ head \in Heads /\ head.id <= Len(row)
      /\ meta \in [through : Nat, boundary : Hashes] /\ meta.through <= Len(row)
      /\ overlapped \in BOOLEAN
      /\ online \subseteq IDs
  BY DEF LogInv, Kinds
<1>5. ASSUME NEW p \in Replicas, auditArchiveBatch(p) PROVE LogInv'
  <2>1. PICK a \in Archivers :
           /\ archiver' = [archiver EXCEPT ![p] = a] /\ a.ids \subseteq online
           /\ a.ids = {} <=> a.phase \in Resting
           /\ a.phase \in {"idle", "insert"}
    BY <1>5, BatchEffect
  <2>2. UNCHANGED <<now, row, online, archive, head, meta, verifier, tampered>>
    BY <1>5 DEF auditArchiveBatch, tables
  <2>3. overlapped' = (overlapped \/ \E q \in Replicas \ {p} : archiver[q].phase # "idle")
    BY <1>5 DEF auditArchiveBatch
  <2>4. /\ overlapped' \in BOOLEAN
        /\ ~overlapped' => ~overlapped /\ \A q \in Replicas \ {p} : archiver[q].phase = "idle"
    BY <2>3, Zenon
  <2>5. a.ids \subseteq IDs
    BY <1>4, <2>1
  <2> QED
    BY <1>4, <2>1, <2>2, <2>4, <2>5, ArchiverKeeps
<1>6. ASSUME NEW p \in Replicas, InsertArchive(p) PROVE LogInv'
  <2>1. PICK a \in Archivers :
           /\ archiver' = [archiver EXCEPT ![p] = a] /\ a.phase = "delete"
           /\ a.ids = archiver[p].ids /\ a.ids # {} /\ a.ids \subseteq IDs /\ a.phase \notin Resting
    BY <1>6, PhaseEffect DEF InsertArchive, Step, Working
  <2>2. /\ archive' = archive \cup (a.ids \cap online) /\ archiver[p].phase = "insert"
        /\ UNCHANGED <<now, row, online, head, meta, verifier, tampered, overlapped>>
    BY <1>6, <2>1 DEF InsertArchive
  <2> QED
    BY <1>4, <2>1, <2>2, ArchiverKeeps
<1>7. ASSUME NEW p \in Replicas, DeleteOnline(p) PROVE LogInv'
  <2>1. PICK a \in Archivers :
           /\ archiver' = [archiver EXCEPT ![p] = a] /\ a.phase = "meta"
           /\ a.ids = archiver[p].ids /\ a.ids # {} /\ a.ids \subseteq IDs /\ a.phase \notin Resting
    BY <1>7, PhaseEffect DEF DeleteOnline, Step, Working
  <2>2. /\ online' = online \ a.ids /\ archiver[p].phase = "delete"
        /\ UNCHANGED <<now, row, archive, head, meta, verifier, tampered, overlapped>>
    BY <1>7, <2>1 DEF DeleteOnline
  <2>3. a.ids \cap online \subseteq archive
    BY <2>1, <2>2 DEF LogInv, Copied
  <2> QED
    BY <1>4, <2>1, <2>2, <2>3, ArchiverKeeps
<1>8. ASSUME NEW p \in Replicas, AdvanceMeta(p) PROVE LogInv'
  <2>1. PICK a \in Archivers :
           /\ archiver' = [archiver EXCEPT ![p] = a] /\ a.phase = "head"
           /\ a.ids = archiver[p].ids /\ a.ids # {} /\ a.ids \subseteq IDs /\ a.phase \notin Resting
           /\ meta' \in [through : Nat, boundary : Hashes] /\ meta'.through <= Len(row)
    BY <1>8, MetaEffect
  <2>2. /\ archiver[p].phase = "meta"
        /\ UNCHANGED <<now, row, online, archive, head, verifier, tampered, overlapped>>
    BY <1>8 DEF AdvanceMeta
  <2>3. a.ids \cap online = {}
    BY <2>1, <2>2 DEF LogInv, Copied
  <2> QED
    BY <1>4, <2>1, <2>2, <2>3, ArchiverKeeps
<1>9. ASSUME NEW p \in Replicas, RollBackHead(p) PROVE LogInv'
  <2>1. PICK a \in Archivers :
           archiver' = [archiver EXCEPT ![p] = a] /\ a.phase \in Resting /\ a.ids = {}
    BY <1>9, RollBackEffect
  <2>2. head' \in Heads /\ head'.id <= Len(row)
    BY <1>9, RollBackEffect
  <2>3. /\ archiver[p].phase = "head"
        /\ UNCHANGED <<now, row, online, archive, meta, verifier, tampered, overlapped>>
    BY <1>9 DEF RollBackHead
  <2>4. a.phase # "delete" /\ a.phase \notin {"meta", "head"}
    BY <2>1 DEF Resting
  <2> QED
    BY <1>4, <2>1, <2>2, <2>3, <2>4, ArchiverKeeps
<1>10. ASSUME NEW p \in Replicas, Interrupt(p) PROVE LogInv'
  <2>1. PICK a \in Archivers : a = Idle /\ a.ids = {} /\ a.phase = "idle" /\ a.phase \in Resting
    BY IdleArchiver
  <2>2. /\ archiver' = [archiver EXCEPT ![p] = a]
        /\ UNCHANGED <<now, row, online, archive, head, meta, verifier, tampered, overlapped>>
    BY <1>10, <2>1 DEF Interrupt, tables
  <2> QED
    BY <1>4, <2>1, <2>2, ArchiverKeeps
<1>11. CASE ReadHead \/ ReadRows \/ ReadPredecessor \/ ReadArchived \/ EndVerify
  <2>1. now \in 0..MaxTime /\ now <= now
    BY DEF LogInv, Kinds
  <2> QED
    BY <1>11, <2>1, VerifierEffect, OthersKeep
<1>12. CASE UNCHANGED vars
  <2>1. now \in 0..MaxTime /\ now <= now
    BY DEF LogInv, Kinds
  <2> QED
    BY <1>12, <2>1, LogFacts, OthersKeep DEF vars
<1> QED
  BY <1>1, <1>2, <1>3, <1>5, <1>6, <1>7, <1>8, <1>9, <1>10, <1>11, <1>12 DEF Next
-----------------------------------------------------------------------------
(***************************************************************************)
(* The chain, while rows are stamped in its order (Orderly).  It is not    *)
(* enough to say where the chain ends: RollBackHead moves the head to the  *)
(* end of an archiver's batch, so what the batch is must be known from the *)
(* moment it was selected, whatever other archivers delete meanwhile.      *)
(***************************************************************************)
\* Each row of the chain covers more than the ones before it, and follows the
\* last of them.
Growing ==
    \A i, j \in IDs : row[i].entry # NoHash /\ row[j].entry # NoHash /\ i < j =>
        Len(row[i].entry) < Len(row[j].entry)
Links ==
    \A i \in IDs : row[i].entry # NoHash => row[i].prev = HashIn(row, LastIn(row, 1..(i - 1)))

\* The head row has the hash of the last row of the chain.
HeadHash == head.hash = HashIn(row, LastIn(row, IDs))

\* What is online is an end of the log, but for rows removed by hand.
Suffix == \A i \in online, j \in IDs : i < j => j \in online \cup tampered.removed

\* With a row, an archiver's batch has every earlier row that is online; and the
\* archiver knows the hash of the last chained row of its batch.
Batches ==
    \A p \in Replicas :
        /\ \A i \in archiver[p].ids, j \in online : j < i => j \in archiver[p].ids
        /\ Entered(row, archiver[p].ids) # {} =>
              archiver[p].hash = HashIn(row, LastIn(row, archiver[p].ids))

\* The head row names the last row of the chain, or a later one that is out of
\* every archiver's reach; then no row of the chain is online.
HeadAt ==
    /\ head.id >= LastIn(row, IDs)
    /\ head.id # LastIn(row, IDs) =>
          /\ Entered(row, online) = {} /\ head.id \notin online
          /\ \A p \in Replicas : head.id \notin archiver[p].ids

InChain == Growing /\ Links /\ HeadHash /\ Suffix /\ Batches /\ HeadAt
ChainInv == Orderly => InChain

LEMMA ChainInit == Init => ChainInv
<1> SUFFICES ASSUME Init PROVE InChain
  BY DEF ChainInv
<1>1. Len(row) = 0 /\ IDs = {} /\ online = {} /\ head.id = 0 /\ head.hash = NoHash
  BY DEF Init, IDs
<1>2. \A p \in Replicas : archiver[p].ids = {}
  BY DEF Init, Idle
<1>3. \A r : Entered(r, {}) = {} /\ LastIn(r, {}) = 0
  BY DEF Entered, LastIn
<1>4. Growing /\ Links /\ Suffix
  BY <1>1 DEF Growing, Links, Suffix
<1>5. HeadHash /\ HeadAt
  BY <1>1, <1>2, <1>3 DEF HeadHash, HashIn, HeadAt
<1>6. Batches
  BY <1>2, <1>3 DEF Batches
<1> QED
  BY <1>4, <1>5, <1>6 DEF InChain

\* Rows never become orderly again.
LEMMA OrderlyBefore ==
    ASSUME IDs \subseteq IDs', overlapped => overlapped', Orderly',
           \A i \in IDs : row'[i].at = row[i].at /\ row'[i].entry = row[i].entry
    PROVE  Orderly
<1>1. InOrder
  BY DEF Orderly, InOrder
<1>2. overlapped => Chained(IDs) = IDs
  BY DEF Orderly, Chained
<1> QED
  BY <1>1, <1>2 DEF Orderly

\* While the entries of the rows stay, so does the last row of any set of them.
LEMMA SameEntries ==
    ASSUME LogInv, \A i \in IDs : row'[i].entry = row[i].entry, NEW S, S \subseteq IDs
    PROVE  /\ Entered(row', S) = Entered(row, S) /\ LastIn(row', S) = LastIn(row, S)
           /\ HashIn(row', LastIn(row, S)) = HashIn(row, LastIn(row, S))
           /\ LastIn(row, S) \in 0..Len(row) /\ IsLast(row, S, LastIn(row, S))
<1>1. \A i \in S : row'[i].entry = row[i].entry
  OBVIOUS
<1>2. PICK m : m = LastIn(row, S)
  OBVIOUS
<1>3. m \in 0..Len(row) /\ IsLast(row, S, m)
  BY <1>2, LastIsLast, LogFacts
<1>4. HashIn(row', m) = HashIn(row, m)
  <2>1. m # 0 => m \in S
    BY <1>3 DEF IsLast
  <2> QED
    BY <1>1, <2>1 DEF HashIn
<1> QED
  BY <1>1, <1>2, <1>3, <1>4, LastAgrees

\* The links among the rows that were there stay.
LEMMA LinksStay ==
    ASSUME LogInv, Links, \A i \in IDs : row'[i].entry = row[i].entry /\ row'[i].prev = row[i].prev,
           NEW i \in IDs, row'[i].entry # NoHash
    PROVE  row'[i].prev = HashIn(row', LastIn(row', 1..(i - 1)))
<1>1. 1..(i - 1) \subseteq IDs
  BY LogFacts
<1>2. PICK S : S = 1..(i - 1) /\ S \subseteq IDs
  BY <1>1
<1>3. LastIn(row', S) = LastIn(row, S) /\ HashIn(row', LastIn(row, S)) = HashIn(row, LastIn(row, S))
  BY <1>2, SameEntries
<1>4. row[i].prev = HashIn(row, LastIn(row, S))
  BY <1>2 DEF Links
<1> QED
  BY <1>2, <1>3, <1>4

\* A row is appended: chained to the head, which moves to it, or not chained.
LEMMA AppendChain ==
    ASSUME LogInv, InChain, NEW x \in Rows, row' = Append(row, x),
           online' = online \cup {Len(row) + 1},
           UNCHANGED <<archiver, tampered>>,
           \/ /\ x.prev = head.hash /\ x.entry # NoHash /\ Len(x.entry) = Len(head.hash) + 1
              /\ head' = [id |-> Len(row) + 1, hash |-> x.entry]
           \/ x.entry = NoHash /\ UNCHANGED head
    PROVE  InChain'
<1> DEFINE L == LastIn(row, IDs)
<1>1. PICK k : k = Len(row) + 1
  OBVIOUS
<1>2. /\ row' \in Seq(Rows) /\ Len(row') = k /\ IDs' = IDs \cup {k} /\ k \notin IDs
      /\ \A i \in IDs : row'[i] = row[i]
      /\ row'[k] = x
  BY <1>1, AppendedLog
<1>3. /\ Len(row) \in Nat /\ IDs = 1..Len(row) /\ k \in Nat /\ k # 0
      /\ \A i \in IDs : i < k /\ i \in Nat /\ ~(k < i)
  BY <1>1, LogFacts
<1>4. L \in 0..Len(row) /\ IsLast(row, IDs, L) /\ HashIn(row', L) = HashIn(row, L)
  BY <1>2, SameEntries
<1>5. head.hash = HashIn(row, L) /\ head.id >= L /\ head.id \in Nat /\ head.id <= Len(row)
  BY LogFacts DEF InChain, HeadHash, HeadAt, Heads, LogInv, Kinds
<1> HIDE DEF L
<1>6. ASSUME x.entry # NoHash
      PROVE  Growing' /\ Links' /\ HeadHash' /\ HeadAt'
  <2>1. /\ x.prev = head.hash /\ Len(x.entry) = Len(head.hash) + 1
        /\ head' = [id |-> k, hash |-> x.entry]
    BY <1>1, <1>6
  <2>2. IsLast(row', IDs', k)
    BY <1>2, <1>3, <1>6 DEF IsLast
  <2>3. LastIn(row', IDs') = k
    <3>1. IDs' \subseteq 1..k
      BY <1>1, <1>2, <1>3
    <3> QED
      BY <1>3, <2>2, <3>1, LastIsUnique
  <2>4. HeadHash'
    BY <1>2, <1>3, <2>1, <2>3 DEF HeadHash, HashIn
  <2>5. HeadAt'
    BY <1>3, <2>1, <2>3 DEF HeadAt
  <2>6. ASSUME NEW i \in IDs, row[i].entry # NoHash
        PROVE  Len(row[i].entry) < Len(x.entry)
    <3>1. L \in IDs /\ row[L].entry # NoHash /\ i <= L
      BY <1>4, <2>6 DEF IsLast
    <3>2. head.hash = row[L].entry
      BY <1>3, <1>5, <3>1 DEF HashIn
    <3>3. Len(row[i].entry) \in Nat /\ Len(row[L].entry) \in Nat
      <4>1. row[i].entry \in Hashes /\ row[L].entry \in Hashes
        BY <2>6, <3>1, LogFacts DEF Rows
      <4> QED
        BY <4>1 DEF Hashes
    <3>4. i = L \/ Len(row[i].entry) < Len(row[L].entry)
      BY <1>3, <2>6, <3>1 DEF InChain, Growing
    <3> QED
      BY <2>1, <3>2, <3>3, <3>4
  <2>7. Growing'
    <3> SUFFICES ASSUME NEW i \in IDs', NEW j \in IDs',
                        row'[i].entry # NoHash, row'[j].entry # NoHash, i < j
                 PROVE  Len(row'[i].entry) < Len(row'[j].entry)
      BY DEF Growing
    <3>1. i \in IDs
      BY <1>2, <1>3
    <3>2. CASE j = k
      BY <1>2, <2>6, <3>1, <3>2
    <3>3. CASE j # k
      BY <1>2, <3>1, <3>3 DEF InChain, Growing
    <3> QED
      BY <3>2, <3>3
  <2>8. Links'
    <3> SUFFICES ASSUME NEW i \in IDs', row'[i].entry # NoHash
                 PROVE  row'[i].prev = HashIn(row', LastIn(row', 1..(i - 1)))
      BY DEF Links
    <3>1. CASE i = k
      <4>1. 1..(i - 1) = IDs
        BY <1>1, <1>3, <3>1
      <4>2. LastIn(row', IDs) = L
        BY <1>2, SameEntries DEF L
      <4> QED
        BY <1>2, <1>4, <1>5, <2>1, <3>1, <4>1, <4>2
    <3>2. CASE i # k
      BY <1>2, <3>2, LinksStay DEF InChain
    <3> QED
      BY <3>1, <3>2
  <2> QED
    BY <2>4, <2>5, <2>7, <2>8
<1>7. ASSUME x.entry = NoHash
      PROVE  Growing' /\ Links' /\ HeadHash' /\ HeadAt'
  <2>1. head' = head
    BY <1>7
  <2>2. IsLast(row', IDs', L)
    BY <1>2, <1>3, <1>4, <1>7 DEF IsLast
  <2>3. LastIn(row', IDs') = L
    <3>1. IDs' \subseteq 1..k
      BY <1>1, <1>2, <1>3
    <3> QED
      BY <1>3, <2>2, <3>1, LastIsUnique
  <2>4. HeadHash'
    BY <1>4, <1>5, <2>1, <2>3 DEF HeadHash
  <2>5. Entered(row', online') = Entered(row, online)
    <3>1. Entered(row', online) = Entered(row, online)
      BY <1>2, SameEntries, LogFacts
    <3> QED
      BY <1>1, <1>2, <1>7, <3>1 DEF Entered
  <2>6. HeadAt'
    <3>1. head.id # k
      BY <1>1, <1>3, <1>5
    <3> QED
      BY <1>1, <1>5, <2>1, <2>3, <2>5, <3>1 DEF InChain, HeadAt, L
  <2>7. Growing'
    <3> SUFFICES ASSUME NEW i \in IDs', NEW j \in IDs',
                        row'[i].entry # NoHash, row'[j].entry # NoHash, i < j
                 PROVE  Len(row'[i].entry) < Len(row'[j].entry)
      BY DEF Growing
    <3>1. i \in IDs /\ j \in IDs
      BY <1>2, <1>7
    <3> QED
      BY <1>2, <3>1 DEF InChain, Growing
  <2>8. Links'
    <3> SUFFICES ASSUME NEW i \in IDs', row'[i].entry # NoHash
                 PROVE  row'[i].prev = HashIn(row', LastIn(row', 1..(i - 1)))
      BY DEF Links
    <3> QED
      BY <1>2, <1>7, LinksStay DEF InChain
  <2> QED
    BY <2>4, <2>6, <2>7, <2>8
<1>8. Suffix'
  BY <1>1, <1>2, <1>3, LogFacts DEF InChain, Suffix
<1>9. Batches'
  <2> SUFFICES ASSUME NEW p \in Replicas
               PROVE  /\ \A i \in archiver[p].ids, j \in online' : j < i => j \in archiver[p].ids
                      /\ Entered(row', archiver[p].ids) # {} =>
                            archiver[p].hash = HashIn(row', LastIn(row', archiver[p].ids))
    BY DEF Batches
  <2>1. archiver[p].ids \subseteq IDs
    BY LogFacts
  <2>2. PICK S : S = archiver[p].ids
    OBVIOUS
  <2>3. Entered(row', S) = Entered(row, S) /\ LastIn(row', S) = LastIn(row, S)
        /\ HashIn(row', LastIn(row, S)) = HashIn(row, LastIn(row, S))
    BY <1>2, <2>1, <2>2, SameEntries
  <2>4. \A i \in S, j \in online' : j < i => j \in S
    BY <1>1, <1>3, <2>1, <2>2 DEF InChain, Batches
  <2> QED
    BY <2>2, <2>3, <2>4 DEF InChain, Batches
<1>10. Growing' /\ Links' /\ HeadHash' /\ HeadAt'
  BY <1>6, <1>7
<1> QED
  BY <1>8, <1>9, <1>10 DEF InChain

\* An archiver p becomes a, and may delete the first rows online.
LEMMA ArchiverChain ==
    ASSUME LogInv, InChain, NEW p \in Replicas, NEW a, archiver' = [archiver EXCEPT ![p] = a],
           UNCHANGED <<row, tampered>>, online' \subseteq online,
           \A i \in online', j \in online \ online' : ~(i < j),
           \A i \in a.ids, j \in online' : j < i => j \in a.ids,
           Entered(row, a.ids) # {} => a.hash = HashIn(row, LastIn(row, a.ids))
    PROVE  Growing' /\ Links' /\ Suffix' /\ Batches'
<1>1. /\ archiver'[p] = a
      /\ \A q \in Replicas \ {p} : archiver'[q] = archiver[q]
  BY DEF LogInv, Kinds
<1>2. IDs' = IDs /\ row' = row /\ tampered' = tampered
  BY DEF IDs
<1>3. Growing' /\ Links'
  BY <1>2 DEF InChain, Growing, Links
<1>4. Suffix'
  BY <1>2 DEF InChain, Suffix
<1>5. Batches'
  <2> SUFFICES ASSUME NEW q \in Replicas
               PROVE  /\ \A i \in archiver'[q].ids, j \in online' : j < i => j \in archiver'[q].ids
                      /\ Entered(row, archiver'[q].ids) # {} =>
                            archiver'[q].hash = HashIn(row, LastIn(row, archiver'[q].ids))
    BY <1>2 DEF Batches
  <2>1. CASE q = p
    BY <1>1, <2>1
  <2>2. CASE q # p
    BY <1>1, <2>2 DEF InChain, Batches
  <2> QED
    BY <2>1, <2>2
<1> QED
  BY <1>3, <1>4, <1>5

\* The head stays where it is, and no archiver takes a row it did not have
\* unless the row is online.
LEMMA HeadStays ==
    ASSUME LogInv, InChain, NEW p \in Replicas, NEW a, archiver' = [archiver EXCEPT ![p] = a],
           UNCHANGED <<row, head>>, online' \subseteq online,
           a.ids \subseteq archiver[p].ids \cup online
    PROVE  HeadHash' /\ HeadAt'
<1>1. /\ archiver'[p] = a
      /\ \A q \in Replicas \ {p} : archiver'[q] = archiver[q]
  BY DEF LogInv, Kinds
<1>2. IDs' = IDs /\ row' = row /\ head' = head
  BY DEF IDs
<1>3. HeadHash'
  BY <1>2 DEF InChain, HeadHash
<1>4. Entered(row, online) = {} => Entered(row, online') = {}
  BY DEF Entered
<1>5. HeadAt'
  <2>1. head.id >= LastIn(row, IDs)
    BY DEF InChain, HeadAt
  <2>2. ASSUME head.id # LastIn(row, IDs)
        PROVE  /\ Entered(row, online') = {} /\ head.id \notin online'
               /\ \A q \in Replicas : head.id \notin archiver'[q].ids
    <3>1. /\ Entered(row, online) = {} /\ head.id \notin online
          /\ \A q \in Replicas : head.id \notin archiver[q].ids
      BY <2>2 DEF InChain, HeadAt
    <3> QED
      BY <1>1, <1>4, <3>1
  <2> QED
    BY <1>2, <2>1, <2>2 DEF HeadAt
<1> QED
  BY <1>3, <1>5

\* The head is moved off a row that was archived: the row was the last of the
\* chain, so it is the last chained row of the batch, and nothing of the chain is
\* online any more.
LEMMA HeadRollsBack ==
    ASSUME LogInv, InChain, Orderly, NEW p \in Replicas, RollBackHead(p)
    PROVE  HeadHash' /\ HeadAt'
<1>1. PICK a \in Archivers :
         archiver' = [archiver EXCEPT ![p] = a] /\ a.phase \in Resting /\ a.ids = {}
  BY RollBackEffect
<1>2. /\ archiver[p].ids # {} /\ archiver[p].ids \cap online = {}
      /\ head.id \notin archiver[p].ids => head' = head
      /\ head.id \in archiver[p].ids /\ LastIn(row, online) = 0 =>
            head'.id = Max(archiver[p].ids) /\ head'.hash = archiver[p].hash
  BY RollBackEffect
<1>3. /\ UNCHANGED <<row, online, tampered, overlapped>> /\ archiver[p].phase = "head"
  BY DEF RollBackHead
<1>4. CASE head.id \notin archiver[p].ids
  BY <1>1, <1>2, <1>3, <1>4, HeadStays
<1>5. CASE head.id \in archiver[p].ids
  <2>1. PICK S : S = archiver[p].ids /\ S # {} /\ S \subseteq IDs
    BY <1>2, LogFacts
  <2>2. PICK L : L = LastIn(row, IDs)
    OBVIOUS
  <2>3. IDs = 1..Len(row) /\ Len(row) \in Nat /\ online \subseteq IDs
    BY LogFacts
  <2>4. head.id = L /\ L \in S
    BY <1>5, <2>1, <2>2 DEF InChain, HeadAt
  <2>5. L \in IDs /\ L # 0 /\ row[L].entry # NoHash
        /\ \A i \in IDs : row[i].entry # NoHash => i <= L
    <3>1. IsLast(row, IDs, L) /\ L \in 1..Len(row)
      BY <2>1, <2>2, <2>3, <2>4, LastIsLast
    <3> QED
      BY <2>3, <3>1 DEF IsLast
  <2>6. LastIn(row, S) = L
    <3>1. IsLast(row, S, L)
      BY <2>1, <2>4, <2>5 DEF IsLast
    <3> QED
      BY <2>1, <2>3, <3>1, LastIsUnique
  <2>7. Entered(row, online) = {}
    <3> SUFFICES ASSUME NEW j \in online, row[j].entry # NoHash PROVE FALSE
      BY DEF Entered
    <3>1. j \in IDs /\ j <= L
      BY <2>3, <2>5
    <3>2. j \notin S /\ j # L
      BY <1>2, <2>1, <2>4
    <3>3. j < L
      BY <2>3, <2>5, <3>1, <3>2
    <3> QED
      BY <2>1, <2>4, <3>2, <3>3 DEF InChain, Batches
  <2>8. head'.id = Max(S) /\ head'.hash = archiver[p].hash
    <3>1. LastIn(row, online) = 0
      BY <2>7 DEF LastIn
    <3> QED
      BY <1>2, <1>5, <2>1, <3>1
  <2>9. archiver[p].hash = HashIn(row, L)
    <3>1. Entered(row, S) # {}
      BY <2>4, <2>5 DEF Entered
    <3> QED
      BY <2>1, <2>6, <3>1 DEF InChain, Batches
  <2>10. PICK m : m = Max(S) /\ m \in S /\ L <= m
    BY <2>1, <2>3, <2>4, FirstAndLast
  <2>11. IDs' = IDs /\ row' = row /\ online' = online
    BY <1>3 DEF IDs
  <2>12. HeadHash'
    BY <2>2, <2>8, <2>9, <2>11 DEF HeadHash
  <2>13. HeadAt'
    <3>1. m \in IDs /\ m >= L /\ m \notin online
      BY <1>2, <2>1, <2>3, <2>5, <2>10
    <3>2. ASSUME m # L, NEW q \in Replicas PROVE m \notin archiver'[q].ids
      <4>1. archiver'[p] = a /\ \A s \in Replicas \ {p} : archiver'[s] = archiver[s]
        BY <1>1 DEF LogInv, Kinds
      <4>2. CASE q = p
        BY <1>1, <4>1, <4>2
      <4>3. CASE q # p
        <5>1. row[m].entry = NoHash
          BY <2>3, <2>5, <2>10, <3>1, <3>2
        <5>2. ~overlapped
          BY <3>1, <5>1 DEF Orderly, Chained
        <5>3. archiver[q].phase = "idle"
          BY <1>3, <4>3, <5>2 DEF LogInv, Alone
        <5>4. archiver[q].ids = {}
          BY <5>3 DEF LogInv, Batched, Resting
        <5> QED
          BY <4>1, <4>3, <5>4
      <4> QED
        BY <4>2, <4>3
    <3> QED
      BY <2>2, <2>7, <2>8, <2>10, <2>11, <3>1, <3>2 DEF HeadAt
  <2> QED
    BY <2>12, <2>13
<1> QED
  BY <1>4, <1>5

\* The five steps of ArchiveAuditLog, and its end at any point.
LEMMA ArchiveChain ==
    ASSUME LogInv, InChain, Orderly, NEW p \in Replicas,
           \/ auditArchiveBatch(p) \/ InsertArchive(p) \/ DeleteOnline(p) \/ AdvanceMeta(p)
           \/ RollBackHead(p) \/ Interrupt(p)
    PROVE  InChain'
<1>1. CASE auditArchiveBatch(p)
  <2>1. PICK a \in Archivers :
           /\ archiver' = [archiver EXCEPT ![p] = a]
           /\ a.ids \subseteq online
           /\ a.ids # {} => a.hash = HashIn(row, LastIn(row, a.ids))
           /\ InOrder => \A i \in a.ids, j \in online : j < i => j \in a.ids
    BY <1>1, BatchEffect
  <2>2. UNCHANGED <<row, online, head, tampered>>
    BY <1>1 DEF auditArchiveBatch, tables
  <2>3. \A i \in a.ids, j \in online' : j < i => j \in a.ids
    BY <2>1, <2>2 DEF Orderly
  <2>4. Entered(row, a.ids) # {} => a.hash = HashIn(row, LastIn(row, a.ids))
    BY <2>1 DEF Entered
  <2>5. Growing' /\ Links' /\ Suffix' /\ Batches'
    BY <2>1, <2>2, <2>3, <2>4, ArchiverChain
  <2>6. HeadHash' /\ HeadAt'
    BY <2>1, <2>2, HeadStays
  <2> QED
    BY <2>5, <2>6 DEF InChain
<1>2. ASSUME NEW a, archiver' = [archiver EXCEPT ![p] = a], a.ids = archiver[p].ids,
             Entered(row, a.ids) # {} => a.hash = archiver[p].hash,
             UNCHANGED <<row, head, tampered>>, online' \in {online, online \ a.ids}
      PROVE  InChain'
  <2>1. /\ \A i \in a.ids, j \in online : j < i => j \in a.ids
        /\ Entered(row, a.ids) # {} => a.hash = HashIn(row, LastIn(row, a.ids))
    BY <1>2 DEF InChain, Batches
  <2>2. \A i \in online', j \in online \ online' : ~(i < j)
    BY <1>2, <2>1
  <2>3. online' \subseteq online
    BY <1>2
  <2>4. \A i \in a.ids, j \in online' : j < i => j \in a.ids
    BY <2>1, <2>3
  <2>5. Growing' /\ Links' /\ Suffix' /\ Batches'
    BY <1>2, <2>1, <2>2, <2>3, <2>4, ArchiverChain
  <2>6. HeadHash' /\ HeadAt'
    BY <1>2, <2>3, HeadStays
  <2> QED
    BY <2>5, <2>6 DEF InChain
<1>3. CASE InsertArchive(p)
  <2>1. PICK a : /\ archiver' = [archiver EXCEPT ![p] = a]
                 /\ a.ids = archiver[p].ids /\ a.hash = archiver[p].hash
    BY <1>3, PhaseEffect DEF InsertArchive, Step, Working
  <2> QED
    BY <1>2, <1>3, <2>1 DEF InsertArchive
<1>4. CASE DeleteOnline(p)
  <2>1. PICK a : /\ archiver' = [archiver EXCEPT ![p] = a]
                 /\ a.ids = archiver[p].ids /\ a.hash = archiver[p].hash
    BY <1>4, PhaseEffect DEF DeleteOnline, Step, Working
  <2> QED
    BY <1>2, <1>4, <2>1 DEF DeleteOnline
<1>5. CASE AdvanceMeta(p)
  <2>1. PICK a : /\ archiver' = [archiver EXCEPT ![p] = a]
                 /\ a.ids = archiver[p].ids /\ a.ids \subseteq IDs
                 /\ archiver[p].hash # NoHash => a.hash = archiver[p].hash
    BY <1>5, MetaEffect
  <2>2. PICK S : S = a.ids
    OBVIOUS
  <2>3. Entered(row, S) # {} => HashIn(row, LastIn(row, S)) # NoHash
    <3>1. IsLast(row, S, LastIn(row, S))
      BY <2>1, <2>2, LastIsLast, LogFacts
    <3>2. PICK m : m = LastIn(row, S)
      OBVIOUS
    <3>3. 0 \notin S
      BY <2>1, <2>2, LogFacts
    <3> QED
      BY <3>1, <3>2, <3>3 DEF IsLast, HashIn, Entered
  <2>4. Entered(row, a.ids) # {} => a.hash = archiver[p].hash
    BY <2>1, <2>2, <2>3 DEF InChain, Batches
  <2> QED
    BY <1>2, <1>5, <2>1, <2>4 DEF AdvanceMeta
<1>6. ASSUME NEW a, archiver' = [archiver EXCEPT ![p] = a], a.ids = {},
             UNCHANGED <<row, online, tampered>>
      PROVE  Growing' /\ Links' /\ Suffix' /\ Batches'
  <2>1. Entered(row, a.ids) = {}
    BY <1>6 DEF Entered
  <2> QED
    BY <1>6, <2>1, ArchiverChain
<1>7. CASE RollBackHead(p)
  <2>1. PICK a : archiver' = [archiver EXCEPT ![p] = a] /\ a.ids = {}
    BY <1>7, RollBackEffect
  <2>2. Growing' /\ Links' /\ Suffix' /\ Batches'
    BY <1>6, <1>7, <2>1 DEF RollBackHead
  <2> QED
    BY <1>7, <2>2, HeadRollsBack DEF InChain
<1>8. CASE Interrupt(p)
  <2>1. PICK a : a = Idle /\ a.ids = {}
    BY IdleArchiver
  <2>2. archiver' = [archiver EXCEPT ![p] = a] /\ UNCHANGED <<row, online, head, tampered>>
    BY <1>8, <2>1 DEF Interrupt, tables
  <2>3. Growing' /\ Links' /\ Suffix' /\ Batches'
    BY <1>6, <2>1, <2>2
  <2>4. HeadHash' /\ HeadAt'
    BY <2>1, <2>2, HeadStays
  <2> QED
    BY <2>3, <2>4 DEF InChain
<1> QED
  BY <1>1, <1>3, <1>4, <1>5, <1>7, <1>8

\* Tampering leaves the entries and the head alone.
LEMMA TamperChain ==
    ASSUME LogInv, InChain, Tamper
    PROVE  InChain'
<1>1. /\ UNCHANGED <<head, archiver>> /\ IDs' = IDs
      /\ \A i \in IDs : row'[i].entry = row[i].entry /\ row'[i].prev = row[i].prev
  BY TamperEffect
<1>2. /\ online' \subseteq online
      /\ online \cup tampered.removed \subseteq online' \cup tampered'.removed
  <2>1. PICK i \in IDs :
           \/ online' = online /\ tampered'.removed = tampered.removed
           \/ online' = online \ {i} /\ tampered'.removed = tampered.removed \cup {i}
    BY TamperEffect
  <2> QED
    BY <2>1
<1>3. Growing'
  BY <1>1 DEF InChain, Growing
<1>4. Links'
  <2> SUFFICES ASSUME NEW i \in IDs, row'[i].entry # NoHash
               PROVE  row'[i].prev = HashIn(row', LastIn(row', 1..(i - 1)))
    BY <1>1 DEF Links
  <2> QED
    BY <1>1, LinksStay DEF InChain
<1>5. /\ LastIn(row', IDs) = LastIn(row, IDs)
      /\ HashIn(row', LastIn(row, IDs)) = HashIn(row, LastIn(row, IDs))
  BY <1>1, SameEntries
<1>6. HeadHash'
  BY <1>1, <1>5 DEF InChain, HeadHash
<1>7. Suffix'
  BY <1>1, <1>2 DEF InChain, Suffix
<1>8. Entered(row', online') \subseteq Entered(row, online)
  BY <1>1, <1>2, LogFacts DEF Entered
<1>9. HeadAt'
  BY <1>1, <1>2, <1>5, <1>8 DEF InChain, HeadAt
<1>10. Batches'
  <2> SUFFICES ASSUME NEW p \in Replicas
               PROVE  /\ \A i \in archiver[p].ids, j \in online' : j < i => j \in archiver[p].ids
                      /\ Entered(row', archiver[p].ids) # {} =>
                            archiver[p].hash = HashIn(row', LastIn(row', archiver[p].ids))
    BY <1>1 DEF Batches
  <2>1. PICK S : S = archiver[p].ids /\ S \subseteq IDs
    BY LogFacts
  <2>2. /\ Entered(row', S) = Entered(row, S) /\ LastIn(row', S) = LastIn(row, S)
        /\ HashIn(row', LastIn(row, S)) = HashIn(row, LastIn(row, S))
    BY <1>1, <2>1, SameEntries
  <2> QED
    BY <1>2, <2>1, <2>2 DEF InChain, Batches
<1> QED
  BY <1>3, <1>4, <1>6, <1>7, <1>9, <1>10 DEF InChain

LEMMA ChainNext == LogInv /\ ChainInv /\ [Next]_vars => ChainInv'
<1> SUFFICES ASSUME LogInv, ChainInv, [Next]_vars, Orderly' PROVE InChain'
  BY DEF ChainInv
<1>1. CASE Audit
  <2>1. PICK x \in Rows :
              /\ row' = Append(row, x)
              /\ online' = online \cup {Len(row) + 1}
              /\ UNCHANGED <<now, archive, meta, archiver, tampered, overlapped>>
              /\ \/ /\ x.prev = head.hash /\ x.entry # NoHash /\ Len(x.entry) = Len(head.hash) + 1
                    /\ head' = [id |-> Len(row) + 1, hash |-> x.entry]
                 \/ x.entry = NoHash /\ UNCHANGED head
    BY <1>1, AuditEffect
  <2>2. IDs \subseteq IDs' /\ \A i \in IDs : row'[i] = row[i]
    BY <2>1, AppendedLog
  <2>3. Orderly
    BY <2>1, <2>2, OrderlyBefore
  <2> QED
    BY <2>1, <2>3, AppendChain DEF ChainInv
<1>2. CASE Tamper
  <2>1. Orderly
    BY <1>2, TamperEffect, OrderlyBefore
  <2> QED
    BY <1>2, <2>1, TamperChain DEF ChainInv
<1>3. ASSUME NEW p \in Replicas,
             \/ auditArchiveBatch(p) \/ InsertArchive(p) \/ DeleteOnline(p) \/ AdvanceMeta(p)
             \/ RollBackHead(p) \/ Interrupt(p)
      PROVE  InChain'
  <2>1. UNCHANGED row /\ (overlapped => overlapped')
    <3>1. CASE auditArchiveBatch(p)
      <4>1. overlapped' = (overlapped \/ \E q \in Replicas \ {p} : archiver[q].phase # "idle")
        BY <3>1 DEF auditArchiveBatch
      <4>2. overlapped => overlapped'
        BY <4>1, Zenon
      <4> QED
        BY <3>1, <4>2 DEF auditArchiveBatch, tables
    <3>2. CASE InsertArchive(p) \/ DeleteOnline(p) \/ AdvanceMeta(p) \/ RollBackHead(p) \/ Interrupt(p)
      BY <3>2 DEF InsertArchive, DeleteOnline, AdvanceMeta, RollBackHead, Interrupt, tables
    <3> QED
      BY <1>3, <3>1, <3>2
  <2>2. IDs' = IDs
    BY <2>1 DEF IDs
  <2>3. Orderly
    BY <2>1, <2>2, OrderlyBefore
  <2> QED
    BY <1>3, <2>3, ArchiveChain DEF ChainInv
<1>4. CASE Tick \/ ReadHead \/ ReadRows \/ ReadPredecessor \/ ReadArchived \/ EndVerify \/ UNCHANGED vars
  <2>1. UNCHANGED <<row, online, head, archiver, tampered, overlapped>>
    BY <1>4 DEF Tick, ReadHead, ReadRows, ReadPredecessor, ReadArchived, EndVerify, vars, tables
  <2>2. IDs' = IDs
    BY <2>1 DEF IDs
  <2>3. InChain
    BY <2>1, <2>2, OrderlyBefore DEF ChainInv
  <2> QED
    BY <2>1, <2>2, <2>3
    DEF InChain, Growing, Links, HeadHash, Suffix, Batches, HeadAt
<1> QED
  BY <1>1, <1>2, <1>3, <1>4 DEF Next
-----------------------------------------------------------------------------
(***************************************************************************)
(* A check under way.                                                      *)
(***************************************************************************)
\* Its window is of rows that are there and in the chain.  Once the row before
\* the window was not found online, no such row is online.
Window ==
    /\ verifier.ids \subseteq Entered(row, IDs) \ tampered.removed
    /\ verifier.phase \in {"idle", "head"} => verifier.ids = {}
    /\ verifier.phase \in {"rows", "archive"} => verifier.ids # {}
    /\ verifier.phase = "archive" => \A j \in Entered(row, online) : ~(j < Min(verifier.ids))
    /\ verifier.phase # "done" => verifier.ok

\* The head that was read is at the end of the chain still.
HeadReadAt ==
    verifier.phase = "head" /\ verifier.calm =>
        /\ verifier.headRead.id >= LastIn(row, IDs)
        /\ verifier.headRead.hash = HashIn(row, LastIn(row, IDs))
        /\ verifier.headRead.id # LastIn(row, IDs) => Entered(row, online) = {}

\* The window that was read ends at the head that was read, and has no gaps if
\* it is of all tenants.
WindowRead ==
    verifier.phase \in {"rows", "archive"} =>
        /\ verifier.calm => HeadConsistent(verifier.ids)
        /\ verifier.scope = Platform =>
              \A i, k \in verifier.ids, j \in Entered(row, IDs) :
                  i < j /\ j < k => j \in verifier.ids

\* What TamperingFound says, with the row after i said to be the first there is.
Finds ==
    verifier.phase = "done" /\ verifier.ids # {} /\ Orderly =>
        /\ verifier.ids \cap tampered.altered # {} => ~verifier.ok
        /\ verifier.scope = Platform =>
              \A i \in tampered.removed :
                  /\ i = verifier.headRead.id => ~verifier.ok
                  /\ \A m \in verifier.ids :
                        i < m /\ (\A j \in Entered(row, IDs) : i < j => m <= j) => ~verifier.ok

CheckInv ==
    /\ Window /\ (Orderly => HeadReadAt) /\ (Untouched /\ Orderly => WindowRead)
    /\ AlarmMeansTampering /\ Finds

LEMMA CheckInit == Init => CheckInv
<1> SUFFICES ASSUME Init PROVE CheckInv
  OBVIOUS
<1>1. verifier.phase = "idle" /\ verifier.ids = {} /\ verifier.ok
  BY DEF Init, NotVerifying
<1> QED
  BY <1>1 DEF CheckInv, Window, HeadReadAt, WindowRead, AlarmMeansTampering, Finds

\* The first row of the window is one of its rows.
LEMMA WindowFirst ==
    ASSUME LogInv, verifier.ids # {}
    PROVE  /\ Min(verifier.ids) \in verifier.ids /\ \A i \in verifier.ids : Min(verifier.ids) <= i
           /\ Max(verifier.ids) \in verifier.ids /\ \A i \in verifier.ids : i <= Max(verifier.ids)
<1>1. verifier.ids \subseteq 1..Len(row) /\ Len(row) \in Nat
  BY LogFacts
<1> QED
  BY <1>1, FirstAndLast

\* The tables stay, or lose rows to the archive.
LEMMA OthersCheck ==
    ASSUME LogInv, CheckInv, UNCHANGED <<row, verifier, tampered>>, online' \subseteq online,
           overlapped => overlapped'
    PROVE  CheckInv'
<1>1. IDs' = IDs
  BY DEF IDs
<1>2. (Orderly' => Orderly) /\ Untouched' = Untouched
  BY <1>1, OrderlyBefore DEF Untouched
<1>3. Entered(row', online') \subseteq Entered(row, online)
  BY DEF Entered
<1>4. Window'
  BY <1>1, <1>3 DEF CheckInv, Window
<1>5. Orderly => HeadReadAt'
  BY <1>1, <1>3 DEF CheckInv, HeadReadAt
<1>6. Untouched /\ Orderly => WindowRead'
  BY <1>1 DEF CheckInv, WindowRead, HeadConsistent
<1>7. AlarmMeansTampering'
  BY <1>2 DEF CheckInv, AlarmMeansTampering
<1>8. Finds'
  BY <1>1, <1>2 DEF CheckInv, Finds
<1> QED
  BY <1>2, <1>4, <1>5, <1>6, <1>7, <1>8 DEF CheckInv

\* Nobody tampers while a check is under way.
LEMMA TamperCheck ==
    ASSUME LogInv, CheckInv, Tamper
    PROVE  CheckInv'
<1>1. verifier' = verifier /\ verifier.phase = "idle"
  BY TamperEffect
<1>2. verifier.ids = {} /\ verifier.ok
  BY <1>1 DEF CheckInv, Window
<1> QED
  BY <1>1, <1>2 DEF CheckInv, Window, HeadReadAt, WindowRead, AlarmMeansTampering, Finds

\* A row is appended: it is after every row of a window, and if it is chained, a
\* check that has read the head but no rows is not calm any more.
LEMMA AppendCheck ==
    ASSUME LogInv, CheckInv, NEW x \in Rows, row' = Append(row, x),
           online' = online \cup {Len(row) + 1},
           UNCHANGED <<tampered, overlapped>>,
           \/ x.entry # NoHash /\ verifier' = [verifier EXCEPT !.calm = @ /\ verifier.phase # "head"]
           \/ x.entry = NoHash /\ UNCHANGED verifier
    PROVE  CheckInv'
<1>1. PICK k : k = Len(row) + 1
  OBVIOUS
<1>2. /\ row' \in Seq(Rows) /\ Len(row') = k /\ IDs' = IDs \cup {k} /\ k \notin IDs
      /\ \A i \in IDs : row'[i] = row[i]
      /\ row'[k] = x
  BY <1>1, AppendedLog
<1>3. /\ Len(row) \in Nat /\ IDs = 1..Len(row) /\ k \in Nat
      /\ \A i \in IDs : i < k /\ i \in Nat /\ ~(k < i)
      /\ online \subseteq IDs /\ verifier.ids \subseteq IDs /\ tampered.removed \subseteq IDs
      /\ verifier \in Verifiers
  BY <1>1, LogFacts
<1>4. /\ verifier'.phase = verifier.phase /\ verifier'.ids = verifier.ids
      /\ verifier'.scope = verifier.scope /\ verifier'.headRead = verifier.headRead
      /\ verifier'.ok = verifier.ok
      /\ verifier'.calm => verifier.calm
      /\ verifier.phase # "head" => verifier'.calm = verifier.calm
      /\ verifier.phase = "head" /\ verifier'.calm => x.entry = NoHash
  <2>1. CASE x.entry = NoHash /\ UNCHANGED verifier
    BY <2>1
  <2>2. CASE x.entry # NoHash /\ verifier' = [verifier EXCEPT !.calm = @ /\ verifier.phase # "head"]
    <3>1. PICK c \in BOOLEAN : verifier' = [verifier EXCEPT !.calm = c]
                               /\ (c <=> verifier.calm /\ verifier.phase # "head")
      BY <2>2, Zenon
    <3>2. verifier.calm \in BOOLEAN /\ verifier'.calm = c
      BY <1>3, <3>1 DEF Verifiers
    <3> QED
      BY <1>3, <2>2, <3>1, <3>2 DEF Verifiers
  <2> QED
    BY <2>1, <2>2
<1>5. Orderly' => Orderly
  BY <1>2, OrderlyBefore
<1>6. /\ Entered(row, IDs) \subseteq Entered(row', IDs')
      /\ Entered(row', IDs') \subseteq Entered(row, IDs) \cup {k}
      /\ Entered(row', online') \subseteq Entered(row, online) \cup {k}
      /\ x.entry = NoHash => Entered(row', online') = Entered(row, online)
  BY <1>1, <1>2, <1>3 DEF Entered
<1>7. Window'
  <2>1. verifier.phase = "archive" => ~(k < Min(verifier.ids))
    <3>1. verifier.phase = "archive" => verifier.ids # {}
      BY DEF CheckInv, Window
    <3> QED
      BY <1>3, <3>1, WindowFirst
  <2> QED
    BY <1>4, <1>6, <2>1 DEF CheckInv, Window
<1>8. Orderly => HeadReadAt'
  <2> SUFFICES ASSUME Orderly, verifier.phase = "head", verifier'.calm
               PROVE  /\ verifier.headRead.id >= LastIn(row', IDs')
                      /\ verifier.headRead.hash = HashIn(row', LastIn(row', IDs'))
                      /\ verifier.headRead.id # LastIn(row', IDs') => Entered(row', online') = {}
    BY <1>4 DEF HeadReadAt
  <2>1. x.entry = NoHash /\ verifier.calm
    BY <1>4
  <2>2. PICK L : L = LastIn(row, IDs)
    OBVIOUS
  <2>3. IsLast(row, IDs, L) /\ HashIn(row', L) = HashIn(row, L)
    BY <1>2, <2>2, SameEntries
  <2>4. IsLast(row', IDs', L)
    BY <1>2, <2>1, <2>3 DEF IsLast
  <2>5. LastIn(row', IDs') = L
    <3>1. IDs' \subseteq 1..k
      BY <1>1, <1>2, <1>3
    <3> QED
      BY <1>3, <2>4, <3>1, LastIsUnique
  <2> QED
    BY <1>6, <2>1, <2>2, <2>3, <2>5 DEF CheckInv, HeadReadAt
<1>9. Untouched /\ Orderly => WindowRead'
  <2> SUFFICES ASSUME Untouched, Orderly, verifier.phase \in {"rows", "archive"}
               PROVE  /\ verifier.calm => HeadConsistent(verifier.ids)'
                      /\ verifier.scope = Platform =>
                            \A i, n \in verifier.ids, j \in Entered(row', IDs') :
                                i < j /\ j < n => j \in verifier.ids
    BY <1>4 DEF WindowRead
  <2>1. Max(verifier.ids) \in IDs
    BY <1>3, WindowFirst DEF CheckInv, Window
  <2>2. verifier.calm => HeadConsistent(verifier.ids)'
    BY <1>2, <1>4, <2>1 DEF CheckInv, WindowRead, HeadConsistent
  <2>3. ASSUME verifier.scope = Platform, NEW i \in verifier.ids, NEW n \in verifier.ids,
               NEW j \in Entered(row', IDs'), i < j, j < n
        PROVE  j \in verifier.ids
    BY <1>3, <1>6, <2>3 DEF CheckInv, WindowRead
  <2> QED
    BY <2>2, <2>3
<1>10. AlarmMeansTampering'
  BY <1>4, <1>5 DEF CheckInv, AlarmMeansTampering, Untouched
<1>11. Finds'
  BY <1>4, <1>5, <1>6 DEF CheckInv, Finds
<1> QED
  BY <1>5, <1>7, <1>8, <1>9, <1>10, <1>11 DEF CheckInv, Untouched

LEMMA ReadHeadCheck ==
    ASSUME LogInv, ChainInv, CheckInv, ReadHead
    PROVE  CheckInv'
<1>1. /\ verifier'.phase = "head" /\ verifier'.headRead = head
      /\ verifier'.ids = {} /\ verifier'.ok
  BY ReadHeadEffect
<1>2. UNCHANGED <<row, online, head, tampered, overlapped>>
  BY DEF ReadHead, tables
<1>3. IDs' = IDs
  BY <1>2 DEF IDs
<1>4. Orderly' = Orderly
  BY <1>2, <1>3 DEF Orderly, InOrder, Chained
<1>5. Window'
  BY <1>1 DEF Window
<1>6. Orderly => HeadReadAt'
  BY <1>1, <1>2, <1>3 DEF HeadReadAt, ChainInv, InChain, HeadHash, HeadAt
<1> QED
  BY <1>1, <1>4, <1>5, <1>6 DEF CheckInv, WindowRead, AlarmMeansTampering, Finds

\* The rows are read: if no row was appended meanwhile, the last one online is
\* the end of the chain that the head names.
LEMMA ReadRowsCheck ==
    ASSUME LogInv, ChainInv, CheckInv, ReadRows
    PROVE  CheckInv'
<1>1. PICK W :
         /\ W \subseteq Entered(row, online)
         /\ verifier.scope = Platform =>
               \A i \in W, j \in Entered(row, online) : i < j => j \in W
         /\ verifier.phase = "head"
         /\ verifier' = [verifier EXCEPT !.ids = W, !.phase = IF W = {} THEN "done" ELSE "rows"]
  BY ReadRowsEffect
<1>2. /\ verifier'.ids = W /\ verifier'.scope = verifier.scope
      /\ verifier'.headRead = verifier.headRead /\ verifier'.calm = verifier.calm
      /\ verifier'.ok = verifier.ok
      /\ verifier'.phase = IF W = {} THEN "done" ELSE "rows"
  BY <1>1, LogFacts DEF Verifiers
<1>3. UNCHANGED <<row, online, head, tampered, overlapped>>
  BY DEF ReadRows, tables
<1>4. IDs' = IDs
  BY <1>3 DEF IDs
<1>5. Orderly' = Orderly /\ Untouched' = Untouched
  BY <1>3, <1>4 DEF Orderly, InOrder, Chained, Untouched
<1>6. /\ W \subseteq Entered(row, IDs) \ tampered.removed /\ W \subseteq IDs /\ W \subseteq online
      /\ IDs = 1..Len(row) /\ Len(row) \in Nat
  BY <1>1, LogFacts DEF Entered, LogInv, Gone
<1>7. Window'
  BY <1>1, <1>2, <1>3, <1>4, <1>6 DEF CheckInv, Window
<1>8. ASSUME Untouched, Orderly, W # {}
      PROVE  /\ verifier.calm => HeadConsistent(W)
             /\ verifier.scope = Platform =>
                   \A i, k \in W, j \in Entered(row, IDs) : i < j /\ j < k => j \in W
  <2>1. InChain /\ tampered.removed = {}
    BY <1>8 DEF ChainInv, Untouched
  <2>2. ASSUME verifier.scope = Platform, NEW i \in W, NEW j \in Entered(row, IDs), i < j
        PROVE  j \in W
    <3>1. j \in online
      BY <1>6, <2>1, <2>2 DEF InChain, Suffix, Entered
    <3>2. j \in Entered(row, online)
      BY <2>2, <3>1 DEF Entered
    <3> QED
      BY <1>1, <2>2, <3>2
  <2>3. PICK m : m = Max(W) /\ m \in W /\ \A i \in W : i <= m
    BY <1>6, <1>8, FirstAndLast
  <2>4. PICK L : L = LastIn(row, IDs)
    OBVIOUS
  <2>5. L \in IDs /\ row[L].entry # NoHash /\ m <= L /\ L # 0
    <3>1. IsLast(row, IDs, L)
      BY <1>6, <2>4, LastIsLast
    <3>2. m \in IDs /\ row[m].entry # NoHash
      BY <1>6, <2>3 DEF Entered
    <3> QED
      BY <1>6, <3>1, <3>2 DEF IsLast
  <2>6. verifier.calm => verifier.headRead.id = L /\ verifier.headRead.hash = row[L].entry
    <3>1. Entered(row, online) # {}
      BY <1>1, <1>8
    <3> QED
      BY <1>1, <1>8, <2>4, <2>5, <3>1 DEF CheckInv, HeadReadAt, HashIn
  <2>7. verifier.scope = Platform => m = L
    <3> SUFFICES ASSUME verifier.scope = Platform, m # L PROVE FALSE
      OBVIOUS
    <3>1. m < L /\ L \in Entered(row, IDs)
      BY <1>6, <2>3, <2>5 DEF Entered
    <3>2. L \in W
      BY <2>2, <2>3, <3>1
    <3> QED
      BY <1>6, <2>3, <3>1, <3>2
  <2>8. verifier.calm => HeadConsistent(W)
    BY <2>3, <2>6, <2>7 DEF HeadConsistent
  <2> QED
    BY <2>2, <2>8
<1>9. Untouched /\ Orderly => WindowRead'
  <2> SUFFICES ASSUME Untouched, Orderly, W # {}
               PROVE  /\ verifier.calm => HeadConsistent(W)'
                      /\ verifier.scope = Platform =>
                            \A i, k \in W, j \in Entered(row, IDs) : i < j /\ j < k => j \in W
    BY <1>2, <1>3, <1>4 DEF WindowRead, HeadConsistent
  <2>1. HeadConsistent(W)' <=> HeadConsistent(W)
    BY <1>2, <1>3 DEF HeadConsistent
  <2> QED
    BY <1>8, <2>1
<1>10. HeadReadAt'
  BY <1>2 DEF HeadReadAt
<1>11. AlarmMeansTampering' /\ Finds'
  <2>1. verifier.ok
    BY <1>1 DEF CheckInv, Window
  <2> QED
    BY <1>2, <2>1 DEF AlarmMeansTampering, Finds
<1> QED
  BY <1>5, <1>7, <1>9, <1>10, <1>11 DEF CheckInv

\* Nothing was tampered with and k is the row before the window: every row of
\* the window hashes to its entry and follows the one before it.
LEMMA WindowLinked ==
    ASSUME LogInv, InChain, Untouched, verifier.ids # {}, Window, NEW k,
           IsLast(row, 1..(Min(verifier.ids) - 1), k),
           verifier.scope = Platform =>
              \A i, m \in verifier.ids, j \in Entered(row, IDs) : i < j /\ j < m => j \in verifier.ids,
           NEW i \in verifier.ids
    PROVE  Linked(HashIn(row, k), i, verifier.ids)
<1> DEFINE lower == {j \in verifier.ids : j < i}
<1>1. i \in IDs /\ row[i].entry # NoHash /\ IDs = 1..Len(row) /\ Len(row) \in Nat
      /\ verifier.ids \subseteq IDs
  BY LogFacts DEF Window, Entered
<1>2. row[i].entry = auditEntryHash(row[i].prev, row[i])
  BY <1>1 DEF LogInv, Hashed, auditEntryHash, Untouched
<1>3. row[i].prev = HashIn(row, LastIn(row, 1..(i - 1)))
  BY <1>1 DEF InChain, Links
<1>4. 1..(i - 1) \subseteq 1..Len(row)
  BY <1>1
<1>5. CASE lower = {}
  <2>1. i = Min(verifier.ids)
    BY <1>1, <1>5, WindowFirst
  <2>2. LastIn(row, 1..(i - 1)) = k
    BY <1>1, <1>4, <2>1, LastIsUnique
  <2>3. row[i].prev = HashIn(row, k)
    BY <1>3, <2>2
  <2> QED
    BY <1>2, <1>5, <2>3 DEF Linked
<1>6. CASE lower # {}
  <2>1. lower \subseteq 1..Len(row)
    BY <1>1
  <2>2. PICK m : m = Max(lower) /\ m \in lower /\ \A j \in lower : j <= m
    BY <1>1, <1>6, <2>1, FirstAndLast
  <2>3. m \in 1..(i - 1) /\ row[m].entry # NoHash /\ m # 0 /\ m \in verifier.ids
    BY <1>1, <2>2 DEF Window, Entered
  <2>4. ASSUME IsLast(row, 1..(i - 1), m)
        PROVE  row[i].prev = row[m].entry
    <3>1. LastIn(row, 1..(i - 1)) = m
      BY <1>1, <1>4, <2>4, LastIsUnique
    <3> QED
      BY <1>3, <2>3, <3>1 DEF HashIn
  <2>5. CASE verifier.scope = Platform
    <3>1. \A j \in 1..(i - 1) : row[j].entry # NoHash => j <= m
      <4> SUFFICES ASSUME NEW j \in 1..(i - 1), row[j].entry # NoHash, ~(j <= m) PROVE FALSE
        OBVIOUS
      <4>1. j \in Entered(row, IDs) /\ m < j /\ j < i
        BY <1>1, <2>3 DEF Entered
      <4>2. j \in lower
        BY <2>3, <2>5, <4>1
      <4> QED
        BY <2>2, <4>2
    <3>2. IsLast(row, 1..(i - 1), m)
      BY <2>3, <3>1 DEF IsLast
    <3> QED
      BY <1>2, <1>6, <2>2, <2>4, <3>2 DEF Linked
  <2>6. CASE verifier.scope # Platform /\ m # i - 1
    BY <1>2, <1>6, <2>2, <2>6 DEF Linked
  <2>7. CASE m = i - 1
    <3>1. \A j \in 1..(i - 1) : j <= m
      BY <1>1, <2>7
    <3>2. IsLast(row, 1..(i - 1), m)
      BY <2>3, <3>1 DEF IsLast
    <3> QED
      BY <1>2, <1>6, <2>2, <2>4, <3>2 DEF Linked
  <2> QED
    BY <2>5, <2>6, <2>7
<1> QED
  BY <1>5, <1>6

\* Distinct rows of the chain have distinct hashes.
LEMMA HashesDiffer ==
    ASSUME LogInv, InChain, NEW i \in IDs, NEW j \in IDs, i # j,
           row[i].entry # NoHash, row[j].entry # NoHash
    PROVE  row[i].entry # row[j].entry
<1>1. i \in Nat /\ j \in Nat /\ row[i].entry \in Hashes /\ row[j].entry \in Hashes
  BY LogFacts DEF Rows
<1>2. Len(row[i].entry) \in Nat /\ Len(row[j].entry) \in Nat
  BY <1>1 DEF Hashes
<1>3. Len(row[i].entry) < Len(row[j].entry) \/ Len(row[j].entry) < Len(row[i].entry)
  BY <1>1 DEF InChain, Growing
<1> QED
  BY <1>2, <1>3

\* A row that was altered does not hash to its entry.
LEMMA AlteredNotLinked ==
    ASSUME LogInv, NEW i \in IDs, row[i].entry # NoHash, i \in tampered.altered, NEW b, NEW S
    PROVE  ~Linked(b, i, S)
<1>1. /\ row[i].entry = Append(row[i].prev, <<row[i].tenant, "event", row[i].at>>)
      /\ row[i].fields = "forged" /\ row[i].prev \in Hashes
  BY LogFacts DEF LogInv, Hashed, Rows
<1>2. PICK h \in Hashes : h = row[i].prev
  BY <1>1
<1>3. PICK c, d : c = <<row[i].tenant, "event", row[i].at>> /\ d = <<row[i].tenant, "forged", row[i].at>>
  OBVIOUS
<1>4. c # d
  BY <1>3
<1>5. Append(h, c) # Append(h, d)
  <2>1. \A e : Append(h, e)[Len(h) + 1] = e
    BY DEF Hashes
  <2> QED
    BY <1>4, <2>1
<1>6. row[i].entry # auditEntryHash(row[i].prev, row[i])
  BY <1>1, <1>2, <1>3, <1>5 DEF auditEntryHash
<1> QED
  BY <1>6 DEF Linked

\* A check concludes with the last chained row k of B before its window, where B
\* has no removed row, and every row of the chain that is not removed.
LEMMA ConcludeCheck ==
    ASSUME LogInv, ChainInv, CheckInv, verifier.phase \in {"rows", "archive"},
           UNCHANGED <<row, tampered, overlapped>>,
           NEW B, B \subseteq IDs \ tampered.removed, NEW k, IsLast(row, B, k),
           Untouched /\ Orderly => IsLast(row, 1..(Min(verifier.ids) - 1), k),
           Conclude(HashIn(row, k))
    PROVE  CheckInv'
<1>1. /\ verifier'.phase = "done"
      /\ verifier'.ids = verifier.ids /\ verifier'.scope = verifier.scope
      /\ verifier'.headRead = verifier.headRead /\ verifier'.calm = verifier.calm
      /\ verifier'.ok <=> /\ \A i \in verifier.ids : Linked(HashIn(row, k), i, verifier.ids)
                          /\ HeadConsistent(verifier.ids)
  BY ConcludeEffect
<1>2. IDs' = IDs
  BY DEF IDs
<1>3. Orderly' = Orderly /\ Untouched' = Untouched
  BY <1>2 DEF Orderly, InOrder, Chained, Untouched
<1>4. verifier.ids # {} /\ Window /\ verifier.ids \subseteq IDs
  BY LogFacts DEF CheckInv, Window
<1>5. Window'
  BY <1>1, <1>2 DEF CheckInv, Window
<1>6. HeadReadAt' /\ WindowRead'
  BY <1>1 DEF HeadReadAt, WindowRead
<1>7. AlarmMeansTampering'
  <2> SUFFICES ASSUME Untouched, Orderly, verifier.calm PROVE verifier'.ok
    BY <1>1, <1>3 DEF AlarmMeansTampering
  <2>1. InChain
    BY DEF ChainInv
  <2>2. /\ HeadConsistent(verifier.ids)
        /\ verifier.scope = Platform =>
              \A i, m \in verifier.ids, j \in Entered(row, IDs) : i < j /\ j < m => j \in verifier.ids
    BY DEF CheckInv, WindowRead
  <2>3. \A i \in verifier.ids : Linked(HashIn(row, k), i, verifier.ids)
    BY <1>4, <2>1, <2>2, WindowLinked
  <2> QED
    BY <1>1, <2>2, <2>3
<1>8. Finds'
  <2> SUFFICES ASSUME Orderly, verifier'.ok
               PROVE  /\ verifier.ids \cap tampered.altered = {}
                      /\ verifier.scope = Platform =>
                            \A i \in tampered.removed :
                               /\ i # verifier.headRead.id
                               /\ \A m \in verifier.ids :
                                     ~(i < m /\ \A j \in Entered(row, IDs) : i < j => m <= j)
    BY <1>1, <1>2, <1>3 DEF Finds
  <2>1. InChain
    BY DEF ChainInv
  <2>2. /\ \A i \in verifier.ids : Linked(HashIn(row, k), i, verifier.ids)
        /\ HeadConsistent(verifier.ids)
    BY <1>1
  <2>3. \A i \in verifier.ids : i \in IDs /\ row[i].entry # NoHash /\ i \notin tampered.removed
    BY DEF CheckInv, Window, Entered
  <2>4. verifier.ids \cap tampered.altered = {}
    BY <2>2, <2>3, AlteredNotLinked
  <2>5. ASSUME verifier.scope = Platform, NEW i \in tampered.removed
        PROVE  /\ i # verifier.headRead.id
               /\ \A m \in verifier.ids :
                     ~(i < m /\ \A j \in Entered(row, IDs) : i < j => m <= j)
    <3>1. i # verifier.headRead.id
      BY <1>4, <2>2, <2>3, <2>5, WindowFirst DEF HeadConsistent
    <3>2. i \in IDs /\ row[i].entry # NoHash /\ i # 0 /\ i \in Nat /\ IDs = 1..Len(row) /\ Len(row) \in Nat
      BY <2>5, LogFacts DEF LogInv, Gone, Chained
    <3>3. ASSUME NEW m \in verifier.ids, i < m, \A j \in Entered(row, IDs) : i < j => m <= j
          PROVE  FALSE
      <4> DEFINE lower == {j \in verifier.ids : j < m}
      <4>1. m \in IDs /\ row[m].entry # NoHash
        BY <2>3, <3>3
      <4>2. row[m].prev = row[i].entry
        <5>1. i \in 1..(m - 1) /\ 1..(m - 1) \subseteq 1..Len(row)
          BY <3>2, <3>3, <4>1
        <5>2. \A j \in 1..(m - 1) : row[j].entry # NoHash => j <= i
          <6> SUFFICES ASSUME NEW j \in 1..(m - 1), row[j].entry # NoHash, ~(j <= i) PROVE FALSE
            OBVIOUS
          <6>1. j \in Entered(row, IDs) /\ i < j
            BY <3>2, <5>1 DEF Entered
          <6>2. m <= j
            BY <3>3, <6>1
          <6> QED
            BY <3>2, <4>1, <6>2
        <5>3. IsLast(row, 1..(m - 1), i)
          BY <3>2, <5>1, <5>2 DEF IsLast
        <5>4. LastIn(row, 1..(m - 1)) = i
          <6>1. PICK S : S = 1..(m - 1) /\ S \subseteq 1..Len(row) /\ IsLast(row, S, i)
            BY <5>1, <5>3
          <6>2. Len(row) \in Nat
            BY <3>2
          <6>3. LastIn(row, S) = i
            BY <6>1, <6>2, LastIsUnique, Zenon
          <6> QED
            BY <6>1, <6>3
        <5> QED
          BY <2>1, <3>2, <4>1, <5>4 DEF InChain, Links, HashIn
      <4>3. CASE lower = {}
        <5>1. row[m].prev = HashIn(row, k)
          BY <2>2, <4>3 DEF Linked
        <5>2. k = 0 \/ (k \in IDs /\ k # i /\ row[k].entry # NoHash)
          BY <2>5 DEF IsLast
        <5>3. k # 0 => row[k].entry # row[i].entry
          BY <2>1, <3>2, <5>2, HashesDiffer
        <5> QED
          BY <3>2, <4>2, <5>1, <5>3 DEF HashIn
      <4>4. CASE lower # {}
        <5>1. lower \subseteq 1..Len(row)
          BY <1>4, <3>2
        <5>2. PICK l : l = Max(lower) /\ l \in lower
          BY <3>2, <4>4, <5>1, FirstAndLast
        <5>3. row[m].prev = row[l].entry
          BY <2>2, <2>5, <4>4, <5>2 DEF Linked
        <5>4. l \in IDs /\ row[l].entry # NoHash /\ l # i
          BY <2>3, <2>5, <5>2
        <5>5. row[l].entry # row[i].entry
          BY <2>1, <3>2, <5>4, HashesDiffer
        <5> QED
          BY <4>2, <5>3, <5>5
      <4> QED
        BY <4>3, <4>4
    <3> QED
      BY <3>1, <3>3
  <2> QED
    BY <2>4, <2>5
<1> QED
  BY <1>5, <1>6, <1>7, <1>8 DEF CheckInv

\* The row before the window, online: what is online is an end of the log, so
\* the last of the chain's rows before the window that is online is the last.
LEMMA ReadPredecessorCheck ==
    ASSUME LogInv, ChainInv, CheckInv, ReadPredecessor
    PROVE  CheckInv'
<1>1. /\ verifier.phase = "rows"
      /\ UNCHANGED <<row, online, archive, tampered, overlapped>>
      /\ IF Chained(Below(online)) # {} THEN Conclude(HashOf(LastOf(Below(online))))
         ELSE verifier' = [verifier EXCEPT !.phase = "archive"]
  BY DEF ReadPredecessor, tables
<1>2. PICK B : B = Below(online)
  OBVIOUS
<1>3. PICK f : f = Min(verifier.ids)
  OBVIOUS
<1>4. /\ f \in IDs /\ IDs = 1..Len(row) /\ Len(row) \in Nat /\ online \subseteq IDs
      /\ B = {i \in online : i < f}
  BY <1>1, <1>2, <1>3, WindowFirst, LogFacts DEF CheckInv, Window, Below
<1>5. CASE Chained(B) # {}
  <2>1. PICK k : k = LastIn(row, B)
    OBVIOUS
  <2>2. Conclude(HashIn(row, k))
    BY <1>1, <1>2, <1>5, <2>1, ModelNames
  <2>3. IsLast(row, B, k)
    BY <1>4, <2>1, LastIsLast
  <2>4. k \in B /\ row[k].entry # NoHash /\ \A i \in B : row[i].entry # NoHash => i <= k
    BY <1>5, <2>3 DEF IsLast, Chained
  <2>5. Untouched /\ Orderly => IsLast(row, 1..(f - 1), k)
    <3> SUFFICES ASSUME Untouched, Orderly PROVE IsLast(row, 1..(f - 1), k)
      OBVIOUS
    <3>1. k \in online /\ k \in 1..(f - 1)
      BY <1>4, <2>4
    <3>2. ASSUME NEW j \in 1..(f - 1), row[j].entry # NoHash, ~(j <= k)
          PROVE  FALSE
      <4>1. j \in IDs /\ k < j /\ j < f
        BY <1>4, <3>1, <3>2
      <4>2. j \in online
        BY <3>1, <4>1 DEF ChainInv, InChain, Suffix, Untouched
      <4>3. j \in B
        BY <1>4, <4>1, <4>2
      <4> QED
        BY <2>4, <3>2, <4>3
    <3> QED
      BY <2>4, <3>1, <3>2 DEF IsLast
  <2>6. B \subseteq IDs \ tampered.removed
    BY <1>4 DEF LogInv, Gone
  <2> QED
    BY <1>1, <1>3, <2>2, <2>3, <2>5, <2>6, ConcludeCheck
<1>6. CASE Chained(B) = {}
  <2>1. verifier' = [verifier EXCEPT !.phase = "archive"]
    BY <1>1, <1>2, <1>6
  <2>2. /\ verifier'.phase = "archive" /\ verifier'.ids = verifier.ids
        /\ verifier'.scope = verifier.scope /\ verifier'.headRead = verifier.headRead
        /\ verifier'.calm = verifier.calm /\ verifier'.ok = verifier.ok
    BY <2>1, LogFacts DEF Verifiers
  <2>3. \A j \in Entered(row, online) : ~(j < f)
    BY <1>4, <1>6 DEF Chained, Entered
  <2>4. IDs' = IDs
    BY <1>1 DEF IDs
  <2>5. Orderly' = Orderly /\ Untouched' = Untouched
    BY <1>1, <2>4 DEF Orderly, InOrder, Chained, Untouched
  <2>6. Window'
    BY <1>1, <1>3, <2>2, <2>3, <2>4 DEF CheckInv, Window
  <2>7. HeadReadAt' /\ AlarmMeansTampering' /\ Finds'
    BY <2>2 DEF HeadReadAt, AlarmMeansTampering, Finds
  <2>8. Untouched /\ Orderly => WindowRead'
    BY <1>1, <2>2, <2>4 DEF CheckInv, WindowRead, HeadConsistent
  <2> QED
    BY <2>5, <2>6, <2>7, <2>8 DEF CheckInv
<1> QED
  BY <1>5, <1>6

\* The row before the window, in the archive: none of the chain's rows before
\* the window is online, so all of them are in the archive.
LEMMA ReadArchivedCheck ==
    ASSUME LogInv, ChainInv, CheckInv, ReadArchived
    PROVE  CheckInv'
<1>1. /\ verifier.phase = "archive"
      /\ UNCHANGED <<row, online, archive, tampered, overlapped>>
      /\ Conclude(HashOf(LastOf(Below(archive))))
  BY DEF ReadArchived, tables
<1>2. PICK B : B = Below(archive)
  OBVIOUS
<1>3. PICK f : f = Min(verifier.ids)
  OBVIOUS
<1>4. /\ f \in IDs /\ IDs = 1..Len(row) /\ Len(row) \in Nat /\ archive \subseteq IDs
      /\ B = {i \in archive : i < f}
  BY <1>1, <1>2, <1>3, WindowFirst, LogFacts DEF CheckInv, Window, Below
<1>5. PICK k : k = LastIn(row, B)
  OBVIOUS
<1>6. Conclude(HashIn(row, k))
  BY <1>1, <1>2, <1>5, ModelNames
<1>7. IsLast(row, B, k)
  BY <1>4, <1>5, LastIsLast
<1>8. Untouched => IsLast(row, 1..(f - 1), k)
  <2> SUFFICES ASSUME Untouched PROVE IsLast(row, 1..(f - 1), k)
    OBVIOUS
  <2>1. B \subseteq 1..(f - 1)
    <3> SUFFICES ASSUME NEW i \in B PROVE i \in 1..(f - 1)
      OBVIOUS
    <3>1. i \in 1..Len(row) /\ i < f /\ f \in Nat
      BY <1>4
    <3> QED
      BY <3>1
  <2>2. ASSUME NEW j \in 1..(f - 1), row[j].entry # NoHash PROVE j \in B
    <3>1. j \in IDs /\ j < f
      BY <1>4, <2>2
    <3>2. j \notin online
      BY <1>1, <1>3, <2>2, <3>1 DEF CheckInv, Window, Entered
    <3>3. j \in archive
      BY <3>1, <3>2 DEF LogInv, NothingLost, Untouched
    <3> QED
      BY <1>4, <3>1, <3>3
  <2> QED
    BY <1>7, <2>1, <2>2 DEF IsLast
<1>9. B \subseteq IDs \ tampered.removed
  BY <1>4 DEF LogInv, Gone
<1> QED
  BY <1>1, <1>3, <1>6, <1>7, <1>8, <1>9, ConcludeCheck

LEMMA CheckNext == LogInv /\ ChainInv /\ CheckInv /\ [Next]_vars => CheckInv'
<1> SUFFICES ASSUME LogInv, ChainInv, CheckInv, [Next]_vars PROVE CheckInv'
  OBVIOUS
<1>1. CASE Audit
  <2>1. PICK x \in Rows :
              /\ row' = Append(row, x)
              /\ online' = online \cup {Len(row) + 1}
              /\ UNCHANGED <<tampered, overlapped>>
              /\ \/ /\ x.entry # NoHash
                    /\ verifier' = [verifier EXCEPT !.calm = @ /\ verifier.phase # "head"]
                 \/ x.entry = NoHash /\ UNCHANGED verifier
    BY <1>1, AuditEffect
  <2> QED
    BY <2>1, AppendCheck
<1>2. CASE Tamper
  BY <1>2, TamperCheck
<1>3. ASSUME NEW p \in Replicas, auditArchiveBatch(p) PROVE CheckInv'
  <2>1. overlapped' = (overlapped \/ \E q \in Replicas \ {p} : archiver[q].phase # "idle")
    BY <1>3 DEF auditArchiveBatch
  <2>2. overlapped => overlapped'
    BY <2>1, Zenon
  <2>3. UNCHANGED <<row, online, verifier, tampered>>
    BY <1>3 DEF auditArchiveBatch, tables
  <2> QED
    BY <2>2, <2>3, OthersCheck
<1>4. ASSUME NEW p \in Replicas,
             \/ InsertArchive(p) \/ DeleteOnline(p) \/ AdvanceMeta(p) \/ RollBackHead(p)
             \/ Interrupt(p)
      PROVE  CheckInv'
  <2>1. UNCHANGED <<row, verifier, tampered, overlapped>> /\ online' \subseteq online
    BY <1>4 DEF InsertArchive, DeleteOnline, AdvanceMeta, RollBackHead, Interrupt, tables
  <2> QED
    BY <2>1, OthersCheck
<1>5. CASE Tick \/ UNCHANGED vars
  <2>1. UNCHANGED <<row, online, verifier, tampered, overlapped>>
    BY <1>5 DEF Tick, vars, tables
  <2> QED
    BY <2>1, OthersCheck
<1>6. CASE EndVerify
  <2>1. verifier'.phase = "idle" /\ verifier'.ids = {} /\ verifier'.ok
    BY <1>6 DEF EndVerify, NotVerifying
  <2> QED
    BY <2>1 DEF CheckInv, Window, HeadReadAt, WindowRead, AlarmMeansTampering, Finds
<1> QED
  BY <1>1, <1>2, <1>3, <1>4, <1>5, <1>6, ReadHeadCheck, ReadRowsCheck, ReadPredecessorCheck,
     ReadArchivedCheck
  DEF Next
-----------------------------------------------------------------------------
LEMMA LogAlways == Spec => [](LogInv /\ ChainInv /\ CheckInv)
<1>1. Init => LogInv /\ ChainInv /\ CheckInv
  BY LogInit, ChainInit, CheckInit
<1>2. LogInv /\ ChainInv /\ CheckInv /\ [Next]_vars => (LogInv /\ ChainInv /\ CheckInv)'
  BY LogNext, ChainNext, CheckNext
<1> QED
  BY <1>1, <1>2, PTL DEF Spec

\* Tables, head, archivers and verifier keep to their kinds: every ID that any of
\* them holds, the head's and the archive boundary's included, was given out, and
\* an archiver between two of its statements has a batch.
THEOREM TypeCorrect == Spec => []TypeOK
<1>1. LogInv => TypeOK
  <2> SUFFICES ASSUME LogInv PROVE TypeOK
    OBVIOUS
  <2>1. \A i \in IDs : row[i].tenant \in Tenants /\ row[i].at \in 0..now
    BY LogFacts DEF LogInv, Stamped, Kinds, Rows
  <2>2. head.id \in 0..Len(row) /\ meta.through \in 0..Len(row)
    BY LogFacts DEF LogInv, Kinds, Heads
  <2>3. \A p \in Replicas :
           /\ archiver[p].phase \in {"idle", "select", "insert", "delete", "meta", "head"}
           /\ archiver[p].ids \subseteq IDs
           /\ archiver[p].phase \in {"insert", "delete", "meta", "head"} => archiver[p].ids # {}
    BY LogFacts DEF LogInv, Batched, Archivers, Resting, Working
  <2>4. verifier.phase \in {"idle", "head", "rows", "archive", "done"} /\ verifier.ids \subseteq IDs
    BY LogFacts DEF Verifiers
  <2> QED
    BY <2>1, <2>2, <2>3, <2>4, LogFacts DEF TypeOK, LogInv, Kinds
<1> QED
  BY <1>1, LogAlways, PTL

\* Every audit row that was ever written is in the log or in the archive, unless
\* somebody removed it by hand: ArchiveAuditLog deletes a row only after the row
\* is in the archive, wherever it is cut off and whoever archives beside it.
THEOREM NoRowLost == Spec => []NothingLost
<1>1. LogInv => NothingLost
  BY DEF LogInv
<1> QED
  BY <1>1, LogAlways, PTL

\* The chain does not fork: every chained row follows the chained row before it,
\* over both tables and through every archive, and the head row has the hash of
\* the last, so that the next row will follow it.
THEOREM NoFork == Spec => []OneChain
<1>1. LogInv /\ ChainInv => OneChain
  <2> SUFFICES ASSUME LogInv, InChain
               PROVE  /\ \A i \in Chained(IDs) : row[i].prev = HashOf(LastOf({j \in IDs : j < i}))
                      /\ head.hash = HashOf(LastOf(IDs))
    BY DEF OneChain, ChainInv
  <2>1. head.hash = HashOf(LastOf(IDs))
    BY ModelNames DEF InChain, HeadHash
  <2>2. ASSUME NEW i \in Chained(IDs)
        PROVE  row[i].prev = HashOf(LastOf({j \in IDs : j < i}))
    <3>1. i \in IDs /\ row[i].entry # NoHash
      BY <2>2 DEF Chained
    <3>2. {j \in IDs : j < i} = 1..(i - 1)
      BY <3>1, LogFacts
    <3>3. row[i].prev = HashIn(row, LastIn(row, 1..(i - 1)))
      BY <3>1 DEF InChain, Links
    <3> QED
      BY <3>2, <3>3, ModelNames
  <2> QED
    BY <2>1, <2>2
<1> QED
  BY <1>1, LogAlways, PTL

\* VerifyAuditChain raises no false alarm: no archive that runs beside a check or
\* was interrupted before it, by however many replicas, makes it fail.
THEOREM NoFalseAlarm == Spec => []AlarmMeansTampering
<1>1. CheckInv => AlarmMeansTampering
  BY DEF CheckInv
<1> QED
  BY <1>1, LogAlways, PTL

\* VerifyAuditChain finds an altered row of its window, and a removed row that a
\* row of the platform's window follows, or that the head names while the window
\* is not empty, wherever the rows between have been archived to.  An empty window
\* is answered with OK, whatever the head names.
THEOREM NothingHidden == Spec => []TamperingFound
<1>1. LogInv /\ CheckInv => TamperingFound
  <2> SUFFICES ASSUME LogInv, CheckInv, verifier.phase = "done", verifier.ids # {}, Orderly
               PROVE  /\ verifier.ids \cap tampered.altered # {} => ~verifier.ok
                      /\ verifier.scope = Platform =>
                            \A i \in tampered.removed :
                               \/ After(i) # {} /\ Min(After(i)) \in verifier.ids
                               \/ i = verifier.headRead.id /\ verifier.ids # {}
                               => ~verifier.ok
    BY DEF TamperingFound
  <2>1. /\ verifier.ids \cap tampered.altered # {} => ~verifier.ok
        /\ verifier.scope = Platform =>
              \A i \in tampered.removed :
                 /\ i = verifier.headRead.id => ~verifier.ok
                 /\ \A m \in verifier.ids :
                       i < m /\ (\A j \in Entered(row, IDs) : i < j => m <= j) => ~verifier.ok
    BY DEF CheckInv, Finds
  <2>2. ASSUME NEW i \in tampered.removed, After(i) # {}
        PROVE  /\ i < Min(After(i))
               /\ \A j \in Entered(row, IDs) : i < j => Min(After(i)) <= j
    <3>1. PICK A : A = After(i)
      OBVIOUS
    <3>2. A = {j \in Entered(row, IDs) : i < j} /\ A \subseteq 1..Len(row) /\ Len(row) \in Nat
      <4>1. IDs = 1..Len(row) /\ Len(row) \in Nat /\ i \in IDs
        BY <2>2, LogFacts
      <4>2. \A j \in IDs : j > i <=> i < j
        BY <4>1
      <4>3. A = {j \in Entered(row, IDs) : i < j}
        BY <3>1, <4>2 DEF After, Chained, Entered
      <4> QED
        BY <4>1, <4>3 DEF Entered
    <3>3. Min(A) \in A /\ \A j \in A : Min(A) <= j
      BY <2>2, <3>1, <3>2, FirstAndLast
    <3> QED
      BY <3>1, <3>2, <3>3
  <2> QED
    BY <2>1, <2>2
<1> QED
  BY <1>1, LogAlways, PTL
=============================================================================
