------------------------------ MODULE AuditStore ------------------------------
(***************************************************************************)
(* core/persistence: SQLitePersistenceStore and RecoveryChecker.  Several  *)
(* stores may have the same database file open; the lock of a store lets   *)
(* one call at a time through, and SQLite makes every statement outside a  *)
(* transaction, and every BEGIN IMMEDIATE .. COMMIT, one step.  A call is  *)
(* a sequence of such steps and may end between any two of them.           *)
(***************************************************************************)
EXTENDS Integers, Sequences, FiniteSets

CONSTANTS
  Conns,      \* open stores on the database file
  Artifacts,  \* the StoredRecords callers hold
  Bundles,    \* the record lists of verified bundle files, sorted by key
  Tracked,    \* the record types callers keep a current record of
  None,       \* absent row, reference or secret
  MaxLog,     \* bound on the audit log
  MaxCalls    \* bound on acknowledged calls

VARIABLES
  records,    \* table records: key to row
  log,        \* table audit_log, by seq
  current,    \* table current_state: record type to id
  calls,      \* what each store is executing
  done        \* history: the calls that returned normally

vars == <<records, log, current, calls, done>>

RecordType ==
  {"NETWORK_STATE", "RECONSIDERATION_EVENT", "DEMO_EVENT", "TOPOLOGY_SNAPSHOT",
   "BLAST_RADIUS_ASSESSMENT", "AUTHORITY_DECISION", "RESPONSE_ACTION", "HUMAN_APPROVAL",
   "EXECUTION_RECORD", "OUTCOME_VERIFICATION", "OUTCOME_MISMATCH_HANDOFF"}

(* A payload: the references that recovery follows (ids, and the window of *)
(* an action or approval), whether it embeds its own provenance_hash       *)
(* (sealed), the value under a secret-like key, and the rest (body).  Two  *)
(* payloads have one hash only if they are equal.                          *)
StoredRecord ==
  [type : RecordType, id : STRING,
   payload : [body : STRING, approved : BOOLEAN, sealed : BOOLEAN,
              auth : STRING \union {None}, action : STRING \union {None},
              approval : STRING \union {None}, topology : STRING \union {None},
              verification : STRING \union {None}, window : STRING \union {None},
              secret : STRING \union {None}]]

ASSUME StoreAssumption ==
  /\ MaxLog \in Nat /\ MaxCalls \in Nat
  /\ Tracked \subseteq RecordType
  /\ \A a \in Artifacts : a \in StoredRecord
  /\ \A b \in Bundles : b \in Seq(Artifacts) /\ b # <<>>

Key(a) == <<a.type, a.id>>
Keys == {Key(a) : a \in Artifacts}

RedactSecrets(p) == [p EXCEPT !.secret = IF @ = None THEN None ELSE "[REDACTED]"]

\* The row put() writes: the payload redacted, the provenance hash as it came.
Row(a) == [payload |-> RedactSecrets(a.payload), provenance |-> a.payload]
Rows == {Row(a) : a \in Artifacts}

ASSUME NoneAssumption == None \notin Rows

\* compute_audit_hash, injective: the hashed pairs, oldest first.
AuditHash(payload, prev) == Append(prev, payload)
Genesis == <<>>

Entry == LET Payloads == {a.payload : a \in Artifacts} IN
  [key : Keys, payload : Payloads, prev : Seq(Payloads), hash : Seq(Payloads)]

Call == [op : {"put", "append", "import"}, at : {"exists", "check", "insert", "audit"},
         todo : Seq(Artifacts), batch : Seq(Artifacts)]

Init ==
  /\ records = [k \in Keys |-> None]
  /\ log = <<>>
  /\ current = [t \in Tracked |-> None]
  /\ calls = [c \in Conns |-> None]
  /\ done = {}

-----------------------------------------------------------------------------
Running(c, op, at) == calls[c] # None /\ calls[c].op \in op /\ calls[c].at = at
Artifact(c) == Head(calls[c].todo)

Goto(c, at) == calls' = [calls EXCEPT ![c].at = at] /\ UNCHANGED done

Raise(c) == calls' = [calls EXCEPT ![c] = None] /\ UNCHANGED done

Return(c) ==
  /\ calls' = [calls EXCEPT ![c] = None]
  /\ done' = done \union {[op |-> calls[c].op, batch |-> calls[c].batch]}

\* put() returned: what its caller does next.
AfterPut(c) ==
  \/ /\ calls[c].op = "append"
     /\ Goto(c, "audit")
  \/ /\ calls[c].op # "append" /\ Len(calls[c].todo) = 1
     /\ Return(c)
  \/ /\ calls[c].op # "append" /\ Len(calls[c].todo) > 1
     /\ calls' = [calls EXCEPT ![c].at = "check", ![c].todo = Tail(@)]
     /\ UNCHANGED done

Invoke(c, op, at, batch) ==
  /\ calls[c] = None
  /\ Cardinality(done) < MaxCalls
  /\ calls' = [calls EXCEPT ![c] = [op |-> op, at |-> at, todo |-> batch, batch |-> batch]]
  /\ UNCHANGED <<records, log, current, done>>

Put(c) == \E a \in Artifacts : Invoke(c, "put", "check", <<a>>)
AppendAuditEvent(c) == \E a \in Artifacts : Invoke(c, "append", "exists", <<a>>)
ImportAuditBundle(c) == \E b \in Bundles : Invoke(c, "import", "check", b)

ExistsWithoutPut(c) ==
  /\ Running(c, {"append"}, "exists")
  /\ Goto(c, "audit")
  /\ UNCHANGED <<records, log, current>>

\* append_audit_event: any row under the key will do.
Exists(c) ==
  /\ Running(c, {"append"}, "exists")
  /\ Goto(c, IF records[Key(Artifact(c))] = None THEN "check" ELSE "audit")
  /\ UNCHANGED <<records, log, current>>

CheckAnyRow(c) ==
  /\ calls[c] # None /\ calls[c].at = "check"
  /\ IF records[Key(Artifact(c))] = None THEN Goto(c, "insert") ELSE AfterPut(c)
  /\ UNCHANGED <<records, log, current>>

CheckSkipsConflicts(c) ==
  /\ calls[c] # None /\ calls[c].at = "check"
  /\ LET row == records[Key(Artifact(c))] IN
     \/ row = None /\ Goto(c, "insert")
     \/ /\ row # None /\ (row = Row(Artifact(c)) \/ calls[c].op = "import")
        /\ AfterPut(c)
     \/ row \notin {None, Row(Artifact(c))} /\ calls[c].op # "import" /\ Raise(c)
  /\ UNCHANGED <<records, log, current>>

(* put(), the SELECT before its transaction: an identical row is success,  *)
(* a different one DuplicateRecordConflictError.                           *)
CheckExisting(c) ==
  /\ calls[c] # None /\ calls[c].at = "check"
  /\ LET row == records[Key(Artifact(c))] IN
     \/ row = None /\ Goto(c, "insert")
     \/ row = Row(Artifact(c)) /\ AfterPut(c)
     \/ row \notin {None, Row(Artifact(c))} /\ Raise(c)
  /\ UNCHANGED <<records, log, current>>

InsertOrReplace(c) ==
  /\ calls[c] # None /\ calls[c].at = "insert"
  /\ records' = [records EXCEPT ![Key(Artifact(c))] = Row(Artifact(c))]
  /\ AfterPut(c)
  /\ UNCHANGED <<log, current>>

(* put(), the INSERT transaction.  Another store may have written the row  *)
(* since the SELECT: the primary key refuses, and the transaction rolls    *)
(* back.                                                                   *)
Insert(c) ==
  LET k == Key(Artifact(c)) IN
  /\ calls[c] # None /\ calls[c].at = "insert"
  /\ \/ /\ records[k] = None
        /\ records' = [records EXCEPT ![k] = Row(Artifact(c))]
        /\ AfterPut(c)
     \/ records[k] # None /\ Raise(c) /\ UNCHANGED records
  /\ UNCHANGED <<log, current>>

PreviousButOne(entries) ==
  IF Len(entries) < 2 THEN Genesis ELSE entries[Len(entries) - 1].hash

PreviousHash(entries) == IF entries = <<>> THEN Genesis ELSE entries[Len(entries)].hash

(* append_audit_event, its transaction: the entry carries the hash of the  *)
(* payload it was given, not of the row.                                   *)
AppendEntry(c) ==
  LET a == Artifact(c)
      prev == PreviousHash(log) IN
  /\ Running(c, {"append"}, "audit")
  /\ Len(log) < MaxLog
  /\ log' = Append(log, [key |-> Key(a), payload |-> a.payload, prev |-> prev,
                         hash |-> AuditHash(a.payload, prev)])
  /\ Return(c)
  /\ UNCHANGED <<records, current>>

SetCurrentUnchecked(c) ==
  \E k \in Keys :
    /\ calls[c] = None /\ k[1] \in Tracked
    /\ current' = [current EXCEPT ![k[1]] = k[2]]
    /\ UNCHANGED <<records, log, calls, done>>

\* set_current: rows are never deleted, so its check and its upsert are one step.
SetCurrent(c) ==
  \E k \in Keys :
    /\ calls[c] = None /\ k[1] \in Tracked
    /\ records[k] # None
    /\ current' = [current EXCEPT ![k[1]] = k[2]]
    /\ UNCHANGED <<records, log, calls, done>>

(* The process dies, the disk is full or the busy timeout expires: the     *)
(* transaction that was open leaves nothing, the committed ones stay.      *)
Interrupt(c) ==
  /\ calls[c] # None
  /\ Raise(c)
  /\ UNCHANGED <<records, log, current>>

Next ==
  \E c \in Conns :
    \/ Put(c) \/ AppendAuditEvent(c) \/ ImportAuditBundle(c) \/ SetCurrent(c)
    \/ Exists(c) \/ CheckExisting(c) \/ Insert(c) \/ AppendEntry(c)
    \/ Interrupt(c)

Spec == Init /\ [][Next]_vars

-----------------------------------------------------------------------------
(* RecoveryChecker.                                                        *)

Stored(t, id) == <<t, id>> \in Keys /\ records[<<t, id>>] # None
Payload(t, id) == records[<<t, id>>].payload

\* verify_integrity
Intact(row) == row.provenance = row.payload \/ row.payload.sealed

\* A reference may be absent.
Refers(t, id) == id # None => Stored(t, id)

\* validate_cross_references
Grounded(t, p) ==
  CASE t = "RESPONSE_ACTION" ->
         /\ Stored("AUTHORITY_DECISION", p.auth)
         /\ Refers("TOPOLOGY_SNAPSHOT", p.topology)
    [] t = "HUMAN_APPROVAL" ->
         /\ Stored("RESPONSE_ACTION", p.action)
         /\ Stored("AUTHORITY_DECISION", p.auth)
         /\ Payload("RESPONSE_ACTION", p.action).auth = p.auth
         /\ Payload("RESPONSE_ACTION", p.action).window = p.window
    [] t = "EXECUTION_RECORD" ->
         /\ Stored("RESPONSE_ACTION", p.action)
         /\ Stored("AUTHORITY_DECISION", p.auth)
         /\ Refers("HUMAN_APPROVAL", p.approval)
         /\ p.approval # None /\ p.body = "EXECUTED" =>
              Payload("HUMAN_APPROVAL", p.approval).approved
    [] t = "OUTCOME_VERIFICATION" -> Stored("RESPONSE_ACTION", p.action)
    [] t = "OUTCOME_MISMATCH_HANDOFF" -> Stored("OUTCOME_VERIFICATION", p.verification)
    [] t = "BLAST_RADIUS_ASSESSMENT" -> Refers("TOPOLOGY_SNAPSHOT", p.topology)
    [] OTHER -> TRUE

\* check_store finds nothing wrong with the record.
Sound(k) == records[k] # None /\ Intact(records[k]) /\ Grounded(k[1], records[k].payload)

-----------------------------------------------------------------------------
(* Every table, call and acknowledgement is well formed.                   *)
TypeOK ==
  /\ records \in [Keys -> Rows \union {None}]
  /\ current \in [Tracked -> {a.id : a \in Artifacts} \union {None}]
  /\ calls \in [Conns -> Call \union {None}]
  /\ \A c \in Conns : calls[c] # None => calls[c].todo # <<>>
  /\ log \in Seq(Entry) /\ Len(log) <= MaxLog
  /\ \A e \in done : e.op \in {"put", "append", "import"} /\ e.batch \in Seq(Artifacts)

(* However the transactions of several stores interleave, the audit log is *)
(* one chain from the genesis hash (append_audit_event, verify_audit_chain *)
(* checks 1 and 2).                                                        *)
ChainLinked ==
  \A i \in 1..Len(log) :
    /\ log[i].prev = IF i = 1 THEN Genesis ELSE log[i - 1].hash
    /\ log[i].hash = AuditHash(log[i].payload, log[i].prev)

(* Every audit entry refers to a stored record, whatever was interrupted   *)
(* (verify_audit_chain check 3).                                           *)
EntriesStored == \A i \in 1..Len(log) : records[log[i].key] # None

(* The current pointer of a type names a stored record of that type: the   *)
(* foreign key of current_state holds without SQLite's help.               *)
CurrentStored == \A t \in Tracked : current[t] # None => Stored(t, current[t])

(* What verify_audit_chain and get_current rely on, whoever wrote and       *)
(* whatever was interrupted: one chain, and no reference to a missing row.  *)
StoreIsSound == ChainLinked /\ EntriesStored /\ CurrentStored

(* A put that returned stored exactly that record, and an import that      *)
(* returned every record of its bundle, for good: no later call, race or   *)
(* interruption takes it away or puts another in its place.                *)
AcknowledgedIsStored ==
  \A e \in done : e.op # "append" =>
    \A i \in 1..Len(e.batch) : records[Key(e.batch[i])] = Row(e.batch[i])

(* History is append-only: a stored row is never changed or removed, nor   *)
(* is an entry of the audit log; so a record that check_store found sound  *)
(* is found sound ever after, and a recovery report never gets worse.      *)
AppendOnly ==
  [][/\ \A k \in Keys : records[k] # None => records'[k] = records[k]
     /\ \A i \in 1..Len(log) : i <= Len(log') /\ log'[i] = log[i]
     /\ records' # records => \A k \in Keys : Sound(k) => Sound(k)']_vars

(* append_audit_event "ensures record is stored", and verify_audit_chain   *)
(* compares each entry with its record. Fails when the row under the key   *)
(* is another one.                                                         *)
AuditedIsStored ==
  \A i \in 1..Len(log) : records[log[i].key].payload = log[i].payload
=============================================================================
