------------------------------ MODULE AuditBundle ------------------------------
(***************************************************************************)
(* core/persistence/store.py: export_audit_bundle and verify_audit_chain,  *)
(* over the stores of AuditStore.  An export holds its store's lock but no *)
(* transaction: it reads the records and then the audit log, and another   *)
(* store may write between the two reads.                                  *)
(***************************************************************************)
EXTENDS AuditStore

CONSTANT MaxExports   \* bound on the bundles written

ASSUME BundleAssumption == MaxExports \in Nat

VARIABLES
  exports,  \* what the export a store is executing has read, None if there is none
  bundle,   \* the last bundle file written, None before the first
  written   \* bundles written

bundleVars == <<exports, bundle, written>>
allVars == <<vars, bundleVars>>

\* Mutant: the provenance is computed again, from the redacted payload.
BundleRecordRehashed(k) ==
  [key |-> k, payload |-> records[k].payload, provenance |-> records[k].payload]

\* A row as it is written to the file, keyed, with the provenance hash it had.
BundleRecord(k) == [key |-> k, payload |-> records[k].payload, provenance |-> records[k].provenance]

BundleInit ==
  /\ Init
  /\ exports = [c \in Conns |-> None] /\ bundle = None /\ written = 0

\* The first SELECT; the length of the log is history, for the properties.
ExportRecords(c) ==
  /\ calls[c] = None /\ exports[c] = None /\ written < MaxExports
  /\ exports' = [exports EXCEPT ![c] =
       [records |-> {BundleRecord(k) : k \in {j \in Keys : records[j] # None}},
        logged |-> Len(log)]]
  /\ UNCHANGED <<vars, bundle, written>>

\* The second SELECT, the hash over both and the file.
ExportChain(c) ==
  /\ exports[c] # None
  /\ bundle' = [records |-> exports[c].records, chain |-> log, logged |-> exports[c].logged]
  /\ exports' = [exports EXCEPT ![c] = None] /\ written' = written + 1
  /\ UNCHANGED vars

\* A store whose export holds the lock makes no other call.
StoreStep ==
  /\ Next
  /\ \A c \in Conns : exports[c] # None => UNCHANGED calls[c]
  /\ UNCHANGED bundleVars

BundleNext == StoreStep \/ \E c \in Conns : ExportRecords(c) \/ ExportChain(c)

BundleSpec == BundleInit /\ [][BundleNext]_allVars

-----------------------------------------------------------------------------
(* What verify_audit_chain reports of a log beside the records that have it. *)
VerifyAuditChain(entries, rows) ==
  LET expected(i) == IF i = 1 THEN Genesis ELSE entries[i - 1].hash
      of(i) == {r.payload : r \in {x \in rows : x.key = entries[i].key}}
      found(kind, i) ==
        CASE kind = "broken" -> entries[i].prev # expected(i)
          [] kind = "hash" -> entries[i].hash # AuditHash(entries[i].payload, entries[i].prev)
          [] kind = "missing" -> of(i) = {}
          [] kind = "payload" -> of(i) \notin {{}, {entries[i].payload}}
  IN {a \in {"broken", "hash", "missing", "payload"} \X (1..Len(entries)) : found(a[1], a[2])}

\* The row put() would write for a record of the bundle.
ImportedRow(r) == [payload |-> RedactSecrets(r.payload), provenance |-> r.provenance]

(* A bundle stays true of the database it came from, whoever wrote while it  *)
(* was made and since: its records can be put back without a conflict, its   *)
(* chain is the beginning of the log, and verified on its own it lacks no    *)
(* record of an entry that was there when the export began.                 *)
BundleIsFaithful ==
  bundle # None =>
    /\ \A r \in bundle.records : records[r.key] = ImportedRow(r)
    /\ \A i \in 1..Len(bundle.chain) : i <= Len(log) /\ bundle.chain[i] = log[i]
    /\ \A a \in VerifyAuditChain(bundle.chain, bundle.records) :
         a[1] = "payload" \/ (a[1] = "missing" /\ a[2] > bundle.logged)

(* "Self-contained" (AuditBundle's docstring): no entry of a bundle lacks    *)
(* its record.  Another store that audits between the two reads breaks it.  *)
BundleIsSelfContained ==
  bundle # None =>
    \A a \in VerifyAuditChain(bundle.chain, bundle.records) : a[1] = "payload"
=============================================================================
