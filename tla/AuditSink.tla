------------------------------ MODULE AuditSink -----------------------------
(***************************************************************************)
(* PostgresAuditSink of src/copilot/infra/audit.py: the schema is created  *)
(* on first use, by whichever thread of whichever replica comes first.     *)
(* _ensure takes its process's lock, then, in a transaction, PostgreSQL's  *)
(* advisory lock.  CREATE TABLE IF NOT EXISTS is two steps: it looks for   *)
(* the table, then creates it, and fails when another transaction has      *)
(* created it in between.                                                  *)
(***************************************************************************)
EXTENDS Integers, ApiThreads

CONSTANTS
  NoThread,
  MaxDbErrors    \* bound: calls of the database that raise

ASSUME AuditAssumption == NoThread \notin Threads /\ MaxDbErrors \in Nat

VARIABLES
  ready,      \* ready[r]: _schema_ready
  initLock,   \* initLock[r]: the thread holding _init_lock
  advisory,   \* the thread whose transaction holds the advisory lock
  table,      \* copilot_audit_log exists
  call,       \* call[t]: the next call of write() or health()
  rows,       \* rows[q]: the rows of copilot_audit_log for request q
  dbErrors

auditVars == <<ready, initLock, advisory, table, call, rows, dbErrors>>

Calls == {"none", "check", "lock", "advisory", "exists", "create", "insert", "done", "failed"}

Goes(t, from, to) == call[t] = from /\ call' = [call EXCEPT ![t] = to]

-----------------------------------------------------------------------------
(* Mutated forms, none of which a step uses.                               *)

AdvisoryFree_always == TRUE
ReadyAfterRaise_set(t) == TRUE
-----------------------------------------------------------------------------
\* write() or health() is called.
BeginAudit(t) ==
  Goes(t, "none", "check")

\* _ensure: the first look at _schema_ready, without the lock.
Check(t) ==
  /\ Goes(t, "check", IF ready[At[t]] THEN "insert" ELSE "lock")
  /\ UNCHANGED <<ready, initLock, advisory, table, rows, dbErrors>>

\* _init_lock, and the second look.
Lock(t) ==
  /\ initLock[At[t]] = NoThread
  /\ IF ready[At[t]]
     THEN Goes(t, "lock", "insert") /\ UNCHANGED initLock
     ELSE Goes(t, "lock", "advisory") /\ initLock' = [initLock EXCEPT ![At[t]] = t]
  /\ UNCHANGED <<ready, advisory, table, rows, dbErrors>>

\* pg_advisory_xact_lock waits for the transaction that holds it.
AdvisoryFree == advisory = NoThread

TakeAdvisory(t) ==
  /\ AdvisoryFree
  /\ Goes(t, "advisory", "exists")
  /\ advisory' = t
  /\ UNCHANGED <<ready, initLock, table, rows, dbErrors>>

Released(lock, t) == IF lock = t THEN NoThread ELSE lock

\* The transaction and the with blocks end.
ReleaseLocks(t) ==
  /\ advisory' = Released(advisory, t)
  /\ initLock' = [initLock EXCEPT ![At[t]] = Released(@, t)]

\* CREATE TABLE IF NOT EXISTS finds the table: the schema is ready.
FindTable(t) ==
  /\ table
  /\ Goes(t, "exists", "insert")
  /\ ready' = [ready EXCEPT ![At[t]] = TRUE]
  /\ ReleaseLocks(t)
  /\ UNCHANGED <<table, rows, dbErrors>>

MissTable(t) ==
  /\ ~table
  /\ Goes(t, "exists", "create")
  /\ UNCHANGED <<ready, initLock, advisory, table, rows, dbErrors>>

\* _schema_ready after _ensure raised.
ReadyAfterRaise(t) == ready[At[t]]

\* write() and health() catch what _ensure or their own statement raises.
Raise(t) ==
  /\ call' = [call EXCEPT ![t] = "failed"]
  /\ ready' = [ready EXCEPT ![At[t]] = ReadyAfterRaise(t)]
  /\ ReleaseLocks(t)

\* The table is created and committed, unless another transaction has created
\* it since this one looked: a unique violation.
CreateTable(t) ==
  /\ call[t] = "create"
  /\ IF table THEN Raise(t)
     ELSE /\ Goes(t, "create", "insert")
          /\ ready' = [ready EXCEPT ![At[t]] = TRUE]
          /\ ReleaseLocks(t)
  /\ table' = TRUE
  /\ UNCHANGED <<rows, dbErrors>>

\* INSERT, or the probe's SELECT 1.
Insert(t) ==
  /\ Goes(t, "insert", "done")
  /\ rows' = [q \in Requests |-> IF q = t THEN rows[q] + 1 ELSE rows[q]]
  /\ UNCHANGED <<ready, initLock, advisory, table, dbErrors>>

\* A connection cannot be had, or a statement or its commit raises: the
\* database may have executed it.
DbFails(t) ==
  /\ dbErrors < MaxDbErrors
  /\ call[t] \in {"advisory", "exists", "create", "insert"}
  /\ dbErrors' = dbErrors + 1
  /\ table' \in (IF call[t] = "create" THEN {table, TRUE} ELSE {table})
  /\ rows' \in {rows} \union
       (IF call[t] = "insert" THEN {[q \in Requests |-> IF q = t THEN rows[q] + 1 ELSE rows[q]]} ELSE {})
  /\ Raise(t)

AuditCall(t) ==
  \/ Check(t) \/ Lock(t) \/ TakeAdvisory(t) \/ FindTable(t) \/ MissTable(t) \/ CreateTable(t) \/ Insert(t)

AuditInit ==
  /\ ready = [r \in Replicas |-> FALSE]
  /\ initLock = [r \in Replicas |-> NoThread]
  /\ advisory = NoThread
  /\ table \in BOOLEAN
  /\ call = [t \in Threads |-> "none"]
  /\ rows = [q \in Requests |-> 0]
  /\ dbErrors = 0

-----------------------------------------------------------------------------
AuditTypeOK ==
  /\ ready \in [Replicas -> BOOLEAN]
  /\ initLock \in [Replicas -> Threads \union {NoThread}]
  /\ advisory \in Threads \union {NoThread}
  /\ table \in BOOLEAN
  /\ call \in [Threads -> Calls]
  /\ rows \in [Requests -> Nat]
  /\ dbErrors \in 0..MaxDbErrors

\* No write fails and no row is missing while the database answers, although
\* the replicas create the schema at the same time (audit.py, _ensure: "the
\* first two background audit writes raced and one row was lost"); and no
\* write leaves two rows.
NoRowLost ==
  /\ \A t \in Threads : call[t] = "failed" => dbErrors > 0
  /\ \A q \in Requests : rows[q] <= 1 /\ (call[q] = "done" => rows[q] = 1)

\* A replica that takes the schema for ready has one: an insert never meets
\* a missing table.
ReadyMeansTable ==
  /\ \A r \in Replicas : ready[r] => table
  /\ \A t \in Threads : call[t] = "insert" => table
=============================================================================
