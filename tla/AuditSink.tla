------------------------------ MODULE AuditSink ------------------------------
(***************************************************************************)
(* The Postgres audit sink of agent/audit.py, which the broker writes to   *)
(* in production, and the database and connection behind it (external).    *)
(*                                                                         *)
(* record() connects on first use, inserts one row per event and swallows  *)
(* every exception after logging it.  A connection once made is kept, also *)
(* when an insert on it has failed: only close() lets go of it.            *)
(***************************************************************************)
EXTENDS Naturals, Sequences

CONSTANTS
  MaxEvents,   \* bound of the events recorded
  MaxOutages   \* bound of the outages

ASSUME AuditSinkAssumption == MaxEvents \in Nat /\ MaxOutages \in Nat

VARIABLES
  conn,      \* _conn: "none", "open", or "dead" when the server has dropped it
  table,     \* credit_audit_log exists
  rows,      \* the events stored, by number
  logged,    \* the events whose write failure was logged
  recorded,  \* events handed to record() so far
  up,        \* the database answers
  outages    \* outages so far

sinkVars == <<conn, table, rows, logged, recorded>>
dbVars == <<up, outages>>
auditSinkVars == <<sinkVars, dbVars>>

\* The event that record() is handed next.
NextEvent == recorded + 1

Recording ==
  /\ recorded < MaxEvents
  /\ recorded' = NextEvent

\* Every failure is logged with the event's action.
Fail(event) == logged' = logged \union {event} /\ UNCHANGED rows

\* No connection and none to be had; creating the table may be what fails.
ConnectFails ==
  /\ Recording /\ conn = "none" /\ ~up
  /\ Fail(NextEvent)
  /\ table' \in {table, TRUE}
  /\ UNCHANGED <<conn, dbVars>>

\* Connected, and the database goes away before the insert: the connection is kept.
ConnectsThenFails ==
  /\ Recording /\ conn = "none" /\ ~up
  /\ table' = TRUE
  /\ conn' = "dead"
  /\ Fail(NextEvent)
  /\ UNCHANGED <<dbVars>>

\* Connect if need be, create the table, insert: autocommit makes the row stay.
\* The server may drop the connection once the row is stored.
Insert ==
  /\ Recording /\ conn # "dead" /\ up
  /\ table' = TRUE
  /\ rows' = Append(rows, NextEvent)
  /\ conn' = "open"
  /\ UNCHANGED <<logged, dbVars>>

\* Faulty variant: a failed insert is tried again at once.
InsertFailsThenRetried ==
  /\ Recording /\ conn = "open" /\ ~up
  /\ rows' \in {rows, rows \o <<NextEvent, NextEvent>>}
  /\ logged' = logged \union {NextEvent}
  /\ conn' = "dead"
  /\ UNCHANGED <<table, dbVars>>

\* The database goes away in the middle of an insert: the row may be stored all the
\* same, and the connection is kept.
InsertFails ==
  /\ Recording /\ conn = "open" /\ ~up
  /\ rows' \in {rows, Append(rows, NextEvent)}
  /\ logged' = logged \union {NextEvent}
  /\ conn' = "dead"
  /\ UNCHANGED <<table, dbVars>>

\* A dropped connection is tried again with every event.
DeadConnection ==
  /\ Recording /\ conn = "dead"
  /\ Fail(NextEvent)
  /\ UNCHANGED <<conn, table, dbVars>>

\* close(): the connection is let go of even when closing it fails.
CloseSink ==
  /\ conn # "none"
  /\ conn' = "none"
  /\ UNCHANGED <<table, rows, logged, recorded, dbVars>>

\* The server drops its connections when it goes away; the sink learns at its next
\* insert.
GoesDown ==
  /\ up /\ outages < MaxOutages
  /\ up' = FALSE /\ outages' = outages + 1
  /\ UNCHANGED <<sinkVars>>

ComesBack ==
  /\ ~up
  /\ up' = TRUE
  /\ conn' = IF conn = "open" THEN "dead" ELSE conn
  /\ UNCHANGED <<table, rows, logged, recorded, outages>>

AuditSinkInit ==
  /\ conn = "none" /\ table \in BOOLEAN /\ rows = <<>> /\ logged = {} /\ recorded = 0
  /\ up \in BOOLEAN /\ outages = 0

AuditSinkNext ==
  \/ ConnectFails \/ ConnectsThenFails \/ Insert \/ InsertFails \/ DeadConnection \/ CloseSink
  \/ GoesDown \/ ComesBack

AuditSinkSpec == AuditSinkInit /\ [][AuditSinkNext]_auditSinkVars

-----------------------------------------------------------------------------
(* Properties.                                                             *)

\* What is stored is the broker's log with gaps, and no gap is silent: the rows are in
\* the order of the calls, each event once at most, and an event without a row had
\* its failure logged (the class's "it must be visible"), across outages, failed
\* inserts and reconnects.
TableIsLogLessFailures ==
  /\ \A i, j \in 1..Len(rows) : i < j => rows[i] < rows[j]
  /\ 1..recorded \subseteq {rows[i] : i \in 1..Len(rows)} \union logged

=============================================================================
