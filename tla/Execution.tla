------------------------------ MODULE Execution ------------------------------
(***************************************************************************)
(* One statement run through a handle, read to its end: package exec.      *)
(* The database may fail before it answers, in the middle of its rows, or  *)
(* after the last one; a row may not scan; a statement that fails only     *)
(* when it runs still has a cursor, without columns, and says so at Err.   *)
(*                                                                         *)
(* A job is [kind, handle, recorded, columns, rows]: kind "flat" or        *)
(* "shaped" for the queries of the two strategies, "scalar" or "void" for  *)
(* a call; handle the adapter it goes through; recorded the columns the    *)
(* statement was compiled with, columns and rows what the database has.    *)
(***************************************************************************)
EXTENDS Sequences, Naturals

CONSTANTS Nil,          \* Go's nil
          ServerErrors  \* the SQLSTATEs the server raises

VARIABLES
  job,       \* the statement, or Nil
  cursor,    \* Nil, "closed", or [left, broken]
  read,      \* the rows scanned so far
  fault,     \* what really went wrong in the database or the driver
  outcome    \* Nil, or [ok, value] to the caller

execVars == <<job, cursor, read, fault, outcome>>

Handles == {"nil", "pgx", "reader", "portable"}
Named == {"pgx", "reader"}       \* their cursors can name their columns
Calls == {"scalar", "void"}

Server(state) == [from |-> "server", state |-> state]
Connection == [from |-> "connection", state |-> Nil]
Scan == [from |-> "driver", state |-> Nil]
Faults == {Server(s) : s \in ServerErrors} \union {Connection}

Answer(value) == [ok |-> TRUE, value |-> value]
\* An error of gopgql's own.
Complaint(why) == [ok |-> FALSE, value |-> [error |-> why, cause |-> Nil, sqlstate |-> Nil]]

\* What the caller gets of a failure below: wrapped, and of a call that the
\* server failed, typed with its SQLSTATE.
Wrapped(j, e) ==
  [ok |-> FALSE, value |-> [error    |-> IF j.kind \in Calls /\ e.from = "server" THEN "FunctionError" ELSE "exec",
                            cause    |-> e,
                            sqlstate |-> IF j.kind \in Calls THEN e.state ELSE Nil]]

Start(j) == /\ job = Nil
            /\ job' = j
            /\ UNCHANGED <<cursor, read, fault, outcome>>

Waiting == job # Nil /\ outcome = Nil /\ cursor = Nil

\* The caller gets o, and the deferred Close has run.
Return(o) == /\ outcome' = o
             /\ cursor' = IF cursor = Nil THEN Nil ELSE "closed"
             /\ UNCHANGED <<job, read>>

\* No handle: the strategy that shapes in SQL does not ask, and panics.
NoHandle ==
  /\ Waiting /\ job.handle = "nil"
  /\ Return(Complaint(IF job.kind = "shaped" THEN "panic" ELSE "no handle"))
  /\ UNCHANGED fault

\* A VOID function: the statement and its tag.
ExecVoid ==
  /\ Waiting /\ job.kind = "void" /\ job.handle # "nil"
  /\ \/ /\ job.handle = "reader"
        /\ Return(Complaint("read-only handle"))
        /\ UNCHANGED fault
     \/ /\ job.handle # "reader"
        /\ Return(Answer(TRUE))
        /\ UNCHANGED fault
     \/ /\ job.handle # "reader"
        /\ \E e \in Faults : Return(Wrapped(job, e)) /\ fault' = e

Queries == Waiting /\ job.kind # "void" /\ job.handle # "nil"

OpenFails ==
  /\ Queries
  /\ \E e \in Faults : Return(Wrapped(job, e)) /\ fault' = e

\* The columns a cursor reports; none when the statement has already failed.
Reported(broken) == IF broken # Nil THEN <<>> ELSE job.columns

\* (wrong) A cursor without columns has the wrong ones.
ColumnsDiffer(columns) ==
  /\ job.handle \in Named
  /\ IF job.kind = "flat" THEN columns # job.recorded ELSE Len(columns) # 1

\* The columns are not those the statement should have. A statement that failed
\* before it had any is left to its own error.
ColumnsWrong(columns) ==
  /\ job.handle \in Named
  /\ columns # <<>>
  /\ IF job.kind = "flat" THEN columns # job.recorded ELSE Len(columns) # 1

\* Query answers with a cursor: broken is the failure it will report at Err.
Open ==
  /\ Queries
  /\ \E broken \in Faults \union {Nil} :
       /\ fault' = broken
       /\ IF ColumnsWrong(Reported(broken))
          THEN /\ outcome' = Complaint("columns")
               /\ cursor' = "closed"
          ELSE /\ cursor' = [left   |-> IF broken = Nil THEN job.rows ELSE <<>>,
                             broken |-> broken]
               /\ UNCHANGED outcome
  /\ UNCHANGED <<job, read>>

Reading == outcome = Nil /\ cursor # Nil

\* An SQL-side response is one row; a second one is refused unread.
TooMany == job.kind = "shaped" /\ Len(read) = 1

Fetch ==
  /\ Reading /\ cursor.left # <<>> /\ cursor.broken = Nil
  /\ IF TooMany
     THEN Return(Complaint("more than one row"))
     ELSE /\ read' = Append(read, Head(cursor.left))
          /\ cursor' = [cursor EXCEPT !.left = Tail(@)]
          /\ UNCHANGED <<job, outcome>>
  /\ UNCHANGED fault

ScanFails ==
  /\ Reading /\ cursor.left # <<>> /\ cursor.broken = Nil /\ ~TooMany
  /\ fault' = Scan
  /\ Return(Wrapped(job, Scan))

\* The connection or the statement dies among its rows.
Breaks ==
  /\ Reading /\ cursor.broken = Nil
  /\ \E e \in Faults : /\ fault' = e
                       /\ cursor' = [cursor EXCEPT !.broken = e]
  /\ UNCHANGED <<job, read, outcome>>

\* What the rows amount to, when there are no more of them.
Collected(rows) ==
  IF job.kind = "flat" THEN Answer(rows)
  ELSE IF Len(rows) = 1 THEN Answer(rows[1])
  ELSE Complaint("row count")

\* (wrong) Err is not asked.
TakesWhatCame == Return(Collected(read))

\* Next is false: Err says whether that was the end.
AtTheEnd == Return(IF cursor.broken # Nil THEN Wrapped(job, cursor.broken) ELSE Collected(read))

Ends ==
  /\ Reading /\ (cursor.left = <<>> \/ cursor.broken # Nil)
  /\ AtTheEnd
  /\ UNCHANGED fault

Execute == NoHandle \/ ExecVoid \/ OpenFails \/ Open \/ Fetch \/ ScanFails \/ Breaks \/ Ends

Idle == /\ job = Nil
        /\ cursor = Nil
        /\ read = <<>>
        /\ fault = Nil
        /\ outcome = Nil
------------------------------------------------------------------------------
(* What a caller is promised.                                              *)

\* An answer is the whole of what the database has: all the rows of a flat
\* query, the one row of a shaped one or of a scalar function (rowsOf,
\* queryShaped, scalarResult); never the part read before a failure.
AnswerIsWhole ==
  outcome # Nil /\ outcome.ok =>
    CASE job.kind = "flat" -> outcome.value = job.rows
      [] job.kind = "void" -> outcome.value = TRUE
      [] OTHER             -> job.rows = <<outcome.value>>

\* A failure of the database reaches the caller as what it is: nothing takes
\* its place, and of a call the SQLSTATE is data (columnsOf's noResultSet,
\* asFunctionError); no SQLSTATE is invented for a failure without one.
SqlstatePreserved ==
  outcome # Nil /\ fault # Nil =>
    /\ ~outcome.ok /\ outcome.value.cause = fault
    /\ job.kind \in Calls => /\ outcome.value.sqlstate = fault.state
                             /\ outcome.value.error = "FunctionError" <=> fault.from = "server"
==============================================================================
