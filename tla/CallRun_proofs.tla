---------------------------- MODULE CallRun_proofs ----------------------------
(***************************************************************************)
(* What Execution.tla promises of one statement, for every statement and   *)
(* every cursor: any columns, any rows, any number of them, whatever fails *)
(* and whenever.  In Service.tla a job comes from a compiled plan; here it *)
(* is any job at all.                                                      *)
(*                                                                         *)
(* The inductive invariant is ExecInv.  Its heart is that while a cursor   *)
(* is open it knows its own failure, and without one the rows read and the *)
(* rows left are together the rows there are.                              *)
(*                                                                         *)
(* Then what CallRun.tla makes of it: a function sees of its parameters    *)
(* what the operation, its variables and the SDL say of them, whatever the *)
(* document and the operation; and of a call as of any statement an answer *)
(* is whole and a failure is itself.                                       *)
(***************************************************************************)
EXTENDS CallRun, SequenceTheorems, WellFoundedInduction, TLAPS

Kinds == {"flat", "shaped"} \union Calls
RowsOf(j) == {j.rows[i] : i \in DOMAIN j.rows}

\* Any handle, any columns, any rows.
IsJob(j) == /\ j = [kind |-> j.kind, handle |-> j.handle, recorded |-> j.recorded,
                    columns |-> j.columns, rows |-> j.rows]
            /\ j.kind \in Kinds
            /\ j.rows \in Seq(RowsOf(j))

\* Nil is none of the things that stand beside it.
NilIsApart ==
  /\ \A kind, handle, recorded, columns, rows :
       Nil # [kind |-> kind, handle |-> handle, recorded |-> recorded, columns |-> columns, rows |-> rows]
  /\ Nil # "closed"
  /\ \A left, broken : Nil # [left |-> left, broken |-> broken]
  /\ \A ok, value : Nil # [ok |-> ok, value |-> value]
  /\ \A from, state : Nil # [from |-> from, state |-> state]

LEMMA JobsAreNotNil ==
  ASSUME NilIsApart, NEW j, IsJob(j)
  PROVE  j # Nil
<1>1. \A kind, handle, recorded, columns, rows :
        Nil # [kind |-> kind, handle |-> handle, recorded |-> recorded, columns |-> columns, rows |-> rows]
  BY DEF NilIsApart
<1>2. PICK kind, handle, recorded, columns, rows :
        j = [kind |-> kind, handle |-> handle, recorded |-> recorded, columns |-> columns, rows |-> rows]
  BY DEF IsJob
<1> QED BY <1>1, <1>2

ExecNext == (\E j : IsJob(j) /\ Start(j)) \/ Execute
ExecSpec == Idle /\ [][ExecNext]_execVars
------------------------------------------------------------------------------
(* The invariant. *)

NothingYet == job = Nil => Idle

AJob == job # Nil => IsJob(job)

BeforeTheCursor == outcome = Nil /\ cursor = Nil => read = <<>> /\ fault = Nil

OpenCursor ==
  outcome = Nil /\ cursor # Nil =>
    /\ IsJob(job) /\ job.kind # "void"
    /\ read \in Seq(RowsOf(job)) /\ fault \in Faults \union {Nil}
    /\ \E left \in Seq(RowsOf(job)) :
         /\ cursor = [left |-> left, broken |-> fault]
         /\ fault = Nil => read \o left = job.rows

ExecInv == NothingYet /\ AJob /\ BeforeTheCursor /\ OpenCursor /\ AnswerIsWhole /\ SqlstatePreserved
------------------------------------------------------------------------------
(* Sequences. *)

\* What is read and what is left stay the same rows when one is fetched.
LEMMA FetchKeepsTheRows ==
  ASSUME NEW S, NEW s \in Seq(S), NEW t \in Seq(S), t # <<>>
  PROVE  /\ Append(s, Head(t)) \in Seq(S) /\ Tail(t) \in Seq(S)
         /\ Append(s, Head(t)) \o Tail(t) = s \o t
<1>1. /\ Head(t) \in S /\ Tail(t) \in Seq(S) /\ Len(Tail(t)) = Len(t) - 1
      /\ \A i \in 1 .. Len(Tail(t)) : Tail(t)[i] = t[i + 1]
  BY HeadTailProperties
<1>2. Len(s) \in Nat /\ Len(t) \in Nat /\ Len(t) # 0
  BY LenProperties, EmptySeq
<1> DEFINE u == Append(s, Head(t))
<1>3. u \in Seq(S) /\ Len(u) = Len(s) + 1 /\ u[Len(u)] = t[1]
      /\ \A i \in 1 .. Len(s) : u[i] = s[i]
  BY <1>1, <1>2
<1>4. /\ u \o Tail(t) \in Seq(S) /\ Len(u \o Tail(t)) = Len(s) + Len(t)
      /\ \A i \in 1 .. Len(s) + Len(t) :
           (u \o Tail(t))[i] = IF i <= Len(s) + 1 THEN u[i] ELSE Tail(t)[i - (Len(s) + 1)]
  <2> HIDE DEF u
  <2>1. /\ u \o Tail(t) \in Seq(S) /\ Len(u \o Tail(t)) = Len(u) + Len(Tail(t))
        /\ \A i \in 1 .. Len(u) + Len(Tail(t)) :
             (u \o Tail(t))[i] = IF i <= Len(u) THEN u[i] ELSE Tail(t)[i - Len(u)]
    BY <1>1, <1>3, ConcatProperties
  <2>2. Len(u) + Len(Tail(t)) = Len(s) + Len(t)
    BY <1>1, <1>2, <1>3
  <2> QED BY <1>3, <2>1, <2>2
<1>5. /\ s \o t \in Seq(S) /\ Len(s \o t) = Len(s) + Len(t)
      /\ \A i \in 1 .. Len(s) + Len(t) : (s \o t)[i] = IF i <= Len(s) THEN s[i] ELSE t[i - Len(s)]
  BY ConcatProperties
<1>6. ASSUME NEW i \in 1 .. Len(s) + Len(t)
      PROVE  (u \o Tail(t))[i] = (s \o t)[i]
  <2> HIDE DEF u
  <2>1. CASE i <= Len(s)
    BY <2>1, <1>2, <1>3, <1>4, <1>5
  <2>2. CASE i = Len(s) + 1
    BY <2>2, <1>2, <1>3, <1>4, <1>5
  <2>3. CASE i > Len(s) + 1
    <3>1. i - (Len(s) + 1) \in 1 .. Len(Tail(t)) /\ (i - (Len(s) + 1)) + 1 = i - Len(s)
      BY <2>3, <1>1, <1>2
    <3> QED BY <2>3, <3>1, <1>1, <1>2, <1>4, <1>5
  <2>4. i <= Len(s) \/ i = Len(s) + 1 \/ i > Len(s) + 1
    BY <1>2
  <2> QED BY <2>1, <2>2, <2>3, <2>4, Zenon
<1>7. u \o Tail(t) = s \o t
  <2> HIDE DEF u
  <2> QED BY <1>4, <1>5, <1>6, SeqEqual
<1> QED BY <1>1, <1>3, <1>7

LEMMA OfOneRow ==
  ASSUME NEW S, NEW s \in Seq(S), Len(s) = 1
  PROVE  s = <<s[1]>>
<1>1. s[1] \in S
  BY ElementOfSeq
<1>2. <<s[1]>> \in Seq(S) /\ Len(<<s[1]>>) = 1 /\ <<s[1]>>[1] = s[1]
  BY <1>1
<1> QED BY <1>2, SeqEqual
------------------------------------------------------------------------------
(* Failures. *)

\* A failure is none of the absence of one, and a call's keeps its SQLSTATE
\* and its type through wrapping.
LEMMA WrappedPreserves ==
  ASSUME NilIsApart, NEW j, NEW e \in Faults \union {Scan}
  PROVE  /\ e # Nil
         /\ ~Wrapped(j, e).ok /\ Wrapped(j, e).value.cause = e
         /\ j.kind \in Calls => /\ Wrapped(j, e).value.sqlstate = e.state
                                /\ Wrapped(j, e).value.error = "FunctionError" <=> e.from = "server"
  BY DEF NilIsApart, Faults, Scan, Server, Connection, Wrapped

\* Whatever is returned is not the absence of an outcome.
LEMMA OutcomesAreNotNil ==
  ASSUME NilIsApart
  PROVE  /\ \A v : Answer(v) # Nil /\ Answer(v).ok /\ Answer(v).value = v
         /\ \A why : Complaint(why) # Nil /\ ~Complaint(why).ok
         /\ \A j, e : Wrapped(j, e) # Nil
  BY DEF NilIsApart, Answer, Complaint, Wrapped
------------------------------------------------------------------------------
(* A step that returns ends the statement: what is left to show is that    *)
(* its outcome keeps the promises.                                         *)
LEMMA ReturningPreserves ==
  ASSUME NilIsApart, ExecInv, job # Nil, NEW o, Return(o), o # Nil,
         AnswerIsWhole', SqlstatePreserved'
  PROVE  ExecInv'
  BY DEF ExecInv, Return, NothingYet, AJob, BeforeTheCursor, OpenCursor

\* A complaint of exec's own is no answer, and nothing went wrong below it.
LEMMA ComplainingPreserves ==
  ASSUME NilIsApart, ExecInv, job # Nil, NEW why, Return(Complaint(why)), fault' = Nil
  PROVE  ExecInv'
<1>1. Complaint(why) # Nil /\ ~Complaint(why).ok
  BY OutcomesAreNotNil
<1>2. AnswerIsWhole' /\ SqlstatePreserved'
  BY <1>1 DEF Return, AnswerIsWhole, SqlstatePreserved
<1> QED BY <1>1, <1>2, ReturningPreserves

\* A failure below is returned as what it is.
LEMMA FailingPreserves ==
  ASSUME NilIsApart, ExecInv, job # Nil, NEW e \in Faults \union {Scan},
         Return(Wrapped(job, e)), fault' = e
  PROVE  ExecInv'
<1>1. /\ Wrapped(job, e) # Nil /\ ~Wrapped(job, e).ok /\ Wrapped(job, e).value.cause = e
      /\ job.kind \in Calls => /\ Wrapped(job, e).value.sqlstate = e.state
                               /\ Wrapped(job, e).value.error = "FunctionError" <=> e.from = "server"
  BY OutcomesAreNotNil, WrappedPreserves
<1>2. outcome' = Wrapped(job, e) /\ job' = job
  BY DEF Return
<1> HIDE DEF Wrapped
<1>3. AnswerIsWhole'
  BY <1>1, <1>2 DEF AnswerIsWhole
<1>4. SqlstatePreserved'
  BY <1>1, <1>2 DEF SqlstatePreserved
<1> QED BY <1>1, <1>3, <1>4, ReturningPreserves
------------------------------------------------------------------------------
(* One step at a time. *)

LEMMA StartPreserves ==
  ASSUME NilIsApart, ExecInv, NEW j, IsJob(j), Start(j)
  PROVE  ExecInv'
<1>1. Idle /\ j # Nil
  BY JobsAreNotNil DEF Start, ExecInv, NothingYet
<1> QED
  BY <1>1 DEF Start, Idle, ExecInv, NothingYet, AJob, BeforeTheCursor, OpenCursor, AnswerIsWhole, SqlstatePreserved

LEMMA NoHandlePreserves ==
  ASSUME NilIsApart, ExecInv, NoHandle
  PROVE  ExecInv'
<1>1. job # Nil /\ fault' = Nil
  BY DEF NoHandle, Waiting, ExecInv, BeforeTheCursor
<1>2. \E why : Return(Complaint(why))
  BY DEF NoHandle
<1> QED BY <1>1, <1>2, ComplainingPreserves

LEMMA ExecVoidPreserves ==
  ASSUME NilIsApart, ExecInv, ExecVoid
  PROVE  ExecInv'
<1>1. job # Nil /\ job.kind = "void" /\ fault = Nil /\ IsJob(job)
  BY DEF ExecVoid, Waiting, ExecInv, BeforeTheCursor, AJob
<1>2. CASE Return(Complaint("read-only handle")) /\ UNCHANGED fault
  BY <1>1, <1>2, ComplainingPreserves
<1>3. CASE Return(Answer(TRUE)) /\ UNCHANGED fault
  <2>1. Answer(TRUE) # Nil /\ Answer(TRUE).ok /\ Answer(TRUE).value = TRUE
    BY OutcomesAreNotNil
  <2>2. AnswerIsWhole' /\ SqlstatePreserved'
    BY <1>1, <1>3, <2>1 DEF Return, AnswerIsWhole, SqlstatePreserved
  <2> QED BY <1>1, <1>3, <2>1, <2>2, ReturningPreserves
<1>4. ASSUME NEW e \in Faults, Return(Wrapped(job, e)), fault' = e
      PROVE  ExecInv'
  BY <1>1, <1>4, FailingPreserves
<1> QED BY <1>2, <1>3, <1>4 DEF ExecVoid

LEMMA OpenFailsPreserves ==
  ASSUME NilIsApart, ExecInv, OpenFails
  PROVE  ExecInv'
<1>1. job # Nil
  BY DEF OpenFails, Queries, Waiting
<1>2. PICK e \in Faults : Return(Wrapped(job, e)) /\ fault' = e
  BY DEF OpenFails
<1> QED BY <1>1, <1>2, FailingPreserves

\* A cursor that opens has all the rows before it, or a failure and none.
LEMMA OpenPreserves ==
  ASSUME NilIsApart, ExecInv, Open
  PROVE  ExecInv'
<1>1. /\ job # Nil /\ IsJob(job) /\ job.kind # "void" /\ job' = job
      /\ outcome = Nil /\ read = <<>> /\ read' = <<>>
  BY DEF Open, Queries, Waiting, ExecInv, AJob, BeforeTheCursor
<1>2. PICK broken \in Faults \union {Nil} :
        /\ fault' = broken
        /\ IF ColumnsWrong(Reported(broken))
           THEN outcome' = Complaint("columns") /\ cursor' = "closed"
           ELSE /\ cursor' = [left |-> IF broken = Nil THEN job.rows ELSE <<>>, broken |-> broken]
                /\ UNCHANGED outcome
  BY DEF Open
<1>3. job.rows \in Seq(RowsOf(job)) /\ <<>> \in Seq(RowsOf(job)) /\ <<>> \o job.rows = job.rows
  BY <1>1, ConcatEmptySeq DEF IsJob
<1>4. CASE ColumnsWrong(Reported(broken))
  <2>1. broken = Nil
    BY <1>4 DEF ColumnsWrong, Reported
  <2>2. Complaint("columns") # Nil /\ ~Complaint("columns").ok
    BY OutcomesAreNotNil
  <2>3. AnswerIsWhole' /\ SqlstatePreserved'
    BY <1>2, <1>4, <2>1, <2>2 DEF AnswerIsWhole, SqlstatePreserved
  <2> QED
    BY <1>1, <1>2, <1>4, <2>2, <2>3 DEF ExecInv, NothingYet, AJob, BeforeTheCursor, OpenCursor
<1>5. CASE ~ColumnsWrong(Reported(broken))
  <2>1. outcome' = Nil /\ cursor' # Nil
    BY <1>1, <1>2, <1>5 DEF NilIsApart
  <2>2. AnswerIsWhole' /\ SqlstatePreserved'
    BY <2>1 DEF AnswerIsWhole, SqlstatePreserved
  <2>3. OpenCursor'
    <3>1. CASE broken = Nil
      BY <3>1, <1>1, <1>2, <1>3, <1>5 DEF OpenCursor
    <3>2. CASE broken # Nil
      BY <3>2, <1>1, <1>2, <1>3, <1>5 DEF OpenCursor
    <3> QED BY <3>1, <3>2
  <2> QED
    BY <1>1, <2>1, <2>2, <2>3 DEF ExecInv, NothingYet, AJob, BeforeTheCursor
<1> QED BY <1>4, <1>5

\* What is known while a cursor is open.
LEMMA WhileReading ==
  ASSUME NilIsApart, ExecInv, Reading
  PROVE  /\ job # Nil /\ IsJob(job) /\ job.kind # "void" /\ read \in Seq(RowsOf(job))
         /\ cursor.left \in Seq(RowsOf(job)) /\ cursor.broken = fault /\ fault \in Faults \union {Nil}
         /\ cursor = [left |-> cursor.left, broken |-> fault]
         /\ fault = Nil => read \o cursor.left = job.rows
<1>1. /\ IsJob(job) /\ job.kind # "void"
      /\ read \in Seq(RowsOf(job)) /\ fault \in Faults \union {Nil}
  BY DEF Reading, ExecInv, OpenCursor
<1>2. PICK left \in Seq(RowsOf(job)) : /\ cursor = [left |-> left, broken |-> fault]
                                       /\ fault = Nil => read \o left = job.rows
  BY DEF Reading, ExecInv, OpenCursor
<1>3. job # Nil
  BY <1>1, JobsAreNotNil
<1>4. cursor.left = left /\ cursor.broken = fault
  BY <1>2
<1> QED BY <1>1, <1>2, <1>3, <1>4

LEMMA FetchPreserves ==
  ASSUME NilIsApart, ExecInv, Fetch
  PROVE  ExecInv'
<1>1. Reading /\ cursor.left # <<>> /\ fault = Nil /\ fault' = Nil
  BY WhileReading DEF Fetch
<1>2. /\ job # Nil /\ IsJob(job) /\ job.kind # "void" /\ read \in Seq(RowsOf(job))
      /\ cursor.left \in Seq(RowsOf(job)) /\ cursor = [left |-> cursor.left, broken |-> Nil]
      /\ read \o cursor.left = job.rows
  BY <1>1, WhileReading
<1>3. CASE TooMany
  BY <1>1, <1>2, <1>3, ComplainingPreserves DEF Fetch
<1>4. CASE ~TooMany
  <2>1. /\ read' = Append(read, Head(cursor.left))
        /\ cursor' = [left |-> Tail(cursor.left), broken |-> Nil]
        /\ job' = job /\ outcome' = Nil
    BY <1>1, <1>2, <1>4 DEF Fetch, Reading
  <2>2. read' \in Seq(RowsOf(job)) /\ Tail(cursor.left) \in Seq(RowsOf(job)) /\ read' \o Tail(cursor.left) = job.rows
    BY <1>1, <1>2, <2>1, FetchKeepsTheRows
  <2>3. OpenCursor'
    BY <1>1, <1>2, <2>1, <2>2 DEF OpenCursor
  <2>4. cursor' # Nil
    BY <2>1 DEF NilIsApart
  <2> QED
    BY <1>2, <2>1, <2>3, <2>4 DEF ExecInv, NothingYet, AJob, BeforeTheCursor, AnswerIsWhole, SqlstatePreserved
<1> QED BY <1>3, <1>4

LEMMA ScanFailsPreserves ==
  ASSUME NilIsApart, ExecInv, ScanFails
  PROVE  ExecInv'
<1>1. job # Nil
  BY WhileReading DEF ScanFails
<1> QED BY <1>1, FailingPreserves DEF ScanFails

LEMMA BreaksPreserves ==
  ASSUME NilIsApart, ExecInv, Breaks
  PROVE  ExecInv'
<1>1. /\ job # Nil /\ IsJob(job) /\ job.kind # "void" /\ read \in Seq(RowsOf(job))
      /\ cursor.left \in Seq(RowsOf(job)) /\ cursor = [left |-> cursor.left, broken |-> fault]
  BY WhileReading DEF Breaks
<1>2. PICK e \in Faults : fault' = e /\ cursor' = [cursor EXCEPT !.broken = e]
  BY DEF Breaks
<1>3. e # Nil
  BY WrappedPreserves
<1>4. cursor' = [left |-> cursor.left, broken |-> e] /\ cursor' # Nil
  BY <1>1, <1>2 DEF NilIsApart
<1>5. job' = job /\ read' = read /\ outcome = Nil /\ outcome' = Nil
  BY DEF Breaks, Reading
<1>6. OpenCursor'
  BY <1>1, <1>2, <1>3, <1>4, <1>5 DEF OpenCursor
<1> QED
  BY <1>1, <1>4, <1>5, <1>6 DEF ExecInv, NothingYet, AJob, BeforeTheCursor, AnswerIsWhole, SqlstatePreserved

\* At the end of a cursor that did not fail every row has been read.
LEMMA EndsPreserves ==
  ASSUME NilIsApart, ExecInv, Ends
  PROVE  ExecInv'
<1>1. /\ job # Nil /\ IsJob(job) /\ job.kind # "void" /\ read \in Seq(RowsOf(job))
      /\ cursor.left \in Seq(RowsOf(job)) /\ cursor.broken = fault /\ fault \in Faults \union {Nil}
      /\ fault = Nil => read \o cursor.left = job.rows
  BY WhileReading DEF Ends
<1>2. fault' = fault
  BY DEF Ends
<1>3. CASE fault # Nil
  BY <1>1, <1>2, <1>3, FailingPreserves DEF Ends, AtTheEnd
<1>4. CASE fault = Nil
  <2>1. Return(Collected(read)) /\ cursor.left = <<>>
    BY <1>1, <1>4 DEF Ends, AtTheEnd
  <2>2. read = job.rows
    BY <1>1, <1>4, <2>1, ConcatEmptySeq
  <2>3. CASE job.kind = "flat"
    <3>1. Return(Answer(read))
      BY <2>1, <2>3 DEF Collected
    <3>2. Answer(read) # Nil /\ Answer(read).ok /\ Answer(read).value = read
      BY OutcomesAreNotNil
    <3>3. AnswerIsWhole' /\ SqlstatePreserved'
      BY <1>2, <1>4, <2>2, <2>3, <3>1, <3>2 DEF Return, AnswerIsWhole, SqlstatePreserved
    <3> QED BY <1>1, <3>1, <3>2, <3>3, ReturningPreserves
  <2>4. CASE job.kind # "flat" /\ Len(read) = 1
    <3>1. Return(Answer(read[1]))
      BY <2>1, <2>4 DEF Collected
    <3>2. Answer(read[1]) # Nil /\ Answer(read[1]).ok /\ Answer(read[1]).value = read[1]
      BY OutcomesAreNotNil
    <3>3. job.rows = <<read[1]>>
      BY <1>1, <2>2, <2>4, OfOneRow
    <3>4. AnswerIsWhole' /\ SqlstatePreserved'
      BY <1>1, <1>2, <1>4, <2>4, <3>1, <3>2, <3>3 DEF Return, AnswerIsWhole, SqlstatePreserved
    <3> QED BY <1>1, <3>1, <3>2, <3>4, ReturningPreserves
  <2>5. CASE job.kind # "flat" /\ Len(read) # 1
    <3>1. Return(Complaint("row count"))
      BY <2>1, <2>5 DEF Collected
    <3> QED BY <1>1, <1>2, <1>4, <3>1, ComplainingPreserves
  <2> QED BY <2>3, <2>4, <2>5
<1> QED BY <1>3, <1>4

LEMMA NextPreserves ==
  ASSUME NilIsApart, ExecInv, [ExecNext]_execVars
  PROVE  ExecInv'
<1>1. CASE UNCHANGED execVars
  BY <1>1 DEF execVars, ExecInv, NothingYet, Idle, AJob, BeforeTheCursor, OpenCursor, AnswerIsWhole, SqlstatePreserved
<1>2. ASSUME NEW j, IsJob(j), Start(j)
      PROVE  ExecInv'
  BY <1>2, StartPreserves
<1>3. CASE Execute
  <2>1. CASE NoHandle
    BY <2>1, NoHandlePreserves
  <2>2. CASE ExecVoid
    BY <2>2, ExecVoidPreserves
  <2>3. CASE OpenFails
    BY <2>3, OpenFailsPreserves
  <2>4. CASE Open
    BY <2>4, OpenPreserves
  <2>5. CASE Fetch
    BY <2>5, FetchPreserves
  <2>6. CASE ScanFails
    BY <2>6, ScanFailsPreserves
  <2>7. CASE Breaks
    BY <2>7, BreaksPreserves
  <2>8. CASE Ends
    BY <2>8, EndsPreserves
  <2> QED BY <1>3, <2>1, <2>2, <2>3, <2>4, <2>5, <2>6, <2>7, <2>8 DEF Execute
<1> QED BY <1>1, <1>2, <1>3 DEF ExecNext
------------------------------------------------------------------------------
(* The theorems. *)

\* ExecInv holds of every statement, whatever the database and the driver do.
THEOREM Invariance ==
  ASSUME NilIsApart
  PROVE  ExecSpec => []ExecInv
<1>1. Idle => ExecInv
  BY DEF Idle, ExecInv, NothingYet, AJob, BeforeTheCursor, OpenCursor, AnswerIsWhole, SqlstatePreserved
<1>2. ExecInv /\ [ExecNext]_execVars => ExecInv'
  BY NextPreserves
<1> QED BY <1>1, <1>2, PTL DEF ExecSpec

\* What a statement answers with is all of it: every row of a flat query, in
\* order, the one row of a shaped query or a scalar call. A cursor that fails
\* after some rows, or a statement of the wrong shape, answers with nothing
\* (scan, rowsOf, queryShaped, scalarResult).
THEOREM WholeAnswers ==
  ASSUME NilIsApart
  PROVE  ExecSpec => []AnswerIsWhole
<1>1. ExecInv => AnswerIsWhole
  BY DEF ExecInv
<1> QED BY <1>1, Invariance, PTL

\* What went wrong below reaches the caller: the failure itself is wrapped,
\* never replaced by what was noticed after it (missing columns, a row count),
\* and of a call its SQLSTATE stands beside it (columnsOf, asFunctionError).
THEOREM FailuresSurface ==
  ASSUME NilIsApart
  PROVE  ExecSpec => []SqlstatePreserved
<1>1. ExecInv => SqlstatePreserved
  BY DEF ExecInv
<1> QED BY <1>1, Invariance, PTL
------------------------------------------------------------------------------
(* What a call passes. *)

LEMMA LeastIsThere ==
  ASSUME NEW S \in SUBSET Nat, S # {}
  PROVE  Min(S) \in S
<1> DEFINE R == OpToRel(<, Nat)
<1>1. PICK x \in S : \A y \in S : <<y, x>> \notin R
  <2>1. IsWellFoundedOn(R, Nat)
    BY NatLessThanWellFounded
  <2> HIDE DEF R
  <2> QED BY <2>1, WFMin
<1>2. \A y \in S : ~(y < x)
  BY <1>1, Zenon DEF OpToRel
<1>3. \A y \in S : x <= y
  BY <1>2
<1> QED BY <1>3 DEF Min

\* A value that can be bound is bound to what it means.
LEMMA BoundIsMeant ==
  ASSUME NEW v, BoundValue(Env(scene.op, scene.vars), v) # None
  PROVE  BoundValue(Env(scene.op, scene.vars), v) = Means(v)
BY DEF BoundValue, Env, Means, Literal

LEMMA CallPassesWhatIsMeant ==
  ASSUME CompilesMutation(scene.doc, scene.op, scene.vars), FunctionIsAsDeclared,
         DOMAIN RootField(scene.op).args \subseteq Nat,
         \A a \in Range(RootField(scene.op).args) : a.value # None,
         NEW P, P = Parameters(CompileMutation(scene.doc, scene.op, scene.vars).args, scene.function)
  PROVE  /\ DOMAIN P = DOMAIN scene.function
         /\ \A a \in Range(Called.args) : P[Param(a)] \in Meant(a)
<1> DEFINE field == RootField(scene.op)
           env   == Env(scene.op, scene.vars)
           named == {d \in Range(Called.args) : Passed(field, d) # None}
           args  == CallArgs(Called, field, env)
<1>1. P = Parameters(args, scene.function)
  BY DEF CompileMutation, Called
<1>2. /\ DOMAIN args = {Param(d) : d \in named}
      /\ \A p \in DOMAIN args : args[p] = BoundValue(env, Passed(field, CHOOSE d \in named : Param(d) = p))
  BY DEF CallArgs
<1>3. DOMAIN P = DOMAIN scene.function
  BY <1>1, <1>2 DEF Parameters, FunctionIsAsDeclared
<1>4. ASSUME NEW a \in Range(Called.args)
      PROVE  P[Param(a)] \in Meant(a)
  <2> DEFINE passed == {x \in Range(field.args) : x.name = a.name}
  <2>1. Param(a) \in DOMAIN scene.function
    BY DEF FunctionIsAsDeclared
  <2>2. CASE Passed(field, a) # None
    <3>1. a \in named /\ (CHOOSE d \in named : Param(d) = Param(a)) = a
      BY <2>2 DEF FunctionIsAsDeclared
    <3>2. P[Param(a)] = BoundValue(env, Passed(field, a))
      BY <1>1, <1>2, <2>1, <3>1 DEF Parameters
    <3>3. BoundValue(env, Passed(field, a)) # None
      BY <2>2 DEF CompilesMutation, ValidCallArgs, Called
    <3>4. P[Param(a)] = Means(Passed(field, a))
      BY <3>2, <3>3, BoundIsMeant
    <3>5. CASE Given(field, a) # {}
      <4>1. Min(Given(field, a)) \in Given(field, a)
        BY <3>5, LeastIsThere DEF Given
      <4>2. PICK x \in passed : Passed(field, a) = x.value
        BY <3>5, <4>1 DEF Passed, Given, Range
      <4> QED BY <3>4, <4>2 DEF Meant
    <3>6. CASE Given(field, a) = {}
      <4>1. passed = {} /\ Passed(field, a) = a.default
        BY <3>6 DEF Given, Passed, Range
      <4> QED BY <2>2, <3>4, <4>1 DEF Meant
    <3> QED BY <3>5, <3>6
  <2>3. CASE Passed(field, a) = None
    <3>1. Given(field, a) = {} /\ a.default = None
      <4>1. CASE Given(field, a) # {}
        <5>1. Min(Given(field, a)) \in Given(field, a)
          BY <4>1, LeastIsThere DEF Given
        <5> QED BY <2>3, <4>1, <5>1 DEF Passed, Given, Range
      <4> QED BY <2>3, <4>1 DEF Passed
    <3>2. Param(a) \notin DOMAIN args
      BY <1>2, <2>3 DEF FunctionIsAsDeclared
    <3>3. P[Param(a)] = scene.function[Param(a)]
      BY <1>1, <2>1, <3>2 DEF Parameters
    <3>4. passed = {}
      BY <3>1 DEF Given, Range
    <3> QED BY <3>1, <3>3, <3>4 DEF Meant
  <2> QED BY <2>2, <2>3
<1> QED BY <1>3, <1>4
------------------------------------------------------------------------------
(* The invariant: a statement that runs is the call the operation was      *)
(* compiled to, and a reply that is no error is its outcome.               *)

CallJob == [kind     |-> IF plan.returns = "VOID" THEN "void" ELSE "scalar",
            handle   |-> scene.handle,
            recorded |-> <<>>,
            columns  |-> scene.columns,
            rows     |-> <<Parameters(plan.args, scene.function)>>]

Planned == /\ scene.task = "call"
           /\ CompilesMutation(scene.doc, scene.op, scene.vars)
           /\ plan = CompileMutation(scene.doc, scene.op, scene.vars)

CallInv ==
  /\ scene \in UNION Range(Scenes)
  /\ stage = "compiled" => Planned
  /\ job # Nil => Planned /\ job = CallJob /\ stage \in {"running", "done"}
  /\ stage = "running" => job # Nil
  /\ Done /\ reply # Refused => /\ job # Nil /\ outcome # Nil /\ outcome.ok
                                /\ reply = [data |-> outcome.value]

LEMMA CallStarts == CallInit => CallInv /\ ExecInv
<1> SUFFICES ASSUME CallInit PROVE CallInv /\ ExecInv
  OBVIOUS
<1>1. CallInv
  BY DEF CallInit, Written, Idle, CallInv, Done
<1>2. ExecInv
  BY DEF CallInit, Idle, ExecInv, NothingYet, AJob, BeforeTheCursor, OpenCursor, AnswerIsWhole, SqlstatePreserved
<1> QED BY <1>1, <1>2

LEMMA ExecutingKeepsTheJob ==
  ASSUME Execute
  PROVE  job' = job
BY DEF Execute, NoHandle, ExecVoid, OpenFails, Open, Fetch, ScanFails, Breaks, Ends, AtTheEnd, Return

LEMMA CallsAreJobs ==
  ASSUME Planned
  PROVE  IsJob(CallJob)
<1> DEFINE seen == Parameters(plan.args, scene.function)
           j == CallJob
<1>1. j.rows = <<seen>> /\ j.kind \in Kinds
  BY DEF CallJob, Kinds, Calls
<1>2. j = [kind |-> j.kind, handle |-> j.handle, recorded |-> j.recorded, columns |-> j.columns, rows |-> j.rows]
  BY DEF CallJob
<1> HIDE DEF j, seen
<1>3. RowsOf(j) = {seen}
  BY <1>1 DEF RowsOf
<1>4. j.rows \in Seq(RowsOf(j))
  BY <1>1, <1>3
<1>5. IsJob(j)
  BY <1>1, <1>2, <1>4 DEF IsJob
<1> QED BY <1>5 DEF j

LEMMA CallingPreserves ==
  ASSUME NilIsApart, CallInv, ExecInv, CallNext \/ UNCHANGED <<generatorVars, callVars>>
  PROVE  CallInv' /\ ExecInv'
<1>1. ASSUME UNCHANGED execVars PROVE ExecInv'
  BY <1>1, NextPreserves
<1>2. CASE Generating /\ UNCHANGED callVars
  <2>1. stage \in {"written", "parsed", "generated"}
        /\ stage' \in {"parsed", "refused", "generated", "live", "rejected"}
        /\ UNCHANGED <<scene, plan, reply, execVars>>
    BY <1>2 DEF Generating, ParseDocument, BuildGraph, CreateGraph, callVars
  <2>2. job = Nil /\ job' = Nil
    BY <2>1 DEF CallInv, execVars
  <2>3. CallInv'
    BY <2>1, <2>2 DEF CallInv, Done
  <2> QED BY <1>1, <2>1, <2>3
<1>3. CASE CompileCall
  <2>1. UNCHANGED <<scene, execVars>> /\ stage = "live" /\ job = Nil /\ job' = Nil
    BY <1>3 DEF CompileCall, CallInv, execVars
  <2>2. CASE CompilesMutation(scene.doc, scene.op, scene.vars)
    <3>1. stage' = "compiled" /\ Planned'
      BY <1>3, <2>1, <2>2 DEF CompileCall, Planned
    <3>2. CallInv'
      BY <2>1, <3>1 DEF CallInv, Done
    <3> QED BY <1>1, <2>1, <3>2
  <2>3. CASE ~CompilesMutation(scene.doc, scene.op, scene.vars)
    <3>1. stage' = "done" /\ reply' = Refused
      BY <1>3, <2>3 DEF CompileCall, Refuse
    <3>2. CallInv'
      BY <2>1, <3>1 DEF CallInv, Done, Refused
    <3> QED BY <1>1, <2>1, <3>2
  <2> QED BY <2>2, <2>3
<1>4. CASE RunCall
  <2>1. Planned /\ Start(CallJob) /\ stage' = "running" /\ UNCHANGED <<scene, plan, reply>>
    BY <1>4 DEF RunCall, CallInv, CallJob
  <2>2. IsJob(CallJob)
    BY <2>1, CallsAreJobs
  <2>3. ExecInv'
    BY <2>1, <2>2, StartPreserves
  <2>4. job' = CallJob /\ CallJob' = CallJob /\ job' # Nil /\ Planned'
    BY <2>1, <2>2, JobsAreNotNil DEF Start, CallJob, Planned
  <2>5. CallInv'
    BY <2>1, <2>4 DEF CallInv, Done
  <2> QED BY <2>3, <2>5
<1>5. CASE Statement
  <2>1. ExecInv'
    BY <1>5, NextPreserves DEF Statement, ExecNext
  <2>2. /\ stage = "running" /\ stage' = "running" /\ job' = job
        /\ UNCHANGED <<scene, plan, reply>>
    BY <1>5, ExecutingKeepsTheJob DEF Statement, generatorVars
  <2>3. CallInv'
    BY <2>2 DEF CallInv, Done, Planned, CallJob
  <2> QED BY <2>1, <2>3
<1>6. CASE ReturnCall
  <2>1. /\ stage = "running" /\ stage' = "done" /\ outcome # Nil
        /\ reply' = IF outcome.ok THEN [data |-> outcome.value] ELSE Refused
        /\ UNCHANGED <<scene, plan, job, outcome>> /\ UNCHANGED execVars
    BY <1>6 DEF ReturnCall, execVars
  <2>2. job # Nil /\ Planned /\ job = CallJob
    BY <2>1 DEF CallInv
  <2>3. Planned' /\ job' = CallJob'
    BY <2>1, <2>2 DEF Planned, CallJob
  <2>4. CallInv'
    BY <2>1, <2>2, <2>3 DEF CallInv, Done
  <2> QED BY <1>1, <2>1, <2>4
<1>7. CASE UNCHANGED <<generatorVars, callVars>>
  <2>1. UNCHANGED <<scene, stage, plan, reply, job, outcome>> /\ UNCHANGED execVars
    BY <1>7 DEF generatorVars, callVars, execVars
  <2>2. CallInv'
    BY <2>1 DEF CallInv, Done, Planned, CallJob
  <2> QED BY <1>1, <2>1, <2>2
<1> QED BY <1>2, <1>3, <1>4, <1>5, <1>6, <1>7 DEF CallNext, Calling

\* The invariant of a call on its way: what is compiled, what runs and what is
\* handed back belong to each other, for every document, operation and function.
THEOREM CallInvariant ==
  ASSUME NilIsApart
  PROVE  CallSpec => [](CallInv /\ ExecInv)
<1>1. CallInv /\ ExecInv /\ [CallNext]_<<generatorVars, callVars>> => (CallInv /\ ExecInv)'
  BY CallingPreserves
<1> QED BY <1>1, CallStarts, PTL DEF CallSpec
------------------------------------------------------------------------------

\* For every document, operation, variables and function that is as the document
\* declares it: what the function sees is what is meant.
THEOREM FunctionsSeeWhatIsMeant ==
  ASSUME NilIsApart
  PROVE  CallSpec => []FunctionSeesWhatIsMeant
<1>1. CallInv /\ ExecInv => FunctionSeesWhatIsMeant
  <2> SUFFICES ASSUME CallInv, ExecInv, Done, reply # Refused, job.kind = "scalar", FunctionIsAsDeclared
               PROVE  /\ DOMAIN reply.data = DOMAIN scene.function
                      /\ \A a \in Range(Called.args) : reply.data[Param(a)] \in Meant(a)
    BY DEF FunctionSeesWhatIsMeant
  <2>1. /\ Planned /\ job = CallJob
        /\ outcome # Nil /\ outcome.ok /\ reply = [data |-> outcome.value]
    BY DEF CallInv
  <2>2. job.rows = <<outcome.value>>
    BY <2>1 DEF ExecInv, AnswerIsWhole
  <2>3. job.rows = <<Parameters(plan.args, scene.function)>>
    BY <2>1 DEF CallJob
  <2>4. reply.data = Parameters(CompileMutation(scene.doc, scene.op, scene.vars).args, scene.function)
    BY <2>1, <2>2, <2>3 DEF Planned
  <2>5. /\ DOMAIN RootField(scene.op).args \subseteq Nat
        /\ \A a \in Range(RootField(scene.op).args) : a.value # None
    BY <2>1, ArgumentsHaveValues DEF CallInv, Planned
  <2> QED BY <2>1, <2>4, <2>5, CallPassesWhatIsMeant DEF Planned
<1> QED BY <1>1, CallInvariant, PTL

\* Of a call, from the document to the reply: what is answered is the function's
\* whole answer, and a failure arrives as itself with its SQLSTATE.
THEOREM CallsAreAnsweredWhole ==
  ASSUME NilIsApart
  PROVE  CallSpec => [](AnswerIsWhole /\ SqlstatePreserved)
<1>1. ExecInv => AnswerIsWhole /\ SqlstatePreserved
  BY DEF ExecInv
<1> QED BY <1>1, CallInvariant, PTL
===============================================================================
