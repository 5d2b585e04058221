--------------------------- MODULE VersionedSchema ---------------------------
(***************************************************************************)
(* What a migration directory promises the database it is applied to:      *)
(* there is one history of schema states, it is only ever extended, and    *)
(* the database always stands at exactly one point of it, moving one step  *)
(* at a time - forward by applying the next migration, back by undoing the *)
(* last one.  Interrupted applies, replicas racing for the same database   *)
(* and half-written generations must all be invisible at this level.       *)
(*                                                                         *)
(* MigrationDirectory.tla implements this specification.                   *)
(***************************************************************************)
EXTENDS Naturals, Sequences

CONSTANT States      \* the states a schema can be in

VARIABLES
  log,               \* every state of the history, oldest first
  at,                \* which of them the database stands at
  shown              \* the schema the database actually has

vars == <<log, at, shown>>

Init ==
  /\ \E s \in States : log = <<s>> /\ shown = s
  /\ at = 1

\* A further state is added to the history; the database does not move.
Publish ==
  /\ \E s \in States : log' = Append(log, s)
  /\ UNCHANGED <<at, shown>>

\* The next migration is applied.
Advance ==
  /\ at < Len(log)
  /\ at' = at + 1
  /\ shown' = log[at + 1]
  /\ UNCHANGED log

\* The last applied migration is undone.
Retreat ==
  /\ at > 1
  /\ at' = at - 1
  /\ shown' = log[at - 1]
  /\ UNCHANGED log

Next == Publish \/ Advance \/ Retreat

Spec == Init /\ [][Next]_vars
==============================================================================
