------------------------------- MODULE Requests -------------------------------
(***************************************************************************)
(* What is asked of the graph once it is there.  A scene says what, task = *)
(* "check", "query", "mcp" or "call"; what comes of it is the reply.       *)
(***************************************************************************)
EXTENDS Generator

VARIABLE reply  \* what the caller gets: a report, a response, an error

Refused == [refused |-> TRUE]

Done == stage = "done"
==============================================================================
