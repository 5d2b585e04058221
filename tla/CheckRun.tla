------------------------------- MODULE CheckRun -------------------------------
(***************************************************************************)
(* gopgql check against a live graph that others may alter, drop, and drop *)
(* and make again, before the check, while it runs and between its reads:  *)
(* it looks the graph up by name, reads its labels and then its elements   *)
(* by the oid it found, outside any transaction, and compares.  A scene    *)
(* also says whether a check is run, task = "check", and how often others  *)
(* alter the graph before and during it, alters.                           *)
(***************************************************************************)
EXTENDS Requests, Conformance

VARIABLES
  reflected, \* what the check has read: [oid, labels, elements]
  altered,   \* how often others altered the graph before and during the check
  held       \* every state the graph was in during the check

checkVars == <<reflected, altered, held, reply>>

Nothing == [oid |-> None, labels |-> None, elements |-> None]

Unchecked == /\ reflected = Nothing
             /\ altered = [before |-> 0, during |-> 0]
             /\ held = {}
             /\ reply = None
------------------------------------------------------------------------------

Checking == stage \in {"looked up", "labels read"}

\* Somebody alters the graph, or drops it, or drops and makes it again.
Alter ==
  /\ Checking \/ (scene.task = "check" /\ stage = "live")
  /\ catalog # None
  /\ \E when \in {IF Checking THEN "during" ELSE "before"} :
       /\ altered[when] < scene.alters
       /\ altered' = [altered EXCEPT ![when] = @ + 1]
  /\ \/ catalog' = None
     \/ catalog' = [oid |-> catalog.oid + 1, elements |-> CatalogOf(graph)]
     \/ \E elements \in Drifted(catalog.elements, AllColumns(graph)) :
          catalog' = [oid |-> catalog.oid, elements |-> elements]
  /\ held' = IF Checking /\ catalog' # None THEN held \union {catalog'.elements} ELSE held
  /\ UNCHANGED <<scene, stage, graph, reflected, reply>>

\* graphOID: without the graph the check does not run.
LookUp ==
  /\ stage = "live" /\ scene.task = "check"
  /\ IF catalog = None
     THEN reply' = Refused /\ stage' = "done" /\ UNCHANGED <<reflected, held>>
     ELSE /\ reflected' = [Nothing EXCEPT !.oid = catalog.oid]
          /\ held' = {catalog.elements}
          /\ stage' = "looked up"
          /\ UNCHANGED reply
  /\ UNCHANGED <<scene, graph, catalog, altered>>

ReadLabels ==
  /\ stage = "looked up"
  /\ reflected' = [reflected EXCEPT !.labels = ReflectLabels(catalog, reflected.oid)]
  /\ stage' = "labels read"
  /\ UNCHANGED <<scene, graph, catalog, altered, held, reply>>

ReadElements ==
  /\ stage = "labels read"
  /\ reflected' = [reflected EXCEPT !.elements = ReflectElements(catalog, reflected.oid)]
  /\ stage' = "reflected"
  /\ UNCHANGED <<scene, graph, catalog, altered, held, reply>>

CheckConformance ==
  /\ stage = "reflected"
  /\ \E findings \in PossibleReports(graph, reflected.elements, reflected.labels) :
       reply' = [findings |-> findings]
  /\ stage' = "done"
  /\ UNCHANGED <<scene, graph, catalog, reflected, altered, held>>

Checks == Alter \/ LookUp \/ ReadLabels \/ ReadElements \/ CheckConformance

CheckInit == Written /\ Unchecked
CheckNext == (Generating /\ UNCHANGED checkVars) \/ Checks
CheckSpec == CheckInit /\ [][CheckNext]_<<generatorVars, checkVars>>
------------------------------------------------------------------------------
Reports == Done /\ scene.task = "check" /\ reply # Refused

\* A graph just made, in tables of one element each, has no findings: what the
\* generator builds, PostgreSQL stores and Reflect reads back is one thing.
FreshGraphConforms ==
  Reports /\ altered = [before |-> 0, during |-> 0] /\ OneElementForEachTable(CatalogOf(graph)) =>
    reply.findings = {}

\* A clean report is true: the graph conformed at some moment of the check,
\* although its three reads are no snapshot and somebody may alter the graph
\* once between them, or drop it and make it again. Comparable keeps out what
\* two sides that name tables differently cannot tell.
CleanReportMeansConforming ==
  /\ Reports /\ reply.findings = {} /\ altered.during <= 1
  /\ \A elements \in held : Comparable(graph, elements)
  => \E elements \in held : Conforms(graph, elements)

\* reflect.go says that what Reflect leaves out of an edge can never make a
\* clean report of a dirty database.
CleanReportOfEdges ==
  Reports /\ reply.findings = {} /\ altered.during = 0 => \E elements \in held : Conforms(graph, elements)
------------------------------------------------------------------------------
(* Why: of the three reads only two see elements, and one alteration comes *)
(* between those two or it does not.                                       *)

\* What two reads found: the same, or the second nothing at all, or the second
\* what one ALTER made of the first.
OneStepApart(a, b) ==
  \/ a = b /\ a \in held \union {{}}
  \/ b = {}
  \/ a \in held /\ b \in held /\ b \in Drifted(a, AllColumns(graph))

Untouched == altered = [before |-> 0, during |-> 0]
Generated == graph = Build(scene.doc) /\ Generates(scene.doc) /\ HasGraph(graph)

CatalogInv ==
  /\ stage \in {"written", "parsed", "refused", "generated"} => catalog = None
  /\ stage \in {"written", "parsed", "generated", "live"} => altered.during = 0
  /\ catalog # None =>
       /\ Generated
       /\ catalog.oid \in Nat
       /\ Untouched => catalog.elements = CatalogOf(graph)
  /\ altered \in [before : Nat, during : Nat]
  /\ DOMAIN reflected = DOMAIN Nothing

\* While the check runs: the graph it has looked up is there as long as nobody
\* alters it, and whatever it finds there is recorded.
LookedUpInv ==
  Checking =>
    /\ Generated
    /\ reflected.oid \in Nat
    /\ catalog # None => catalog.elements \in held
    /\ altered.during = 0 => catalog # None /\ catalog.oid = reflected.oid /\ held = {catalog.elements}

LabelsInv ==
  stage = "labels read" /\ altered.during <= 1 =>
    \E a \in held \union {{}} :
      /\ reflected.labels = LabelsOf(a)
      /\ OneStepApart(a, Found(catalog, reflected.oid))
      /\ altered.during = 0 => a \in held

ReflectedInv ==
  stage = "reflected" \/ Reports =>
    /\ Generated
    /\ altered.during <= 1 =>
         \E a, b \in held \union {{}} :
           /\ reflected.labels = LabelsOf(a) /\ reflected.elements = ElementsOf(b)
           /\ OneStepApart(a, b)
           /\ Untouched => a = CatalogOf(graph) /\ b = a
    /\ Done => \E findings \in PossibleReports(graph, reflected.elements, reflected.labels) :
                 reply = [findings |-> findings]

\* Two reads of a check that one alteration separates are reads of one graph.
CheckInv == CatalogInv /\ LookedUpInv /\ LabelsInv /\ ReflectedInv
==============================================================================
