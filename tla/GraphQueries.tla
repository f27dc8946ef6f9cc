---------------------------- MODULE GraphQueries ----------------------------
(***************************************************************************)
(* The queries of pkg/graph: a search of the object graph under its read   *)
(* lock (GraphSearch), from whose answer a PolicyReport may be made, or a  *)
(* walk of the object finder through the API server (ObjectFinder).  A     *)
(* request is one or the other.                                            *)
(***************************************************************************)
EXTENDS PolicyReport, ObjectFinder

allVars == <<vars, findVars>>

SearchIdle ==
    /\ g = [lbl \in Labels |-> {}]
    /\ request = "Links"
    /\ oid \in {CHOOSE x \in OIDs : TRUE}
    /\ edgeLabel = Offshoot
    /\ phase = "done"
    /\ idsToProcess = <<>>
    /\ include = <<>>
    /\ processed = {} /\ processedGK = {} /\ result = {}
    /\ offshoots = {} /\ skipGKs = {} /\ connections = {}

FindIdle ==
    /\ world = {} /\ scoped = {} /\ in = {}
    /\ conn = CHOOSE c \in Connections : TRUE
    /\ origin = "none"
    /\ path = <<>>
    /\ outcome = "found"

QueryInit == (Init /\ FindIdle) \/ (SearchIdle /\ FindInit)

Search == Next /\ UNCHANGED findVars
Find   == Follow /\ UNCHANGED vars

(* The goroutine of a request is scheduled to its end. *)
QuerySpec ==
    QueryInit /\ [][Search \/ Find]_allVars /\ WF_allVars(Search) /\ WF_allVars(Find)
=============================================================================
