------------------------------ MODULE Projections ------------------------------
(***************************************************************************)
(* The two projections of the engine: the candidate index                  *)
(* (server/candidate_index.py) and the graph (server/graph.py).  A writer  *)
(* adds the rows of its claim after the claim is logged; both are rebuilt  *)
(* from the engine by a request at any time, and at boot after a crash.    *)
(* Requests run in threads on the shared connection; a statement is one    *)
(* step, and a commit takes what every thread wrote to disk.               *)
(*                                                                         *)
(* An edge is "fwd" from the smaller to the larger of the two subjects in  *)
(* sorted order, or "rev".                                                 *)
(***************************************************************************)
EXTENDS Integers, FiniteSets

CONSTANTS
  Claim,
  Relational,  \* claims with two subjects and a relation: they have an edge
  Proved,      \* relational claims whose proposition names its target
  FormedAs,    \* claim -> the direction its text has; a proved one's token has it too
  Observed,    \* claims that POST /v1/observe or ingest forms: they know the direction
  Thread,
  MaxTroubles    \* bound: rebuilds, erasures and crashes

VARIABLES
  engine,    \* claims applied
  logged,    \* claims on disk
  index,     \* claims whose rows are in candidate_subjects and candidate_tokens
  edges,     \* memory_edges: claim -> direction
  saved,     \* index and edges as on disk
  run,       \* thread -> the call it serves
  erased, troubles,
  blurred,   \* history: claims written while the graph was rebuilt, or cut off by a crash
  astray     \* history: claims erased while they were written or a rebuild went on

vars == <<engine, logged, index, edges, saved, run, erased, troubles, blurred, astray>>

Direction == {"fwd", "rev"}

Idle == [does |-> "nothing", at |-> "idle", claim |-> {}, seen |-> <<>>, left |-> {},
         old |-> {}]

Moves(t, x) == run' = [run EXCEPT ![t] = x]
Goto(t, ph) == Moves(t, [run[t] EXCEPT !.at = ph])

Commit == saved' = [index |-> index', edges |-> edges']

(* Rows with one more, or with another direction for it. *)
Put(c, d, rows) == [e \in DOMAIN rows \cup {c} |-> IF e = c THEN d ELSE rows[e]]

Writing(c)   == \E t \in Thread : c \in run[t].claim
Rebuilds(t) == run[t].does \in {"index", "graph", "erase"}

(* A mutant: what the row says is not asked. *)
DirectedAnew(c, rows) == IF c \in Proved THEN FormedAs[c] ELSE "fwd"

(* A token proves the direction; else the row that is there has it; else   *)
(* sorted order.                                                           *)
Directed(c, rows) ==
  CASE c \in Proved      -> FormedAs[c]
    [] c \notin Proved /\ c \in DOMAIN rows -> rows[c]
    [] OTHER             -> "fwd"

------------------------------------------------------------------------------
(* A write: the engine, the log, the index, the graph, and, where the text *)
(* is at hand, the edge again with the direction the text has.             *)

Apply(t, c) ==
  /\ run[t] = Idle /\ c \notin engine \cup erased
  /\ engine' = engine \cup {c}
  /\ Moves(t, [Idle EXCEPT !.does = "write", !.at = "log", !.claim = {c}])
  /\ blurred' = IF \E u \in Thread : run[u].does = "graph" THEN blurred \cup {c} ELSE blurred
  /\ UNCHANGED <<logged, index, edges, saved, erased, troubles, astray>>

Log(t) ==
  /\ run[t].at = "log" /\ logged' = logged \cup run[t].claim /\ Goto(t, "index")
  /\ UNCHANGED <<index, edges>> /\ Commit
  /\ UNCHANGED <<engine, erased, troubles, blurred, astray>>

(* The rows of the index wait for somebody's commit. *)
Index(t) ==
  /\ run[t].does = "write" /\ run[t].at = "index" /\ index' = index \cup run[t].claim
  /\ IF run[t].claim \subseteq Relational THEN Goto(t, "look") ELSE Moves(t, Idle)
  /\ UNCHANGED <<engine, logged, edges, saved, erased, troubles, blurred, astray>>

(* project_assertion reads the row that may be there, then writes. *)
Look(t) ==
  /\ run[t].does = "write" /\ run[t].at = "look"
  /\ \E c \in run[t].claim :
       Moves(t, [run[t] EXCEPT !.at = "edge", !.seen = [e \in {c} |-> Directed(c, edges)]])
  /\ UNCHANGED <<engine, logged, index, edges, saved, erased, troubles, blurred, astray>>

Project(t) ==
  /\ run[t].does = "write" /\ run[t].at = "edge"
  /\ \E c \in run[t].claim : edges' = Put(c, run[t].seen[c], edges)
  /\ UNCHANGED index /\ Commit
  /\ IF run[t].claim \subseteq Observed THEN Goto(t, "form") ELSE Moves(t, Idle)
  /\ UNCHANGED <<engine, logged, erased, troubles, blurred, astray>>

RecordEdge(t) ==
  /\ run[t].at = "form"
  /\ \E c \in run[t].claim : edges' = Put(c, FormedAs[c], edges)
  /\ UNCHANGED index /\ Commit /\ Moves(t, Idle)
  /\ UNCHANGED <<engine, logged, erased, troubles, blurred, astray>>

------------------------------------------------------------------------------
(* POST /v1/memory/index/rebuild: the rows go, then come back from the     *)
(* claims the engine lists after that.                                     *)

Trouble == troubles < MaxTroubles /\ troubles' = troubles + 1

(* The project object a call works with, whose engine an erasure replaces. *)
EngineOf(t) == IF run[t].old = {} THEN engine ELSE run[t].old

Clear(t) ==
  /\ run[t] = Idle /\ Trouble
  /\ index' = {} /\ Moves(t, [Idle EXCEPT !.does = "index", !.at = "list"])
  /\ UNCHANGED <<engine, logged, edges, saved, erased, blurred, astray>>

ListClaims(t) ==
  /\ run[t].does \in {"index", "erase"} /\ run[t].at = "list"
  /\ Moves(t, [run[t] EXCEPT !.at = "fill", !.left = EngineOf(t)])
  /\ UNCHANGED <<engine, logged, index, edges, saved, erased, troubles, blurred, astray>>

Fill(t) ==
  /\ run[t].at = "fill"
  /\ \E c \in run[t].left :
       index' = index \cup {c} /\ Moves(t, [run[t] EXCEPT !.left = @ \ {c}])
  /\ UNCHANGED <<engine, logged, edges, saved, erased, troubles, blurred, astray>>

Filled(t) ==
  /\ run[t].at = "fill" /\ run[t].left = {}
  /\ UNCHANGED <<index, edges>> /\ Commit
  /\ IF run[t].does = "erase" THEN Goto(t, "read") ELSE Moves(t, Idle)
  /\ UNCHANGED <<engine, logged, erased, troubles, blurred, astray>>

------------------------------------------------------------------------------
(* POST /v1/memory/graph/rebuild: the rows are read, then the claims, and  *)
(* the rows that differ from what the claims justify are written.          *)

Reads(t) == Moves(t, [run[t] EXCEPT !.does = "graph", !.at = "list", !.seen = edges])
Blurs    == blurred' = blurred \cup {c \in Claim : Writing(c)}

ReadEdges(t) ==
  /\ run[t] = Idle /\ Trouble /\ Reads(t) /\ Blurs
  /\ UNCHANGED <<engine, logged, index, edges, saved, erased, astray>>

(* What a rebuild makes of the rows it read and the claims it lists. *)
Rebuilt(rows, claims) == [c \in claims \cap Relational |-> Directed(c, rows)]

Same(rows, new) == {c \in DOMAIN rows \cap DOMAIN new : rows[c] = new[c]}

ListEdges(t) ==
  /\ run[t].does = "graph" /\ run[t].at = "list"
  /\ LET rows == run[t].seen
         new  == Rebuilt(rows, EngineOf(t))
     IN  Moves(t, [run[t] EXCEPT !.at = "apply", !.seen = new,
                     !.left = (DOMAIN rows \cup DOMAIN new) \ Same(rows, new)])
  /\ UNCHANGED <<engine, logged, index, edges, saved, erased, troubles, blurred, astray>>

(* A row is written or, where no claim of the engine backs it, deleted. *)
ApplyEdge(t) ==
  /\ run[t].at = "apply"
  /\ \E c \in run[t].left :
       /\ edges' = IF c \in DOMAIN run[t].seen THEN Put(c, run[t].seen[c], edges)
                   ELSE [d \in DOMAIN edges \ {c} |-> edges[d]]
       /\ Moves(t, [run[t] EXCEPT !.left = @ \ {c}])
  /\ UNCHANGED <<engine, logged, index, saved, erased, troubles, blurred, astray>>

Applied(t) ==
  /\ run[t].at = "apply" /\ run[t].left = {}
  /\ UNCHANGED <<index, edges>> /\ Commit /\ Moves(t, Idle)
  /\ UNCHANGED <<engine, logged, erased, troubles, blurred, astray>>

------------------------------------------------------------------------------
(* An erasure (Erasure.tla): the claim goes from the log and its rows with *)
(* it, another engine is served, and both projections are rebuilt from it. *)
(* A rebuild under way goes on with the engine there was.  One erasure is  *)
(* looked at, while no operation is between the engine and the log.        *)

Erase(t, c) ==
  /\ run[t] = Idle /\ c \in logged /\ engine = logged /\ erased = {} /\ Trouble
  /\ engine' = engine \ {c} /\ logged' = logged \ {c} /\ erased' = erased \cup {c}
  /\ edges' = [d \in DOMAIN edges \ {c} |-> edges[d]]
  /\ saved' = [index |-> index \ {c}, edges |-> edges']
  /\ index' = {}
  /\ run' = [u \in Thread |->
       CASE u = t -> [Idle EXCEPT !.does = "erase", !.at = "list"]
         [] u # t /\ Rebuilds(u) -> [run[u] EXCEPT !.old = EngineOf(u)]
         [] OTHER -> run[u]]
  /\ astray' = IF Writing(c) \/ \E u \in Thread : Rebuilds(u)
               THEN astray \cup {c} ELSE astray
  /\ UNCHANGED blurred

ReadAgain(t) ==
  /\ run[t].does = "erase" /\ run[t].at = "read" /\ Reads(t) /\ Blurs
  /\ UNCHANGED <<engine, logged, index, edges, saved, erased, troubles, astray>>

(* A crash leaves what is on disk, and the boot rebuilds both projections. *)
Crash ==
  /\ Trouble
  /\ engine' = logged /\ index' = logged /\ edges' = Rebuilt(saved.edges, logged) /\ Commit
  /\ run' = [t \in Thread |-> Idle]
  /\ blurred' = blurred \cup {c \in Claim : Writing(c)} /\ astray' = {}
  /\ UNCHANGED <<logged, erased>>

Init ==
  /\ engine = {} /\ logged = {} /\ index = {} /\ edges = <<>>
  /\ saved = [index |-> {}, edges |-> <<>>]
  /\ run = [t \in Thread |-> Idle]
  /\ erased = {} /\ troubles = 0 /\ blurred = {} /\ astray = {}

Next ==
  \/ \E t \in Thread :
       \/ \E c \in Claim : Apply(t, c) \/ Erase(t, c)
       \/ Log(t) \/ Index(t) \/ Look(t) \/ Project(t) \/ RecordEdge(t)
       \/ Clear(t) \/ ListClaims(t) \/ Fill(t) \/ Filled(t)
       \/ ReadEdges(t) \/ ListEdges(t) \/ ApplyEdge(t) \/ Applied(t) \/ ReadAgain(t)
  \/ Crash

Spec == Init /\ [][Next]_vars

------------------------------------------------------------------------------
TypeOK ==
  /\ logged \subseteq engine /\ engine \subseteq Claim /\ erased \subseteq Claim \ engine
  /\ index \subseteq Claim /\ DOMAIN edges \subseteq Relational
  /\ \A c \in DOMAIN edges : edges[c] \in Direction

(* Outside a write of its own and a rebuild of the index, a claim can be   *)
(* found if and only if the engine has it: no write falls between the rows *)
(* a rebuild deletes and the claims it lists (candidate_index.rebuild).    *)
IndexWhole ==
  (\A t \in Thread : run[t].at \notin {"list", "fill"} \/ run[t].does = "graph") =>
    \A c \in Claim \ astray : Writing(c) \/ (c \in index <=> c \in engine)

(* Outside a write of its own, a relation has its edge, whatever rebuilds  *)
(* go on: in the direction its token proves or, when nothing met its write,*)
(* the one its text has.  A rebuild is a no-op over what was written       *)
(* (project_assertion, rebuild_projection).                                *)
EdgesTrue ==
  \A c \in Claim \ astray : Writing(c) \/
    /\ c \in DOMAIN edges <=> c \in engine \cap Relational
    /\ c \in DOMAIN edges /\ (c \in Proved \/ (c \in Observed \ blurred)) => edges[c] = FormedAs[c]

ProjectionsHold == IndexWhole /\ EdgesTrue
===============================================================================
