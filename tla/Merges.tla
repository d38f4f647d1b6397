-------------------------------- MODULE Merges --------------------------------
(***************************************************************************)
(* Identity resolution (server/resolution.py): a scan merges people of one *)
(* full name in one organisation and proposes pairs of which one has only  *)
(* a given name; people approve, reject, merge and split.                  *)
(*                                                                         *)
(* A scan classifies every pair at one time T and then acts on what it     *)
(* found; an approval reads the row, looks at the history, merges and      *)
(* writes the row: between these steps the other requests run.             *)
(***************************************************************************)
EXTENDS Integers, Sequences, FiniteSets

CONSTANTS
  Person,       \* ids of people
  Words,        \* person -> the words of the name, in order
  Org,          \* organisations
  Suffix,       \* person -> organisations the id itself names (@org)
  Thread,       \* the scheduler's pass and the requests
  MaxCorefs, MaxEdges      \* bounds of the instance

VARIABLES
  known,     \* people with a label
  edges,     \* live relational claims between a person and an organisation
  corefs,    \* coreference assertions: [pair, by, open]
  row,       \* pair -> status of its merge proposal
  run,       \* thread -> the scan, approval or rejection it is in
  drawn,     \* edges recorded so far
  overlapped \* history: something else happened in the middle of a pass

vars == <<known, edges, corefs, row, run, drawn, overlapped>>

Pair == {q \in SUBSET Person : Cardinality(q) = 2}
RowStatus == {"none", "open", "approved", "rejected"}
Decided == {"approved", "rejected"}
Idle == [at |-> "idle", todo |-> {}, pair |-> {}]

------------------------------------------------------------------------------
(* What a pass reads. *)

(* The tier of a pair of names: one full name; a given name beside a full  *)
(* one or beside itself; two full names that differ do not match.          *)
Tier(q) ==
  CASE \A x, y \in q : Words[x] = Words[y] /\ Len(Words[x]) >= 2 -> "full"
    [] /\ \A x, y \in q : Words[x][1] = Words[y][1]
       /\ \E x \in q : Len(Words[x]) = 1                          -> "given"
    [] OTHER                                                      -> "none"

Orgs(x) == Suffix[x] \cup {o \in Org : <<x, o>> \in edges}
Shared(q) == {o \in Org : \A x \in q : o \in Orgs(x)}

OpenOf(q)   == {i \in DOMAIN corefs : corefs[i].pair = q /\ corefs[i].open}
ClosedOf(q) == {i \in DOMAIN corefs : corefs[i].pair = q /\ ~ corefs[i].open}

(* A person has said that these are different. *)
SplitUp(q) == ClosedOf(q) # {} /\ OpenOf(q) = {}

(* One referent: no set of people closed under the open pairs parts them. *)
SameReferent(q) ==
  \A S \in SUBSET Person :
    (\A i \in DOMAIN corefs : corefs[i].open =>
        (corefs[i].pair \cap S # {} => corefs[i].pair \subseteq S))
    => (q \cap S # {} => q \subseteq S)

(* Pairs a scan takes further. *)
Candidates ==
  {q \in Pair :
     /\ q \subseteq known /\ Tier(q) # "none" /\ Shared(q) # {}
     /\ ~ SplitUp(q) /\ OpenOf(q) = {} /\ ~ SameReferent(q)
     /\ row[q] # "rejected" /\ ~ (row[q] = "open" /\ Tier(q) = "given")}

(* A given name that matches more than one person there matches nobody. *)
Ambiguous(q, found) ==
  \E x \in q : /\ Len(Words[x]) = 1
               /\ \E other \in found \ {q} : x \in other /\ Tier(other) = "given"

Found == {q \in Candidates : Tier(q) = "full" \/ ~ Ambiguous(q, Candidates)}

------------------------------------------------------------------------------
(* The world. *)

Others(t) == \E u \in Thread \ {t} : run[u].at # "idle"
Busy      == \E u \in Thread : run[u].at # "idle"

Form(x) ==
  /\ x \notin known /\ known' = known \cup {x}
  /\ UNCHANGED <<edges, corefs, row, run, drawn, overlapped>>

Anchor(x, o) ==
  /\ x \in known /\ <<x, o>> \notin edges /\ drawn < MaxEdges
  /\ edges' = edges \cup {<<x, o>>} /\ drawn' = drawn + 1
  /\ UNCHANGED <<known, corefs, row, run, overlapped>>

Leave(x, o) ==
  /\ <<x, o>> \in edges /\ edges' = edges \ {<<x, o>>}
  /\ UNCHANGED <<known, corefs, row, run, drawn, overlapped>>

Says(q, who) ==
  /\ Len(corefs) < MaxCorefs
  /\ corefs' = Append(corefs, [pair |-> q, by |-> who, open |-> TRUE])

(* POST /v1/coreference and its split: people overrule the machine. *)
Corefer(q) ==
  /\ q \subseteq known /\ OpenOf(q) = {} /\ Says(q, "person")
  /\ overlapped' = (overlapped \/ Busy)
  /\ UNCHANGED <<known, edges, row, run, drawn>>

Split(i) ==
  /\ corefs[i].open /\ corefs' = [corefs EXCEPT ![i].open = FALSE]
  /\ overlapped' = (overlapped \/ Busy)
  /\ UNCHANGED <<known, edges, row, run, drawn>>

------------------------------------------------------------------------------
(* The scan. *)

Moves(t, x) == run' = [run EXCEPT ![t] = x]
Enters(t, x) == run[t].at = "idle" /\ Moves(t, x) /\ overlapped' = (overlapped \/ Others(t))

Scan(t) ==
  /\ Found # {}
  /\ Enters(t, [Idle EXCEPT !.at = "scan", !.todo = Found])
  /\ UNCHANGED <<known, edges, corefs, row, drawn>>

Done(t, q) == Moves(t, IF run[t].todo = {q} THEN Idle ELSE [run[t] EXCEPT !.todo = @ \ {q}])

(* Mutant of Propose: a full name is proposed as well. *)
ProposeFull(t, q) ==
  /\ run[t].at = "scan" /\ q \in run[t].todo
  /\ row' = [row EXCEPT ![q] = IF @ = "none" THEN "open" ELSE @]
  /\ Done(t, q) /\ UNCHANGED <<known, edges, corefs, drawn, overlapped>>

(* Mutant of Propose: INSERT OR REPLACE. *)
ProposeAnew(t, q) ==
  /\ run[t].at = "scan" /\ q \in run[t].todo /\ Tier(q) = "given"
  /\ row' = [row EXCEPT ![q] = "open"]
  /\ Done(t, q) /\ UNCHANGED <<known, edges, corefs, drawn, overlapped>>

(* INSERT OR IGNORE: a pair that has a row keeps it. *)
Propose(t, q) ==
  /\ run[t].at = "scan" /\ q \in run[t].todo /\ Tier(q) = "given"
  /\ row' = [row EXCEPT ![q] = IF @ = "none" THEN "open" ELSE @]
  /\ Done(t, q) /\ UNCHANGED <<known, edges, corefs, drawn, overlapped>>

MergeFound(t, q) ==
  /\ run[t].at = "scan" /\ q \in run[t].todo /\ Tier(q) = "full"
  /\ Says(q, "machine")
  /\ Done(t, q) /\ UNCHANGED <<known, edges, row, drawn, overlapped>>

------------------------------------------------------------------------------
(* Approval and rejection. *)

Approve(t, q) ==
  /\ row[q] = "open" /\ Enters(t, [at |-> "approve", todo |-> {}, pair |-> q])
  /\ UNCHANGED <<known, edges, corefs, row, drawn>>

Refuse(t) ==
  /\ run[t].at = "approve" /\ SplitUp(run[t].pair) /\ Moves(t, Idle)
  /\ UNCHANGED <<known, edges, corefs, row, drawn, overlapped>>

(* Already one referent: nothing is recorded, the row is written. *)
PassMerge(t) ==
  LET q == run[t].pair
  IN  /\ run[t].at = "approve" /\ ~ SplitUp(q)
      /\ OpenOf(q) # {} \/ SameReferent(q)
      /\ Moves(t, [run[t] EXCEPT !.at = "write"])
      /\ UNCHANGED <<known, edges, corefs, row, drawn, overlapped>>

Decide(t) ==
  LET q == run[t].pair
  IN  /\ run[t].at = "approve" /\ ~ SplitUp(q) /\ OpenOf(q) = {} /\ ~ SameReferent(q)
      /\ Moves(t, [run[t] EXCEPT !.at = "merge"])
      /\ UNCHANGED <<known, edges, corefs, row, drawn, overlapped>>

MergeApproved(t) ==
  /\ run[t].at = "merge" /\ Says(run[t].pair, "approver")
  /\ Moves(t, [run[t] EXCEPT !.at = "write"])
  /\ UNCHANGED <<known, edges, row, drawn, overlapped>>

WriteApproved(t) ==
  /\ run[t].at = "write" /\ row' = [row EXCEPT ![run[t].pair] = "approved"]
  /\ Moves(t, Idle)
  /\ UNCHANGED <<known, edges, corefs, drawn, overlapped>>

Reject(t, q) ==
  /\ row[q] = "open" /\ Enters(t, [at |-> "reject", todo |-> {}, pair |-> q])
  /\ UNCHANGED <<known, edges, corefs, row, drawn>>

WriteRejected(t) ==
  /\ run[t].at = "reject" /\ row' = [row EXCEPT ![run[t].pair] = "rejected"]
  /\ Moves(t, Idle)
  /\ UNCHANGED <<known, edges, corefs, drawn, overlapped>>

------------------------------------------------------------------------------
Init ==
  /\ known = {} /\ edges = {} /\ corefs = <<>> /\ drawn = 0
  /\ row = [q \in Pair |-> "none"]
  /\ run = [t \in Thread |-> Idle] /\ overlapped = FALSE

World ==
  \/ \E x \in Person : Form(x) \/ \E o \in Org : Anchor(x, o) \/ Leave(x, o)
  \/ \E q \in Pair : Corefer(q)
  \/ \E i \in DOMAIN corefs : Split(i)

Pass(t) ==
  \/ Scan(t) \/ Refuse(t) \/ PassMerge(t) \/ Decide(t) \/ MergeApproved(t)
  \/ WriteApproved(t) \/ WriteRejected(t)
  \/ \E q \in Pair : Propose(t, q) \/ MergeFound(t, q) \/ Approve(t, q) \/ Reject(t, q)

Next == World \/ \E t \in Thread : Pass(t)

Spec == Init /\ [][Next]_vars

------------------------------------------------------------------------------
(* Properties. *)

(* Every variable has its type; only given names are ever proposed. *)
TypeOK ==
  /\ known \subseteq Person /\ edges \subseteq known \X Org
  /\ drawn \in 0..MaxEdges /\ overlapped \in BOOLEAN
  /\ Len(corefs) <= MaxCorefs
  /\ \A i \in DOMAIN corefs :
       /\ corefs[i].pair \in Pair /\ corefs[i].open \in BOOLEAN
       /\ corefs[i].by \in {"person", "machine", "approver"}
  /\ row \in [Pair -> RowStatus] /\ \A q \in Pair : row[q] # "none" => Tier(q) = "given"
  /\ \A t \in Thread :
       /\ run[t].at \in {"idle", "scan", "approve", "merge", "write", "reject"}
       /\ run[t].todo \subseteq Pair /\ run[t].pair \in Pair \cup {{}}

(* "A rejected proposal stays rejected", and an approved one approved,      *)
(* whatever merges, splits, arrives or leaves: the machine asks once.  Two  *)
(* judgments of one row at once overwrite each other.                       *)
AskedOnce ==
  [][\A q \in Pair :
       row[q] \in Decided /\ ~ overlapped' => row'[q] = row[q]]_vars
===============================================================================
