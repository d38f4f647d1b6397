------------------------------- MODULE Tenants --------------------------------
(***************************************************************************)
(* The projects of an organization, the chain of its audit log, and the    *)
(* erasure of a whole project (server/enterprise.py; the project,          *)
(* connector and OAuth routes of server/api.py).                           *)
(*                                                                         *)
(* Threads of the server share one connection, on which a commit by any of *)
(* them commits what all have written; grant.py appends to the log from a  *)
(* process of its own.  An erasure is a DELETE per table and one commit.   *)
(* A table is the set of the projects that have rows in it, a project has  *)
(* at most one connector, and the hash of an audit row is its id.          *)
(***************************************************************************)
EXTENDS Integers, Sequences

CONSTANTS
  Project,
  Thread,                  \* threads of the server
  Outside,                 \* runs of grant.py
  MaxRows, MaxCrashes      \* bounds of the instance

VARIABLES
  db,          \* what the server's connection reads
  disk,        \* what is committed
  served,      \* PROJECTS
  run,         \* thread -> what it is doing
  rows,        \* audit rows so far, whose numbers are their ids
  crashes,
  erased,      \* history: projects whose erasure was reported
  late,        \* history: projects written to when their erasure had begun
  mixed,       \* history: projects with a commit of others amid their erasure
  orphaned,    \* history: projects that lost a connector and not its credentials
  cut          \* history: chains an erasure cut, or two processes extended at once

vars == <<db, disk, served, run, rows, crashes, erased, late, mixed, orphaned, cut>>
history == <<erased, late, mixed, orphaned, cut>>

Table == {"projects", "ops", "source_records", "connectors", "oauth_creds"}
Chain == {"org", "system"}      \* of the organization, and of rows without one

NoRow == [id |-> 0, seq |-> 0, prev |-> 0, of |-> "none"]
Idle  == [at |-> "idle", why |-> "none", p |-> "none", chain |-> "org", row |-> NoRow]

Init ==
  /\ db = [table |-> [t \in Table |-> IF t \in {"connectors", "oauth_creds"} THEN {} ELSE Project],
           audit |-> [c \in Chain |-> <<>>]]
  /\ disk = db /\ served = Project
  /\ run = [t \in Thread \cup Outside |-> Idle]
  /\ rows = 0 /\ crashes = 0
  /\ erased = {} /\ late = {} /\ mixed = {} /\ orphaned = {} /\ cut = {}

At(t, step) == run[t].at = step
Goto(t, step) == run' = [run EXCEPT ![t].at = step]
Begin(t, step, why, p) ==
  /\ At(t, "idle")
  /\ run' = [run EXCEPT ![t] = [Idle EXCEPT !.at = step, !.why = why, !.p = p]]

Known(p) == p \in db.table["projects"]

(* delete_project, statement by statement. *)
Then == [oauth_creds |-> "ops", ops |-> "source_records", source_records |-> "connectors",
         connectors |-> "audit_events", audit_events |-> "projects", projects |-> "commit"]
Erasing(p) == \E t \in Thread : run[t].p = p /\ run[t].at \in DOMAIN Then \cup {"commit", "pop"}
Amid(t) == {run[u].p : u \in {v \in Thread \ {t} :
                                run[v].at \in (DOMAIN Then \ {"oauth_creds"}) \cup {"commit"}}}

With(table, p)    == [db EXCEPT !.table[table] = @ \cup {p}]
Without(table, p) == [db EXCEPT !.table[table] = @ \ {p}]

(* A commit by t takes along what the erasures of others have deleted. *)
Commit(t, new) ==
  /\ db' = new /\ disk' = new
  /\ mixed' = mixed \cup Amid(t)
Touch(p) == late' = IF Erasing(p) \/ ~ Known(p) THEN late \cup {p} ELSE late

------------------------------------------------------------------------------
(* The audit log. *)

(* The row that comes after the newest of a chain. *)
Following(chain, of) ==
  LET last == IF chain = <<>> THEN NoRow
              ELSE chain[CHOOSE n \in DOMAIN chain :
                           \A m \in DOMAIN chain : chain[m].seq <= chain[n].seq]
  IN  [id |-> 0, seq |-> last.seq + 1, prev |-> last.id, of |-> of]

(* Whose row it is: org_id and project_id as the routes pass them. *)
ChainOf(t) ==
  CASE run[t].why = "connect"                    -> "system"
    [] run[t].why = "write" /\ ~ Known(run[t].p) -> "system"
    [] OTHER                                     -> "org"
About(t) == IF run[t].why \in {"write", "remove", "soft"} THEN run[t].p ELSE "none"

EndRead(t, store) ==
  [run EXCEPT ![t].at = "append", ![t].chain = ChainOf(t),
              ![t].row = Following(store.audit[ChainOf(t)], About(t))]

(* Others of other processes have read the same end of the chain. *)
Beside(t, others) ==
  cut' = IF \E u \in others : At(u, "append") /\ run[u].chain = ChainOf(t)
         THEN cut \cup {ChainOf(t)} ELSE cut

(* Mutant of ReadLast: no lock from the read to the commit. *)
ReadFreely(t) ==
  /\ At(t, "audit")
  /\ run' = EndRead(t, db)
  /\ Beside(t, Outside)
  /\ UNCHANGED <<db, disk, served, rows, crashes, erased, late, mixed, orphaned>>

ReadLast(t) ==
  /\ At(t, "audit") /\ \A u \in Thread : ~ At(u, "append")      \* _audit_lock
  /\ run' = EndRead(t, db)
  /\ Beside(t, Outside)
  /\ UNCHANGED <<db, disk, served, rows, crashes, erased, late, mixed, orphaned>>

Appended(t) ==
  [db EXCEPT !.audit[run[t].chain] = Append(@, [run[t].row EXCEPT !.id = rows + 1])]

AppendRow(t) ==
  /\ At(t, "append") /\ rows < MaxRows
  /\ Commit(t, Appended(t))
  /\ rows' = rows + 1
  /\ run' = [run EXCEPT ![t] = IF @.why = "erase" THEN [@ EXCEPT !.at = "oauth_creds"] ELSE Idle]
  /\ IF About(t) # "none" THEN Touch(About(t)) ELSE UNCHANGED late
  /\ UNCHANGED <<served, crashes, erased, orphaned, cut>>

(* grant.py reads what is committed, and waits for an open transaction. *)
GrantReads(o) ==
  /\ At(o, "idle")
  /\ run' = EndRead(o, disk)
  /\ Beside(o, (Thread \cup Outside) \ {o})
  /\ UNCHANGED <<db, disk, served, rows, crashes, erased, late, mixed, orphaned>>

GrantAppends(o) ==
  /\ At(o, "append") /\ rows < MaxRows /\ db = disk
  /\ db' = Appended(o) /\ disk' = db'
  /\ rows' = rows + 1
  /\ run' = [run EXCEPT ![o] = Idle]
  /\ UNCHANGED <<served, crashes, history>>

------------------------------------------------------------------------------
(* Requests about a project. *)

Write(t, p) ==
  /\ p \in served /\ Begin(t, "record", "write", p)
  /\ UNCHANGED <<db, disk, served, rows, crashes, history>>

(* The request goes on with the project it looked up, erased or not. *)
Record(t) ==
  /\ At(t, "record")
  /\ Commit(t, With("ops", run[t].p)) /\ Touch(run[t].p)
  /\ Goto(t, "audit")
  /\ UNCHANGED <<served, rows, crashes, erased, orphaned, cut>>

AddConnector(t, p) ==
  /\ p \in served /\ p \notin db.table["connectors"] /\ Begin(t, "consent", "connect", p)
  /\ Commit(t, With("connectors", p)) /\ Touch(p)
  /\ UNCHANGED <<served, rows, crashes, erased, orphaned, cut>>

(* Google sends the browser back: nothing asks whether the connector is there. *)
SaveCreds(t) ==
  /\ At(t, "consent")
  /\ Commit(t, With("oauth_creds", run[t].p))
  /\ Touch(run[t].p)
  /\ orphaned' = IF run[t].p \in db.table["connectors"] THEN orphaned ELSE orphaned \cup {run[t].p}
  /\ Goto(t, "audit")
  /\ UNCHANGED <<served, rows, crashes, erased, cut>>

(* The credentials stay, without their access token. *)
RemoveConnector(t, p) ==
  /\ p \in served /\ p \in db.table["connectors"] /\ Known(p) /\ Begin(t, "audit", "remove", p)
  /\ Commit(t, [Without("connectors", p) EXCEPT !.table["source_records"] = @ \ {p}])
  /\ orphaned' = IF p \in db.table["oauth_creds"] THEN orphaned \cup {p} ELSE orphaned
  /\ UNCHANGED <<served, rows, crashes, erased, late, cut>>

(* The soft delete is committed by its audit row. *)
SoftDelete(t, p) ==
  /\ Known(p) /\ Begin(t, "audit", "soft", p)
  /\ db' = Without("source_records", p)
  /\ UNCHANGED <<disk, served, rows, crashes, history>>

------------------------------------------------------------------------------
(* The erasure of a project. *)

Erase(t, p) ==
  /\ Known(p) /\ Begin(t, "audit", "erase", p)
  /\ UNCHANGED <<db, disk, served, rows, crashes, history>>

RowsOf(c, p) == {n \in DOMAIN db.audit[c] : db.audit[c][n].of = p}
Others(chain, p) == SelectSeq(chain, LAMBDA r : r.of # p)

Deleted(s, p) ==
  CASE s = "oauth_creds" ->       \* found through the connectors
         IF p \in db.table["connectors"] THEN Without(s, p) ELSE db
    [] s = "audit_events" ->
         [db EXCEPT !.audit = [c \in Chain |-> IF RowsOf(c, p) = {} THEN db.audit[c]
                                               ELSE Others(db.audit[c], p)]]
    [] OTHER -> Without(s, p)

DeleteRows(t) ==
  LET s == run[t].at
      p == run[t].p
  IN  /\ s \in DOMAIN Then
      /\ db' = Deleted(s, p)
      /\ cut' = cut \cup {c \in Chain : s = "audit_events" /\ RowsOf(c, p) # {}}
      /\ Goto(t, Then[s])
      /\ UNCHANGED <<disk, served, rows, crashes, erased, late, mixed, orphaned>>

CommitErasure(t) ==
  /\ At(t, "commit")
  /\ Commit(t, db)
  /\ Goto(t, "pop")
  /\ UNCHANGED <<served, rows, crashes, erased, late, orphaned, cut>>

(* PROJECTS.pop, and the reply. *)
Pop(t) ==
  /\ At(t, "pop")
  /\ served' = served \ {run[t].p}
  /\ erased' = erased \cup {run[t].p}
  /\ run' = [run EXCEPT ![t] = Idle]
  /\ UNCHANGED <<db, disk, rows, crashes, late, mixed, orphaned, cut>>

(* The server dies and boots with the projects on disk. *)
Restart ==
  /\ crashes < MaxCrashes
  /\ db' = disk /\ served' = disk.table["projects"]
  /\ run' = [t \in DOMAIN run |-> IF t \in Thread THEN Idle ELSE run[t]]
  /\ crashes' = crashes + 1
  /\ UNCHANGED <<disk, rows, history>>

------------------------------------------------------------------------------
Next ==
  \/ \E t \in Thread :
       \/ ReadLast(t) \/ AppendRow(t) \/ Record(t) \/ SaveCreds(t)
       \/ DeleteRows(t) \/ CommitErasure(t) \/ Pop(t)
       \/ \E p \in Project :
            Write(t, p) \/ AddConnector(t, p) \/ RemoveConnector(t, p) \/ SoftDelete(t, p)
            \/ Erase(t, p)
  \/ \E o \in Outside : GrantReads(o) \/ GrantAppends(o)
  \/ Restart

Spec == Init /\ [][Next]_vars

------------------------------------------------------------------------------
TypeOK ==
  /\ \A s \in {db, disk} : s.table \in [Table -> SUBSET Project] /\ DOMAIN s.audit = Chain
  /\ served \subseteq Project
  /\ \A t \in Thread : run[t].at \in DOMAIN Then \cup
       {"idle", "record", "consent", "audit", "append", "commit", "pop"}
  /\ UNION {erased, late, mixed, orphaned} \subseteq Project /\ cut \subseteq Chain

(* verify_audit_chain finds nothing to report. *)
Verifies(chain) ==
  \A n \in DOMAIN chain :
    chain[n].seq = n /\ chain[n].prev = IF n = 1 THEN 0 ELSE chain[n - 1].id

(* The audit chain verifies whatever is written at once and wherever the    *)
(* server dies, unless an erasure took rows out of it or another process    *)
(* extended it at the same time (enterprise.py:168-207).                    *)
ChainHolds ==
  \A c \in Chain \ cut : Verifies(db.audit[c]) /\ Verifies(disk.audit[c])

(* A project whose erasure was reported is not served, now or after a       *)
(* restart, and nothing of it is left in the tables the erasure knows, if   *)
(* no request wrote to it in the meantime and no connector of it had been   *)
(* removed before (enterprise.py:322-328: nothing survives).                *)
ErasedIsGone ==
  \A p \in erased :
    /\ p \notin served \cup disk.table["projects"]
    /\ p \notin late => p \notin UNION {disk.table[t] : t \in Table \ {"oauth_creds"}}
    /\ p \notin late \cup orphaned => p \notin disk.table["oauth_creds"]

(* What is on disk is the whole project or nothing of it, if no other       *)
(* request committed amid its erasure: a server that dies leaves none to be *)
(* served without its log, and no credentials that no connector leads to.   *)
WholeOrGone ==
  /\ \A p \in Project \ (mixed \cup late) :
       p \in disk.table["projects"] <=> p \in disk.table["ops"]
  /\ disk.table["oauth_creds"] \subseteq disk.table["connectors"] \cup orphaned \cup late

(* What an organization is promised of its log and of an erasure. *)
TenantsHold == TypeOK /\ ChainHolds /\ ErasedIsGone /\ WholeOrGone
===============================================================================
