------------------------------- MODULE Commons --------------------------------
(***************************************************************************)
(* Installs that share counts of patterns, and the collector that          *)
(* publishes them (server/commons.py; the export that rides a backup, the  *)
(* collector's door and the operator's answer in server/api.py).           *)
(*                                                                         *)
(* An install exports and asks from threads of its own: the scheduler's    *)
(* tick, an operator who runs a backup, a request that records an answer.  *)
(* What it sends may arrive late or never, and a reply may not come back.  *)
(* A contribution is the set of patterns of an install's bank; the counts, *)
(* calibration, frames and terms that travel with it are left out.         *)
(***************************************************************************)
EXTENDS Integers, FiniteSets, Sequences

CONSTANTS
  Install,
  Runner,               \* the threads: pairs of an install and a name
  Request,              \* those of them that may serve an operator's answer
  Pattern,
  Banked,               \* install -> the patterns of its bank at first
  Pointed,              \* installs with OMEM_COMMONS_URL, which is consent too
  Own,                  \* patterns in the collector's own bank
  POOLED_MIN_SOURCES,
  MaxIds, MaxMessages, MaxPulls, MaxChanges     \* bounds of the instance

VARIABLES
  choice,         \* install -> its operator's answer
  named,          \* install -> the instance id in commons_meta, 0 for none
  bank,           \* install -> the patterns its bank would send
  pooled,         \* install -> its rows of commons_pooled
  run,            \* thread -> what it is doing
  net,            \* requests on their way to the collector
  contributions,  \* rows of the collector, in order of receipt
  withdrawals,    \* ids the collector has been asked to withdraw
  spent,          \* messages, pulls and changes so far, for the bounds
  minted,         \* history: the install of each id given out
  promised,       \* history: installs told `withdrawn', until they say yes
  crossed         \* history: installs of which two threads stored pages at once

vars == <<choice, named, bank, pooled, run, net, contributions, withdrawals, spent, minted,
          promised, crossed>>

Row == [pat : Pattern, from : SUBSET (1..MaxIds)]

Quiet == [at |-> "idle", why |-> "export", id |-> 0, pats |-> {}, gone |-> {}, page |-> {},
          settled |-> {}]

Init ==
  /\ choice = [i \in Install |-> "none"] /\ named = [i \in Install |-> 0]
  /\ bank = Banked /\ pooled = [i \in Install |-> {}]
  /\ run = [x \in Runner |-> Quiet]
  /\ net = {} /\ contributions = <<>> /\ withdrawals = {}
  /\ spent = [messages |-> 0, pulls |-> 0, changes |-> 0]
  /\ minted = <<>> /\ promised = {} /\ crossed = {}

At(x, step) == run[x].at = step
Spend(what) == spent' = [spent EXCEPT ![what] = @ + 1]

collector == <<contributions, withdrawals>>
install   == <<choice, named, bank, pooled>>
history   == <<minted, promised, crossed>>

------------------------------------------------------------------------------
(* What the collector publishes. *)

(* The newest snapshot of each instance that has not withdrawn. *)
LatestPerInstance(gone) ==
  [d \in {contributions[n].id : n \in DOMAIN contributions} \ gone |->
     LET sent == {n \in DOMAIN contributions : contributions[n].id = d}
     IN  contributions[CHOOSE n \in sent : \A m \in sent : m <= n].pats]

Backers(c, p) == {d \in DOMAIN c : p \in c[d]}
Merged(c) == {[pat |-> p, from |-> Backers(c, p)] : p \in {q \in Pattern : Backers(c, q) # {} \/ q \in Own}}

Sources(row) == Cardinality(row.from) + (IF row.pat \in Own THEN 1 ELSE 0)
AcceptPooled(page) == {row \in page : Sources(row) >= POOLED_MIN_SOURCES}

------------------------------------------------------------------------------
(* An export: contribute, then pull what is published. *)

ShouldContribute(i) == i \in Pointed \/ choice[i] = "yes"

Learn(i) ==
  /\ spent.changes < MaxChanges
  /\ \E B \in SUBSET Pattern \ {bank[i]} : bank' = [bank EXCEPT ![i] = B]
  /\ Spend("changes")
  /\ UNCHANGED <<choice, named, pooled, run, net, collector, history>>

Export(x) ==
  /\ At(x, "idle") /\ ShouldContribute(x[1])
  /\ run' = [run EXCEPT ![x] =
       [Quiet EXCEPT !.at = IF bank[x[1]] = {} THEN "pull" ELSE "name", !.pats = bank[x[1]]]]
  /\ UNCHANGED <<install, net, collector, spent, history>>

(* instance_id reads the id, and mints one when there is none. *)
Onwards(why) == IF why = "export" THEN "post" ELSE "ask"

ReadId(x) ==
  /\ At(x, "name")
  /\ run' = [run EXCEPT ![x].id = named[x[1]],
                        ![x].at = IF named[x[1]] = 0 THEN "mint" ELSE Onwards(run[x].why)]
  /\ UNCHANGED <<install, net, collector, spent, history>>

Mint(x) ==
  /\ At(x, "mint") /\ Len(minted) < MaxIds
  /\ LET v == Len(minted) + 1
     IN  /\ named' = [named EXCEPT ![x[1]] = v]
         /\ run' = [run EXCEPT ![x].id = v, ![x].at = Onwards(run[x].why)]
  /\ minted' = Append(minted, x[1])
  /\ UNCHANGED <<choice, bank, pooled, net, collector, spent, promised, crossed>>

(* The reply to a contribution is not used: sent or not, the export goes on. *)
Post(x) ==
  /\ At(x, "post") /\ spent.messages < MaxMessages
  /\ net' = net \cup {[kind |-> "post", id |-> run[x].id, pats |-> run[x].pats, by |-> x]}
  /\ run' = [run EXCEPT ![x] = [Quiet EXCEPT !.at = "pull"]]
  /\ Spend("messages")
  /\ UNCHANGED <<install, collector, history>>

ReadGone(x) ==
  /\ At(x, "pull") /\ spent.pulls < MaxPulls
  /\ run' = [run EXCEPT ![x].gone = withdrawals, ![x].settled = promised, ![x].at = "read"]
  /\ Spend("pulls")
  /\ UNCHANGED <<install, net, collector, history>>

ReadRows(x) ==
  /\ At(x, "read")
  /\ run' = [run EXCEPT ![x].page = Merged(LatestPerInstance(run[x].gone)), ![x].gone = {},
                        ![x].at = "reply"]
  /\ UNCHANGED <<install, net, collector, spent, history>>

(* The rows of two sources or more replace the old ones; a page without any *)
(* leaves them.  DELETE and INSERT are statements of their own.             *)
Clear(x) ==
  /\ At(x, "reply") /\ AcceptPooled(run[x].page) # {}
  /\ pooled' = [pooled EXCEPT ![x[1]] = {}]
  /\ run' = [run EXCEPT ![x].at = "store"]
  /\ crossed' = crossed \cup {y[1] : y \in {z \in Runner : z # x /\ z[1] = x[1] /\ At(z, "store")}}
  /\ UNCHANGED <<choice, named, bank, net, collector, spent, minted, promised>>

StorePooled(x) ==
  LET i     == x[1]
      rows  == AcceptPooled(run[x].page)
      clash == {r \in rows : \E q \in pooled[i] : q.pat = r.pat}
  IN  /\ At(x, "store")
      /\ \E kept \in SUBSET (rows \ clash) :          \* what precedes the first clash
           /\ clash = {} => kept = rows
           /\ pooled' = [pooled EXCEPT ![i] = @ \cup kept]
      /\ run' = [run EXCEPT ![x] = Quiet]
      /\ UNCHANGED <<choice, named, bank, net, collector, spent, history>>

(* The page is empty, or refused, or the collector does not answer. *)
PullNothing(x) ==
  /\ run[x].at \in {"pull", "reply"}
  /\ run' = [run EXCEPT ![x] = Quiet]
  /\ UNCHANGED <<install, net, collector, spent, history>>

------------------------------------------------------------------------------
(* The operator's answer, and the withdrawal a no asks for. *)

SayYes(x) ==
  /\ x \in Request /\ At(x, "idle") /\ choice[x[1]] # "yes"
  /\ choice' = [choice EXCEPT ![x[1]] = "yes"]
  /\ promised' = promised \ {x[1]}
  /\ UNCHANGED <<named, bank, pooled, run, net, collector, spent, minted, crossed>>

SayNo(x) ==
  /\ x \in Request /\ At(x, "idle")
  /\ choice' = [choice EXCEPT ![x[1]] = "no"]
  /\ run' = [run EXCEPT ![x] = [Quiet EXCEPT !.at = "name", !.why = "withdraw"]]
  /\ UNCHANGED <<named, bank, pooled, net, collector, spent, history>>

Ask(x) ==
  /\ At(x, "ask") /\ spent.messages < MaxMessages
  /\ net' = net \cup {[kind |-> "delete", id |-> run[x].id, pats |-> {}, by |-> x]}
  /\ run' = [run EXCEPT ![x].at = "wait"]
  /\ Spend("messages")
  /\ UNCHANGED <<install, collector, history>>

Answered(x) ==
  /\ At(x, "answered")
  /\ promised' = promised \cup {x[1]}
  /\ run' = [run EXCEPT ![x] = Quiet]
  /\ UNCHANGED <<install, net, collector, spent, minted, crossed>>

(* No answer within five seconds: the operator is told it did not succeed. *)
Unanswered(x) ==
  /\ run[x].at \in {"wait", "answered"}
  /\ run' = [run EXCEPT ![x] = Quiet]
  /\ UNCHANGED <<install, net, collector, spent, history>>

------------------------------------------------------------------------------
(* The collector's door. *)

Store(m) ==
  /\ m \in net /\ m.kind = "post"
  /\ contributions' = Append(contributions, [id |-> m.id, pats |-> m.pats])
  /\ net' = net \ {m}
  /\ UNCHANGED <<install, withdrawals, run, spent, history>>

Reply(m) ==
  IF At(m.by, "wait") /\ run[m.by].id = m.id THEN [run EXCEPT ![m.by].at = "answered"] ELSE run

(* Mutant of Withdraw: it deletes the rows and keeps no record of it. *)
WithdrawRows(m) ==
  /\ m \in net /\ m.kind = "delete"
  /\ contributions' = SelectSeq(contributions, LAMBDA c : c.id # m.id)
  /\ run' = Reply(m)
  /\ net' = net \ {m}
  /\ UNCHANGED <<install, withdrawals, spent, history>>

Withdraw(m) ==
  /\ m \in net /\ m.kind = "delete"
  /\ withdrawals' = withdrawals \cup {m.id}
  /\ run' = Reply(m)
  /\ net' = net \ {m}
  /\ UNCHANGED <<install, contributions, spent, history>>

------------------------------------------------------------------------------
Next ==
  \/ \E i \in Install : Learn(i)
  \/ \E x \in Runner :
       \/ Export(x) \/ ReadId(x) \/ Mint(x) \/ Post(x)
       \/ ReadGone(x) \/ ReadRows(x) \/ Clear(x) \/ StorePooled(x) \/ PullNothing(x)
       \/ SayYes(x) \/ SayNo(x) \/ Ask(x) \/ Answered(x) \/ Unanswered(x)
  \/ \E m \in net : Store(m) \/ Withdraw(m)

Spec == Init /\ [][Next]_vars

------------------------------------------------------------------------------
TypeOK ==
  /\ choice \in [Install -> {"none", "yes", "no"}] /\ named \in [Install -> 0..MaxIds]
  /\ bank \in [Install -> SUBSET Pattern] /\ pooled \in [Install -> SUBSET Row]
  /\ \A x \in Runner : run[x].id \in 0..MaxIds /\ run[x].pats \subseteq Pattern
  /\ \A n \in DOMAIN contributions : contributions[n].id \in 1..MaxIds
  /\ withdrawals \subseteq 1..MaxIds /\ promised \subseteq Install /\ crossed \subseteq Install

(* Installs that were given two ids: two threads found none and each minted *)
(* one (commons.py:396-405).                                                *)
Twice == {i \in Install : Cardinality({n \in DOMAIN minted : minted[n] = i}) > 1}

(* An install whose operator was told `withdrawn' is on no page read after  *)
(* that, whichever of its exports was still on its way (commons.py:788).    *)
WithdrawnIsGone ==
  \A x \in Runner : run[x].at \in {"reply", "store"} =>
    \A row \in run[x].page : \A d \in row.from :
      minted[d] \in run[x].settled => minted[d] \in Twice

(* Nothing comes back to an install that one population alone has taught    *)
(* the collector, however often it was sent (commons.py:60-67).             *)
NobodyAlone ==
  \A i \in Install : \A row \in pooled[i] :
    LET who == {minted[d] : d \in row.from}
    IN  who \cap Twice = {} =>
          Cardinality(who) + (IF row.pat \in Own THEN 1 ELSE 0) >= POOLED_MIN_SOURCES

(* The pool of an install is one page, never two added up, as long as two   *)
(* exports do not store at once (commons.py:938: replace, never accumulate).*)
OnePage ==
  \A x \in Runner : At(x, "store") /\ x[1] \notin crossed => pooled[x[1]] = {}

(* What the commons promises an operator: that a no is a no, that the page *)
(* is of several populations, and that it is one page.                     *)
CommonsHold == TypeOK /\ WithdrawnIsGone /\ NobodyAlone /\ OnePage
===============================================================================
