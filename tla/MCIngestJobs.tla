----------------------------- MODULE MCIngestJobs -----------------------------
(* Instances of IngestJobs for TLC: mail of a customer about to cancel. *)
EXTENDS IngestJobs, TLC

CONSTANTS cancel, renew, noise, w1, w2

OneProcess  == {{w1, w2}}
OneThread   == {{w1}}
TwoWorkers  == {{w1}, {w2}}

(* Item 1 thinks of cancelling, item 2 renews, item 3 thinks again. *)
Again == 1 :> <<cancel>> @@ 2 :> <<renew>> @@ 3 :> <<cancel>>
Twice == 1 :> <<cancel, renew>> @@ 2 :> <<renew, noise>>
Short == 1 :> <<cancel>> @@ 2 :> <<renew>>

Nobody  == [f \in Fact |-> {}]
Renewal == [f \in Fact |-> IF f = renew THEN {cancel} ELSE {}]

Threads == Permutations({w1, w2})
===============================================================================
