---------------------------- MODULE AbstractQueue ----------------------------
(***************************************************************************)
(* What the review queue promises whoever reads its durable snapshot: a    *)
(* ledger of review generations. It says nothing of leases, retries,       *)
(* clocks, saves that fail or processes that die; those are the means by   *)
(* which ReviewQueue keeps the promise.                                    *)
(*                                                                         *)
(* One write of the ledger may carry several generations forward, and a    *)
(* generation may have advanced several times since the last write.        *)
(***************************************************************************)
EXTENDS Integers

CONSTANTS
  Generation,  \* the generations that may ever be asked for
  PrOf,        \* the pull request a generation reviews
  Publishes    \* whether results are published by the queue

VARIABLES
  status,      \* what the ledger says of a generation
  since        \* when it was accepted

ledger == <<status, since>>

Pending == {"open", "working", "result"}
Final   == {"published", "ended"}
Status  == {"unknown"} \union Pending \union Final

Newer(g, h) ==
  /\ g # h
  /\ PrOf[g] = PrOf[h]
  /\ \/ since[g] < since[h]
     \/ since[g] = since[h] /\ g < h

Init ==
  /\ status = [g \in Generation |-> "unknown"]
  /\ since = [g \in Generation |-> 0]

\* A generation the ledger has not seen, or one without a result, may be
\* waiting or worked on.
Attempted(g) ==
  /\ status[g] \in {"unknown", "open", "working"}
  /\ status'[g] \in {"open", "working"}

Answered(g) ==
  /\ status[g] \in {"unknown", "open", "working"}
  /\ status'[g] = "result"

Ended(g) == status[g] \notin Final /\ status'[g] = "ended"

\* A result is published out of the ledger, never past it, and only while no
\* newer generation of its pull request is pending.
Published(g) ==
  /\ status[g] \notin Final
  /\ Publishes => status[g] = "result"
  /\ status'[g] = "published"
  /\ \A h \in Generation :
       Newer(g, h)' => ~(status[h] \in Pending /\ status'[h] \in Pending)

Kept(g) == status'[g] = status[g]

OneWorking ==
  \A g, h \in Generation :
    g # h /\ PrOf[g] = PrOf[h] => ~(status[g] = "working" /\ status[h] = "working")

Write ==
  /\ \A g \in Generation :
       /\ Kept(g) \/ Attempted(g) \/ Answered(g) \/ Ended(g) \/ Published(g)
       /\ status[g] # "unknown" => since'[g] = since[g]
  /\ OneWorking'

Spec == Init /\ [][Write]_ledger
=============================================================================
