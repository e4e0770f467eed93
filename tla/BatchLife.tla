----------------------------- MODULE BatchLife ------------------------------
(***************************************************************************)
(* What the development pipeline promises for a batch of issues: it is      *)
(* pushed and its issues closed at most once, and only between the merge's  *)
(* approval and the end of the batch; no batch starts before the one before *)
(* it is over.  DevPipeline implements it.                                  *)
(***************************************************************************)
EXTENDS Integers, Sequences

VARIABLES
  stage,     \* "none", "open", "agreed", "halted", or "lost"
  number,    \* of the batch in progress
  delivered  \* batches that were pushed and closed, in this order

Init == stage \in {"none", "lost"} /\ number = 0 /\ delivered = <<>>

Begin ==
  /\ stage = "none"
  /\ stage' = "open"
  /\ number' = number + 1
  /\ UNCHANGED delivered

Agree ==
  /\ stage = "open"
  /\ stage' = "agreed"
  /\ UNCHANGED <<number, delivered>>

(* A batch whose tree is left dirty is delivered and then halted. *)
Deliver ==
  /\ stage = "agreed"
  /\ \A i \in DOMAIN delivered : delivered[i] # number
  /\ stage' \in {"agreed", "halted"}
  /\ delivered' = Append(delivered, number)
  /\ UNCHANGED number

Halt ==
  /\ stage \in {"open", "agreed"}
  /\ stage' = "halted"
  /\ UNCHANGED <<number, delivered>>

Resume ==
  /\ stage = "halted"
  /\ stage' = "open"
  /\ UNCHANGED <<number, delivered>>

(* Delivered, or dropped: by the risk filter, by the owner. *)
End ==
  /\ stage \in {"open", "agreed", "halted"}
  /\ stage' = "none"
  /\ UNCHANGED <<number, delivered>>

(* The owner's command and a tick have overtaken each other: the pipeline   *)
(* promises nothing any more.                                               *)
Lose == stage' = "lost"

Next == Begin \/ Agree \/ Deliver \/ Halt \/ Resume \/ End \/ Lose

Spec == Init /\ [][Next]_<<stage, number, delivered>>
=============================================================================
