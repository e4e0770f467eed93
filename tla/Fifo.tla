-------------------------------- MODULE Fifo --------------------------------
(***************************************************************************)
(* What the task queue promises: an entry is served at most once, and not   *)
(* before the entries of the same lane that were queued ahead of it and are *)
(* still wanted.  An entry whose issues are all closed is passed over.      *)
(***************************************************************************)
EXTENDS Naturals, Sequences, SequencesExt

CONSTANTS Entries, Lane(_)

VARIABLES
  pending,  \* entries not yet served, in the order of the file
  served    \* entries served, in the order of service

vars == <<pending, served>>

Init == pending \in Seq(Entries) /\ served = <<>>

Add(e) ==
  /\ pending' = Append(pending, e)
  /\ UNCHANGED served

(* The owner deletes or replaces an entry, or its issues are closed. *)
Drop(i) ==
  /\ \/ pending' = RemoveAt(pending, i)
     \/ \E e \in Entries : pending' = ReplaceAt(pending, i, e)
  /\ UNCHANGED served

Serve(i) ==
  /\ \A j \in 1 .. i - 1 : Lane(pending[j]) # Lane(pending[i])
  /\ pending' = RemoveAt(pending, i)
  /\ served' = Append(served, pending[i])

Next ==
  \/ \E e \in Entries : Add(e)
  \/ \E i \in DOMAIN pending : Drop(i) \/ Serve(i)

Spec == Init /\ [][Next]_vars
=============================================================================
