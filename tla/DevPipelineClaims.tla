-------------------------- MODULE DevPipelineClaims --------------------------
(* What comments of the repository say of a batch and the code does not do. *)
EXTENDS DevPipeline

(* watchdog.py, at the block over a dirty tree: a resume is unreachable from  *)
(* there.  gokrax transition --resume asks only for BLOCKED, and the code     *)
(* that comes out of the new revision is merged by the consent to the old.    *)
ConsentAfterResume ==
  [][(wd # "push" /\ wd' = "push") => opts.automerge \/ consented]_vars
=============================================================================
