------------------------- MODULE DeferredDurability -------------------------
(***************************************************************************)
(* What deferred persistence promises, without threads, permits or queues. *)
(* Revisions are committed in memory one after the other; a checkpoint     *)
(* makes a committed revision, and with it everything before it, durable;  *)
(* commits run at most Gap revisions ahead of the checkpoint; the storage  *)
(* of nodes a revision superseded is reclaimed only once that revision is  *)
(* covered by the checkpoint, since until then a restart needs them.  When *)
(* persistence fails there are no more checkpoints, and at most Gap        *)
(* further commits get through before the failure is noticed.              *)
(***************************************************************************)
EXTENDS Integers

CONSTANT Gap

VARIABLES committed,  \* newest committed revision
          durable,    \* revision a restart would find
          reclaimed,  \* revisions whose superseded nodes were reclaimed
          failed      \* persistence has failed

dvars == <<committed, durable, reclaimed, failed>>

DInit == committed = 0 /\ durable = 0 /\ reclaimed = {} /\ failed = FALSE

DCommit ==
  /\ committed - durable < (IF failed THEN 2 * Gap ELSE Gap)
  /\ committed' = committed + 1
  /\ UNCHANGED <<durable, reclaimed, failed>>

DCheckpoint ==
  /\ ~failed
  /\ durable' \in (durable + 1)..committed
  /\ UNCHANGED <<committed, reclaimed, failed>>

DReclaim ==
  /\ ~failed
  /\ \E k \in 0..durable : reclaimed' = reclaimed \cup {k}
  /\ UNCHANGED <<committed, durable, failed>>

\* The failing operation may be a reclamation that got half way.
DFail ==
  /\ ~failed /\ failed' = TRUE
  /\ \/ UNCHANGED reclaimed
     \/ \E k \in 0..durable : reclaimed' = reclaimed \cup {k}
  /\ UNCHANGED <<committed, durable>>

DNext == DCommit \/ DCheckpoint \/ DReclaim \/ DFail

DSpec == DInit /\ [][DNext]_dvars
=============================================================================
