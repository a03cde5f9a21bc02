-------------------------- MODULE MCWorktreeWatch --------------------------
(***************************************************************************)
(* WorktreeWatch on small instances: one worktree, the slots of a dying    *)
(* watcher and of its successor.                                           *)
(***************************************************************************)
EXTENDS WorktreeWatch

=============================================================================
