---------------------------- MODULE MCDriveLoop -----------------------------
(* DriveLoop on small waves.                                                 *)
EXTENDS DriveLoop, TLC

(* The prompts ask about edits of files: none has a command header.          *)
Header == [x \in Prompts |-> ""]

Interchangeable == Permutations(Agents)
=============================================================================
