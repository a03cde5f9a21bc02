--------------------------- MODULE MCDriveBinding ---------------------------
(* DriveBinding with loops that poll at different intervals.                  *)
EXTENDS DriveBinding, TLC

CONSTANTS l1, l2

TwoWindows == l1 :> 1 @@ l2 :> 2
=============================================================================
