---------------------------- MODULE LosslessLog ----------------------------
(***************************************************************************)
(* What the documentation promises of cursor reads of the broker's log     *)
(* (docs/src/user-guide/coordination.md, "lossless -- no messages are      *)
(* missed between polls, regardless of timing").  A read hands its reader  *)
(* everything published so far; nothing is ever withdrawn while the broker *)
(* lives.  BrokerLog implements this only when publishes do not overlap.   *)
(***************************************************************************)
CONSTANTS Ids,       \* the identities a broker can give its messages
          Readers    \* the cursor readers of the log

VARIABLES published, \* identities in the log of the running broker
          received   \* received[r]: identities r has been handed

lvars == <<published, received>>

Init == /\ published = {}
        /\ received = [r \in Readers |-> {}]

\* A message reaches the log.
Publish(s) == /\ s \notin published
              /\ published' = published \union {s}
              /\ UNCHANGED received

\* A read leaves its reader holding exactly what is published.
Fetch(r) == /\ received' = [received EXCEPT ![r] = published]
            /\ UNCHANGED published

\* A new broker starts with an empty log.
Restart == /\ published' = {}
           /\ received' = [r \in Readers |-> {}]

Next == \/ \E s \in Ids : Publish(s)
        \/ \E r \in Readers : Fetch(r)
        \/ Restart

Spec == Init /\ [][Next]_lvars
=============================================================================
