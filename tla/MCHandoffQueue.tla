--------------------------- MODULE MCHandoffQueue ---------------------------
(* HandoffQueue with one worker that asks two questions and another whose     *)
(* branch is ready to be merged.                                              *)
EXTENDS HandoffQueue

CONSTANTS a, b, q, r, done

ThreeCalls == [kind : {"question"}, agent : {a}, about : {q, r}]
              \union [kind : {"merge-decision"}, agent : {b}, about : {done}]
=============================================================================
