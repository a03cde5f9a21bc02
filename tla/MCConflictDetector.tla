------------------------- MODULE MCConflictDetector -------------------------
(* Two agents and one file, claimed whole or by one of two functions, the     *)
(* first of which is spelled in two ways.                                     *)
EXTENDS ConflictDetector

CONSTANTS f, g

(* A name is a symbol and how it is spelled.                                  *)
SymbolOf(name) == name.symbol
Fn(s, spelling) == [kind |-> "function", name |-> [symbol |-> s, spelling |-> spelling]]
Block(s) == [Fn(s, 1) EXCEPT !.kind = "block"]
Lines(i, j) == [kind |-> "range", first |-> i, last |-> j]

SomeClaims == {WholeFile, <<Fn(f, 1)>>, <<Fn(f, 2)>>, <<Fn(g, 1)>>}

(* Ranges that share a line, ranges that share none, several regions, names   *)
(* of two kinds, names spelled in two ways.                                   *)
ASSUME RegionsIntersect(<<Lines(1, 5)>>, <<Lines(5, 9)>>) = {Lines(5, 5)}
ASSUME RegionsIntersect(<<Lines(1, 4)>>, <<Lines(5, 9)>>) = {}
ASSUME RegionsIntersect(<<Lines(1, 5), Fn(f, 1)>>, <<Lines(5, 9)>>)
         = {Lines(5, 5), Lines(5, 9), Fn(f, 1)}
ASSUME RegionsIntersect(<<Fn(f, 1)>>, <<Block(g), Block(f)>>) = {Fn(f, 1), Block(f)}
ASSUME RegionsIntersect(<<Fn(f, 1)>>, <<Fn(f, 2)>>) = {Fn(f, 1)}
=============================================================================
