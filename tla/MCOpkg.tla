------------------------------- MODULE MCOpkg -------------------------------
(* A package A whose second version keeps one file, moves one into a new       *)
(* dependency B, takes over a file of its former dependency D, and of its two  *)
(* configuration files keeps one and drops the other; and a package E, offered *)
(* with it, that has the one dropped.                                          *)
EXTENDS Opkg

MCPkgs == {"a1", "a2", "b", "d", "e"}
MCName == [a1 |-> "A", a2 |-> "A", b |-> "B", d |-> "D", e |-> "E"]
MCVersion == [a1 |-> 1, a2 |-> 2, b |-> 1, d |-> 1, e |-> 1]
MCFiles == [a1 |-> {"m", "c", "g", "k"}, a2 |-> {"c", "h", "k"}, b |-> {"g"}, d |-> {"h"}, e |-> {"m"}]
MCConf == [a1 |-> {"c", "m"}, a2 |-> {"c"}, b |-> {}, d |-> {}, e |-> {"m"}]
MCDeps == [a1 |-> {"D"}, a2 |-> {"B"}, b |-> {}, d |-> {}, e |-> {}]
MCOrder == <<"a1", "a2", "b", "d", "e">>
MCFirst == {"a1", "b", "d"}
MCNext == {"a2", "b", "d", "e"}

Symmetry == Permutations(Edits)
=============================================================================
