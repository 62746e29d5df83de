---------------------------- MODULE MCOutputCapture ----------------------------
(***************************************************************************)
(* Small commands for OutputCapture, with one byte on stderr: on stdout    *)
(* short streams, for commands of several processes and with a fault, and  *)
(* longer ones that end at the budget, past it, and with a character       *)
(* across the end of the head or of a read.                                *)
(***************************************************************************)
EXTENDS OutputCapture

A == <<"ascii">>
W == <<"lead", "continuation">>
C == <<"continuation">>
Longer == {A \o A \o A \o A, [i \in 1..9 |-> "ascii"], A \o A \o W \o A, W \o W \o A,
           A \o W \o A, A \o A \o A \o <<"lead">>, W \o C \o A, C \o C}

Command(stdout, processes, grace, fault) ==
  [output |-> [s \in Streams |-> IF s = "stdout" THEN stdout ELSE A],
   processes |-> processes, killGrace |-> grace, faults |-> fault]

MCInstances == {Command(o, {"leader"}, TRUE, 0) : o \in Longer}
          \cup {Command(o, p, TRUE, 1) : o \in {<<>>, A \o W, C \o C},
                                         p \in {{"leader", "group"}, {"leader", "escaped"}}}
          \cup {Command(A \o W, p, FALSE, 1) : p \in {{"leader"}, {"leader", "escaped"}}}
=============================================================================
