--------------------------- MODULE CommandService ---------------------------
(***************************************************************************)
(* What the command engine promises its clients: commands are numbered as  *)
(* they arrive, wait in line, and are served one at a time from the front; *)
(* a command that is gone never comes back.  Commands leave the line only  *)
(* from the front or because they are withdrawn, and only an urgent        *)
(* command, which ends the one being served, goes to the front.            *)
(***************************************************************************)
EXTENDS Naturals, Sequences

VARIABLES
  issued,   \* how many commands have arrived
  line,     \* the commands that wait, front first
  serving,  \* the command being served: at most one
  gone      \* the commands that were answered, given up or withdrawn

service == <<issued, line, serving, gone>>

Fresh(a, b) == [i \in 1..(b - a) |-> a + i]

Init ==
  /\ issued \in Nat
  /\ line = Fresh(0, issued)
  /\ serving = <<>> /\ gone = {}

Arrive ==
  /\ issued' > issued
  /\ line' = line \o Fresh(issued, issued')
  /\ UNCHANGED <<serving, gone>>

Serve ==
  /\ serving = <<>> /\ line # <<>>
  /\ serving' = <<Head(line)>>
  /\ line' = Tail(line)
  /\ UNCHANGED <<issued, gone>>

Leave == serving # <<>> /\ serving' = <<>> /\ gone' = gone \cup {Head(serving)}

\* The end of a command may bring new ones.
Finish ==
  /\ Leave
  /\ issued' >= issued
  /\ line' = line \o Fresh(issued, issued')

\* An urgent command ends the one being served and goes to the front.
Preempt ==
  /\ Leave
  /\ issued' > issued
  /\ line' = <<issued + 1>> \o line \o Fresh(issued + 1, issued')

\* Commands leave the line wherever they stand; the k at the places at stay, in
\* order.
Withdraw ==
  \E k \in 0..Len(line) : \E at \in [1..k -> DOMAIN line] :
    /\ \A i, j \in 1..k : i < j => at[i] < at[j]
    /\ line' = [i \in 1..k |-> line[at[i]]]
    /\ gone' = gone \cup {line[i] : i \in DOMAIN line \ {at[j] : j \in 1..k}}
    /\ UNCHANGED <<issued, serving>>

Next == Arrive \/ Serve \/ Finish \/ Preempt \/ Withdraw

Spec == Init /\ [][Next]_service

=============================================================================
