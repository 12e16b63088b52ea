---------------------------- MODULE GsmdService ----------------------------
(***************************************************************************)
(* The command engine implements CommandService: pending is the line, busy *)
(* the command being served.                                               *)
(***************************************************************************)
EXTENDS Gsmd

QueueIds(q) == [i \in DOMAIN q |-> q[i].id]

Service == INSTANCE CommandService WITH
  issued  <- n,
  line    <- QueueIds(pending),
  serving <- QueueIds(busy),
  gone    <- {c \in 1..n : ~Queued(c)}

\* Every step of the daemon - a UART visit, a modem line, a client request or
\* departure, a timer - is a step of the service or leaves it alone.
ImplementsService == Service!Spec

=============================================================================
