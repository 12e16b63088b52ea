-------------------------------- MODULE Gsmd --------------------------------
(***************************************************************************)
(* The AT command engine of gsmd, the GSM daemon of the phone: the two     *)
(* command queues (atcmd.c), the commands the daemon issues itself         *)
(* (gsmd.c, machine_gta01.c), the client connections (usock.c, sms_cb.c)   *)
(* and the modem at the other end of the serial line.                      *)
(*                                                                         *)
(* The daemon is one select() loop; a step of the model is one call of a   *)
(* handler: a line or a prompt read from the modem, one visit of the       *)
(* writable UART, one client request, one expired timer.                   *)
(***************************************************************************)
EXTENDS Naturals, Sequences, FiniteSets

CONSTANTS
  Users,        \* the clients that may connect to the daemon's socket
  Kinds,        \* the kinds of command this instance issues
  Urc,          \* the lines the modem may send without being asked
  InitKinds,    \* what gsmd_initsettings2 submits (representatives)
  NetKinds,     \* what sms_cb_network_init submits (representatives)
  ExSubmit,     \* does the machine plugin have an ex_submit hook (GTA01)
  ReadyAtStart, \* does the plugin set interpreter_ready in its init
  MaxCmd,       \* bound: no command from outside once this many were allocated
  MaxLines,     \* bound: lines collected in mlbuf
  MaxOut        \* bound: messages waiting for a client when a line arrives

Daemon == "gsmd"        \* the ctx of a command that belongs to no client

(***************************************************************************)
(* Kinds of command, by what atcmd.c can tell apart.  A kind ending in 0   *)
(* is filled with message id 0 instead of the id of the client's request.  *)
(***************************************************************************)
TwoLine  == {"sms"}                       \* "AT+CMGS=..\n<pdu>^Z"
Blank    == {"blank"}                     \* an empty passthrough text
RegKinds == {"reg0", "regset"}            \* AT+CREG?, AT+CREG=2
Informs  == RegKinds \cup {"ext", "ext0", "info", "book", "list", "list0", "read", "read0",
                           "info0", "mute", "sms", "store", "set", "cbsub"}

\* The kinds ml_parse takes for extended, by the third character of the text: the
\* vendor's ext_chars have the @ of AT@POFF (vendor_ti), and strchr finds the end
\* of "AT" in any of them.  A wake-up text ends before its third character.
Extended  == Informs \cup {"alive", "power"}
Undefined == {"wake"}
Silent   == {"store", "cbsub", "power"}   \* filled with cb = NULL
KeepsId  == {"basic", "ext", "info", "book", "list", "read", "sms", "blank", "hangup"}

\* Which texts the client callback of a kind turns into a reply: an information
\* text (info) or a bare result, with the result code known by then.  The texts
\* are well formed; null_cmd_cb never replies, the other callbacks always do.
NetworkReplies(k, info, code) ==
  /\ k \in {"reg0", "info0", "read0", "list0"} => info
  /\ k = "read0" => code = "ok"
  /\ k = "list0" => code \in {"ok", "none"}

PhonebookReplies(k, info, code) ==
  /\ k = "info" => info
  /\ k = "book" /\ ~info => code \in {"ok", "cme"}

SmsReplies(k, info, code) ==
  /\ k \in {"list", "read", "info0"} => info
  /\ k = "list" => code \in {"ok", "none"}
  /\ k = "read" => code = "ok"

Replies(k, info, code) ==
  /\ k # "mute"
  /\ NetworkReplies(k, info, code)
  /\ PhonebookReplies(k, info, code)
  /\ SmsReplies(k, info, code)

\* What each handler of a client message submits, one sequence per request.
usock_rcv_passthrough == {<<"basic">>, <<"ext">>, <<"blank">>}
usock_rcv_voicecall   == {<<"basic">>, <<"ext">>, <<"book">>, <<"info">>}
usock_rcv_pin         == {<<"ext0">>}
usock_rcv_phone       == {<<"ext0">>}
usock_rcv_network     == {<<"mute">>, <<"reg0">>, <<"info0">>, <<"ext0">>, <<"read0">>,
                          <<"list0">>, <<"mute", "ext0">>, <<"mute", "list0">>}
usock_rcv_phonebook   == {<<"ext">>, <<"book">>, <<"info">>}
usock_rcv_sms         == {<<"list">>, <<"read">>, <<"sms">>, <<"ext">>, <<"info0">>,
                          <<"store">>}
usock_rcv_cb          == {<<"cbsub">>}

pcmd_type_handlers ==
  UNION { usock_rcv_passthrough, usock_rcv_voicecall, usock_rcv_pin,
          usock_rcv_phone, usock_rcv_network, usock_rcv_phonebook,
          usock_rcv_sms, usock_rcv_cb }

UserKinds   == {"basic", "ext", "ext0", "info", "book", "list", "list0", "read", "read0",
                "info0", "mute", "reg0", "sms", "store", "blank", "hangup"}
Settings    == {"simple", "set", "regset", "cbsub"}  \* "cbsub": also a setting without cb
DaemonKinds == Settings \cup {"first", "power", "alive", "wake"}
AllKinds    == UserKinds \cup DaemonKinds

ASSUME ConstantsOK ==
  /\ Daemon \notin Users
  /\ IsFiniteSet(Users)
  /\ Kinds \subseteq AllKinds
  /\ Urc \subseteq {"ready", "nocarrier", "reg", "mt", "other", "text"}
  /\ InitKinds \in Seq(Settings)
  /\ NetKinds \in Seq(Settings)
  /\ ExSubmit \in BOOLEAN /\ ReadyAtStart \in BOOLEAN
  /\ MaxCmd \in Nat /\ MaxLines \in Nat /\ MaxOut \in Nat

VARIABLES
  up,          \* "up", or how the process ended: "exit", "crash"
  ready,       \* g->interpreter_ready
  want,        \* GSMD_FD_WRITE in g->gfd_uart.when
  pending,     \* g->pending_atcmds
  busy,        \* g->busy_atcmds: completely sent, not yet answered
  mlbuf,       \* the lines in g->mlbuf
  mlunsol,     \* g->mlunsolicited
  responded,   \* g->alive_responded
  registered,  \* g->dev_state.registered
  conn,        \* g->users
  out,         \* finished_ucmds of each client
  uwant,       \* GSMD_FD_WRITE in the client's gfd.when
  owed,        \* external: what the modem has read and not yet answered
  n,           \* history: commands allocated so far
  ended,       \* history: commands whose callback was told the end
  held,        \* history: the last UART visit stopped at a waiting command
  early,       \* history: a command ended before it was answered in full
  orphan,      \* history: a command without callback left its lines in mlbuf
  stray        \* history: a prompt came that no half-sent command waited for

engine  == <<ready, want, pending, busy, mlbuf, mlunsol, responded, registered>>
clients == <<conn, out, uwant>>
history == <<n, ended, held, early, orphan, stray>>
vars    == <<up, engine, clients, owed, history>>

Ids     == Nat \ {0}
Command == [id: Ids, kind: AllKinds, ctx: Users \cup {Daemon}, cb: BOOLEAN,
            left: 0..2, tmr: {"none", "armed", "dead", "freed"}]
Line    == [of: Nat, pfx: {"reg", "mt", "other", "text"}]
Message == [id: Nat, req: Nat, own: BOOLEAN]
Owed    == [id: Ids, last: BOOLEAN, pfx: {"reg", "other", "none"}]

Event == [id |-> 0, req |-> 0, own |-> TRUE]  \* a GSMD_MSG_EVENT

-----------------------------------------------------------------------------
(* Filling and submitting commands. *)

\* Mutant: the terminator of a two-line command counts as a line of its own.
atcmd_fill_ExtraLine(k, u, i) ==
  [id |-> i, kind |-> k, ctx |-> IF k \in UserKinds THEN u ELSE Daemon,
   cb |-> k \notin Silent, left |-> IF k \in TwoLine THEN 3 ELSE 1, tmr |-> "none"]

\* struct gsmd_atcmd as atcmd_fill leaves it; left counts the lines to send.
atcmd_fill(k, u, i) ==
  [id |-> i, kind |-> k, ctx |-> IF k \in UserKinds THEN u ELSE Daemon,
   cb |-> k \notin Silent, left |-> IF k \in TwoLine THEN 2 ELSE 1, tmr |-> "none"]

\* The commands numbered from base + 1 that atcmd_submit appends for ks: with
\* an ex_submit hook every command follows a wake-up command of its own.
Submitted(base, ks, u) ==
  LET w == IF ExSubmit THEN 2 ELSE 1
  IN  [i \in 1..(w * Len(ks)) |->
         IF i % w = 0 THEN atcmd_fill(ks[i \div w], u, base + i)
                      ELSE atcmd_fill("wake", u, base + i)]

\* Mutants: wake the UART while a command executes; add at the wrong end.
AddTail_AlwaysWake(cmds) ==
  /\ n + Len(cmds) <= MaxCmd
  /\ n' = n + Len(cmds)
  /\ pending' = pending \o cmds
  /\ want' = TRUE
AddTail_AtHead(cmds) ==
  /\ n + Len(cmds) <= MaxCmd
  /\ n' = n + Len(cmds)
  /\ pending' = cmds \o pending
  /\ want' = (want \/ (busy = <<>> /\ pending' # <<>>))

\* Append commands outside any callback: an idle daemon asks for the UART.
AddTail(cmds) ==
  /\ n + Len(cmds) <= MaxCmd
  /\ n' = n + Len(cmds)
  /\ pending' = pending \o cmds
  /\ want' = (want \/ (busy = <<>> /\ pending' # <<>>))

atcmd_submit(ks, u) == AddTail(Submitted(n, ks, u))

-----------------------------------------------------------------------------
(* Messages to the clients. *)

\* Mutant: the message is queued, but the socket is not marked.
usock_cmd_enqueue_NoFlag(msgs) ==
  /\ out' = [u \in Users |-> out[u] \o msgs[u]]
  /\ UNCHANGED uwant

usock_cmd_enqueue(msgs) ==
  /\ out' = [u \in Users |-> out[u] \o msgs[u]]
  /\ uwant' = [u \in Users |-> uwant[u] \/ msgs[u] # <<>>]

NoMessage == [u \in Users |-> <<>>]
usock_evt_send == [u \in Users |-> IF u \in conn THEN <<Event>> ELSE <<>>]

\* The reply that the callback of c queues when it is called with a text of
\* the given lines (none: a result code), and whether all of it answers c.
Reply(c, lines, code, own) ==
  LET r == [id |-> IF c.kind \in KeepsId THEN c.id ELSE 0, req |-> c.id, own |-> own]
  IN  [u \in Users |->
         IF c.cb /\ c.ctx = u /\ Replies(c.kind, lines # <<>>, code)
         THEN <<r>> ELSE <<>>]

Both(m1, m2) == [u \in Users |-> m1[u] \o m2[u]]

Own(c, lines) == \A i \in DOMAIN lines : lines[i].of = c.id

-----------------------------------------------------------------------------
(* The end of the command at the head of busy. *)

OwedIds(ow) == {ow[i].id : i \in DOMAIN ow}

\* Call the callback, unlink and free the command; ask for the UART when
\* nothing is executing any more.  q is pending, base the commands allocated
\* before the callback runs; the callback of the first command submits the
\* initial settings, whatever the text.
EndCommand(base, q, lines, code, own, events) ==
  LET c   == Head(busy)
      new == IF c.cb /\ c.kind = "first"
             THEN Submitted(base, InitKinds, Daemon) ELSE <<>>
  IN  /\ n' = base + Len(new)
      /\ pending' = q \o new
      /\ busy' = Tail(busy)
      /\ want' = (want \/ (busy' = <<>> /\ pending' # <<>>))
      /\ usock_cmd_enqueue(Both(events, Reply(c, lines, code, own)))
      /\ responded' = (responded \/ ( /\ c.cb /\ c.kind = "alive"
                                      /\ lines = <<>> /\ code \in {"ok", "error", "cancel"}))
      /\ ended' = ended \cup {c.id}
      /\ early' = \/ early \/ c.id \in OwedIds(owed')
                  \/ code \in {"timeout", "cancel", "none"} /\ mlbuf # <<>>
      /\ orphan' = (orphan \/ (~c.cb /\ lines # <<>>))
      /\ UNCHANGED <<ready, mlunsol, registered, conn, held, stray>>

Crash == up' = "crash" /\ UNCHANGED <<engine, clients, history>>

\* Mutants: keep mlbuf after the final callback; forget to wake the queue.
atcmd_done_KeepBuf(base, q, buf, code, own, events) ==
  LET c == Head(busy)
  IN  \/ c.tmr \in {"dead", "freed"} /\ Crash
      \/ /\ c.tmr # "dead"
         /\ EndCommand(base, q, buf, code, IF buf = <<>> THEN own ELSE Own(c, buf), events)
         /\ mlbuf' = buf
         /\ UNCHANGED up
atcmd_done_NoWake(base, q, buf, code, own, events) ==
  /\ busy' = Tail(busy) /\ pending' = q /\ n' = base
  /\ ended' = ended \cup {Head(busy).id}
  /\ mlbuf' = <<>>
  /\ UNCHANGED <<up, ready, want, mlunsol, responded, registered, clients,
                 held, early, orphan, stray>>

\* remove_timer unlinks and frees the command's timer.  A timer that already
\* fired is off the list, and unlinking it again follows poisoned pointers;
\* one that was freed as well may have been reused, so the call may survive.
atcmd_done(base, q, buf, code, own, events) ==
  LET c == Head(busy)
  IN  \/ c.tmr \in {"dead", "freed"} /\ Crash
      \/ /\ c.tmr # "dead"
         /\ EndCommand(base, q, buf, code, IF buf = <<>> THEN own ELSE Own(c, buf), events)
         /\ mlbuf' = IF c.cb THEN <<>> ELSE buf
         /\ UNCHANGED up

-----------------------------------------------------------------------------
(* The client socket. *)

\* gsmd_usock_cb: a client connects.
Connect(u) ==
  /\ up = "up" /\ u \notin conn
  /\ conn' = conn \cup {u}
  /\ out' = [out EXCEPT ![u] = <<>>]
  /\ uwant' = [uwant EXCEPT ![u] = FALSE]
  /\ UNCHANGED <<up, engine, owed, history>>

\* usock_rcv_pcmd: a request that submits the commands ks.
Request(u, ks) ==
  /\ up = "up" /\ u \in conn
  /\ \A i \in DOMAIN ks : ks[i] \in Kinds
  /\ atcmd_submit(ks, u)
  /\ UNCHANGED <<up, ready, busy, mlbuf, mlunsol, responded, registered,
                 clients, owed, ended, held, early, orphan, stray>>

\* GSMD_VOICECALL_HANGUP: cancel_atcmd ends the executing command with
\* "ERROR" and puts ATH first; without one it submits ATH like any command.
Hangup(u) ==
  /\ up = "up" /\ u \in conn /\ "hangup" \in Kinds
  /\ UNCHANGED owed
  /\ \/ /\ busy = <<>>
        /\ atcmd_submit(<<"hangup">>, u)
        /\ UNCHANGED <<up, ready, busy, mlbuf, mlunsol, responded, registered,
                       clients, ended, held, early, orphan, stray>>
     \/ /\ busy # <<>> /\ n < MaxCmd
        /\ atcmd_done(n + 1, <<atcmd_fill("hangup", u, n + 1)>> \o pending,
                      <<>>, "cancel", TRUE, NoMessage)

\* usock_rcv_modem: gta01_power queues AT@POFF without waking the modem first.
PowerOff(u) ==
  /\ up = "up" /\ u \in conn /\ "power" \in Kinds
  /\ AddTail(<<atcmd_fill("power", u, n + 1)>>)
  /\ UNCHANGED <<up, ready, busy, mlbuf, mlunsol, responded, registered,
                 clients, owed, ended, held, early, orphan, stray>>

\* The client's socket is writable: send k whole messages, then stop at a
\* write that fails or is short.
UserWrite(u) ==
  /\ up = "up" /\ u \in conn /\ uwant[u]
  /\ \E k \in 0..Len(out[u]) :
       /\ out' = [out EXCEPT ![u] = SubSeq(out[u], k + 1, Len(out[u]))]
       /\ uwant' = [uwant EXCEPT ![u] = (k < Len(out[u]))]
  /\ UNCHANGED <<up, engine, conn, owed, history>>

\* pending loses the commands of u and keeps the order of the others: off[i]
\* of the removed ones stood before the i-th that stays.
DropPending(u) ==
  \E r \in 0..Len(pending) :
    /\ r = Cardinality({i \in DOMAIN pending : pending[i].ctx = u})
    /\ \E off \in [1..(Len(pending) - r) -> 0..r] :
         /\ \A i \in DOMAIN off : pending[i + off[i]].ctx # u
         /\ \A i, j \in DOMAIN off : i < j => off[i] <= off[j]
         /\ pending' = [i \in 1..(Len(pending) - r) |-> pending[i + off[i]]]

Mine(q, u) == {q[i] : i \in {j \in DOMAIN q : q[j].ctx = u}}

\* Mutants: forget the executing commands; leave them their callback.
atcmd_terminate_matching_PendingOnly(u) ==
  /\ \A c \in Mine(pending, u) : c.cb
  /\ ended' = ended \cup {c.id : c \in Mine(pending, u)}
  /\ DropPending(u)
  /\ conn' = conn \ {u}
  /\ out' = [out EXCEPT ![u] = <<>>]
  /\ uwant' = [uwant EXCEPT ![u] = FALSE]
  /\ UNCHANGED <<up, ready, want, busy, mlbuf, mlunsol, responded, registered,
                 n, held, early, orphan, stray>>
atcmd_terminate_matching_KeepCb(u) ==
  /\ \A c \in Mine(busy, u) \cup Mine(pending, u) : c.cb
  /\ busy' = [i \in DOMAIN busy |->
                IF busy[i].ctx = u THEN [busy[i] EXCEPT !.ctx = Daemon] ELSE busy[i]]
  /\ ended' = ended \cup {c.id : c \in Mine(busy, u) \cup Mine(pending, u)}
  /\ DropPending(u)
  /\ conn' = conn \ {u}
  /\ out' = [out EXCEPT ![u] = <<>>]
  /\ uwant' = [uwant EXCEPT ![u] = FALSE]
  /\ UNCHANGED <<up, ready, want, mlbuf, mlunsol, responded, registered,
                 n, held, early, orphan, stray>>

\* atcmd_terminate_matching calls the callback of every command of u.  An
\* executing one stays, without callback and owner; a waiting one is freed.
atcmd_terminate_matching(u) ==
  \/ /\ \E c \in Mine(busy, u) \cup Mine(pending, u) : ~c.cb
     /\ Crash
  \/ /\ \A c \in Mine(busy, u) \cup Mine(pending, u) : c.cb
     /\ busy' = [i \in DOMAIN busy |->
                   IF busy[i].ctx = u THEN [busy[i] EXCEPT !.cb = FALSE, !.ctx = Daemon]
                                      ELSE busy[i]]
     /\ ended' = ended \cup {c.id : c \in Mine(busy, u) \cup Mine(pending, u)}
     /\ DropPending(u)
     /\ conn' = conn \ {u}
     /\ out' = [out EXCEPT ![u] = <<>>]
     /\ uwant' = [uwant EXCEPT ![u] = FALSE]
     /\ early' = (early \/ \E c \in Mine(pending, u) : c.id \in OwedIds(owed'))
     /\ UNCHANGED <<up, ready, want, mlbuf, mlunsol, responded, registered,
                    n, held, orphan, stray>>

\* gsmd_usock_user_cb reads end of file.
Disconnect(u) ==
  /\ up = "up" /\ u \in conn
  /\ UNCHANGED owed
  /\ atcmd_terminate_matching(u)

-----------------------------------------------------------------------------
(* The UART: commands to the modem. *)

\* A line that goes out is one the modem owes an answer: a prompt for the
\* first of two lines, otherwise information lines and a result code.
Answer(c) ==
  [id |-> c.id, last |-> c.left = 1,
   pfx |-> IF c.kind \in RegKinds THEN "reg"
           ELSE IF c.kind \in Informs THEN "other" ELSE "none"]

\* atcmd_select_cb with GSMD_FD_WRITE: one line of the first pending command.
UartWrite ==
  /\ up = "up" /\ want /\ ready
  /\ want' = FALSE
  /\ \/ /\ pending = <<>>
        /\ held' = FALSE
        /\ UNCHANGED <<pending, busy, owed>>
     \/ /\ pending # <<>> /\ Head(pending).kind \in Blank  \* write returns 0
        /\ held' = TRUE
        /\ UNCHANGED <<pending, busy, owed>>
     \/ /\ pending # <<>> /\ Head(pending).kind \notin Blank
        /\ Head(pending).left > 1
        /\ pending' = <<[Head(pending) EXCEPT !.left = @ - 1]>> \o Tail(pending)
        /\ owed' = Append(owed, Answer(Head(pending)))
        /\ held' = TRUE
        /\ UNCHANGED busy
     \/ /\ pending # <<>> /\ Head(pending).kind \notin Blank
        /\ Head(pending).left = 1
        /\ pending' = Tail(pending)
        /\ busy' = Append(busy, [Head(pending) EXCEPT !.left = 0, !.tmr = "armed"])
        /\ owed' = Append(owed, Answer(Head(pending)))
        /\ held' = FALSE
  /\ UNCHANGED <<up, ready, mlbuf, mlunsol, responded, registered, clients,
                 n, ended, early, orphan, stray>>

-----------------------------------------------------------------------------
(* The UART: lines from the modem, ml_parse. *)

\* "AT-Command Interpreter ready" or an empty line: initialise (again).
ReadyLine ==
  /\ up = "up" /\ "ready" \in Urc
  /\ ready' = TRUE
  /\ atcmd_submit(<<"first">>, Daemon)
  /\ UNCHANGED <<up, busy, mlbuf, mlunsol, responded, registered, clients,
                 owed, ended, held, early, orphan, stray>>

\* generate_event_from_cme makes an event of most errors, but not of all.
ErrorEvents(code) == IF code = "cme" THEN {usock_evt_send, NoMessage} ELSE {NoMessage}

\* A result code completes the command at the head of busy, if there is one.
FinalResult(code, of) ==
  \/ busy = <<>> /\ UNCHANGED <<up, engine, clients, history>>
  \/ /\ busy # <<>>
     /\ \E ev \in ErrorEvents(code) :
          atcmd_done(n, pending, mlbuf, code, of = Head(busy).id, ev)

\* OK, ERROR or +CME ERROR for the oldest unanswered line; the first line of
\* a two-line command is only ever refused.
FinalLine ==
  /\ up = "up" /\ owed # <<>>
  /\ owed' = Tail(owed)
  /\ \E code \in (IF Head(owed).last THEN {"ok", "error", "cme"} ELSE {"error", "cme"}) :
       FinalResult(code, Head(owed).id)

\* NO CARRIER or BUSY when the other end of a call hangs up.
CarrierLine ==
  /\ up = "up" /\ "nocarrier" \in Urc
  /\ UNCHANGED owed
  /\ FinalResult("none", 0)

\* The unsolicited parsers: +CREG updates the registration and configures
\* the message service on the way in; it is an event, and so is a complete
\* +CMT, unless malformed; a text nobody knows is refused with -ENOENT.
unsolicited_parse(pfx, msgs) ==
  \/ /\ pfx = "reg"
     /\ registered' \in BOOLEAN
     /\ IF registered' /\ ~registered
        THEN atcmd_submit(NetKinds, Daemon)
        ELSE UNCHANGED <<n, pending, want>>
     /\ \E ev \in {usock_evt_send, NoMessage} : usock_cmd_enqueue(Both(msgs, ev))
  \/ /\ pfx = "mt"
     /\ \E ev \in {usock_evt_send, NoMessage} : usock_cmd_enqueue(Both(msgs, ev))
     /\ UNCHANGED <<registered, n, pending, want>>
  \/ /\ pfx \in {"other", "text"}
     /\ usock_cmd_enqueue(msgs)
     /\ UNCHANGED <<registered, n, pending, want>>

\* Append a line to what is left of mlbuf.  After the first half of a two-line
\* unsolicited message the whole buffer goes to its parser.
AppendLine(rest, line, msgs) ==
  \/ /\ ~mlunsol
     /\ mlbuf' = Append(rest, line)
     /\ usock_cmd_enqueue(msgs)
     /\ UNCHANGED <<mlunsol, registered, n, pending, want>>
  \/ /\ mlunsol
     /\ mlbuf' = <<>> /\ mlunsol' = FALSE
     /\ unsolicited_parse(Append(rest, line)[1].pfx, msgs)

\* Does the extended line look like a reply to the executing command, so that
\* the unsolicited parsers are not asked?
Solicited(pfx) ==
  pfx = "reg" /\ busy # <<>> /\ Head(busy).kind \in RegKinds

ml_parse(line) ==
  \/ /\ line.pfx = "reg" /\ ~Solicited("reg")
     /\ unsolicited_parse("reg", NoMessage)
     /\ UNCHANGED <<mlbuf, mlunsol>>
  \/ /\ line.pfx = "mt"                        \* -EAGAIN: one more line
     /\ mlbuf' = <<line>> /\ mlunsol' = TRUE
     /\ UNCHANGED <<pending, want, registered, out, uwant, n>>
  \/ /\ line.pfx = "other" \/ (line.pfx = "reg" /\ Solicited("reg"))
     /\ \/ /\ busy = <<>>
           /\ AppendLine(mlbuf, line, NoMessage)
        \/ /\ busy # <<>> /\ Head(busy).kind \notin Extended     \* -EINVAL
           /\ UNCHANGED <<mlbuf, mlunsol, pending, want, registered, out, uwant, n>>
        \/ /\ busy # <<>> /\ Head(busy).kind \in Extended \cup Undefined
           /\ AppendLine(<<>>, line,
                IF mlbuf = <<>> THEN NoMessage
                ELSE Reply(Head(busy), mlbuf, "none", Own(Head(busy), mlbuf)))
  \/ /\ line.pfx = "text"
     /\ AppendLine(mlbuf, line, NoMessage)

Room == Len(mlbuf) < MaxLines /\ \A u \in Users : Len(out[u]) < MaxOut

\* An information line of the oldest unanswered command.
InfoLine ==
  /\ up = "up" /\ owed # <<>> /\ Head(owed).last /\ Room
  /\ \E p \in {Head(owed).pfx, "text"} \ {"none"} :
       ml_parse([of |-> Head(owed).id, pfx |-> p])
  /\ UNCHANGED <<up, ready, busy, responded, conn, owed, ended, held, early, orphan, stray>>

\* A line the modem sends on its own.
UrcLine ==
  /\ up = "up" /\ Room
  /\ \E p \in Urc \cap {"reg", "mt", "other", "text"} : ml_parse([of |-> 0, pfx |-> p])
  /\ UNCHANGED <<up, ready, busy, responded, conn, owed, ended, held, early, orphan, stray>>

\* atcmd_prompt: "> " asks for the second line and wakes the queue.
Prompt ==
  /\ up = "up" /\ owed # <<>> /\ ~Head(owed).last
  /\ owed' = Tail(owed)
  /\ want' = TRUE
  /\ stray' = (stray \/ ~(/\ busy = <<>> /\ pending # <<>>
                          /\ Head(pending).id = Head(owed).id))
  /\ UNCHANGED <<up, ready, pending, busy, mlbuf, mlunsol, responded, registered,
                 clients, n, ended, held, early, orphan>>

\* The modem loses or ignores a line.
ModemDrop ==
  /\ up = "up" /\ owed # <<>>
  /\ owed' = Tail(owed)
  /\ UNCHANGED <<up, engine, clients, history>>

-----------------------------------------------------------------------------
(* Timers.  The command at busy[i] has the timer that expires. *)

OwnTimer == {"wake", "alive", "power"}  \* kinds with a create_timer_func

Expires(i) == up = "up" /\ i \in DOMAIN busy /\ busy[i].tmr = "armed"

\* The callbacks that act on the head of busy leave any other command with a
\* pointer to a timer that is no longer on the list.
NotHead(i) ==
  /\ i # 1
  /\ busy' = [busy EXCEPT ![i].tmr = "dead"]
  /\ UNCHANGED <<ready, want, pending, mlbuf, mlunsol, responded, registered,
                 clients, history>>

\* Mutant: the timer is unlinked, but the command stays queued with it.
discard_timeout_KeepCommand(i) ==
  /\ Expires(i) /\ busy[i].kind \notin OwnTimer
  /\ busy' = [busy EXCEPT ![i].tmr = "dead"]
  /\ UNCHANGED <<up, owed, ready, want, pending, mlbuf, mlunsol, responded, registered,
                 clients, history>>

discard_timeout(i) ==
  /\ Expires(i) /\ busy[i].kind \notin OwnTimer
  /\ UNCHANGED <<up, owed>>
  /\ \/ NotHead(i)
     \/ /\ i = 1
        /\ EndCommand(n, pending, <<>>, "timeout", TRUE, NoMessage)
        /\ UNCHANGED mlbuf

wakeup_timeout(i) ==
  /\ Expires(i) /\ busy[i].kind = "wake"
  /\ UNCHANGED <<up, owed>>
  /\ \/ NotHead(i)
     \/ /\ i = 1
        /\ EndCommand(n, pending, <<>>, "timeout", TRUE, NoMessage)
        /\ UNCHANGED mlbuf

\* The modem is declared dead, or the timer is freed under the command.
alive_tmr_cb(i) ==
  /\ Expires(i) /\ busy[i].kind = "alive"
  /\ \/ /\ ~responded
        /\ up' = "exit"
        /\ UNCHANGED engine
     \/ /\ responded
        /\ busy' = [busy EXCEPT ![i].tmr = "freed"]
        /\ UNCHANGED <<up, ready, want, pending, mlbuf, mlunsol, responded, registered>>
  /\ UNCHANGED <<clients, owed, history>>

poweroff_timeout(i) ==
  /\ Expires(i) /\ busy[i].kind = "power"
  /\ up' = "exit"
  /\ UNCHANGED <<engine, clients, owed, history>>

\* alive_interval_tmr_cb: gsmd_alive_start made the timer when the modem was
\* declared ready, and it re-arms itself.
AliveInterval ==
  /\ up = "up" /\ ready /\ "alive" \in Kinds
  /\ responded' = FALSE
  /\ atcmd_submit(<<"alive">>, Daemon)
  /\ UNCHANGED <<up, ready, busy, mlbuf, mlunsol, registered, clients, owed,
                 ended, held, early, orphan, stray>>

-----------------------------------------------------------------------------

\* main: the machine plugin may let the daemon start talking at once.
Init ==
  /\ up = "up" /\ ready = ReadyAtStart /\ want = ReadyAtStart
  /\ pending = IF ReadyAtStart THEN Submitted(0, <<"first">>, Daemon) ELSE <<>>
  /\ n = Len(pending)
  /\ busy = <<>> /\ mlbuf = <<>> /\ mlunsol = FALSE
  /\ responded = FALSE /\ registered = FALSE
  /\ conn = {} /\ out = NoMessage /\ uwant = [u \in Users |-> FALSE]
  /\ owed = <<>> /\ ended = {} /\ held = FALSE /\ early = FALSE
  /\ orphan = FALSE /\ stray = FALSE

ClientStep ==
  \E u \in Users :
    \/ Connect(u) \/ Hangup(u) \/ PowerOff(u) \/ UserWrite(u) \/ Disconnect(u)
    \/ \E ks \in pcmd_type_handlers : Request(u, ks)

ModemStep ==
  ReadyLine \/ FinalLine \/ CarrierLine \/ InfoLine \/ UrcLine \/ Prompt \/ ModemDrop

TimerStep ==
  \/ AliveInterval
  \/ \E i \in DOMAIN busy :
       discard_timeout(i) \/ wakeup_timeout(i) \/ alive_tmr_cb(i) \/ poweroff_timeout(i)

Next == UartWrite \/ ClientStep \/ ModemStep \/ TimerStep

Spec == Init /\ [][Next]_vars

\* select() reports a writable UART again and again.  Nothing is assumed of the
\* clients, the modem or the timers.
Fairness == WF_vars(UartWrite)

FairSpec == Spec /\ Fairness

-----------------------------------------------------------------------------
(* Safety. *)

\* Every variable holds a value of the program's state space.
TypeOK ==
  /\ up \in {"up", "exit", "crash"}
  /\ ready \in BOOLEAN /\ want \in BOOLEAN /\ mlunsol \in BOOLEAN
  /\ responded \in BOOLEAN /\ registered \in BOOLEAN
  /\ pending \in Seq(Command) /\ busy \in Seq(Command)
  /\ mlbuf \in Seq(Line) /\ owed \in Seq(Owed)
  /\ conn \subseteq Users
  /\ out \in [Users -> Seq(Message)] /\ uwant \in [Users -> BOOLEAN]
  /\ n \in Nat /\ ended \subseteq Ids
  /\ held \in BOOLEAN /\ early \in BOOLEAN /\ orphan \in BOOLEAN /\ stray \in BOOLEAN

\* No lost wake-up (atcmd_wake_pending_queue / atcmd_wait_pending_queue): when
\* commands wait and none executes, the daemon has asked for the writable UART,
\* unless its last visit stopped at a half-sent or empty command; that happens
\* only to daemons whose clients send messages or empty passthrough texts.
QueueAwake ==
  /\ (pending # <<>> /\ busy = <<>>) => (want \/ held)
  /\ held => Kinds \cap (TwoLine \cup Blank) # {}

\* A queued command never refers to a client structure that was freed when the
\* client disconnected (gsmd_usock_user_cb, atcmd_terminate_matching).
NoStaleUser ==
  \A c \in {busy[i] : i \in DOMAIN busy} \cup {pending[i] : i \in DOMAIN pending} :
    c.ctx \in Users => c.ctx \in conn

\* A command whose callback was told the end - by a result, a time-out, a cancel
\* or the departure of its client - can never call back again.
ToldOnce ==
  LET q == busy \o pending
  IN  /\ \A i \in DOMAIN q : q[i].cb => q[i].id \notin ended
      /\ \A i, j \in DOMAIN q : i # j => q[i].id # q[j].id

\* One command executes at a time, under a timer that can still discard it,
\* unless a prompt arrived for which no half-sent command was waiting; only the
\* liveness check outlives its timer (alive_tmr_cb).
OneInFlight ==
  ~stray => /\ Len(busy) <= 1
            /\ \A i \in DOMAIN busy : busy[i].tmr = "armed" \/ busy[i].kind = "alive"

\* Commands are sent in the order they were submitted; only a hang-up, which
\* cancel_atcmd puts first, overtakes.
Fifo ==
  LET q == busy \o pending
  IN  \A i, j \in DOMAIN q : i < j => q[i].id < q[j].id \/ q[i].kind = "hangup"

\* The handlers, each run to its end, crash the daemon only in three ways: a client
\* with a callback-less command disconnects (atcmd_terminate_matching calls NULL), a
\* liveness check is answered after its timer was freed, or two commands were in
\* flight after a stray prompt.  A handler cut into by SIGALRM is left to Timer.
CrashFree ==
  up = "crash" => Kinds \cap {"store", "alive"} # {} \/ stray

\* A message queued for a client is never forgotten: the client is connected and
\* its socket is watched for writing.
MessagesFlow ==
  \A u \in Users : out[u] # <<>> => u \in conn /\ uwant[u]

\* The modem's lines reach the callback of the command they answer.  When the
\* modem sends nothing that looks like information on its own, a reply made of
\* another command's lines needs one of three causes: a command was given up with
\* its answer outstanding, one without callback left its lines behind, or a stray
\* prompt let two commands go out at once.
QuietModem ==
  /\ Urc \subseteq {"ready", "reg"}
  /\ RegKinds \cap UNION {Kinds, {InitKinds[i] : i \in DOMAIN InitKinds},
                           {NetKinds[i] : i \in DOMAIN NetKinds}} = {}
Foreign == \E u \in Users : \E i \in DOMAIN out[u] : ~out[u][i].own
NoCrossTalk == (QuietModem /\ Foreign) => (early \/ orphan \/ stray)

\* A response belongs to the command at the head of busy, to which ml_parse gives
\* it, as long as no command ended with an answer outstanding (by its timer, by a
\* hang-up, or a message whose first line was refused after the second went out)
\* and no prompt came that nobody waited for: whatever was queued, cut short, lost
\* by the modem or left by its client meanwhile.
AnswersInOrder ==
  (~early /\ ~stray /\ owed # <<>> /\ busy # <<>>) => Head(owed).id = Head(busy).id

(* What the comments and documents of the daemon say. *)

\* atcmd_select_cb: "the atcmd has more lines to send after a "> "": the second
\* line of a command does not go out while the prompt is outstanding.
BodyAfterPrompt ==
  \A i, j \in DOMAIN owed : owed[i].id = owed[j].id => i = j

\* gsmd_usock_user_cb: "finish pending atcmd's from this client thus destroying
\* references to the user structure": a client may leave at any time.
SafeDisconnect == up # "crash"

(* Liveness, under FairSpec. *)

Queued(c) == \E q \in {busy, pending} : \E i \in DOMAIN q : q[i].id = c

\* A timer that is on the list of an executing command expires at last.  timer.c
\* does not see to it: Timer!Armed says when a registered timer may be forgotten.
TimersRun ==
  WF_vars(\E i \in DOMAIN busy :
            discard_timeout(i) \/ wakeup_timeout(i) \/ alive_tmr_cb(i) \/ poweroff_timeout(i))

\* A client asks to hang up after the command m was submitted.
HangupAfter(m) ==
  \E q \in {busy, pending} : \E i \in DOMAIN q : q[i].kind = "hangup" /\ q[i].id > m

\* As long as timers run, every submitted command leaves the queues, whatever the
\* modem does: it is answered, cancelled, withdrawn or discarded by its timer, or the
\* daemon stops.  From every state it takes a further hang-up to hold it back:
\* cancel_atcmd ends the executing command and goes first, so that clients who hang
\* up for ever keep the others waiting for ever.  MaxId is the last command of an
\* instance whose callbacks submit nothing but the initial settings, once.
MaxId == MaxCmd + Len(InitKinds)
Served ==
  TimersRun => \A m \in 1..MaxId : \A c \in 1..m :
    (Queued(c) /\ n = m) ~> (~Queued(c) \/ up # "up" \/ HangupAfter(m))

=============================================================================
