------------------------------- MODULE Stream -------------------------------
(***************************************************************************)
(* The socket between libgsmd and gsmd.  It is a byte stream, but both     *)
(* ends treat what one read() returns as whole messages.  The model has    *)
(* one client process and the daemon, run concurrently, and a stream of    *)
(* units in each direction: a message is a header of two units, the second *)
(* of which has its id and length, and n units of payload.  Nothing tells  *)
(* the client a header from other bytes, or from what an earlier read left *)
(* in its buffer: what it makes of them is any of the things it may be.    *)
(* The client makes blocking calls (lgsm_passthrough), sends without       *)
(* waiting (lgsm_passthrough_send) and has an event loop that passes what  *)
(* it reads to lgsm_handle_packet.                                         *)
(***************************************************************************)
EXTENDS Integers, Sequences, SequencesExt

CONSTANTS Sizes,      \* payload sizes of the requests, in units
          DaemonBuf,  \* buf of gsmd_usock_user_cb, in units
          WaitBuf,    \* passthrough_rbuf, in units
          AppBuf,     \* the event loop's buffer, in units
          Ids,        \* values of the field id; requests are numbered 0, 1, ...
          MaxReq,     \* bound: requests
          MaxEvt,     \* bound: events
          MaxShort    \* bound: short writes

ASSUME StreamAssumption ==
  /\ Sizes \subseteq Nat \ {0} /\ 0..(MaxReq - 1) \subseteq Ids /\ Ids \subseteq Nat
  /\ {DaemonBuf, WaitBuf, AppBuf} \subseteq Nat \ {0}
  /\ {MaxReq, MaxEvt, MaxShort} \subseteq Nat

VARIABLES c2d, d2c,    \* the two directions of the socket
          next_msg_id, \* libgsmd's counter
          inbuf,       \* what is left of the read that lgsm_handle_packet works on
          waiting,     \* id of the blocking call under way, or NoCall
          atcmds,      \* the daemon's commands that have no final response yet
          finished,    \* gu->finished_ucmds
          wantWrite,   \* gu->gfd.when & GSMD_FD_WRITE
          sent,        \* history: requests sent
          handled,     \* history: requests the daemon took from the socket
          queued,      \* history: messages put into finished_ucmds
          got,         \* history: messages the client's code was given
          returned,    \* history: results of blocking calls
          events, shorts, \* history: number of events and of short writes
          hist         \* history: what happened on the socket (see Mishaps)

client == <<next_msg_id, inbuf, waiting, got, returned, sent>>
daemon == <<atcmds, finished, wantWrite, handled, queued>>
counts == <<events, shorts>>
vars == <<c2d, d2c, next_msg_id, inbuf, waiting, atcmds, finished, wantWrite, sent, handled,
          queued, got, returned, events, shorts, hist>>

NoCall == -1
Msg(kind, id, n) == [kind |-> kind, id |-> id, n |-> n]
Units(m) == [k \in 1..(m.n + 2) |-> [msg |-> m, k |-> k]]
Garbage == Msg("garbage", 0, 0)  \* bytes that are no message of the daemon, or -EINVAL

(* "merged": a read of the daemon held more than one request.  "split": one    *)
(* began or ended inside a request.  "blank": the daemon took an empty text.   *)
(* "cut": a read of the client ended inside a message, or held one that had    *)
(* been cut off by a short write.  "behind": a read of a blocking call had its *)
(* answer, or a part of it, and did not return it.  "ahead": a message came in *)
(* the same read as, and after, that answer.  "chance": the id of an event was *)
(* that of the blocking call.                                                  *)
Mishaps == {"merged", "split", "blank", "cut", "behind", "ahead", "chance"}

Chunk(stream, size) == SubSeq(stream, 1, IF Len(stream) < size THEN Len(stream) ELSE size)
Rest(stream, size) == SubSeq(stream, Len(Chunk(stream, size)) + 1, Len(stream))
Inside(stream) == stream # <<>> /\ stream[1].k # 1
HasHeader(units) ==
  Len(units) >= 2 /\ units[1].k = 1 /\ units[2] = [msg |-> units[1].msg, k |-> 2]
Complete(units, m) ==
  Len(units) >= m.n + 2 /\ \A k \in 1..(m.n + 2) : units[k] = [msg |-> m, k |-> k]
Given(units, m) == IF Complete(units, m) THEN m ELSE Garbage
Note(what, cond) == IF cond THEN {what} ELSE {}

-----------------------------------------------------------------------------
Init ==
  /\ c2d = <<>> /\ d2c = <<>> /\ inbuf = <<>> /\ next_msg_id = 0 /\ waiting = NoCall
  /\ atcmds = <<>> /\ finished = <<>> /\ wantWrite = FALSE
  /\ sent = <<>> /\ handled = <<>> /\ queued = <<>> /\ got = <<>> /\ returned = <<>>
  /\ events = 0 /\ shorts = 0 /\ hist = {}

(* lgsm_passthrough_send, on its own or as the first half of lgsm_passthrough, *)
(* of a text or (kind "blank") of an empty one.                                *)
lgsm_passthrough_send(kind, n, blocking) ==
  /\ waiting = NoCall /\ inbuf = <<>>
  /\ next_msg_id < MaxReq
  /\ LET m == Msg(kind, next_msg_id, n)
     IN  c2d' = c2d \o Units(m) /\ sent' = Append(sent, m)
  /\ next_msg_id' = next_msg_id + 1
  /\ waiting' = IF blocking THEN next_msg_id ELSE NoCall
  /\ UNCHANGED <<d2c, inbuf, got, returned, daemon, counts, hist>>

(* One read of the application's event loop. *)
EventLoop ==
  /\ waiting = NoCall /\ inbuf = <<>> /\ d2c # <<>>
  /\ inbuf' = Chunk(d2c, AppBuf)
  /\ d2c' = Rest(d2c, AppBuf)
  /\ hist' = hist \cup Note("cut", Inside(d2c'))
  /\ UNCHANGED <<c2d, next_msg_id, waiting, got, returned, sent, daemon, counts>>

(* One turn of lgsm_blocking_wait_packet's loop.  The id field of what the     *)
(* read begins with is compared: that of its first message, or, when it begins *)
(* inside one or ends inside its header, some bytes of it or of an earlier     *)
(* read.  What is not the answer goes, with everything behind it, to           *)
(* lgsm_handle_packet; what is taken for it lgsm_passthrough returns, or       *)
(* refuses as too short.                                                       *)
WaitRead(matches) ==
  LET chunk == Chunk(d2c, WaitBuf)
      given == Given(chunk, Head(d2c).msg)
  IN  /\ waiting # NoCall /\ inbuf = <<>>
      /\ d2c' = Rest(d2c, WaitBuf)
      /\ IF matches
         THEN /\ waiting' = NoCall /\ inbuf' = <<>>
              /\ got' = Append(got, given)
              /\ returned' = Append(returned, [call |-> waiting, msg |-> given])
              /\ hist' = hist \cup Note("ahead", Len(chunk) > given.n + 2)
                              \cup Note("cut", Inside(d2c') \/ (~Inside(chunk) /\ given = Garbage))
                              \cup Note("chance", given.kind = "event")
         ELSE /\ inbuf' = chunk
              /\ hist' = hist \cup Note("behind", \E i \in 1..Len(chunk) :
                                   chunk[i].msg.kind = "reply" /\ chunk[i].msg.id = waiting)
                              \cup Note("cut", Inside(d2c'))
              /\ UNCHANGED <<waiting, got, returned>>
      /\ UNCHANGED <<c2d, next_msg_id, sent, daemon, counts>>

lgsm_blocking_wait_packet_any ==
  /\ d2c # <<>>
  /\ WaitRead(TRUE)

lgsm_blocking_wait_packet ==
  /\ d2c # <<>>
  /\ LET chunk == Chunk(d2c, WaitBuf)
     IN  \/ HasHeader(chunk) /\ WaitRead(chunk[1].msg.id = waiting)
         \/ ~HasHeader(chunk) /\ \E matches \in BOOLEAN : WaitRead(matches)

(* One turn of lgsm_handle_packet's loop.  The payload is counted, not looked  *)
(* at.  A message that is not complete ends the loop, and the rest of the read *)
(* is dropped.  Bytes that are no header have some length and type: they end   *)
(* the loop, or some of them go to a handler.                                  *)
lgsm_handle_packet_first ==
  /\ inbuf # <<>>
  /\ got' = Append(got, Head(inbuf).msg)
  /\ inbuf' = <<>>
  /\ UNCHANGED <<c2d, d2c, next_msg_id, waiting, returned, sent, daemon, counts, hist>>

lgsm_handle_packet ==
  /\ inbuf # <<>>
  /\ LET first == Head(inbuf).msg
         whole == HasHeader(inbuf) /\ Len(inbuf) >= first.n + 2
         Dispatch(m, n) == got' = Append(got, m) /\ inbuf' = Rest(inbuf, n)
     IN  /\ \/ whole /\ Dispatch(Given(inbuf, first), first.n + 2)
            \/ ~HasHeader(inbuf) /\ \E n \in 2..Len(inbuf) : Dispatch(Garbage, n)
            \/ ~whole /\ inbuf' = <<>> /\ UNCHANGED got
         /\ hist' = hist \cup Note("cut", ~Complete(inbuf, first))
  /\ UNCHANGED <<c2d, d2c, next_msg_id, waiting, returned, sent, daemon, counts>>

-----------------------------------------------------------------------------
(* gsmd_usock_user_cb, reading: usock_rcv_pcmd looks at one message, and       *)
(* usock_rcv_passthrough does not look at the number of bytes that were read.  *)
(* Bytes that are no header are refused, for their version or type, or taken   *)
(* for a request with some id.                                                 *)
usock_rcv_passthrough_busy(m) ==
  IF atcmds = <<>> THEN handled' = Append(handled, m) /\ atcmds' = <<m>>
                   ELSE UNCHANGED <<handled, atcmds>>

usock_rcv_passthrough(m) ==
  /\ handled' = Append(handled, m)
  /\ atcmds' = Append(atcmds, m)

ReadRequest ==
  /\ c2d # <<>>
  /\ LET chunk == Chunk(c2d, DaemonBuf)
         first == Head(c2d).msg
     IN  /\ \/ HasHeader(chunk) /\ usock_rcv_passthrough(first)
            \/ ~HasHeader(chunk) /\ UNCHANGED <<handled, atcmds>>
            \/ ~HasHeader(chunk) /\ \E id \in Ids : usock_rcv_passthrough(Msg("stray", id, 1))
         /\ hist' = hist \cup Note("merged", HasHeader(chunk) /\ Len(chunk) > first.n + 2)
                         \cup Note("split", ~HasHeader(chunk) \/ Len(chunk) < first.n + 2)
                         \cup Note("blank", HasHeader(chunk) /\ first.kind = "blank")
  /\ c2d' = Rest(c2d, DaemonBuf)
  /\ UNCHANGED <<d2c, finished, wantWrite, queued, client, counts>>

usock_cmd_enqueue_asleep(m) ==
  /\ finished' = Append(finished, m)
  /\ queued' = Append(queued, m)
  /\ UNCHANGED wantWrite

usock_cmd_enqueue(m) ==
  /\ finished' = Append(finished, m)
  /\ queued' = Append(queued, m)
  /\ wantWrite' = TRUE

(* usock_cmd_cb: the AT engine has the final response of its first command, or *)
(* its timer has.  atcmd_select_cb stops for good at an empty text, of which   *)
(* write() returns 0.                                                          *)
usock_cmd_cb ==
  /\ atcmds # <<>> /\ Head(atcmds).kind # "blank"
  /\ usock_cmd_enqueue(Msg(IF Head(atcmds).kind = "stray" THEN "stray" ELSE "reply",
                           Head(atcmds).id, 1))
  /\ atcmds' = Tail(atcmds)
  /\ UNCHANGED <<c2d, d2c, handled, client, counts, hist>>

(* usock_build_event does not set the id, and talloc does not clear memory. *)
usock_evt_send(id) ==
  /\ events < MaxEvt
  /\ events' = events + 1
  /\ usock_cmd_enqueue(Msg("event", id, 1))
  /\ UNCHANGED <<c2d, d2c, atcmds, handled, client, shorts, hist>>

(* gsmd_usock_user_cb, writing the first finished message, in full ... *)
WriteMessage ==
  /\ wantWrite /\ finished # <<>>
  /\ d2c' = d2c \o Units(Head(finished))
  /\ finished' = Tail(finished)
  /\ wantWrite' = (Len(finished) > 1)
  /\ UNCHANGED <<c2d, atcmds, handled, queued, client, counts, hist>>

(* ... or in part, of the header even: the socket is full, or a signal came.   *)
(* The message stays where it is and will be written from its beginning.       *)
WriteShort(n) ==
  /\ wantWrite /\ finished # <<>> /\ shorts < MaxShort
  /\ d2c' = d2c \o SubSeq(Units(Head(finished)), 1, n)
  /\ shorts' = shorts + 1
  /\ UNCHANGED <<c2d, daemon, client, events, hist>>

Next ==
  \/ \E n \in Sizes, blocking \in BOOLEAN : lgsm_passthrough_send("request", n, blocking)
  \/ \E blocking \in BOOLEAN : lgsm_passthrough_send("blank", 1, blocking)
  \/ EventLoop
  \/ lgsm_blocking_wait_packet
  \/ lgsm_handle_packet
  \/ ReadRequest
  \/ usock_cmd_cb
  \/ \E id \in Ids : usock_evt_send(id)
  \/ WriteMessage
  \/ finished # <<>> /\ \E n \in 1..(Head(finished).n + 1) : WriteShort(n)

(* Both processes keep running and reading, and the socket takes a message in  *)
(* the end.  Nothing is assumed of the AT engine.                              *)
Fairness ==
  /\ WF_vars(EventLoop) /\ WF_vars(lgsm_blocking_wait_packet)
  /\ WF_vars(lgsm_handle_packet)
  /\ WF_vars(ReadRequest) /\ WF_vars(WriteMessage)

Spec == Init /\ [][Next]_vars
FairSpec == Spec /\ Fairness

-----------------------------------------------------------------------------
(* The variables have their types; the daemon wants to write exactly when it   *)
(* has something to write.                                                     *)
TypeOK ==
  /\ waiting \in {NoCall} \cup Ids /\ next_msg_id \in Nat
  /\ wantWrite = (finished # <<>>)
  /\ hist \subseteq Mishaps

(* The daemon takes the requests of a client from the socket one by one, in    *)
(* the order they were sent, and loses none, unless two of them were there at  *)
(* once or one did not fit gsmd_usock_user_cb's buffer.                        *)
RequestsInOrder ==
  hist \cap {"merged", "split"} = {} =>
     /\ IsPrefix(handled, sent)
     /\ c2d = <<>> => handled = sent

(* Every reply and event reaches the client's code once and in order, unless a *)
(* read of the client ended inside a message or held one that was cut off (it  *)
(* does after a short write of the daemon), or messages came behind the answer *)
(* of a blocking call.                                                         *)
RepliesInOrder ==
  hist \cap {"cut", "ahead"} = {} =>
     /\ IsPrefix(got, queued)
     /\ (finished = <<>> /\ d2c = <<>> /\ inbuf = <<>>) => got = queued

(* A blocking call returns the whole answer to its own request, whatever else  *)
(* was under way and however many messages a read held, as long as no read of  *)
(* the client ended inside a message or held one that was cut off.             *)
(* Two things can still deceive it: the id of an event, which                  *)
(* usock_build_event never sets, and the answer to bytes that the daemon took  *)
(* for a request.                                                              *)
OwnAnswer ==
  hist \cap {"cut", "chance", "split"} = {} =>
     \A i \in 1..Len(returned) :
        returned[i].msg.kind = "reply" /\ returned[i].msg.id = returned[i].call

(* The engine ends the commands it gets, by their answer or their timer: Gsmd  *)
(* says when it does (Served).                                                 *)
EngineRuns == WF_vars(usock_cmd_cb)

(* If the engine runs, every blocking call returns, short writes or not,       *)
(* unless its request was lost on the way to the daemon or queued behind (or   *)
(* is itself) an empty text, or a read had its answer behind other bytes or in *)
(* part: lgsm_blocking_wait_packet then gives it to a handler and waits on.    *)
CallsReturn ==
  EngineRuns => ((waiting # NoCall) ~>
     (waiting = NoCall \/ hist \cap {"merged", "split", "blank", "behind"} # {}))

=============================================================================
