----------------------------- MODULE GsmdProofs -----------------------------
(***************************************************************************)
(* Theorems about the command engine for every set of clients, every mix   *)
(* of commands and unsolicited lines and every value of the bounds: its    *)
(* types, and its safety (no lost wake-up, no reference to a departed      *)
(* client, no forgotten message, one command in flight, and the only ways  *)
(* to crash), which follows from one inductive invariant.                  *)
(***************************************************************************)
EXTENDS Gsmd, TLAPS

Boxes == [Users -> Seq(Message)]

LEMMA KindsTyped == Settings \subseteq AllKinds
  BY DEF AllKinds, DaemonKinds

\* atcmd_fill makes a command.
LEMMA FillType ==
  ASSUME NEW k \in AllKinds, NEW u \in Users \cup {Daemon}, NEW i \in Ids
  PROVE  atcmd_fill(k, u, i) \in Command
  BY DEF atcmd_fill, Command, Ids

\* A submission is a finite sequence of commands.
LEMMA SubmittedType ==
  ASSUME NEW base \in Nat, NEW ks \in Seq(AllKinds), NEW u \in Users \cup {Daemon}
  PROVE  /\ Submitted(base, ks, u) \in Seq(Command)
         /\ Len(Submitted(base, ks, u)) \in Nat
<1> DEFINE w == IF ExSubmit THEN 2 ELSE 1
           e(i) == IF i % w = 0 THEN atcmd_fill(ks[i \div w], u, base + i)
                                ELSE atcmd_fill("wake", u, base + i)
<1>1. Len(ks) \in Nat /\ \A j \in 1..Len(ks) : ks[j] \in AllKinds
  OBVIOUS
<1>2. ASSUME NEW i \in 1..(w * Len(ks)) PROVE e(i) \in Command
  <2>1. base + i \in Ids
    BY <1>1 DEF Ids
  <2>2. "wake" \in AllKinds
    BY DEF AllKinds, DaemonKinds
  <2>3. CASE i % w = 0
    <3>1. i \div w \in 1..Len(ks)
      BY <1>1, <2>3
    <3>2. ks[i \div w] \in AllKinds
      BY <3>1, <1>1
    <3> QED BY <2>1, <2>3, <3>2, FillType
  <2>4. CASE i % w # 0
    BY <2>1, <2>2, <2>4, FillType
  <2> QED BY <2>3, <2>4
<1>3. Submitted(base, ks, u) = [i \in 1..(w * Len(ks)) |-> e(i)]
  BY DEF Submitted
<1>4. w * Len(ks) \in Nat
  BY <1>1
<1> HIDE DEF w, e
<1>5. [i \in 1..(w * Len(ks)) |-> e(i)] \in Seq(Command)
  BY <1>2, <1>4
<1> DEFINE s == [i \in 1..(w * Len(ks)) |-> e(i)]
<1>6. s \in Seq(Command)
  BY <1>5
<1> HIDE DEF s
<1>7. Len(s) \in Nat
  BY <1>6
<1> QED BY <1>3, <1>6, <1>7 DEF s

\* What AddTail leaves of the types.
LEMMA AddTailType ==
  ASSUME TypeOK, NEW cmds \in Seq(Command), AddTail(cmds)
  PROVE  n' \in Nat /\ pending' \in Seq(Command) /\ want' \in BOOLEAN
  BY DEF AddTail, TypeOK

LEMMA SubmitType ==
  ASSUME TypeOK, NEW ks \in Seq(AllKinds), NEW u \in Users \cup {Daemon}, atcmd_submit(ks, u)
  PROVE  n' \in Nat /\ pending' \in Seq(Command) /\ want' \in BOOLEAN
  <1>1. Submitted(n, ks, u) \in Seq(Command)
    BY SubmittedType DEF TypeOK
  <1> QED BY <1>1, AddTailType DEF atcmd_submit

LEMMA EnqueueType ==
  ASSUME TypeOK, NEW msgs \in Boxes, usock_cmd_enqueue(msgs)
  PROVE  out' \in Boxes /\ uwant' \in [Users -> BOOLEAN]
  BY DEF usock_cmd_enqueue, TypeOK, Boxes

LEMMA EventsType == usock_evt_send \in Boxes /\ NoMessage \in Boxes
<1>1. Event \in Message
  BY DEF Event, Message
<1>2. <<Event>> \in Seq(Message) /\ <<>> \in Seq(Message)
  BY <1>1
<1> QED BY <1>2, Zenon DEF usock_evt_send, NoMessage, Boxes

LEMMA BothType ==
  ASSUME NEW m1 \in Boxes, NEW m2 \in Boxes
  PROVE  Both(m1, m2) \in Boxes
  BY DEF Both, Boxes

LEMMA ReplyType ==
  ASSUME NEW c \in Command, NEW lines, NEW code, NEW own \in BOOLEAN
  PROVE  Reply(c, lines, code, own) \in Boxes
  <1> DEFINE r == [id |-> IF c.kind \in KeepsId THEN c.id ELSE 0, req |-> c.id, own |-> own]
  <1>1. r \in Message
    BY DEF Command, Ids, Message
  <1> HIDE DEF r
  <1>2. <<r>> \in Seq(Message) /\ <<>> \in Seq(Message)
    BY <1>1
  <1>3. Reply(c, lines, code, own) =
          [u \in Users |-> IF c.cb /\ c.ctx = u /\ Replies(c.kind, lines # <<>>, code)
                           THEN <<r>> ELSE <<>>]
    BY DEF Reply, r
  <1> QED BY <1>2, <1>3 DEF Boxes

\* What the end of a command leaves of the types.
LEMMA EndCommandType ==
  ASSUME TypeOK, busy # <<>>, NEW base \in Nat, NEW q \in Seq(Command),
         NEW lines, NEW code, NEW own \in BOOLEAN, NEW events \in Boxes,
         EndCommand(base, q, lines, code, own, events)
  PROVE  /\ n' \in Nat /\ pending' \in Seq(Command) /\ busy' \in Seq(Command)
         /\ want' \in BOOLEAN /\ out' \in Boxes /\ uwant' \in [Users -> BOOLEAN]
         /\ responded' \in BOOLEAN /\ ended' \subseteq Ids
         /\ early' \in BOOLEAN /\ orphan' \in BOOLEAN
         /\ UNCHANGED <<ready, mlunsol, registered, conn, held, stray>>
<1> DEFINE c == Head(busy)
           new == IF c.cb /\ c.kind = "first"
                  THEN Submitted(base, InitKinds, Daemon) ELSE <<>>
<1>1. c \in Command /\ Tail(busy) \in Seq(Command)
  BY DEF TypeOK
<1>2. InitKinds \in Seq(AllKinds)
  BY ConstantsOK, KindsTyped
<1>3. new \in Seq(Command) /\ Len(new) \in Nat
  BY <1>2, SubmittedType
<1>4. c.id \in Ids
  BY <1>1 DEF Command
<1>5. Both(events, Reply(c, lines, code, own)) \in Boxes
  BY <1>1, ReplyType, BothType
<1>6. /\ n' = base + Len(new) /\ pending' = q \o new /\ busy' = Tail(busy)
      /\ want' = (want \/ (busy' = <<>> /\ pending' # <<>>))
      /\ usock_cmd_enqueue(Both(events, Reply(c, lines, code, own)))
      /\ ended' = ended \cup {c.id}
  BY DEF EndCommand
<1>7. responded' \in BOOLEAN /\ early' \in BOOLEAN /\ orphan' \in BOOLEAN
  BY Zenon DEF EndCommand, TypeOK
<1>8. UNCHANGED <<ready, mlunsol, registered, conn, held, stray>>
  BY DEF EndCommand
<1> HIDE DEF new, c
<1>9. n' \in Nat /\ pending' \in Seq(Command) /\ busy' \in Seq(Command)
  BY <1>1, <1>3, <1>6
<1>10. want' \in BOOLEAN
  BY <1>6 DEF TypeOK
<1>11. out' \in Boxes /\ uwant' \in [Users -> BOOLEAN]
  BY <1>5, <1>6, EnqueueType
<1>12. ended' \subseteq Ids
  BY <1>4, <1>6 DEF TypeOK
<1> QED BY <1>7, <1>8, <1>9, <1>10, <1>11, <1>12

\* A crash changes the process state only.
LEMMA CrashType ==
  ASSUME TypeOK, Crash, owed' \in Seq(Owed)
  PROVE  TypeOK'
  BY DEF TypeOK, Crash, engine, clients, history

\* atcmd_done, with or without a crash in remove_timer.
LEMMA DoneType ==
  ASSUME TypeOK, busy # <<>>, NEW base \in Nat, NEW q \in Seq(Command),
         NEW buf \in Seq(Line), NEW code, NEW own \in BOOLEAN, NEW events \in Boxes,
         atcmd_done(base, q, buf, code, own, events), owed' \in Seq(Owed)
  PROVE  TypeOK'
<1> DEFINE mine == IF buf = <<>> THEN own ELSE Own(Head(busy), buf)
<1>1. mine \in BOOLEAN
  BY Zenon DEF Own
<1>2. CASE Crash
  BY <1>2, CrashType
<1>3. CASE /\ EndCommand(base, q, buf, code, mine, events)
           /\ mlbuf' = IF Head(busy).cb THEN <<>> ELSE buf
           /\ UNCHANGED up
  <2> HIDE DEF mine
  <2>1. /\ n' \in Nat /\ pending' \in Seq(Command) /\ busy' \in Seq(Command)
        /\ want' \in BOOLEAN /\ out' \in Boxes /\ uwant' \in [Users -> BOOLEAN]
        /\ responded' \in BOOLEAN /\ ended' \subseteq Ids
        /\ early' \in BOOLEAN /\ orphan' \in BOOLEAN
        /\ UNCHANGED <<ready, mlunsol, registered, conn, held, stray>>
    BY <1>1, <1>3, EndCommandType
  <2>2. mlbuf' \in Seq(Line)
    BY <1>3
  <2> QED BY <1>3, <2>1, <2>2 DEF TypeOK, Boxes
<1> QED BY <1>2, <1>3 DEF atcmd_done

\* A time-out ends the command at the head and leaves mlbuf alone.
LEMMA TimeoutType ==
  ASSUME TypeOK, busy # <<>>, EndCommand(n, pending, <<>>, "timeout", TRUE, NoMessage),
         UNCHANGED <<up, owed, mlbuf>>
  PROVE  TypeOK'
<1>1. /\ n' \in Nat /\ pending' \in Seq(Command) /\ busy' \in Seq(Command)
      /\ want' \in BOOLEAN /\ out' \in Boxes /\ uwant' \in [Users -> BOOLEAN]
      /\ responded' \in BOOLEAN /\ ended' \subseteq Ids
      /\ early' \in BOOLEAN /\ orphan' \in BOOLEAN
      /\ UNCHANGED <<ready, mlunsol, registered, conn, held, stray>>
  <2>1. n \in Nat /\ pending \in Seq(Command) /\ TRUE \in BOOLEAN
    BY DEF TypeOK
  <2> QED BY <2>1, EventsType, EndCommandType
<1> QED BY <1>1 DEF TypeOK, Boxes

LEMMA NotHeadType ==
  ASSUME TypeOK, NEW i \in DOMAIN busy, NotHead(i), UNCHANGED <<up, owed>>
  PROVE  TypeOK'
<1>1. busy[i] \in Command
  BY DEF TypeOK
<1>2. [busy[i] EXCEPT !.tmr = "dead"] \in Command
  BY <1>1 DEF Command
<1>3. busy' = [busy EXCEPT ![i] = [busy[i] EXCEPT !.tmr = "dead"]]
  BY DEF NotHead
<1>4. busy' \in Seq(Command)
  BY <1>2, <1>3 DEF TypeOK
<1> QED BY <1>4 DEF NotHead, TypeOK, clients, history

\* The variables a line from the modem may change, apart from mlbuf.
ParsedType == /\ registered' \in BOOLEAN /\ n' \in Nat /\ pending' \in Seq(Command)
              /\ want' \in BOOLEAN /\ out' \in Boxes /\ uwant' \in [Users -> BOOLEAN]

LEMMA UnsolicitedType ==
  ASSUME TypeOK, NEW pfx, NEW msgs \in Boxes, unsolicited_parse(pfx, msgs)
  PROVE  ParsedType
<1>1. CASE /\ registered' \in BOOLEAN
           /\ IF registered' /\ ~registered
              THEN atcmd_submit(NetKinds, Daemon)
              ELSE UNCHANGED <<n, pending, want>>
           /\ \E ev \in {usock_evt_send, NoMessage} : usock_cmd_enqueue(Both(msgs, ev))
  <2>0. PICK ev \in {usock_evt_send, NoMessage} : usock_cmd_enqueue(Both(msgs, ev))
    BY <1>1
  <2>1. out' \in Boxes /\ uwant' \in [Users -> BOOLEAN]
    BY <2>0, EventsType, BothType, EnqueueType
  <2>2. NetKinds \in Seq(AllKinds) /\ Daemon \in Users \cup {Daemon}
    BY ConstantsOK, KindsTyped
  <2>3. n' \in Nat /\ pending' \in Seq(Command) /\ want' \in BOOLEAN
    <3>1. CASE atcmd_submit(NetKinds, Daemon)
      BY <2>2, <3>1, SubmitType
    <3>2. CASE UNCHANGED <<n, pending, want>>
      BY <3>2 DEF TypeOK
    <3> QED BY <1>1, <3>1, <3>2
  <2> QED BY <1>1, <2>1, <2>3 DEF ParsedType
<1>2. CASE /\ \E ev \in {usock_evt_send, NoMessage} : usock_cmd_enqueue(Both(msgs, ev))
           /\ UNCHANGED <<registered, n, pending, want>>
  <2>1. PICK ev \in {usock_evt_send, NoMessage} : usock_cmd_enqueue(Both(msgs, ev))
    BY <1>2
  <2>2. out' \in Boxes /\ uwant' \in [Users -> BOOLEAN]
    BY <2>1, EventsType, BothType, EnqueueType
  <2> QED BY <1>2, <2>2 DEF ParsedType, TypeOK
<1>3. CASE usock_cmd_enqueue(msgs) /\ UNCHANGED <<registered, n, pending, want>>
  BY <1>3, EnqueueType DEF ParsedType, TypeOK
<1> QED BY <1>1, <1>2, <1>3 DEF unsolicited_parse

LEMMA AppendType ==
  ASSUME TypeOK, NEW rest \in Seq(Line), NEW line \in Line, NEW msgs \in Boxes,
         AppendLine(rest, line, msgs)
  PROVE  ParsedType /\ mlbuf' \in Seq(Line) /\ mlunsol' \in BOOLEAN
<1>1. CASE /\ mlbuf' = Append(rest, line)
           /\ usock_cmd_enqueue(msgs)
           /\ UNCHANGED <<mlunsol, registered, n, pending, want>>
  BY <1>1, EnqueueType DEF ParsedType, TypeOK
<1>2. CASE /\ mlbuf' = <<>> /\ mlunsol' = FALSE
           /\ unsolicited_parse(Append(rest, line)[1].pfx, msgs)
  <2>1. ParsedType
    BY <1>2, UnsolicitedType, Zenon
  <2>2. mlbuf' = <<>> /\ mlunsol' = FALSE
    BY <1>2, Zenon
  <2>3. <<>> \in Seq(Line)
    OBVIOUS
  <2> QED BY <2>1, <2>2, <2>3
<1> QED BY <1>1, <1>2 DEF AppendLine

LEMMA ParseType ==
  ASSUME TypeOK, NEW line \in Line, ml_parse(line)
  PROVE  ParsedType /\ mlbuf' \in Seq(Line) /\ mlunsol' \in BOOLEAN
<1>1. CASE unsolicited_parse("reg", NoMessage) /\ UNCHANGED <<mlbuf, mlunsol>>
  BY <1>1, EventsType, UnsolicitedType DEF TypeOK
<1>2. CASE /\ mlbuf' = <<line>> /\ mlunsol' = TRUE
           /\ UNCHANGED <<pending, want, registered, out, uwant, n>>
  BY <1>2 DEF ParsedType, TypeOK, Boxes
<1>3. CASE AppendLine(mlbuf, line, NoMessage)
  BY <1>3, EventsType, AppendType DEF TypeOK
<1>4. CASE UNCHANGED <<mlbuf, mlunsol, pending, want, registered, out, uwant, n>>
  BY <1>4 DEF ParsedType, TypeOK, Boxes
<1>5. CASE /\ busy # <<>>
           /\ AppendLine(<<>>, line,
                IF mlbuf = <<>> THEN NoMessage
                ELSE Reply(Head(busy), mlbuf, "none", Own(Head(busy), mlbuf)))
  <2>1. Head(busy) \in Command
    BY <1>5 DEF TypeOK
  <2>2. Own(Head(busy), mlbuf) \in BOOLEAN
    BY Zenon DEF Own
  <2>3. Reply(Head(busy), mlbuf, "none", Own(Head(busy), mlbuf)) \in Boxes
    BY <2>1, <2>2, ReplyType
  <2> DEFINE msgs == IF mlbuf = <<>> THEN NoMessage
                     ELSE Reply(Head(busy), mlbuf, "none", Own(Head(busy), mlbuf))
  <2>4. msgs \in Boxes
    BY <2>3, EventsType
  <2>5. AppendLine(<<>>, line, msgs)
    BY <1>5
  <2>6. <<>> \in Seq(Line)
    OBVIOUS
  <2> HIDE DEF msgs
  <2> QED BY <2>4, <2>5, <2>6, AppendType
<1> QED BY <1>1, <1>2, <1>3, <1>4, <1>5 DEF ml_parse

LEMMA HandlersType == \A ks \in pcmd_type_handlers : ks \in Seq(AllKinds)
<1>1. \A k \in AllKinds, l \in AllKinds :
        <<k>> \in Seq(AllKinds) /\ <<k, l>> \in Seq(AllKinds)
  OBVIOUS
<1> DEFINE K == {"basic", "ext", "ext0", "info", "book", "list", "list0", "read", "read0", "info0",
                 "mute", "reg0", "sms", "store", "blank", "cbsub"}
           H == {<<k>> : k \in K} \cup {<<"mute", k>> : k \in K}
<1>2. K \subseteq AllKinds /\ "mute" \in K
  BY DEF AllKinds, UserKinds, DaemonKinds, Settings
<1>3. ASSUME NEW ks \in pcmd_type_handlers PROVE ks \in H
  BY Zenon DEF pcmd_type_handlers, usock_rcv_passthrough, usock_rcv_voicecall,
     usock_rcv_pin, usock_rcv_phone, usock_rcv_network, usock_rcv_phonebook,
     usock_rcv_sms, usock_rcv_cb
<1> HIDE DEF K
<1> QED BY <1>1, <1>2, <1>3, Zenon

\* What is left of pending when a client departs is a sequence of its commands.
LEMMA DropType ==
  ASSUME TypeOK, NEW u, DropPending(u)
  PROVE  /\ pending' \in Seq(Command)
         /\ \A i \in DOMAIN pending' :
              /\ \E j \in DOMAIN pending : pending'[i] = pending[j]
              /\ pending'[i].ctx # u
<1>1. PICK r \in 0..Len(pending) :
        \E off \in [1..(Len(pending) - r) -> 0..r] :
          /\ \A i \in DOMAIN off : pending[i + off[i]].ctx # u
          /\ pending' = [i \in 1..(Len(pending) - r) |-> pending[i + off[i]]]
  BY Zenon DEF DropPending
<1>2. PICK off \in [1..(Len(pending) - r) -> 0..r] :
          /\ \A i \in DOMAIN off : pending[i + off[i]].ctx # u
          /\ pending' = [i \in 1..(Len(pending) - r) |-> pending[i + off[i]]]
  BY <1>1
<1>3. Len(pending) \in Nat /\ DOMAIN pending = 1..Len(pending)
  BY DEF TypeOK
<1>4. Len(pending) - r \in Nat
  BY <1>3
<1>5. ASSUME NEW i \in 1..(Len(pending) - r)
      PROVE  i + off[i] \in DOMAIN pending
  BY <1>3, <1>4
<1>6. \A j \in DOMAIN pending : pending[j] \in Command
  BY DEF TypeOK
<1>7. \A i \in 1..(Len(pending) - r) : pending[i + off[i]] \in Command
  BY <1>5, <1>6
<1>8. pending' \in Seq(Command) /\ DOMAIN pending' = 1..(Len(pending) - r)
  BY <1>2, <1>4, <1>7
<1> QED BY <1>2, <1>5, <1>8

LEMMA MineType ==
  ASSUME NEW q \in Seq(Command), NEW u
  PROVE  \A c \in Mine(q, u) : c \in Command
<1>1. \A j \in DOMAIN q : q[j] \in Command
  OBVIOUS
<1> QED BY <1>1, Zenon DEF Mine

LEMMA TypeInit == Init => TypeOK
<1> SUFFICES ASSUME Init PROVE TypeOK
  OBVIOUS
<1>1. "first" \in AllKinds
  BY DEF AllKinds, DaemonKinds
<1>2. <<"first">> \in Seq(AllKinds)
  BY <1>1
<1>3. Submitted(0, <<"first">>, Daemon) \in Seq(Command)
  BY <1>2, SubmittedType
<1>4. pending \in Seq(Command) /\ n = Len(pending)
  BY <1>3 DEF Init
<1>6. n \in Nat
  BY <1>4
<1>7. ReadyAtStart \in BOOLEAN
  BY ConstantsOK
<1>5. out \in [Users -> Seq(Message)]
  BY EventsType DEF Init, Boxes
<1>8. ready \in BOOLEAN /\ want \in BOOLEAN
  BY <1>7, Zenon DEF Init
<1>9. mlunsol \in BOOLEAN /\ responded \in BOOLEAN /\ registered \in BOOLEAN
  BY DEF Init
<1>10. held \in BOOLEAN /\ early \in BOOLEAN /\ orphan \in BOOLEAN /\ stray \in BOOLEAN
  BY DEF Init
<1>11. uwant \in [Users -> BOOLEAN]
  BY DEF Init
<1>12. /\ busy \in Seq(Command) /\ mlbuf \in Seq(Line) /\ owed \in Seq(Owed)
       /\ up = "up" /\ conn \subseteq Users /\ ended \subseteq Ids
  BY DEF Init
<1> QED BY <1>4, <1>5, <1>6, <1>8, <1>9, <1>10, <1>11, <1>12 DEF TypeOK

\* A step of a client.
LEMMA TypeClient ==
  ASSUME TypeOK, ClientStep
  PROVE  TypeOK'
<1>1. PICK u \in Users :
        \/ Connect(u) \/ Hangup(u) \/ PowerOff(u) \/ UserWrite(u) \/ Disconnect(u)
        \/ \E ks \in pcmd_type_handlers : Request(u, ks)
  BY DEF ClientStep
<1>2. CASE Connect(u)
  BY <1>2 DEF Connect, TypeOK, engine, history
<1>3. CASE Hangup(u)
  <2>0. n + 1 \in Ids /\ "hangup" \in AllKinds
    BY DEF TypeOK, Ids, AllKinds, UserKinds
  <2>1. CASE /\ atcmd_submit(<<"hangup">>, u)
             /\ UNCHANGED <<up, ready, busy, mlbuf, mlunsol, responded, registered,
                            clients, ended, held, early, orphan, stray>>
    <3>1. <<"hangup">> \in Seq(AllKinds)
      BY <2>0
    <3>2. n' \in Nat /\ pending' \in Seq(Command) /\ want' \in BOOLEAN
      BY <2>1, <3>1, SubmitType
    <3> QED BY <1>3, <2>1, <3>2 DEF Hangup, TypeOK, clients
  <2>2. CASE /\ busy # <<>>
             /\ atcmd_done(n + 1, <<atcmd_fill("hangup", u, n + 1)>> \o pending,
                           <<>>, "cancel", TRUE, NoMessage)
    <3>1. atcmd_fill("hangup", u, n + 1) \in Command
      BY <2>0, FillType
    <3>2. <<atcmd_fill("hangup", u, n + 1)>> \o pending \in Seq(Command)
      BY <3>1 DEF TypeOK
    <3>3. n + 1 \in Nat /\ <<>> \in Seq(Line) /\ TRUE \in BOOLEAN /\ owed' \in Seq(Owed)
      BY <1>3 DEF Hangup, TypeOK
    <3> QED BY <2>2, <3>2, <3>3, EventsType, DoneType
  <2> QED BY <1>3, <2>1, <2>2 DEF Hangup
<1>4. CASE PowerOff(u)
  <2>1. n + 1 \in Ids /\ "power" \in AllKinds
    BY DEF TypeOK, Ids, AllKinds, DaemonKinds
  <2>2. atcmd_fill("power", u, n + 1) \in Command
    BY <2>1, FillType
  <2>3. <<atcmd_fill("power", u, n + 1)>> \in Seq(Command)
    BY <2>2
  <2>4. n' \in Nat /\ pending' \in Seq(Command) /\ want' \in BOOLEAN
    BY <1>4, <2>3, AddTailType DEF PowerOff
  <2> QED BY <1>4, <2>4 DEF PowerOff, TypeOK, clients
<1>5. CASE UserWrite(u)
  <2>1. PICK k \in 0..Len(out[u]) :
          /\ out' = [out EXCEPT ![u] = SubSeq(out[u], k + 1, Len(out[u]))]
          /\ uwant' = [uwant EXCEPT ![u] = (k < Len(out[u]))]
    BY <1>5 DEF UserWrite
  <2>2. out[u] \in Seq(Message)
    BY DEF TypeOK
  <2>3. SubSeq(out[u], k + 1, Len(out[u])) \in Seq(Message)
    BY <2>2
  <2>4. out' \in [Users -> Seq(Message)] /\ uwant' \in [Users -> BOOLEAN]
    BY <2>1, <2>3 DEF TypeOK
  <2> QED BY <1>5, <2>4 DEF UserWrite, TypeOK, engine, history
<1>6. CASE Disconnect(u)
  <2>0. owed' \in Seq(Owed)
    BY <1>6 DEF Disconnect, TypeOK
  <2>1. CASE Crash
    BY <2>0, <2>1, CrashType
  <2>2. CASE ~Crash
    <3>1. /\ busy' = [i \in DOMAIN busy |->
                        IF busy[i].ctx = u THEN [busy[i] EXCEPT !.cb = FALSE, !.ctx = Daemon]
                                           ELSE busy[i]]
          /\ ended' = ended \cup {c.id : c \in Mine(busy, u) \cup Mine(pending, u)}
          /\ DropPending(u)
          /\ conn' = conn \ {u}
          /\ out' = [out EXCEPT ![u] = <<>>]
          /\ uwant' = [uwant EXCEPT ![u] = FALSE]
          /\ UNCHANGED <<up, ready, want, mlbuf, mlunsol, responded, registered,
                         n, held, orphan, stray>>
      BY <1>6, <2>2 DEF Disconnect, atcmd_terminate_matching
    <3>2. early' \in BOOLEAN
      BY <1>6, <2>2, Zenon DEF Disconnect, atcmd_terminate_matching
    <3>3. \A i \in DOMAIN busy : busy[i] \in Command
      BY DEF TypeOK
    <3> DEFINE b(i) == IF busy[i].ctx = u THEN [busy[i] EXCEPT !.cb = FALSE, !.ctx = Daemon]
                                          ELSE busy[i]
    <3>4. \A i \in DOMAIN busy : b(i) \in Command
      BY <3>3 DEF Command
    <3>5. DOMAIN busy = 1..Len(busy) /\ Len(busy) \in Nat
      BY DEF TypeOK
    <3>6. busy' \in Seq(Command)
      <4>1. busy' = [i \in 1..Len(busy) |-> b(i)]
        BY <3>1, <3>5
      <4> HIDE DEF b
      <4> QED BY <3>4, <3>5, <4>1
    <3>7. \A c \in Mine(busy, u) \cup Mine(pending, u) : c.id \in Ids
      <4>1. \A c \in Mine(busy, u) \cup Mine(pending, u) : c \in Command
        BY MineType, Zenon DEF TypeOK
      <4> QED BY <4>1 DEF Command
    <3>8. ended' \subseteq Ids
      BY <3>1, <3>7 DEF TypeOK
    <3>9. pending' \in Seq(Command)
      BY <3>1, DropType
    <3>10. out' \in [Users -> Seq(Message)] /\ uwant' \in [Users -> BOOLEAN]
      <4>1. out' = [out EXCEPT ![u] = <<>>] /\ uwant' = [uwant EXCEPT ![u] = FALSE]
        BY <3>1
      <4> QED BY <4>1 DEF TypeOK
    <3> QED BY <2>0, <3>1, <3>2, <3>6, <3>8, <3>9, <3>10 DEF TypeOK
  <2> QED BY <2>1, <2>2
<1>7. CASE \E ks \in pcmd_type_handlers : Request(u, ks)
  <2>1. PICK ks \in pcmd_type_handlers : Request(u, ks)
    BY <1>7
  <2>2. n' \in Nat /\ pending' \in Seq(Command) /\ want' \in BOOLEAN
    BY <2>1, HandlersType, SubmitType DEF Request
  <2> QED BY <2>1, <2>2 DEF Request, TypeOK, clients
<1> QED BY <1>1, <1>2, <1>3, <1>4, <1>5, <1>6, <1>7

LEMMA AnswerType ==
  ASSUME NEW c \in Command
  PROVE  Answer(c) \in Owed
  BY DEF Answer, Owed, Command

\* One visit of the writable UART.
LEMMA TypeUart ==
  ASSUME TypeOK, UartWrite
  PROVE  TypeOK'
<1> DEFINE c == Head(pending)
<1>0. ASSUME pending # <<>>
      PROVE  c \in Command /\ Tail(pending) \in Seq(Command) /\ Append(owed, Answer(c)) \in Seq(Owed)
  <2>1. c \in Command /\ Tail(pending) \in Seq(Command)
    BY <1>0 DEF TypeOK
  <2>2. Answer(c) \in Owed
    BY <2>1, AnswerType
  <2> HIDE DEF c
  <2> QED BY <2>1, <2>2 DEF TypeOK
<1>1. CASE /\ held' \in BOOLEAN
           /\ UNCHANGED <<pending, busy, owed>>
  BY <1>1 DEF UartWrite, TypeOK, clients
<1>2. CASE /\ pending # <<>> /\ c.left > 1
           /\ pending' = <<[c EXCEPT !.left = @ - 1]>> \o Tail(pending)
           /\ owed' = Append(owed, Answer(c))
           /\ held' = TRUE
           /\ UNCHANGED busy
  <2>1. [c EXCEPT !.left = @ - 1] \in Command
    BY <1>0, <1>2 DEF Command
  <2>2. pending' \in Seq(Command) /\ owed' \in Seq(Owed)
    <3> HIDE DEF c
    <3> QED BY <1>0, <1>2, <2>1
  <2> QED BY <1>2, <2>2 DEF UartWrite, TypeOK, clients
<1>3. CASE /\ pending # <<>>
           /\ pending' = Tail(pending)
           /\ busy' = Append(busy, [c EXCEPT !.left = 0, !.tmr = "armed"])
           /\ owed' = Append(owed, Answer(c))
           /\ held' = FALSE
  <2>1. [c EXCEPT !.left = 0, !.tmr = "armed"] \in Command
    <3>1. c \in Command
      BY <1>0, <1>3
    <3> DEFINE d == [c EXCEPT !.left = 0]
    <3>2. d \in Command
      BY <3>1 DEF Command
    <3>3. [c EXCEPT !.left = 0, !.tmr = "armed"] = [d EXCEPT !.tmr = "armed"]
      OBVIOUS
    <3> HIDE DEF c, d
    <3>4. [d EXCEPT !.tmr = "armed"] \in Command
      BY <3>2 DEF Command
    <3> QED BY <3>3, <3>4
  <2>2. pending' \in Seq(Command) /\ owed' \in Seq(Owed) /\ busy' \in Seq(Command)
    <3> HIDE DEF c
    <3> QED BY <1>0, <1>3, <2>1 DEF TypeOK
  <2> QED BY <1>3, <2>2 DEF UartWrite, TypeOK, clients
<1> QED BY <1>1, <1>2, <1>3 DEF UartWrite

LEMMA ResultType ==
  ASSUME TypeOK, NEW code, NEW of, FinalResult(code, of), owed' \in Seq(Owed)
  PROVE  TypeOK'
<1>1. CASE UNCHANGED <<up, engine, clients, history>>
  BY <1>1 DEF TypeOK, engine, clients, history
<1>2. CASE /\ busy # <<>>
           /\ \E ev \in ErrorEvents(code) :
                atcmd_done(n, pending, mlbuf, code, of = Head(busy).id, ev)
  <2>0. PICK events \in ErrorEvents(code) :
          atcmd_done(n, pending, mlbuf, code, of = Head(busy).id, events)
    BY <1>2
  <2> DEFINE own == of = Head(busy).id
  <2>1. events \in Boxes /\ own \in BOOLEAN
    BY EventsType DEF ErrorEvents
  <2>2. n \in Nat /\ pending \in Seq(Command) /\ mlbuf \in Seq(Line)
    BY DEF TypeOK
  <2>3. atcmd_done(n, pending, mlbuf, code, own, events)
    BY <2>0
  <2> HIDE DEF own
  <2> QED BY <1>2, <2>1, <2>2, <2>3, DoneType
<1> QED BY <1>1, <1>2 DEF FinalResult

\* A line or prompt from the modem.
LEMMA TypeModem ==
  ASSUME TypeOK, ModemStep
  PROVE  TypeOK'
<1>0. owed # <<>> => Tail(owed) \in Seq(Owed) /\ Head(owed) \in Owed
  BY DEF TypeOK
<1>1. CASE ReadyLine
  <2>1. "first" \in AllKinds
    BY DEF AllKinds, DaemonKinds
  <2>2. <<"first">> \in Seq(AllKinds)
    BY <2>1
  <2>3. n' \in Nat /\ pending' \in Seq(Command) /\ want' \in BOOLEAN
    BY <1>1, <2>2, SubmitType DEF ReadyLine
  <2> QED BY <1>1, <2>3 DEF ReadyLine, TypeOK, clients
<1>2. CASE FinalLine
  <2>1. owed' \in Seq(Owed)
    BY <1>0, <1>2 DEF FinalLine
  <2>2. \E code : FinalResult(code, Head(owed).id)
    BY <1>2, Zenon DEF FinalLine
  <2> QED BY <2>1, <2>2, ResultType
<1>3. CASE CarrierLine
  <2>1. owed' \in Seq(Owed)
    BY <1>3 DEF CarrierLine, TypeOK
  <2> QED BY <1>3, <2>1, ResultType DEF CarrierLine
<1>4. CASE InfoLine
  <2>1. PICK p \in {Head(owed).pfx, "text"} \ {"none"} :
          ml_parse([of |-> Head(owed).id, pfx |-> p])
    BY <1>4 DEF InfoLine
  <2>2. Head(owed) \in Owed
    BY <1>0, <1>4 DEF InfoLine
  <2>3. [of |-> Head(owed).id, pfx |-> p] \in Line
    BY <2>2 DEF Owed, Line, Ids
  <2>4. ParsedType /\ mlbuf' \in Seq(Line) /\ mlunsol' \in BOOLEAN
    BY <2>1, <2>3, ParseType
  <2> QED BY <1>4, <2>4 DEF InfoLine, ParsedType, TypeOK, Boxes
<1>5. CASE UrcLine
  <2>1. PICK p \in Urc \cap {"reg", "mt", "other", "text"} : ml_parse([of |-> 0, pfx |-> p])
    BY <1>5 DEF UrcLine
  <2>2. [of |-> 0, pfx |-> p] \in Line
    BY DEF Line
  <2>3. ParsedType /\ mlbuf' \in Seq(Line) /\ mlunsol' \in BOOLEAN
    BY <2>1, <2>2, ParseType
  <2> QED BY <1>5, <2>3 DEF UrcLine, ParsedType, TypeOK, Boxes
<1>6. CASE Prompt
  <2>1. stray' \in BOOLEAN
    BY <1>6, Zenon DEF Prompt, TypeOK
  <2> QED BY <1>0, <1>6, <2>1 DEF Prompt, TypeOK, clients
<1>7. CASE ModemDrop
  BY <1>0, <1>7 DEF ModemDrop, TypeOK, engine, clients, history
<1> QED BY <1>1, <1>2, <1>3, <1>4, <1>5, <1>6, <1>7 DEF ModemStep

\* A timer expires.
LEMMA TypeTimer ==
  ASSUME TypeOK, TimerStep
  PROVE  TypeOK'
<1>1. CASE AliveInterval
  <2>1. "alive" \in AllKinds
    BY DEF AllKinds, DaemonKinds
  <2>2. <<"alive">> \in Seq(AllKinds)
    BY <2>1
  <2>3. n' \in Nat /\ pending' \in Seq(Command) /\ want' \in BOOLEAN
    BY <1>1, <2>2, SubmitType DEF AliveInterval
  <2> QED BY <1>1, <2>3 DEF AliveInterval, TypeOK, clients
<1>2. ASSUME NEW i \in DOMAIN busy, discard_timeout(i) \/ wakeup_timeout(i)
      PROVE  TypeOK'
  <2>1. CASE NotHead(i)
    BY <1>2, <2>1, NotHeadType DEF discard_timeout, wakeup_timeout
  <2>2. CASE /\ EndCommand(n, pending, <<>>, "timeout", TRUE, NoMessage)
             /\ UNCHANGED mlbuf
    <3>1. busy # <<>>
      OBVIOUS
    <3>2. UNCHANGED <<up, owed, mlbuf>>
      BY <1>2, <2>2 DEF discard_timeout, wakeup_timeout
    <3> QED BY <2>2, <3>1, <3>2, TimeoutType
  <2> QED BY <1>2, <2>1, <2>2 DEF discard_timeout, wakeup_timeout
<1>3. ASSUME NEW i \in DOMAIN busy, alive_tmr_cb(i)
      PROVE  TypeOK'
  <2>1. CASE up' = "exit" /\ UNCHANGED engine
    BY <1>3, <2>1 DEF alive_tmr_cb, TypeOK, engine, clients, history
  <2>2. CASE /\ busy' = [busy EXCEPT ![i].tmr = "freed"]
             /\ UNCHANGED <<up, ready, want, pending, mlbuf, mlunsol, responded, registered>>
    <3>1. busy[i] \in Command
      BY DEF TypeOK
    <3>2. [busy[i] EXCEPT !.tmr = "freed"] \in Command
      BY <3>1 DEF Command
    <3>3. busy' \in Seq(Command)
      BY <2>2, <3>2 DEF TypeOK
    <3> QED BY <1>3, <2>2, <3>3 DEF alive_tmr_cb, TypeOK, clients, history
  <2> QED BY <1>3, <2>1, <2>2 DEF alive_tmr_cb
<1>4. ASSUME NEW i \in DOMAIN busy, poweroff_timeout(i)
      PROVE  TypeOK'
  BY <1>4 DEF poweroff_timeout, TypeOK, engine, clients, history
<1> QED BY <1>1, <1>2, <1>3, <1>4 DEF TimerStep

\* Every step of the daemon, its clients and the modem keeps the types: the
\* queues hold whole commands with at most two lines to send, the buffers hold
\* whole lines and messages.
THEOREM TypeCorrect == Spec => []TypeOK
<1>1. TypeOK /\ [Next]_vars => TypeOK'
  <2>1. TypeOK /\ UNCHANGED vars => TypeOK'
    BY DEF TypeOK, vars, engine, clients, history
  <2> QED BY <2>1, TypeUart, TypeClient, TypeModem, TypeTimer DEF Next
<1> QED BY <1>1, TypeInit, PTL DEF Spec

-----------------------------------------------------------------------------
(* The safety of the command engine. *)

\* Clients of this daemon may leave its head command half-sent or unsendable.
MayHold == Kinds \cap (TwoLine \cup Blank) # {}

\* What may be queued while the clients in S are connected.
Safe(S) ==
  {c \in Command : /\ c.ctx \in S \cup {Daemon}
                   /\ (c.left > 1 \/ c.kind \in Blank) => MayHold
                   /\ c.kind = "alive" => "alive" \in Kinds
                   /\ (~c.cb /\ c.ctx \in Users) => "store" \in Kinds}

QueuesSafe == pending \in Seq(Safe(conn)) /\ busy \in Seq(Safe(conn))
Awake      == (pending # <<>> /\ busy = <<>>) => (want \/ held)
HeldOK     == held => MayHold
Flight     == ~stray => /\ want => busy = <<>>
                        /\ Len(busy) <= 1
                        /\ \A i \in DOMAIN busy : busy[i].tmr = "armed" \/ busy[i].kind = "alive"

Engine == QueuesSafe /\ Awake /\ HeldOK /\ Flight /\ CrashFree

\* The inductive invariant: the safety properties follow from it.
IInv == TypeOK /\ Engine /\ MessagesFlow

LEMMA SafeMonotone ==
  ASSUME NEW S, NEW T, S \subseteq T
  PROVE  Safe(S) \subseteq Safe(T)
  BY Zenon DEF Safe

-----------------------------------------------------------------------------
(* Submitting commands. *)

\* The kinds that may be submitted: what the instance issues, and the daemon's own.
Issued == Kinds \cup Settings \cup {"first", "wake"}

LEMMA IssuedType == Issued \subseteq AllKinds
  BY ConstantsOK DEF Issued, AllKinds, DaemonKinds

LEMMA FillSafe ==
  ASSUME NEW S, S \subseteq Users, NEW k \in Issued, NEW u \in S \cup {Daemon}, NEW i \in Ids
  PROVE  atcmd_fill(k, u, i) \in Safe(S)
<1> DEFINE c == atcmd_fill(k, u, i)
<1>1. c \in Command
  BY IssuedType, FillType
<1>2. c.ctx \in S \cup {Daemon}
  BY DEF atcmd_fill
<1>3. k \in TwoLine \cup Blank => MayHold
  BY DEF Issued, TwoLine, Blank, Settings, MayHold
<1>4. (c.left > 1 \/ c.kind \in Blank) => MayHold
  BY <1>3 DEF atcmd_fill
<1>5. c.kind = "alive" => "alive" \in Kinds
  BY DEF atcmd_fill, Issued, Settings
<1>6. (~c.cb /\ c.ctx \in Users) => "store" \in Kinds
  <2>1. SUFFICES ASSUME ~c.cb, c.ctx \in Users PROVE "store" \in Kinds
    OBVIOUS
  <2>2. k \in Silent /\ k \in UserKinds
    BY <2>1, ConstantsOK DEF atcmd_fill
  <2>3. k = "store"
    BY <2>2 DEF Silent, UserKinds
  <2> QED BY <2>3 DEF Issued, Settings
<1> HIDE DEF c
<1> QED BY <1>1, <1>2, <1>4, <1>5, <1>6 DEF Safe, c

LEMMA SubmittedSafe ==
  ASSUME NEW S, S \subseteq Users, NEW base \in Nat, NEW ks \in Seq(Issued),
         NEW u \in S \cup {Daemon}
  PROVE  Submitted(base, ks, u) \in Seq(Safe(S))
<1> DEFINE w == IF ExSubmit THEN 2 ELSE 1
           e(i) == IF i % w = 0 THEN atcmd_fill(ks[i \div w], u, base + i)
                                ELSE atcmd_fill("wake", u, base + i)
<1>1. Len(ks) \in Nat /\ \A j \in 1..Len(ks) : ks[j] \in Issued
  OBVIOUS
<1>2. ASSUME NEW i \in 1..(w * Len(ks)) PROVE e(i) \in Safe(S)
  <2>1. base + i \in Ids
    BY <1>1 DEF Ids
  <2>2. "wake" \in Issued
    BY DEF Issued
  <2>3. CASE i % w = 0
    <3>1. i \div w \in 1..Len(ks)
      BY <1>1, <2>3
    <3>2. ks[i \div w] \in Issued
      BY <3>1, <1>1
    <3> QED BY <2>1, <2>3, <3>2, FillSafe
  <2>4. CASE i % w # 0
    BY <2>1, <2>2, <2>4, FillSafe
  <2> QED BY <2>3, <2>4
<1>3. Submitted(base, ks, u) = [i \in 1..(w * Len(ks)) |-> e(i)]
  BY DEF Submitted
<1>4. w * Len(ks) \in Nat
  BY <1>1
<1> HIDE DEF w, e
<1> QED BY <1>2, <1>3, <1>4

\* Appending commands outside any callback keeps the engine's invariant.
LEMMA AddTailEngine ==
  ASSUME IInv, NEW cmds \in Seq(Safe(conn)), AddTail(cmds),
         UNCHANGED <<up, busy, conn, held, stray>>
  PROVE  Engine'
<1>1. /\ pending' = pending \o cmds
      /\ want' = (want \/ (busy = <<>> /\ pending' # <<>>))
  BY DEF AddTail
<1>2. QueuesSafe'
  <2>1. pending' \in Seq(Safe(conn))
    BY <1>1 DEF IInv, Engine, QueuesSafe
  <2> QED BY <2>1 DEF IInv, Engine, QueuesSafe, Safe
<1>3. Awake'
  BY <1>1, Zenon DEF Awake
<1>4. HeldOK' /\ CrashFree'
  BY DEF IInv, Engine, HeldOK, CrashFree
<1>5. Flight'
  BY <1>1 DEF IInv, Engine, Flight
<1> QED BY <1>2, <1>3, <1>4, <1>5 DEF Engine

LEMMA SubmitEngine ==
  ASSUME IInv, NEW ks \in Seq(Issued), NEW u \in conn \cup {Daemon}, atcmd_submit(ks, u),
         UNCHANGED <<up, busy, conn, held, stray>>
  PROVE  Engine'
<1>1. conn \subseteq Users /\ n \in Nat
  BY DEF IInv, TypeOK
<1>2. Submitted(n, ks, u) \in Seq(Safe(conn))
  BY <1>1, SubmittedSafe
<1> QED BY <1>2, AddTailEngine DEF atcmd_submit

\* A step that leaves the engine alone, or only lets clients connect.
LEMMA EngineUnchanged ==
  ASSUME IInv, conn \subseteq conn',
         UNCHANGED <<up, want, pending, busy, held, stray>>
  PROVE  Engine'
<1>1. Safe(conn) \subseteq Safe(conn')
  BY SafeMonotone
<1>2. pending' \in Seq(Safe(conn')) /\ busy' \in Seq(Safe(conn'))
  <2> DEFINE A == Safe(conn)
             B == Safe(conn')
  <2>1. pending \in Seq(A) /\ busy \in Seq(A)
    BY DEF IInv, Engine, QueuesSafe
  <2> HIDE DEF A, B
  <2>2. A \subseteq B
    BY <1>1 DEF A, B
  <2>3. pending \in Seq(B) /\ busy \in Seq(B)
    BY <2>1, <2>2
  <2> QED BY <2>3 DEF B
<1>3. QueuesSafe'
  BY <1>2 DEF QueuesSafe, Safe
<1>4. Awake' /\ HeldOK' /\ CrashFree' /\ Flight'
  BY DEF IInv, Engine, Awake, HeldOK, CrashFree, Flight
<1> QED BY <1>3, <1>4 DEF Engine

-----------------------------------------------------------------------------
(* Messages to the clients. *)

\* Messages for connected clients only.
Deliverable == {m \in Boxes : \A u \in Users : m[u] # <<>> => u \in conn}

LEMMA EnqueueFlow ==
  ASSUME IInv, NEW msgs \in Deliverable, usock_cmd_enqueue(msgs), UNCHANGED conn
  PROVE  MessagesFlow'
<1> SUFFICES ASSUME NEW u \in Users, out'[u] # <<>> PROVE u \in conn' /\ uwant'[u]
  BY DEF MessagesFlow
<1>1. out'[u] = out[u] \o msgs[u] /\ uwant'[u] = (uwant[u] \/ msgs[u] # <<>>)
  BY DEF usock_cmd_enqueue
<1>2. out[u] \in Seq(Message) /\ msgs[u] \in Seq(Message)
  BY DEF IInv, TypeOK, Deliverable, Boxes
<1>3. CASE msgs[u] # <<>>
  BY <1>1, <1>3 DEF Deliverable
<1>4. CASE out[u] # <<>>
  BY <1>1, <1>4 DEF IInv, MessagesFlow
<1>5. out[u] # <<>> \/ msgs[u] # <<>>
  BY <1>1, <1>2
<1> QED BY <1>3, <1>4, <1>5

LEMMA EventsFlow == usock_evt_send \in Deliverable /\ NoMessage \in Deliverable
<1>1. \A u \in Users : usock_evt_send[u] # <<>> => u \in conn
  BY Zenon DEF usock_evt_send
<1>2. \A u \in Users : NoMessage[u] # <<>> => u \in conn
  BY Zenon DEF NoMessage
<1> QED BY <1>1, <1>2, EventsType DEF Deliverable

LEMMA BothFlow ==
  ASSUME NEW m1 \in Deliverable, NEW m2 \in Deliverable
  PROVE  Both(m1, m2) \in Deliverable
<1>1. m1 \in Boxes /\ m2 \in Boxes
  BY DEF Deliverable
<1>2. Both(m1, m2) \in Boxes
  BY <1>1, BothType
<1>3. ASSUME NEW u \in Users, Both(m1, m2)[u] # <<>> PROVE u \in conn
  <2>1. Both(m1, m2)[u] = m1[u] \o m2[u]
    BY DEF Both
  <2>2. m1[u] # <<>> \/ m2[u] # <<>>
    BY <1>1, <1>3, <2>1 DEF Boxes
  <2> QED BY <2>2 DEF Deliverable
<1> QED BY <1>2, <1>3 DEF Deliverable

LEMMA ReplyFlow ==
  ASSUME NEW c \in Safe(conn), Daemon \notin Users, NEW lines, NEW code, NEW own \in BOOLEAN
  PROVE  Reply(c, lines, code, own) \in Deliverable
<1>1. c \in Command /\ c.ctx \in conn \cup {Daemon}
  BY DEF Safe
<1>2. Reply(c, lines, code, own) \in Boxes
  BY <1>1, ReplyType
<1>3. ASSUME NEW u \in Users, Reply(c, lines, code, own)[u] # <<>> PROVE u \in conn
  <2>1. c.ctx = u
    BY <1>3, Zenon DEF Reply
  <2> QED BY <1>1, <2>1
<1> QED BY <1>2, <1>3 DEF Deliverable

-----------------------------------------------------------------------------
(* The end of a command. *)

LEMMA HeadSafe ==
  ASSUME IInv, busy # <<>>
  PROVE  Head(busy) \in Safe(conn) /\ Tail(busy) \in Seq(Safe(conn))
<1> DEFINE A == Safe(conn)
<1>1. busy \in Seq(A)
  BY DEF IInv, Engine, QueuesSafe
<1> HIDE DEF A
<1>2. Head(busy) \in A /\ Tail(busy) \in Seq(A)
  BY <1>1
<1> QED BY <1>2 DEF A

LEMMA EndCommandSafe ==
  ASSUME IInv, busy # <<>>, NEW base \in Nat, NEW q \in Seq(Safe(conn)),
         NEW lines, NEW code, NEW own \in BOOLEAN, NEW events \in Deliverable,
         EndCommand(base, q, lines, code, own, events), UNCHANGED up
  PROVE  Engine' /\ MessagesFlow'
<1> DEFINE c == Head(busy)
           A == Safe(conn)
           new == IF c.cb /\ c.kind = "first"
                  THEN Submitted(base, InitKinds, Daemon) ELSE <<>>
<1>1. c \in A /\ Tail(busy) \in Seq(A)
  BY HeadSafe
<1>2. InitKinds \in Seq(Issued) /\ conn \subseteq Users
  BY ConstantsOK DEF Issued, IInv, TypeOK
<1>3. new \in Seq(A)
  <2>1. Submitted(base, InitKinds, Daemon) \in Seq(A)
    BY <1>2, SubmittedSafe
  <2> HIDE DEF A
  <2> QED BY <2>1
<1>4. /\ pending' = q \o new /\ busy' = Tail(busy)
      /\ want' = (want \/ (busy' = <<>> /\ pending' # <<>>))
      /\ usock_cmd_enqueue(Both(events, Reply(c, lines, code, own)))
      /\ UNCHANGED <<conn, held, stray>>
  BY DEF EndCommand
<1>5. QueuesSafe'
  <2> q \in Seq(A)
    OBVIOUS
  <2> HIDE DEF A, new, c
  <2>1. pending' \in Seq(A) /\ busy' \in Seq(A)
    BY <1>1, <1>3, <1>4
  <2> QED BY <1>4, <2>1 DEF QueuesSafe, A, Safe
<1>6. Awake'
  BY <1>4, Zenon DEF Awake
<1>7. HeldOK' /\ CrashFree'
  BY <1>4 DEF IInv, Engine, HeldOK, CrashFree
<1>8. Flight'
  <2> SUFFICES ASSUME ~stray' PROVE Len(busy') <= 1 /\ busy' = <<>>
    BY DEF Flight
  <2>1. Len(busy) <= 1 /\ busy \in Seq(Command)
    BY <1>4 DEF IInv, Engine, Flight, TypeOK
  <2> QED BY <1>4, <2>1
<1>9. MessagesFlow'
  <2>1. Reply(c, lines, code, own) \in Deliverable
    BY <1>1, ConstantsOK, ReplyFlow
  <2>2. Both(events, Reply(c, lines, code, own)) \in Deliverable
    BY <2>1, BothFlow
  <2> QED BY <1>4, <2>2, EnqueueFlow
<1> QED BY <1>5, <1>6, <1>7, <1>8, <1>9 DEF Engine

\* A crash is one of the three that CrashFree admits.
LEMMA CrashSafe ==
  ASSUME IInv, Crash, Kinds \cap {"store", "alive"} # {} \/ stray
  PROVE  Engine' /\ MessagesFlow'
<1>1. UNCHANGED <<want, pending, busy, held, stray, conn, out, uwant>> /\ up' = "crash"
  BY DEF Crash, engine, clients, history
<1>2. QueuesSafe'
  BY <1>1 DEF IInv, Engine, QueuesSafe, Safe
<1>3. Awake' /\ HeldOK' /\ Flight' /\ CrashFree'
  BY <1>1 DEF IInv, Engine, Awake, HeldOK, Flight, CrashFree
<1>4. MessagesFlow'
  BY <1>1 DEF IInv, MessagesFlow
<1> QED BY <1>2, <1>3, <1>4 DEF Engine

LEMMA DoneSafe ==
  ASSUME IInv, busy # <<>>, NEW base \in Nat, NEW q \in Seq(Safe(conn)),
         NEW buf, NEW code, NEW own \in BOOLEAN, NEW events \in Deliverable,
         atcmd_done(base, q, buf, code, own, events)
  PROVE  Engine' /\ MessagesFlow'
<1> DEFINE mine == IF buf = <<>> THEN own ELSE Own(Head(busy), buf)
<1>1. mine \in BOOLEAN
  BY Zenon DEF Own
<1>2. CASE Head(busy).tmr \in {"dead", "freed"} /\ Crash
  <2>1. Head(busy) \in Safe(conn)
    BY HeadSafe
  <2>2. ~stray => Head(busy).kind = "alive"
    <3>1. busy[1] = Head(busy) /\ 1 \in DOMAIN busy
      BY DEF IInv, TypeOK
    <3>2. ~stray => Head(busy).tmr = "armed" \/ Head(busy).kind = "alive"
      BY <3>1 DEF IInv, Engine, Flight
    <3> QED BY <1>2, <3>2
  <2>3. Kinds \cap {"store", "alive"} # {} \/ stray
    BY <2>1, <2>2 DEF Safe
  <2> QED BY <1>2, <2>3, CrashSafe
<1>3. CASE EndCommand(base, q, buf, code, mine, events) /\ UNCHANGED up
  <2> HIDE DEF mine
  <2> QED BY <1>1, <1>3, EndCommandSafe
<1> QED BY <1>2, <1>3 DEF atcmd_done

-----------------------------------------------------------------------------
(* The steps. *)

LEMMA SafeInit == Init => IInv
<1> SUFFICES ASSUME Init PROVE IInv
  OBVIOUS
<1>1. TypeOK
  BY TypeInit
<1>2. <<"first">> \in Seq(Issued)
  <2>1. "first" \in Issued
    BY DEF Issued
  <2> QED BY <2>1
<1>3. Submitted(0, <<"first">>, Daemon) \in Seq(Safe(conn))
  BY <1>1, <1>2, SubmittedSafe DEF TypeOK
<1>4. QueuesSafe
  <2> DEFINE A == Safe(conn)
  <2> HIDE DEF A
  <2>1. <<>> \in Seq(A)
    OBVIOUS
  <2> QED BY <1>3, <2>1 DEF Init, QueuesSafe, A
<1>5. Awake
  BY Zenon DEF Awake, Init
<1>6. HeldOK /\ CrashFree
  BY DEF HeldOK, CrashFree, Init
<1>7. Flight
  BY DEF Flight, Init
<1>8. MessagesFlow
  BY Zenon DEF MessagesFlow, Init, NoMessage
<1> QED BY <1>1, <1>4, <1>5, <1>6, <1>7, <1>8 DEF IInv, Engine

LEMMA FlowUnchanged ==
  ASSUME IInv, UNCHANGED <<conn, out, uwant>>
  PROVE  MessagesFlow'
  BY DEF IInv, MessagesFlow

LEMMA HandlersIssued ==
  ASSUME NEW ks \in pcmd_type_handlers, \A i \in DOMAIN ks : ks[i] \in Kinds
  PROVE  ks \in Seq(Issued)
<1>1. ks \in Seq(AllKinds)
  BY HandlersType
<1>2. ks \in Seq(Kinds)
  BY <1>1
<1> QED BY <1>2 DEF Issued

\* A departing client's commands leave pending, and give up their client in busy.
LEMMA DisconnectSafe ==
  ASSUME IInv, NEW u \in Users, Disconnect(u)
  PROVE  Engine' /\ MessagesFlow'
<1>0. /\ \A i \in DOMAIN busy : busy[i] \in Safe(conn)
      /\ \A i \in DOMAIN pending : pending[i] \in Safe(conn)
  BY DEF IInv, Engine, QueuesSafe
<1>1. CASE Crash /\ \E c \in Mine(busy, u) \cup Mine(pending, u) : ~c.cb
  <2>1. PICK c \in Mine(busy, u) \cup Mine(pending, u) : ~c.cb
    BY <1>1
  <2>2. c.ctx = u /\ c \in Safe(conn)
    BY <1>0, <2>1, Zenon DEF Mine
  <2>3. "store" \in Kinds
    BY <2>1, <2>2 DEF Safe
  <2> QED BY <1>1, <2>3, CrashSafe
<1>2. CASE \A c \in Mine(busy, u) \cup Mine(pending, u) : c.cb
  <2>1. /\ busy' = [i \in DOMAIN busy |->
                      IF busy[i].ctx = u THEN [busy[i] EXCEPT !.cb = FALSE, !.ctx = Daemon]
                                         ELSE busy[i]]
        /\ DropPending(u)
        /\ conn' = conn \ {u}
        /\ out' = [out EXCEPT ![u] = <<>>]
        /\ uwant' = [uwant EXCEPT ![u] = FALSE]
        /\ UNCHANGED <<up, want, held, stray>>
    BY <1>2 DEF Disconnect, atcmd_terminate_matching
  <2> DEFINE b(i) == IF busy[i].ctx = u THEN [busy[i] EXCEPT !.cb = FALSE, !.ctx = Daemon]
                                        ELSE busy[i]
             A == Safe(conn \ {u})
  <2>2. DOMAIN busy = 1..Len(busy) /\ Len(busy) \in Nat /\ busy \in Seq(Command)
    BY DEF IInv, TypeOK
  <2>3. busy' = [i \in 1..Len(busy) |-> b(i)]
    BY <2>1, <2>2
  <2>4. ASSUME NEW i \in DOMAIN busy
        PROVE  /\ b(i) \in A
               /\ b(i).tmr = busy[i].tmr /\ b(i).kind = busy[i].kind
    <3>1. busy[i] \in Safe(conn) /\ Daemon \notin Users
      BY <1>0, ConstantsOK
    <3>2. b(i).tmr = busy[i].tmr /\ b(i).kind = busy[i].kind
      BY <3>1 DEF Safe, Command
    <3>3. CASE busy[i].ctx = u
      <4> DEFINE d == [busy[i] EXCEPT !.cb = FALSE]
                 e == [d EXCEPT !.ctx = Daemon]
      <4>1. d \in Command /\ d.left = busy[i].left /\ d.kind = busy[i].kind
        BY <3>1 DEF Safe, Command
      <4>2. b(i) = e
        BY <3>3
      <4> HIDE DEF d
      <4>3. e \in Command /\ e.ctx = Daemon /\ e.left = d.left /\ e.kind = d.kind
        BY <4>1 DEF Command
      <4> HIDE DEF e, b
      <4>4. e \in A
        BY <3>1, <4>1, <4>3 DEF Safe
      <4> QED BY <3>2, <4>2, <4>4
    <3>4. CASE busy[i].ctx # u
      BY <3>1, <3>4 DEF Safe
    <3> QED BY <3>2, <3>3, <3>4
  <2>5. busy' \in Seq(A) /\ Len(busy') = Len(busy) /\ DOMAIN busy' = DOMAIN busy
    <3> HIDE DEF b, A
    <3> QED BY <2>2, <2>3, <2>4
  <2>6. pending' \in Seq(A)
    <3>1. /\ pending' \in Seq(Command)
          /\ \A i \in DOMAIN pending' :
               /\ \E j \in DOMAIN pending : pending'[i] = pending[j]
               /\ pending'[i].ctx # u
      BY <2>1, DropType DEF IInv
    <3>2. \A i \in DOMAIN pending' : pending'[i] \in Safe(conn) /\ pending'[i].ctx # u
      BY <1>0, <3>1
    <3>3. \A i \in DOMAIN pending' : pending'[i] \in A
      BY <3>2 DEF Safe
    <3> HIDE DEF A
    <3> QED BY <3>1, <3>3
  <2>7. QueuesSafe'
    BY <2>1, <2>5, <2>6 DEF QueuesSafe, Safe
  <2>8. Awake'
    <3>1. pending' # <<>> => pending # <<>>
      <4>1. /\ pending' \in Seq(Command) /\ pending \in Seq(Command)
            /\ \A i \in DOMAIN pending' : \E j \in DOMAIN pending : pending'[i] = pending[j]
        BY <2>1, DropType DEF IInv, TypeOK
      <4> QED BY <4>1
    <3>2. busy' = <<>> => busy = <<>>
      BY <2>2, <2>5
    <3>3. Awake
      BY DEF IInv, Engine
    <3>4. UNCHANGED <<want, held>>
      BY <2>1
    <3> QED BY <3>1, <3>2, <3>3, <3>4 DEF Awake
  <2>9. HeldOK' /\ CrashFree'
    BY <2>1 DEF IInv, Engine, HeldOK, CrashFree
  <2>10. Flight'
    <3> SUFFICES ASSUME ~stray'
                 PROVE  /\ want' => busy' = <<>>
                        /\ Len(busy') <= 1
                        /\ \A i \in DOMAIN busy' :
                             busy'[i].tmr = "armed" \/ busy'[i].kind = "alive"
      BY DEF Flight
    <3>1. /\ want => busy = <<>>
          /\ Len(busy) <= 1
          /\ \A i \in DOMAIN busy : busy[i].tmr = "armed" \/ busy[i].kind = "alive"
      BY <2>1 DEF IInv, Engine, Flight
    <3>2. want' => busy' = <<>>
      BY <2>1, <2>5, <3>1
    <3>3. \A i \in DOMAIN busy' : busy'[i] = b(i)
      BY <2>3, <2>5, Zenon
    <3> HIDE DEF b
    <3> QED BY <2>4, <2>5, <3>1, <3>2, <3>3
  <2>11. MessagesFlow'
    <3> SUFFICES ASSUME NEW v \in Users, out'[v] # <<>> PROVE v \in conn' /\ uwant'[v]
      BY DEF MessagesFlow
    <3>1. out' = [out EXCEPT ![u] = <<>>] /\ uwant' = [uwant EXCEPT ![u] = FALSE]
          /\ conn' = conn \ {u}
      BY <2>1
    <3>2. v # u
      BY <3>1 DEF IInv, TypeOK
    <3> QED BY <3>1, <3>2 DEF IInv, TypeOK, MessagesFlow
  <2> QED BY <2>7, <2>8, <2>9, <2>10, <2>11 DEF Engine
<1> QED BY <1>1, <1>2, Zenon DEF Disconnect, atcmd_terminate_matching

LEMMA SafeClient ==
  ASSUME IInv, ClientStep
  PROVE  Engine' /\ MessagesFlow'
<1>1. PICK u \in Users :
        \/ Connect(u) \/ Hangup(u) \/ PowerOff(u) \/ UserWrite(u) \/ Disconnect(u)
        \/ \E ks \in pcmd_type_handlers : Request(u, ks)
  BY DEF ClientStep
<1>2. CASE Connect(u)
  <2>1. Engine'
    BY <1>2, EngineUnchanged DEF Connect, engine, history
  <2>2. MessagesFlow'
    BY <1>2 DEF Connect, IInv, TypeOK, MessagesFlow
  <2> QED BY <2>1, <2>2
<1>3. CASE Hangup(u)
  <2>0. u \in conn /\ n \in Nat /\ conn \subseteq Users
    BY <1>3 DEF Hangup, IInv, TypeOK
  <2>1. "hangup" \in Issued
    BY <1>3 DEF Hangup, Issued
  <2>2. CASE /\ atcmd_submit(<<"hangup">>, u)
             /\ UNCHANGED <<up, ready, busy, mlbuf, mlunsol, responded, registered,
                            clients, ended, held, early, orphan, stray>>
    <3>1. <<"hangup">> \in Seq(Issued)
      BY <2>1
    <3>2. UNCHANGED <<up, busy, conn, held, stray, out, uwant>>
      BY <2>2 DEF clients
    <3> QED BY <2>0, <2>2, <3>1, <3>2, SubmitEngine, FlowUnchanged
  <2>3. CASE /\ busy # <<>>
             /\ atcmd_done(n + 1, <<atcmd_fill("hangup", u, n + 1)>> \o pending,
                           <<>>, "cancel", TRUE, NoMessage)
    <3> DEFINE q == <<atcmd_fill("hangup", u, n + 1)>> \o pending
               c == atcmd_fill("hangup", u, n + 1)
               A == Safe(conn)
    <3>1. c \in A
      <4>1. n + 1 \in Ids
        BY <2>0 DEF Ids
      <4> QED BY <2>0, <2>1, <4>1, FillSafe
    <3>2. pending \in Seq(A)
      BY DEF IInv, Engine, QueuesSafe
    <3>3. q \in Seq(A)
      <4> HIDE DEF A, c
      <4>1. <<c>> \o pending \in Seq(A)
        BY <3>1, <3>2
      <4> QED BY <4>1 DEF c
    <3>4. n + 1 \in Nat /\ TRUE \in BOOLEAN
      BY <2>0
    <3> HIDE DEF q
    <3>5. atcmd_done(n + 1, q, <<>>, "cancel", TRUE, NoMessage)
      BY <2>3 DEF q
    <3> QED BY <2>3, <3>3, <3>4, <3>5, EventsFlow, DoneSafe
  <2> QED BY <1>3, <2>2, <2>3 DEF Hangup
<1>4. CASE PowerOff(u)
  <2> DEFINE c == atcmd_fill("power", u, n + 1)
             A == Safe(conn)
  <2>1. n + 1 \in Ids /\ "power" \in Issued /\ u \in conn /\ conn \subseteq Users
    BY <1>4 DEF PowerOff, IInv, TypeOK, Ids, Issued
  <2>2. c \in A
    BY <2>1, FillSafe
  <2>3. <<c>> \in Seq(A)
    <3> HIDE DEF c, A
    <3> QED BY <2>2
  <2>4. UNCHANGED <<up, busy, conn, held, stray, out, uwant>> /\ AddTail(<<c>>)
    BY <1>4 DEF PowerOff, clients
  <2> HIDE DEF c
  <2> QED BY <2>3, <2>4, AddTailEngine, FlowUnchanged
<1>5. CASE UserWrite(u)
  <2>1. Engine'
    BY <1>5, EngineUnchanged DEF UserWrite, engine, history
  <2>2. MessagesFlow'
    <3>1. PICK k \in 0..Len(out[u]) :
            /\ out' = [out EXCEPT ![u] = SubSeq(out[u], k + 1, Len(out[u]))]
            /\ uwant' = [uwant EXCEPT ![u] = (k < Len(out[u]))]
      BY <1>5 DEF UserWrite
    <3>2. UNCHANGED conn /\ u \in conn
      BY <1>5 DEF UserWrite
    <3>3. out \in [Users -> Seq(Message)] /\ uwant \in [Users -> BOOLEAN]
      BY DEF IInv, TypeOK
    <3>4. k = Len(out[u]) => out'[u] = <<>>
      <4>1. out[u] \in Seq(Message) /\ out'[u] = SubSeq(out[u], k + 1, Len(out[u]))
        BY <3>1, <3>3
      <4> QED BY <4>1
    <3>5. uwant'[u] = (k < Len(out[u]))
      BY <3>1, <3>3
    <3>6. out'[u] # <<>> => uwant'[u]
      <4>1. Len(out[u]) \in Nat
        BY <3>3
      <4>2. k = Len(out[u]) \/ k < Len(out[u])
        BY <4>1
      <4> QED BY <3>4, <3>5, <4>2
    <3>7. ASSUME NEW v \in Users, v # u PROVE out'[v] = out[v] /\ uwant'[v] = uwant[v]
      BY <3>1, <3>3, <3>7
    <3> QED BY <3>2, <3>6, <3>7 DEF IInv, MessagesFlow
  <2> QED BY <2>1, <2>2
<1>6. CASE Disconnect(u)
  BY <1>6, DisconnectSafe
<1>7. CASE \E ks \in pcmd_type_handlers : Request(u, ks)
  <2>1. PICK ks \in pcmd_type_handlers : Request(u, ks)
    BY <1>7
  <2>2. ks \in Seq(Issued)
    BY <2>1, HandlersIssued DEF Request
  <2>3. UNCHANGED <<up, busy, conn, held, stray, out, uwant>> /\ u \in conn
    BY <2>1 DEF Request, clients
  <2>4. atcmd_submit(ks, u)
    BY <2>1 DEF Request
  <2> QED BY <2>2, <2>3, <2>4, SubmitEngine, FlowUnchanged
<1> QED BY <1>1, <1>2, <1>3, <1>4, <1>5, <1>6, <1>7

LEMMA SafeUart ==
  ASSUME IInv, UartWrite
  PROVE  Engine' /\ MessagesFlow'
<1> DEFINE c == Head(pending)
           A == Safe(conn)
<1>0. /\ want /\ ~want'
      /\ UNCHANGED <<up, conn, out, uwant, stray>>
  BY DEF UartWrite, clients
<1>1. MessagesFlow' /\ CrashFree'
  BY <1>0, FlowUnchanged DEF IInv, Engine, CrashFree
<1>2. /\ pending \in Seq(A) /\ busy \in Seq(A)
      /\ pending \in Seq(Command) /\ busy \in Seq(Command)
  BY DEF IInv, TypeOK, Engine, QueuesSafe
<1>3. pending # <<>> => c \in A /\ Tail(pending) \in Seq(A)
  <2> HIDE DEF A
  <2> QED BY <1>2
<1>4. ASSUME pending # <<>>, c.left > 1 \/ c.kind \in Blank PROVE MayHold
  BY <1>3, <1>4 DEF Safe
<1>5. CASE /\ UNCHANGED <<pending, busy>>
           /\ \/ pending = <<>> /\ held' = FALSE
              \/ pending # <<>> /\ c.kind \in Blank /\ held' = TRUE
  <2>1. QueuesSafe'
    BY <1>0, <1>2, <1>5 DEF QueuesSafe, Safe
  <2>2. Awake' /\ HeldOK'
    BY <1>4, <1>5 DEF Awake, HeldOK
  <2>3. Flight'
    BY <1>0, <1>5 DEF IInv, Engine, Flight
  <2> QED BY <1>1, <2>1, <2>2, <2>3 DEF Engine
<1>6. CASE /\ pending # <<>> /\ c.left > 1
           /\ pending' = <<[c EXCEPT !.left = @ - 1]>> \o Tail(pending)
           /\ held' = TRUE
           /\ UNCHANGED busy
  <2>1. [c EXCEPT !.left = @ - 1] \in A
    <3>1. c \in A
      BY <1>3, <1>6
    <3> HIDE DEF c
    <3> QED BY <1>4, <1>6, <3>1 DEF Safe, Command
  <2>2. pending' \in Seq(A)
    <3> HIDE DEF A, c
    <3> QED BY <1>3, <1>6, <2>1
  <2>3. QueuesSafe'
    BY <1>0, <1>2, <1>6, <2>2 DEF QueuesSafe, Safe
  <2>4. Awake' /\ HeldOK'
    BY <1>4, <1>6 DEF Awake, HeldOK
  <2>5. Flight'
    BY <1>0, <1>6 DEF IInv, Engine, Flight
  <2> QED BY <1>1, <2>3, <2>4, <2>5 DEF Engine
<1>7. CASE /\ pending # <<>>
           /\ pending' = Tail(pending)
           /\ busy' = Append(busy, [c EXCEPT !.left = 0, !.tmr = "armed"])
           /\ held' = FALSE
  <2> DEFINE d == [c EXCEPT !.left = 0]
             e == [d EXCEPT !.tmr = "armed"]
  <2>0. c \in A
    BY <1>3, <1>7
  <2>1. d \in A
    <3> HIDE DEF c
    <3> QED BY <2>0 DEF Safe, Command
  <2>2. busy' = Append(busy, e)
    BY <1>7
  <2> HIDE DEF d
  <2>3. e \in A /\ e.tmr = "armed"
    BY <2>1 DEF Safe, Command
  <2> HIDE DEF e
  <2>4. pending' \in Seq(A) /\ busy' \in Seq(A)
    <3> HIDE DEF A, c
    <3> QED BY <1>2, <1>3, <1>7, <2>2, <2>3
  <2>5. QueuesSafe'
    BY <1>0, <2>4 DEF QueuesSafe, Safe
  <2>6. busy' # <<>>
    BY <1>2, <2>2
  <2>7. Awake' /\ HeldOK'
    BY <1>7, <2>6 DEF Awake, HeldOK
  <2>8. Flight'
    <3>1. ~stray => busy = <<>>
      BY <1>0 DEF IInv, Engine, Flight
    <3>2. ~stray => busy' = <<e>>
      BY <2>2, <3>1
    <3> QED BY <1>0, <2>3, <3>2 DEF Flight
  <2> QED BY <1>1, <2>5, <2>7, <2>8 DEF Engine
<1> QED BY <1>5, <1>6, <1>7 DEF UartWrite

LEMMA ResultSafe ==
  ASSUME IInv, NEW code, NEW of, FinalResult(code, of)
  PROVE  Engine' /\ MessagesFlow'
<1>1. CASE UNCHANGED <<up, engine, clients, history>>
  BY <1>1, EngineUnchanged, FlowUnchanged DEF engine, clients, history
<1>2. CASE /\ busy # <<>>
           /\ \E ev \in ErrorEvents(code) :
                atcmd_done(n, pending, mlbuf, code, of = Head(busy).id, ev)
  <2>0. PICK events \in ErrorEvents(code) :
          atcmd_done(n, pending, mlbuf, code, of = Head(busy).id, events)
    BY <1>2
  <2> DEFINE own == of = Head(busy).id
  <2>1. events \in Deliverable /\ own \in BOOLEAN
    BY EventsFlow DEF ErrorEvents
  <2>2. n \in Nat /\ pending \in Seq(Safe(conn))
    BY DEF IInv, TypeOK, Engine, QueuesSafe
  <2>3. atcmd_done(n, pending, mlbuf, code, own, events)
    BY <2>0
  <2> HIDE DEF own
  <2> QED BY <1>2, <2>1, <2>2, <2>3, DoneSafe
<1> QED BY <1>1, <1>2 DEF FinalResult

\* A registration may submit the message service settings.
LEMMA UnsolicitedSafe ==
  ASSUME IInv, NEW pfx, NEW msgs \in Deliverable, unsolicited_parse(pfx, msgs),
         UNCHANGED <<up, busy, conn, held, stray>>
  PROVE  Engine' /\ MessagesFlow'
<1>1. CASE /\ IF registered' /\ ~registered
              THEN atcmd_submit(NetKinds, Daemon)
              ELSE UNCHANGED <<n, pending, want>>
           /\ \E ev \in {usock_evt_send, NoMessage} : usock_cmd_enqueue(Both(msgs, ev))
  <2>0. PICK ev \in {usock_evt_send, NoMessage} : usock_cmd_enqueue(Both(msgs, ev))
    BY <1>1
  <2>1. MessagesFlow'
    BY <2>0, EventsFlow, BothFlow, EnqueueFlow
  <2>2. NetKinds \in Seq(Issued) /\ Daemon \in conn \cup {Daemon}
    BY ConstantsOK DEF Issued
  <2>3. CASE atcmd_submit(NetKinds, Daemon)
    BY <2>1, <2>2, <2>3, SubmitEngine
  <2>4. CASE UNCHANGED <<n, pending, want>>
    BY <2>1, <2>4, EngineUnchanged
  <2> QED BY <1>1, <2>3, <2>4
<1>2. CASE /\ \E ev \in {usock_evt_send, NoMessage} : usock_cmd_enqueue(Both(msgs, ev))
           /\ UNCHANGED <<registered, n, pending, want>>
  <2>1. PICK ev \in {usock_evt_send, NoMessage} : usock_cmd_enqueue(Both(msgs, ev))
    BY <1>2
  <2>2. MessagesFlow'
    BY <2>1, EventsFlow, BothFlow, EnqueueFlow
  <2> QED BY <1>2, <2>2, EngineUnchanged
<1>3. CASE usock_cmd_enqueue(msgs) /\ UNCHANGED <<registered, n, pending, want>>
  BY <1>3, EnqueueFlow, EngineUnchanged
<1> QED BY <1>1, <1>2, <1>3 DEF unsolicited_parse

LEMMA AppendSafe ==
  ASSUME IInv, NEW rest, NEW line, NEW msgs \in Deliverable, AppendLine(rest, line, msgs),
         UNCHANGED <<up, busy, conn, held, stray>>
  PROVE  Engine' /\ MessagesFlow'
<1>1. CASE usock_cmd_enqueue(msgs) /\ UNCHANGED <<mlunsol, registered, n, pending, want>>
  BY <1>1, EnqueueFlow, EngineUnchanged
<1>2. CASE unsolicited_parse(Append(rest, line)[1].pfx, msgs)
  BY <1>2, UnsolicitedSafe, Zenon
<1> QED BY <1>1, <1>2 DEF AppendLine

LEMMA ParseSafe ==
  ASSUME IInv, NEW line, ml_parse(line), UNCHANGED <<up, busy, conn, held, stray>>
  PROVE  Engine' /\ MessagesFlow'
<1>1. CASE unsolicited_parse("reg", NoMessage)
  BY <1>1, EventsFlow, UnsolicitedSafe
<1>2. CASE UNCHANGED <<pending, want, registered, out, uwant, n>>
  BY <1>2, EngineUnchanged, FlowUnchanged
<1>3. CASE AppendLine(mlbuf, line, NoMessage)
  BY <1>3, EventsFlow, AppendSafe
<1>4. CASE /\ busy # <<>>
           /\ AppendLine(<<>>, line,
                IF mlbuf = <<>> THEN NoMessage
                ELSE Reply(Head(busy), mlbuf, "none", Own(Head(busy), mlbuf)))
  <2>1. Head(busy) \in Safe(conn) /\ Daemon \notin Users
    BY <1>4, HeadSafe, ConstantsOK
  <2>2. Own(Head(busy), mlbuf) \in BOOLEAN
    BY Zenon DEF Own
  <2>3. Reply(Head(busy), mlbuf, "none", Own(Head(busy), mlbuf)) \in Deliverable
    BY <2>1, <2>2, ReplyFlow
  <2> DEFINE msgs == IF mlbuf = <<>> THEN NoMessage
                     ELSE Reply(Head(busy), mlbuf, "none", Own(Head(busy), mlbuf))
  <2>4. msgs \in Deliverable
    BY <2>3, EventsFlow
  <2>5. AppendLine(<<>>, line, msgs)
    BY <1>4
  <2> HIDE DEF msgs
  <2> QED BY <2>4, <2>5, AppendSafe
<1> QED BY <1>1, <1>2, <1>3, <1>4 DEF ml_parse

LEMMA SafeModem ==
  ASSUME IInv, ModemStep
  PROVE  Engine' /\ MessagesFlow'
<1>1. CASE ReadyLine
  <2>1. "first" \in Issued /\ Daemon \in conn \cup {Daemon}
    BY DEF Issued
  <2>2. <<"first">> \in Seq(Issued)
    BY <2>1
  <2>3. UNCHANGED <<up, busy, conn, held, stray, out, uwant>>
    BY <1>1 DEF ReadyLine, clients
  <2> QED BY <1>1, <2>1, <2>2, <2>3, SubmitEngine, FlowUnchanged DEF ReadyLine
<1>2. CASE FinalLine
  <2>1. \E code : FinalResult(code, Head(owed).id)
    BY <1>2, Zenon DEF FinalLine
  <2> QED BY <2>1, ResultSafe
<1>3. CASE CarrierLine
  BY <1>3, ResultSafe DEF CarrierLine
<1>4. CASE InfoLine
  <2>1. \E line : ml_parse(line)
    BY <1>4, Zenon DEF InfoLine
  <2>2. UNCHANGED <<up, busy, conn, held, stray>>
    BY <1>4 DEF InfoLine
  <2> QED BY <2>1, <2>2, ParseSafe
<1>5. CASE UrcLine
  <2>1. \E line : ml_parse(line)
    BY <1>5, Zenon DEF UrcLine
  <2>2. UNCHANGED <<up, busy, conn, held, stray>>
    BY <1>5 DEF UrcLine
  <2> QED BY <2>1, <2>2, ParseSafe
<1>6. CASE Prompt
  <2>1. UNCHANGED <<up, pending, busy, conn, held, out, uwant>> /\ want'
    BY <1>6 DEF Prompt, clients
  <2>2. ~stray' => ~stray /\ busy = <<>>
    BY <1>6, Zenon DEF Prompt
  <2>3. QueuesSafe'
    BY <2>1 DEF IInv, Engine, QueuesSafe, Safe
  <2>4. Awake' /\ HeldOK' /\ CrashFree'
    <3>1. stray => stray'
      BY <1>6, Zenon DEF Prompt
    <3> QED BY <2>1, <3>1 DEF IInv, Engine, Awake, HeldOK, CrashFree
  <2>5. Flight'
    BY <2>1, <2>2 DEF IInv, Engine, Flight
  <2> QED BY <2>1, <2>3, <2>4, <2>5, FlowUnchanged DEF Engine
<1>7. CASE ModemDrop
  <2>1. UNCHANGED <<up, want, pending, busy, held, stray, conn, out, uwant>>
    BY <1>7 DEF ModemDrop, engine, clients, history
  <2> QED BY <2>1, EngineUnchanged, FlowUnchanged
<1> QED BY <1>1, <1>2, <1>3, <1>4, <1>5, <1>6, <1>7 DEF ModemStep

\* A timer that is marked on a command changes nothing else of it.
LEMMA MarkSafe ==
  ASSUME IInv, NEW i \in DOMAIN busy, NEW t \in {"dead", "freed"},
         stray \/ busy[i].kind = "alive",
         busy' = [busy EXCEPT ![i].tmr = t],
         UNCHANGED <<up, want, pending, held, stray, conn, out, uwant>>
  PROVE  Engine' /\ MessagesFlow'
<1> DEFINE A == Safe(conn)
           c == [busy[i] EXCEPT !.tmr = t]
<1>1. busy \in Seq(A) /\ busy[i] \in A /\ busy \in Seq(Command)
  BY DEF IInv, TypeOK, Engine, QueuesSafe
<1>2. c \in A /\ c.kind = busy[i].kind
  BY <1>1 DEF Safe, Command
<1>3. busy' = [busy EXCEPT ![i] = c]
  OBVIOUS
<1>4. busy' \in Seq(A) /\ Len(busy') = Len(busy) /\ DOMAIN busy' = DOMAIN busy
  <2> HIDE DEF A, c
  <2> QED BY <1>1, <1>2, <1>3
<1>5. QueuesSafe'
  BY <1>4 DEF IInv, Engine, QueuesSafe, Safe
<1>6. busy' = <<>> <=> busy = <<>>
  BY <1>1, <1>4
<1>7. Awake'
  BY <1>6 DEF IInv, Engine, Awake
<1>8. HeldOK' /\ CrashFree'
  BY DEF IInv, Engine, HeldOK, CrashFree
<1>9. Flight'
  <2> SUFFICES ASSUME ~stray
               PROVE  /\ want => busy' = <<>>
                      /\ Len(busy') <= 1
                      /\ \A j \in DOMAIN busy' :
                           busy'[j].tmr = "armed" \/ busy'[j].kind = "alive"
    BY DEF Flight
  <2>1. /\ want => busy = <<>>
        /\ Len(busy) <= 1
        /\ \A j \in DOMAIN busy : busy[j].tmr = "armed" \/ busy[j].kind = "alive"
    BY DEF IInv, Engine, Flight
  <2>2. busy'[i] = c /\ \A j \in DOMAIN busy \ {i} : busy'[j] = busy[j]
    BY <1>1, <1>3
  <2> HIDE DEF c
  <2> QED BY <1>2, <1>4, <1>6, <2>1, <2>2
<1> QED BY <1>5, <1>7, <1>8, <1>9, FlowUnchanged DEF Engine

LEMMA SafeTimer ==
  ASSUME IInv, TimerStep
  PROVE  Engine' /\ MessagesFlow'
<1>1. CASE AliveInterval
  <2>1. "alive" \in Issued /\ Daemon \in conn \cup {Daemon}
    BY <1>1 DEF AliveInterval, Issued
  <2>2. <<"alive">> \in Seq(Issued)
    BY <2>1
  <2>3. UNCHANGED <<up, busy, conn, held, stray, out, uwant>>
    BY <1>1 DEF AliveInterval, clients
  <2> QED BY <1>1, <2>1, <2>2, <2>3, SubmitEngine, FlowUnchanged DEF AliveInterval
<1>2. ASSUME NEW i \in DOMAIN busy, discard_timeout(i) \/ wakeup_timeout(i)
      PROVE  Engine' /\ MessagesFlow'
  <2>1. CASE NotHead(i)
    <3>1. /\ busy' = [busy EXCEPT ![i].tmr = "dead"]
          /\ UNCHANGED <<up, want, pending, held, stray, conn, out, uwant>>
      BY <1>2, <2>1 DEF NotHead, clients, history, discard_timeout, wakeup_timeout
    <3>2. i # 1
      BY <2>1 DEF NotHead
    <3>3. stray
      <4>1. busy \in Seq(Command) /\ ~stray => Len(busy) <= 1
        BY DEF IInv, Engine, Flight, TypeOK
      <4>2. busy \in Seq(Command)
        BY DEF IInv, TypeOK
      <4> QED BY <3>2, <4>1, <4>2
    <3> QED BY <3>1, <3>3, MarkSafe
  <2>2. CASE EndCommand(n, pending, <<>>, "timeout", TRUE, NoMessage)
    <3>1. busy # <<>>
      OBVIOUS
    <3>2. UNCHANGED up
      BY <1>2 DEF discard_timeout, wakeup_timeout
    <3>3. n \in Nat /\ pending \in Seq(Safe(conn)) /\ TRUE \in BOOLEAN
      BY DEF IInv, TypeOK, Engine, QueuesSafe
    <3> QED BY <2>2, <3>1, <3>2, <3>3, EventsFlow, EndCommandSafe
  <2> QED BY <1>2, <2>1, <2>2 DEF discard_timeout, wakeup_timeout
<1>3. ASSUME NEW i \in DOMAIN busy, alive_tmr_cb(i) \/ poweroff_timeout(i)
      PROVE  Engine' /\ MessagesFlow'
  <2>1. CASE up' = "exit" /\ UNCHANGED engine
    <3>1. UNCHANGED <<want, pending, busy, held, stray, conn, out, uwant>>
      BY <1>3, <2>1 DEF alive_tmr_cb, poweroff_timeout, engine, clients, history
    <3>2. QueuesSafe'
      BY <3>1 DEF IInv, Engine, QueuesSafe, Safe
    <3>3. Awake' /\ HeldOK' /\ Flight' /\ CrashFree'
      BY <2>1, <3>1 DEF IInv, Engine, Awake, HeldOK, Flight, CrashFree
    <3> QED BY <3>1, <3>2, <3>3, FlowUnchanged DEF Engine
  <2>2. CASE alive_tmr_cb(i) /\ busy' = [busy EXCEPT ![i].tmr = "freed"] /\ responded /\ UNCHANGED up
             /\ UNCHANGED <<want, pending>>
    <3>1. UNCHANGED <<held, stray, conn, out, uwant>> /\ busy[i].kind = "alive"
      BY <2>2 DEF alive_tmr_cb, clients, history
    <3> QED BY <2>2, <3>1, MarkSafe
  <2> QED BY <1>3, <2>1, <2>2 DEF alive_tmr_cb, poweroff_timeout
<1> QED BY <1>1, <1>2, <1>3 DEF TimerStep

-----------------------------------------------------------------------------

\* The inductive invariant holds: the queues hold only commands of connected
\* clients, the UART is asked for whenever commands wait, one command executes.
THEOREM Inductive == Spec => []IInv
<1>1. IInv /\ [Next]_vars => IInv'
  <2> SUFFICES ASSUME IInv, [Next]_vars PROVE IInv'
    OBVIOUS
  <2>1. CASE UNCHANGED vars
    <3>1. UNCHANGED <<up, want, pending, busy, held, stray, conn, out, uwant>>
      BY <2>1 DEF vars, engine, clients, history
    <3>2. TypeOK'
      BY <2>1 DEF IInv, TypeOK, vars, engine, clients, history
    <3> QED BY <3>1, <3>2, EngineUnchanged, FlowUnchanged DEF IInv
  <2>2. CASE Next
    <3>1. TypeOK'
      BY <2>2, TypeUart, TypeClient, TypeModem, TypeTimer DEF Next, IInv
    <3>2. Engine' /\ MessagesFlow'
      BY <2>2, SafeUart, SafeClient, SafeModem, SafeTimer DEF Next
    <3> QED BY <3>1, <3>2 DEF IInv
  <2> QED BY <2>1, <2>2
<1> QED BY <1>1, SafeInit, PTL DEF Spec

\* No lost wake-up: whenever commands wait and none executes, the daemon has
\* asked for the writable UART or waits for a prompt.
THEOREM NoLostWakeup == Spec => []QueueAwake
<1>1. IInv => QueueAwake
  BY DEF IInv, Engine, Awake, HeldOK, MayHold, QueueAwake
<1> QED BY <1>1, Inductive, PTL

\* atcmd_terminate_matching leaves no command that refers to a departed client.
THEOREM NoDanglingClient == Spec => []NoStaleUser
<1>1. IInv => NoStaleUser
  <2> SUFFICES ASSUME IInv,
                      NEW c \in {busy[i] : i \in DOMAIN busy} \cup {pending[i] : i \in DOMAIN pending},
                      c.ctx \in Users
               PROVE  c.ctx \in conn
    BY DEF NoStaleUser
  <2>1. c \in Safe(conn)
    BY DEF IInv, Engine, QueuesSafe
  <2> QED BY <2>1, ConstantsOK DEF Safe
<1> QED BY <1>1, Inductive, PTL

\* A queued message always has a connected, watched client.
THEOREM MessagesAreSent == Spec => []MessagesFlow
<1>1. IInv => MessagesFlow
  BY DEF IInv
<1> QED BY <1>1, Inductive, PTL

\* At most one command is in flight, under a live timer, until a stray prompt.
THEOREM SingleCommand == Spec => []OneInFlight
<1>1. IInv => OneInFlight
  BY DEF IInv, Engine, Flight, OneInFlight
<1> QED BY <1>1, Inductive, PTL

\* The daemon crashes in the three known ways only.
THEOREM KnownCrashes == Spec => []CrashFree
<1>1. IInv => CrashFree
  BY DEF IInv, Engine
<1> QED BY <1>1, Inductive, PTL

=============================================================================
