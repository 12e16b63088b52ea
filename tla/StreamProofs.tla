----------------------------- MODULE StreamProofs -----------------------------
(***************************************************************************)
(* Proofs about the socket between libgsmd and gsmd (Stream), for every    *)
(* buffer size, every size and number of messages, and every way in which  *)
(* the stream is cut up.                                                   *)
(***************************************************************************)
EXTENDS Stream, SequenceTheorems, TLAPS

Request == [kind : {"request", "blank", "stray"}, id : Nat, n : Nat]
Answer == [kind : {"reply", "event", "stray"}, id : Nat, n : {1}]
Gift == Answer \cup {Garbage}
RequestUnit == [msg : Request, k : Nat]
AnswerUnit == [msg : Answer, k : {1, 2, 3}]
Result == [call : Nat, msg : Gift]

-----------------------------------------------------------------------------
(* Sequences.  The definitions keep Append and \o out of the provers' sight.   *)

Appended(r, s, x) == r = Append(s, x)
Joined(r, s, t) == r = s \o t
Cut(c, r, s, size) == c = Chunk(s, size) /\ r = Rest(s, size)

LEMMA AppendFacts ==
  ASSUME NEW S, NEW s \in Seq(S), NEW x \in S, NEW r, Appended(r, s, x)
  PROVE  /\ r \in Seq(S) /\ Len(s) \in Nat /\ Len(r) = Len(s) + 1 /\ r[Len(s) + 1] = x /\ r # <<>>
         /\ \A i \in 1..Len(s) : r[i] = s[i]
<1>1. Len(s) \in Nat
  BY LenProperties
<1>. QED  BY <1>1, AppendProperties DEF Appended

LEMMA JoinFacts ==
  ASSUME NEW S, NEW s \in Seq(S), NEW t \in Seq(S), NEW r, Joined(r, s, t)
  PROVE  /\ r \in Seq(S) /\ Len(s) \in Nat /\ Len(t) \in Nat /\ Len(r) = Len(s) + Len(t)
         /\ \A i \in 1..Len(s) : r[i] = s[i]
         /\ \A i \in 1..Len(t) : r[Len(s) + i] = t[i]
<1>1. Len(s) \in Nat /\ Len(t) \in Nat
  BY LenProperties
<1>2. /\ r \in Seq(S) /\ Len(r) = Len(s) + Len(t)
      /\ \A i \in 1..Len(s) + Len(t) : r[i] = IF i <= Len(s) THEN s[i] ELSE t[i - Len(s)]
  BY ConcatProperties DEF Joined
<1>3. ASSUME NEW i \in 1..Len(s) PROVE r[i] = s[i]
  BY <1>1, <1>2
<1>4. ASSUME NEW i \in 1..Len(t) PROVE r[Len(s) + i] = t[i]
  <2>1. Len(s) + i \in 1..Len(s) + Len(t) /\ ~(Len(s) + i <= Len(s)) /\ (Len(s) + i) - Len(s) = i
    BY <1>1
  <2>. QED  BY <1>2, <2>1
<1>. QED  BY <1>1, <1>2, <1>3, <1>4

LEMMA NonEmpty ==
  ASSUME NEW S, NEW s \in Seq(S)
  PROVE  /\ Len(s) \in Nat /\ (s = <<>> <=> Len(s) = 0)
         /\ s # <<>> => 1 \in 1..Len(s) /\ Head(s) = s[1] /\ s[1] \in S
<1>1. Len(s) \in Nat
  BY LenProperties
<1>2. s = <<>> <=> Len(s) = 0
  BY EmptySeq
<1>3. ASSUME s # <<>> PROVE 1 \in 1..Len(s) /\ Head(s) = s[1] /\ s[1] \in S
  <2>1. 1 \in 1..Len(s)
    BY <1>1, <1>2, <1>3
  <2>2. Head(s) = s[1]
    BY <1>3
  <2>. QED  BY <2>1, <2>2, ElementOfSeq
<1>. QED  BY <1>1, <1>2, <1>3

LEMMA TailFacts ==
  ASSUME NEW S, NEW s \in Seq(S), s # <<>>, NEW r, r = Tail(s)
  PROVE  /\ r \in Seq(S) /\ Len(s) \in Nat /\ Len(r) = Len(s) - 1 /\ Len(r) \in Nat
         /\ \A i \in 1..Len(r) : r[i] = s[i + 1]
<1>1. r \in Seq(S) /\ Len(r) = Len(s) - 1 /\ \A i \in 1..Len(r) : r[i] = s[i + 1]
  BY HeadTailProperties
<1>2. Len(s) \in Nat /\ Len(r) \in Nat
  BY <1>1, LenProperties
<1>. QED  BY <1>1, <1>2

(* One read: it gives a first part of the stream and leaves the rest. *)
LEMMA CutFacts ==
  ASSUME NEW S, NEW s \in Seq(S), NEW size \in Nat, NEW c, NEW r, Cut(c, r, s, size)
  PROVE  /\ c \in Seq(S) /\ r \in Seq(S) /\ Len(c) \in Nat /\ Len(r) \in Nat
         /\ Len(c) = (IF Len(s) < size THEN Len(s) ELSE size) /\ Len(c) + Len(r) = Len(s)
         /\ \A i \in 1..Len(c) : c[i] = s[i]
         /\ \A i \in 1..Len(r) : r[i] = s[Len(c) + i]
<1>. DEFINE m == IF Len(s) < size THEN Len(s) ELSE size
<1>1. Len(s) \in Nat /\ m \in Nat /\ m <= Len(s)
  BY LenProperties
<1>2. \A i \in 1..Len(s) : s[i] \in S
  BY ElementOfSeq
<1>3. c = SubSeq(s, 1, m)
  BY DEF Cut, Chunk
<1>. HIDE DEF m
<1>4. c \in Seq(S) /\ Len(c) = m /\ \A i \in 1..m : c[i] = s[i]
  <2>1. \A i \in 1..m : s[i] \in S
    BY <1>1, <1>2
  <2>2. /\ c \in Seq(S) /\ Len(c) = (IF 1 <= m THEN m - 1 + 1 ELSE 0)
        /\ \A i \in 1..m - 1 + 1 : c[i] = s[1 + i - 1]
    BY <1>1, <1>3, <2>1, SubSeqProperties
  <2>. QED  BY <1>1, <2>2
<1>5. r = SubSeq(s, m + 1, Len(s))
  BY <1>3, <1>4 DEF Cut, Rest
<1>6. r \in Seq(S) /\ Len(r) = Len(s) - m /\ \A i \in 1..Len(s) - m : r[i] = s[m + i]
  <2>1. \A i \in m + 1..Len(s) : s[i] \in S
    BY <1>1, <1>2
  <2>2. /\ r \in Seq(S) /\ Len(r) = (IF m + 1 <= Len(s) THEN Len(s) - (m + 1) + 1 ELSE 0)
        /\ \A i \in 1..Len(s) - (m + 1) + 1 : r[i] = s[(m + 1) + i - 1]
    BY <1>1, <1>5, <2>1, SubSeqProperties
  <2>. QED  BY <1>1, <2>2
<1>7. Len(c) \in Nat /\ Len(r) \in Nat /\ Len(c) + Len(r) = Len(s)
  BY <1>1, <1>4, <1>6
<1>. QED  BY <1>4, <1>6, <1>7 DEF m

(* The units of a message. *)
LEMMA UnitsFacts ==
  ASSUME NEW m, m.n \in Nat, NEW S, \A k \in 1..(m.n + 2) : [msg |-> m, k |-> k] \in S, NEW u, u = Units(m)
  PROVE  u \in Seq(S) /\ Len(u) = m.n + 2 /\ \A k \in 1..(m.n + 2) : u[k] = [msg |-> m, k |-> k]
<1>1. u = [k \in 1..(m.n + 2) |-> [msg |-> m, k |-> k]]
  BY DEF Units
<1>2. PICK l \in Nat : l = m.n + 2
  OBVIOUS
<1>3. u \in [1..l -> S]
  BY <1>1, <1>2
<1>4. u \in Seq(S)
  BY <1>3, SeqDef
<1>5. Len(u) \in Nat /\ DOMAIN u = 1..Len(u) /\ DOMAIN u = 1..l
  BY <1>3, <1>4, LenProperties
<1>6. Len(u) = l
  <2>1. 1..Len(u) = 1..l
    BY <1>5
  <2>2. l \in 1..l
    BY <1>2
  <2>3. l \in 1..Len(u)
    BY <2>1, <2>2
  <2>4. Len(u) \in 1..Len(u)
    BY <1>5, <2>3
  <2>5. Len(u) \in 1..l
    BY <2>1, <2>4
  <2>6. Len(u) \in Nat
    BY <1>5
  <2>7. Len(u) <= l /\ l <= Len(u)
    BY <2>3, <2>5, <2>6
  <2>. QED  BY <2>6, <2>7
<1>. QED  BY <1>1, <1>2, <1>4, <1>6

(* What two sequences must have in common for one to be a prefix of the other. *)
LEMMA PrefixFacts ==
  ASSUME NEW S, NEW s \in Seq(S), NEW t \in Seq(S), Len(s) <= Len(t), \A i \in 1..Len(s) : s[i] = t[i]
  PROVE  IsPrefix(s, t) /\ (Len(s) = Len(t) => s = t)
<1>1. Len(s) \in Nat /\ Len(t) \in Nat
  BY LenProperties
<1>2. SubSeq(s, 1, Len(s)) = s
  BY SubSeqFull
<1>3. PICK u : u = SubSeq(t, 1, Len(s))
  OBVIOUS
<1>4. \A i \in 1..Len(s) : t[i] \in S
  <2>1. \A i \in 1..Len(t) : t[i] \in S
    BY ElementOfSeq
  <2>. QED  BY <1>1, <2>1
<1>5. /\ u \in Seq(S) /\ Len(u) = (IF 1 <= Len(s) THEN Len(s) - 1 + 1 ELSE 0)
      /\ \A i \in 1..Len(s) - 1 + 1 : u[i] = t[1 + i - 1]
  BY <1>1, <1>3, <1>4, SubSeqProperties
<1>6. Len(u) = Len(s) /\ \A i \in 1..Len(s) : s[i] = u[i]
  BY <1>1, <1>5
<1>7. s = u
  BY <1>5, <1>6, SeqEqual
<1>8. Len(s) = Len(t) => s = t
  BY SeqEqual
<1>. QED  BY <1>2, <1>3, <1>7, <1>8 DEF IsPrefix

-----------------------------------------------------------------------------
(* Types.  What the daemon has written of its queue is all but finished. *)

ClientTypes ==
  /\ next_msg_id \in 0..MaxReq /\ waiting \in {NoCall} \cup Ids
  /\ sent \in Seq(Request) /\ Len(sent) = next_msg_id
  /\ \A i \in 1..Len(sent) : sent[i].id = i - 1
  /\ inbuf \in Seq(AnswerUnit) /\ got \in Seq(Gift) /\ returned \in Seq(Result)

DaemonTypes ==
  /\ atcmds \in Seq(Request) /\ handled \in Seq(Request)
  /\ finished \in Seq(Answer) /\ queued \in Seq(Answer)
  /\ wantWrite = (finished # <<>>)

Types ==
  /\ ClientTypes /\ DaemonTypes
  /\ c2d \in Seq(RequestUnit) /\ d2c \in Seq(AnswerUnit) /\ hist \subseteq Mishaps

LEMMA Constants ==
  /\ 0..(MaxReq - 1) \subseteq Ids /\ Ids \subseteq Nat /\ Sizes \subseteq Nat
  /\ DaemonBuf \in Nat \ {0} /\ WaitBuf \in Nat \ {0} /\ AppBuf \in Nat \ {0} /\ MaxReq \in Nat
BY StreamAssumption

LEMMA InitTypes == Init => Types
<1>. SUFFICES ASSUME Init PROVE Types
  OBVIOUS
<1>1. \A S : <<>> \in Seq(S)
  BY EmptySeq
<1>2. Len(<<>>) = 0
  OBVIOUS
<1>3. ClientTypes
  BY <1>1, <1>2, Constants DEF Init, ClientTypes
<1>4. DaemonTypes
  BY <1>1 DEF Init, DaemonTypes
<1>. QED  BY <1>1, <1>3, <1>4 DEF Init, Types

AnySend ==
  \/ \E n \in Sizes, blocking \in BOOLEAN : lgsm_passthrough_send("request", n, blocking)
  \/ \E blocking \in BOOLEAN : lgsm_passthrough_send("blank", 1, blocking)
AnyShort == finished # <<>> /\ \E n \in 1..(Head(finished).n + 1) : WriteShort(n)

LEMMA NextCases ==
  ASSUME [Next]_vars
  PROVE  \/ UNCHANGED vars \/ AnySend \/ EventLoop \/ lgsm_blocking_wait_packet \/ lgsm_handle_packet
         \/ ReadRequest \/ (usock_cmd_cb \/ \E id \in Ids : usock_evt_send(id))
         \/ (WriteMessage \/ AnyShort)
BY DEF Next, AnySend, AnyShort

LEMMA SendTypes ==
  ASSUME Types, NEW kind \in {"request", "blank"}, NEW n \in Nat, NEW blocking \in BOOLEAN,
         lgsm_passthrough_send(kind, n, blocking)
  PROVE  /\ Types'
         /\ \E m \in Request, u \in Seq(RequestUnit) :
               /\ m.id = Len(sent) /\ m.n = n /\ Appended(sent', sent, m) /\ Joined(c2d', c2d, u)
               /\ Len(u) = n + 2 /\ \A k \in 1..(n + 2) : u[k] = [msg |-> m, k |-> k]
<1>. DEFINE m == Msg(kind, next_msg_id, n)
            u == Units(m)
<1>1. n \in Nat /\ next_msg_id \in Nat /\ next_msg_id < MaxReq /\ MaxReq \in Nat
  BY Constants DEF Types, ClientTypes, lgsm_passthrough_send
<1>2. m \in Request /\ m.id = next_msg_id /\ m.n = n
  BY <1>1 DEF Msg, Request
<1>3. Appended(sent', sent, m) /\ Joined(c2d', c2d, u)
  BY DEF lgsm_passthrough_send, Appended, Joined
<1>. HIDE DEF m
<1>4. \A k \in 1..(m.n + 2) : [msg |-> m, k |-> k] \in RequestUnit
  BY <1>1, <1>2 DEF RequestUnit
<1>5. u \in Seq(RequestUnit) /\ Len(u) = m.n + 2 /\ \A k \in 1..(m.n + 2) : u[k] = [msg |-> m, k |-> k]
  BY <1>1, <1>2, <1>4, UnitsFacts
<1>. HIDE DEF u
<1>6. sent \in Seq(Request) /\ c2d \in Seq(RequestUnit) /\ Len(sent) = next_msg_id
  BY DEF Types, ClientTypes
<1>7. c2d' \in Seq(RequestUnit)
  BY <1>3, <1>5, <1>6, JoinFacts
<1>8. /\ sent' \in Seq(Request) /\ Len(sent') = Len(sent) + 1 /\ sent'[Len(sent) + 1] = m
      /\ \A i \in 1..Len(sent) : sent'[i] = sent[i]
  BY <1>2, <1>3, <1>6, AppendFacts
<1>9. ASSUME NEW i \in 1..Len(sent') PROVE sent'[i].id = i - 1
  <2>1. CASE i \in 1..Len(sent)
    BY <1>8, <2>1 DEF Types, ClientTypes
  <2>2. CASE i = Len(sent) + 1
    BY <1>1, <1>2, <1>6, <1>8, <2>2
  <2>. QED  BY <1>1, <1>6, <1>8, <2>1, <2>2
<1>10. /\ next_msg_id' = next_msg_id + 1 /\ waiting' \in {NoCall, next_msg_id}
       /\ inbuf' = inbuf /\ got' = got /\ returned' = returned /\ d2c' = d2c /\ hist' = hist
       /\ atcmds' = atcmds /\ finished' = finished /\ wantWrite' = wantWrite /\ handled' = handled /\ queued' = queued
  BY DEF lgsm_passthrough_send, daemon
<1>11. next_msg_id' \in 0..MaxReq /\ next_msg_id \in Ids
  BY <1>1, <1>10, Constants
<1>12. ClientTypes'
  BY <1>6, <1>8, <1>9, <1>10, <1>11 DEF Types, ClientTypes
<1>13. Types'
  BY <1>7, <1>10, <1>12 DEF Types, DaemonTypes
<1>14. m.id = Len(sent) /\ Len(u) = n + 2 /\ \A k \in 1..(n + 2) : u[k] = [msg |-> m, k |-> k]
  BY <1>2, <1>5, <1>6
<1>. QED  BY <1>2, <1>3, <1>5, <1>13, <1>14

LEMMA AnySendTypes == ASSUME Types, AnySend PROVE Types'
BY SendTypes, Constants DEF AnySend

LEMMA EventLoopTypes ==
  ASSUME Types, EventLoop PROVE Types' /\ inbuf = <<>> /\ Cut(inbuf', d2c', d2c, AppBuf)
<1>1. Cut(inbuf', d2c', d2c, AppBuf) /\ inbuf = <<>>
  BY DEF EventLoop, Cut
<1>2. inbuf' \in Seq(AnswerUnit) /\ d2c' \in Seq(AnswerUnit)
  BY <1>1, Constants, CutFacts DEF Types
<1>3. /\ next_msg_id' = next_msg_id /\ waiting' = waiting /\ sent' = sent /\ got' = got /\ returned' = returned
      /\ c2d' = c2d
      /\ atcmds' = atcmds /\ finished' = finished /\ wantWrite' = wantWrite /\ handled' = handled /\ queued' = queued
  BY DEF EventLoop, daemon
<1>4. hist' \subseteq Mishaps
  BY DEF EventLoop, Note, Types, Mishaps
<1>. QED  BY <1>1, <1>2, <1>3, <1>4 DEF Types, ClientTypes, DaemonTypes

(* A read of lgsm_blocking_wait_packet returns what it takes for the answer to *)
(* the call, or is left to lgsm_handle_packet.                                 *)
Matched(given, chunk) ==
  /\ inbuf' = <<>> /\ waiting' = NoCall /\ (HasHeader(chunk) => chunk[1].msg.id = waiting)
  /\ Appended(got', got, given) /\ Appended(returned', returned, [call |-> waiting, msg |-> given])
  /\ hist' = hist \cup Note("ahead", Len(chunk) > given.n + 2)
                  \cup Note("cut", Inside(d2c') \/ (~Inside(chunk) /\ given = Garbage))
                  \cup Note("chance", given.kind = "event")
Passed(chunk) ==
  /\ inbuf' = chunk /\ UNCHANGED <<waiting, got, returned>>
  /\ hist \subseteq hist' /\ hist' \subseteq hist \cup {"behind", "cut"} /\ (Inside(d2c') => "cut" \in hist')

(* One turn of lgsm_blocking_wait_packet's loop that reads chunk. *)
Waits(chunk) ==
  /\ Cut(chunk, d2c', d2c, WaitBuf) /\ d2c # <<>> /\ inbuf = <<>> /\ waiting # NoCall
  /\ d2c[1] \in AnswerUnit /\ chunk[1] = d2c[1] /\ chunk # <<>>
  /\ (Matched(Given(chunk, d2c[1].msg), chunk) \/ Passed(chunk))
  /\ UNCHANGED <<c2d, next_msg_id, sent, atcmds, finished, wantWrite, handled, queued>>

LEMMA WaitFacts ==
  ASSUME Types, lgsm_blocking_wait_packet PROVE \E chunk : Waits(chunk)
<1>. DEFINE chunk == Chunk(d2c, WaitBuf)
            given == Given(chunk, d2c[1].msg)
<1>1. PICK ok \in BOOLEAN : WaitRead(ok) /\ (HasHeader(chunk) => ok = (chunk[1].msg.id = waiting))
  BY DEF lgsm_blocking_wait_packet
<1>2. d2c # <<>>
  BY DEF lgsm_blocking_wait_packet
<1>3. Head(d2c) = d2c[1] /\ d2c[1] \in AnswerUnit /\ Len(d2c) \in Nat /\ 1 \in 1..Len(d2c)
  BY <1>2, NonEmpty DEF Types
<1>4. Cut(chunk, d2c', d2c, WaitBuf) /\ inbuf = <<>> /\ waiting # NoCall
  BY <1>1 DEF WaitRead, Cut
<1>5. UNCHANGED <<c2d, next_msg_id, sent, atcmds, finished, wantWrite, handled, queued>>
  BY <1>1 DEF WaitRead, daemon
<1>6. chunk[1] = d2c[1] /\ chunk # <<>>
  <2>1. /\ chunk \in Seq(AnswerUnit) /\ Len(chunk) \in Nat
        /\ Len(chunk) = (IF Len(d2c) < WaitBuf THEN Len(d2c) ELSE WaitBuf)
        /\ \A i \in 1..Len(chunk) : chunk[i] = d2c[i]
    BY <1>4, Constants, CutFacts DEF Types
  <2>. HIDE DEF chunk
  <2>2. 1 \in 1..Len(chunk)
    BY <1>3, <2>1, Constants
  <2>. QED  BY <2>1, <2>2, NonEmpty
<1>7. ASSUME ok PROVE Matched(given, chunk)
  BY <1>1, <1>3, <1>7 DEF WaitRead, Matched, Appended
<1>8. ASSUME ~ok PROVE Passed(chunk)
  BY <1>1, <1>3, <1>8 DEF WaitRead, Passed, Note
<1>9. Matched(given, chunk) \/ Passed(chunk)
  BY <1>7, <1>8
<1>. HIDE DEF chunk
<1>. QED  BY <1>2, <1>3, <1>4, <1>5, <1>6, <1>9 DEF Waits

LEMMA GivenFacts ==
  ASSUME NEW units, NEW m \in Answer, NEW g, g = Given(units, m)
  PROVE  g \in Gift /\ (g # Garbage => g = m /\ Complete(units, m)) /\ (Complete(units, m) => g = m)
BY DEF Given, Gift

LEMMA WaitTypes == ASSUME Types, lgsm_blocking_wait_packet PROVE Types'
<1>1. PICK chunk : Waits(chunk)
  BY WaitFacts
<1>2. chunk \in Seq(AnswerUnit) /\ d2c' \in Seq(AnswerUnit)
  BY <1>1, Constants, CutFacts DEF Types, Waits
<1>3. CASE Passed(chunk)
  BY <1>1, <1>2, <1>3 DEF Types, ClientTypes, DaemonTypes, Passed, Mishaps, Waits
<1>4. CASE Matched(Given(chunk, d2c[1].msg), chunk)
  <2>1. PICK g : g = Given(chunk, d2c[1].msg)
    OBVIOUS
  <2>2. g \in Gift /\ waiting \in Nat
    <3>1. d2c[1].msg \in Answer /\ waiting \in Nat
      BY <1>1, Constants DEF Types, ClientTypes, AnswerUnit, Waits
    <3>. QED  BY <2>1, <3>1, GivenFacts
  <2>3. [call |-> waiting, msg |-> g] \in Result
    BY <2>2 DEF Result
  <2>4. Matched(g, chunk)
    BY <1>4, <2>1
  <2>5. got' \in Seq(Gift) /\ returned' \in Seq(Result)
    BY <2>2, <2>3, <2>4, AppendFacts DEF Matched, Types, ClientTypes
  <2>6. inbuf' \in Seq(AnswerUnit)
    BY <2>4, EmptySeq DEF Matched
  <2>7. hist' \subseteq Mishaps
    BY <2>4 DEF Matched, Note, Types, Mishaps
  <2>. QED  BY <1>1, <1>2, <2>4, <2>5, <2>6, <2>7 DEF Types, ClientTypes, DaemonTypes, Matched, Waits
<1>. QED  BY <1>1, <1>3, <1>4 DEF Waits

(* A complete answer at the head of a read. *)
LEMMA CompleteFacts ==
  ASSUME NEW units, NEW m \in Answer, Complete(units, m), Len(units) \in Nat
  PROVE  /\ Len(units) >= 3 /\ units[1].k = 1 /\ units[2].k = 2 /\ units[3].k = 3 /\ units[1].msg = m
         /\ HasHeader(units)
<1>1. m.n = 1
  BY DEF Answer
<1>2. m.n + 2 = 3 /\ 1 \in 1..3 /\ 2 \in 1..3 /\ 3 \in 1..3
  BY <1>1
<1>3. /\ Len(units) >= 3 /\ units[1] = [msg |-> m, k |-> 1] /\ units[2] = [msg |-> m, k |-> 2]
      /\ units[3] = [msg |-> m, k |-> 3]
  BY <1>2 DEF Complete
<1>4. HasHeader(units)
  BY <1>3 DEF HasHeader
<1>. QED  BY <1>3, <1>4

(* A turn of lgsm_handle_packet's loop gives a complete message to a handler,  *)
(* or a read was cut.                                                          *)
Handles ==
  /\ inbuf # <<>> /\ inbuf[1] \in AnswerUnit
  /\ UNCHANGED <<c2d, d2c, next_msg_id, waiting, returned, sent, atcmds, finished, wantWrite, handled, queued>>
  /\ \/ /\ Complete(inbuf, inbuf[1].msg) /\ hist' = hist
        /\ Appended(got', got, inbuf[1].msg)
        /\ \E chunk : Cut(chunk, inbuf', inbuf, 3)
     \/ /\ got' \in Seq(Gift) /\ inbuf' \in Seq(AnswerUnit)
        /\ hist' = hist \cup {"cut"}

LEMMA HandleFacts ==
  ASSUME Types, lgsm_handle_packet PROVE Handles
<1>1. inbuf # <<>> /\ Head(inbuf) = inbuf[1] /\ inbuf[1] \in AnswerUnit /\ Len(inbuf) \in Nat
  BY NonEmpty DEF lgsm_handle_packet, Types, ClientTypes
<1>2. PICK m \in Answer : m = inbuf[1].msg
  BY <1>1 DEF AnswerUnit
<1>3. m.n = 1 /\ m.n + 2 = 3
  <2>1. m.n = 1
    BY DEF Answer
  <2>. QED  BY <2>1
<1>4. UNCHANGED <<c2d, d2c, next_msg_id, waiting, returned, sent, atcmds, finished, wantWrite, handled, queued>>
  BY DEF lgsm_handle_packet, daemon
<1>. DEFINE whole == HasHeader(inbuf) /\ Len(inbuf) >= m.n + 2
<1>5. /\ \/ whole /\ got' = Append(got, Given(inbuf, m)) /\ inbuf' = Rest(inbuf, m.n + 2)
         \/ ~HasHeader(inbuf) /\ \E n \in 2..Len(inbuf) : got' = Append(got, Garbage) /\ inbuf' = Rest(inbuf, n)
         \/ ~whole /\ inbuf' = <<>> /\ got' = got
      /\ hist' = hist \cup Note("cut", ~Complete(inbuf, m))
  BY <1>1, <1>2 DEF lgsm_handle_packet
<1>6. CASE Complete(inbuf, m)
  <2>1. HasHeader(inbuf) /\ Len(inbuf) >= 3 /\ whole
    BY <1>1, <1>3, <1>6, CompleteFacts
  <2>2. Given(inbuf, m) = m /\ hist' = hist
    BY <1>5, <1>6 DEF Given, Note
  <2>3. got' = Append(got, m) /\ inbuf' = Rest(inbuf, 3)
    BY <1>3, <1>5, <2>1, <2>2
  <2>4. Cut(Chunk(inbuf, 3), inbuf', inbuf, 3) /\ Appended(got', got, m)
    BY <2>3 DEF Cut, Appended
  <2>. QED  BY <1>1, <1>2, <1>4, <1>6, <2>2, <2>4 DEF Handles
<1>7. CASE ~Complete(inbuf, m)
  <2>1. hist' = hist \cup {"cut"}
    BY <1>5, <1>7 DEF Note
  <2>2. got \in Seq(Gift) /\ inbuf \in Seq(AnswerUnit)
    BY DEF Types, ClientTypes
  <2>3. ASSUME NEW n \in Nat, NEW g \in Gift, got' = Append(got, g), inbuf' = Rest(inbuf, n)
        PROVE  got' \in Seq(Gift) /\ inbuf' \in Seq(AnswerUnit)
    <3>1. Appended(got', got, g) /\ Cut(Chunk(inbuf, n), inbuf', inbuf, n)
      BY <2>3 DEF Appended, Cut
    <3>2. got' \in Seq(Gift)
      BY <2>2, <3>1, AppendFacts
    <3>3. inbuf' \in Seq(AnswerUnit)
      BY <2>2, <3>1, CutFacts
    <3>. QED  BY <3>2, <3>3
  <2>4. Garbage \in Gift /\ Given(inbuf, m) \in Gift /\ m.n + 2 \in Nat
    BY <1>3 DEF Given, Gift
  <2>5. <<>> \in Seq(AnswerUnit)
    BY EmptySeq
  <2>6. \A n \in 2..Len(inbuf) : n \in Nat
    BY <1>1
  <2>7. got' \in Seq(Gift) /\ inbuf' \in Seq(AnswerUnit)
    BY <1>5, <2>2, <2>3, <2>4, <2>5, <2>6
  <2>. QED  BY <1>1, <1>4, <2>1, <2>7 DEF Handles
<1>. QED  BY <1>6, <1>7

LEMMA HandleTypes == ASSUME Types, lgsm_handle_packet PROVE Types'
<1>1. Handles
  BY HandleFacts
<1>2. inbuf[1].msg \in Gift
  BY <1>1 DEF AnswerUnit, Handles, Gift
<1>3. got' \in Seq(Gift)
  BY <1>1, <1>2, AppendFacts DEF Types, ClientTypes, Handles
<1>4. inbuf' \in Seq(AnswerUnit)
  <2>1. ASSUME NEW chunk, Cut(chunk, inbuf', inbuf, 3) PROVE inbuf' \in Seq(AnswerUnit)
    BY <2>1, CutFacts DEF Types, ClientTypes
  <2>. QED  BY <1>1, <2>1 DEF Handles
<1>5. hist' \subseteq Mishaps
  BY <1>1 DEF Types, Mishaps, Handles
<1>. QED  BY <1>1, <1>3, <1>4, <1>5 DEF Types, ClientTypes, DaemonTypes, Handles

(* One read of the daemon: it takes the request at the head, or, if that has   *)
(* no header, none or a stray one.                                             *)
Takes(m) == Appended(handled', handled, m) /\ Appended(atcmds', atcmds, m)
Reads(chunk) ==
  /\ Cut(chunk, c2d', c2d, DaemonBuf) /\ c2d # <<>> /\ c2d[1] \in RequestUnit
  /\ \/ HasHeader(chunk) /\ c2d[1].k = 1 /\ Takes(c2d[1].msg)
     \/ ~HasHeader(chunk) /\ handled' = handled /\ atcmds' = atcmds
     \/ ~HasHeader(chunk) /\ \E m \in Request : Takes(m)
  /\ hist \subseteq hist' /\ hist' \subseteq hist \cup {"merged", "split", "blank"}
  /\ (HasHeader(chunk) /\ Len(chunk) > c2d[1].msg.n + 2) => "merged" \in hist'
  /\ (~HasHeader(chunk) \/ Len(chunk) < c2d[1].msg.n + 2) => "split" \in hist'
  /\ UNCHANGED <<d2c, finished, wantWrite, queued, next_msg_id, inbuf, waiting, got, returned, sent>>

LEMMA ReadFacts ==
  ASSUME Types, ReadRequest PROVE \E chunk : Reads(chunk)
<1>1. PICK chunk : chunk = Chunk(c2d, DaemonBuf)
  OBVIOUS
<1>2. Cut(chunk, c2d', c2d, DaemonBuf) /\ c2d # <<>>
  BY <1>1 DEF ReadRequest, Cut
<1>3. c2d[1] \in RequestUnit /\ Len(c2d) \in Nat /\ Len(c2d) >= 1 /\ Head(c2d) = c2d[1]
  BY <1>2, NonEmpty DEF Types
<1>4. chunk[1] = c2d[1]
  <2>1. /\ chunk \in Seq(RequestUnit) /\ Len(chunk) \in Nat
        /\ Len(chunk) = (IF Len(c2d) < DaemonBuf THEN Len(c2d) ELSE DaemonBuf)
        /\ \A i \in 1..Len(chunk) : chunk[i] = c2d[i]
    BY <1>2, Constants, CutFacts DEF Types
  <2>. QED  BY <1>3, <2>1, Constants
<1>5. /\ \/ HasHeader(chunk) /\ usock_rcv_passthrough(c2d[1].msg)
         \/ ~HasHeader(chunk) /\ UNCHANGED <<handled, atcmds>>
         \/ ~HasHeader(chunk) /\ \E id \in Ids : usock_rcv_passthrough(Msg("stray", id, 1))
      /\ hist' = hist \cup Note("merged", HasHeader(chunk) /\ Len(chunk) > c2d[1].msg.n + 2)
                      \cup Note("split", ~HasHeader(chunk) \/ Len(chunk) < c2d[1].msg.n + 2)
                      \cup Note("blank", HasHeader(chunk) /\ c2d[1].msg.kind = "blank")
  BY <1>1, <1>3 DEF ReadRequest
<1>6. UNCHANGED <<d2c, finished, wantWrite, queued, next_msg_id, inbuf, waiting, got, returned, sent>>
  BY DEF ReadRequest, client
<1>7. HasHeader(chunk) => c2d[1].k = 1
  BY <1>4 DEF HasHeader
<1>8. \A id \in Ids : Msg("stray", id, 1) \in Request
  BY Constants DEF Msg, Request
<1>9. \/ HasHeader(chunk) /\ c2d[1].k = 1 /\ Takes(c2d[1].msg)
      \/ ~HasHeader(chunk) /\ handled' = handled /\ atcmds' = atcmds
      \/ ~HasHeader(chunk) /\ \E m \in Request : Takes(m)
  BY <1>5, <1>7, <1>8 DEF usock_rcv_passthrough, Appended, Takes
<1>10. /\ hist \subseteq hist' /\ hist' \subseteq hist \cup {"merged", "split", "blank"}
       /\ (HasHeader(chunk) /\ Len(chunk) > c2d[1].msg.n + 2) => "merged" \in hist'
       /\ (~HasHeader(chunk) \/ Len(chunk) < c2d[1].msg.n + 2) => "split" \in hist'
  BY <1>5 DEF Note
<1>. QED  BY <1>2, <1>3, <1>6, <1>9, <1>10 DEF Reads

LEMMA ReadTypes == ASSUME Types, ReadRequest PROVE Types'
<1>1. PICK chunk : Reads(chunk)
  BY ReadFacts
<1>2. c2d' \in Seq(RequestUnit)
  BY <1>1, Constants, CutFacts DEF Types, Reads
<1>3. c2d[1].msg \in Request
  BY <1>1 DEF RequestUnit, Reads
<1>4. ASSUME NEW m \in Request, Takes(m) PROVE handled' \in Seq(Request) /\ atcmds' \in Seq(Request)
  BY <1>4, AppendFacts DEF Types, DaemonTypes, Takes
<1>5. handled' \in Seq(Request) /\ atcmds' \in Seq(Request)
  BY <1>1, <1>3, <1>4 DEF Types, DaemonTypes, Reads
<1>6. hist' \subseteq Mishaps
  BY <1>1 DEF Types, Mishaps, Reads
<1>. QED  BY <1>1, <1>2, <1>5, <1>6 DEF Types, ClientTypes, DaemonTypes, Reads

LEMMA EnqueueFacts ==
  ASSUME Types, NEW m \in Answer, usock_cmd_enqueue(m)
  PROVE  /\ Appended(finished', finished, m) /\ Appended(queued', queued, m)
         /\ finished' \in Seq(Answer) /\ queued' \in Seq(Answer) /\ wantWrite' = (finished' # <<>>)
<1>1. Appended(finished', finished, m) /\ Appended(queued', queued, m) /\ wantWrite' = TRUE
  BY DEF usock_cmd_enqueue, Appended
<1>2. finished' \in Seq(Answer) /\ queued' \in Seq(Answer) /\ finished' # <<>>
  BY <1>1, AppendFacts DEF Types, DaemonTypes
<1>. QED  BY <1>1, <1>2

(* A message is put into finished_ucmds. *)
Queues(m) ==
  /\ m \in Answer
  /\ (m.kind = "stray" => atcmds # <<>> /\ atcmds[1].kind = "stray")
  /\ (atcmds' = atcmds \/ (atcmds # <<>> /\ atcmds' = Tail(atcmds)))
  /\ Appended(finished', finished, m) /\ Appended(queued', queued, m)
  /\ UNCHANGED <<c2d, d2c, handled, next_msg_id, inbuf, waiting, got, returned, sent, hist>>

LEMMA QueueTypes ==
  ASSUME Types, usock_cmd_cb \/ \E id \in Ids : usock_evt_send(id)
  PROVE  Types' /\ \E m : Queues(m)
<1>1. CASE usock_cmd_cb
  <2>. DEFINE m == Msg(IF Head(atcmds).kind = "stray" THEN "stray" ELSE "reply", Head(atcmds).id, 1)
  <2>1. atcmds \in Seq(Request) /\ atcmds # <<>> /\ atcmds' = Tail(atcmds)
    BY <1>1 DEF usock_cmd_cb, Types, DaemonTypes
  <2>2. Head(atcmds) \in Request /\ atcmds' \in Seq(Request)
    BY <2>1, HeadTailProperties
  <2>3. m \in Answer
    BY <2>2 DEF Msg, Answer, Request
  <2>4. usock_cmd_enqueue(m)
    BY <1>1 DEF usock_cmd_cb
  <2>5. m.kind = "stray" => atcmds[1].kind = "stray"
    <3>1. Head(atcmds) = atcmds[1]
      BY <2>1, NonEmpty
    <3>. QED  BY <3>1 DEF Msg
  <2>. HIDE DEF m
  <2>6. /\ Appended(finished', finished, m) /\ Appended(queued', queued, m)
        /\ finished' \in Seq(Answer) /\ queued' \in Seq(Answer) /\ wantWrite' = (finished' # <<>>)
    BY <2>3, <2>4, EnqueueFacts
  <2>7. UNCHANGED <<c2d, d2c, handled, next_msg_id, inbuf, waiting, got, returned, sent, hist>>
    BY <1>1 DEF usock_cmd_cb, client
  <2>8. Types'
    BY <2>2, <2>6, <2>7 DEF Types, ClientTypes, DaemonTypes
  <2>. QED  BY <2>1, <2>3, <2>6, <2>7, <2>8, <2>5 DEF Queues
<1>2. ASSUME NEW id \in Ids, usock_evt_send(id) PROVE Types' /\ \E m : Queues(m)
  <2>. DEFINE m == Msg("event", id, 1)
  <2>1. m \in Answer /\ m.kind # "stray"
    BY Constants DEF Msg, Answer
  <2>2. usock_cmd_enqueue(m)
    BY <1>2 DEF usock_evt_send
  <2>. HIDE DEF m
  <2>3. /\ Appended(finished', finished, m) /\ Appended(queued', queued, m)
        /\ finished' \in Seq(Answer) /\ queued' \in Seq(Answer) /\ wantWrite' = (finished' # <<>>)
    BY <2>1, <2>2, EnqueueFacts
  <2>4. UNCHANGED <<c2d, d2c, handled, atcmds, next_msg_id, inbuf, waiting, got, returned, sent, hist>>
    BY <1>2 DEF usock_evt_send, client
  <2>5. Types'
    BY <2>3, <2>4 DEF Types, ClientTypes, DaemonTypes
  <2>. QED  BY <2>1, <2>3, <2>4, <2>5 DEF Queues
<1>. QED  BY <1>1, <1>2

(* The first finished message is written, in full or without its last units. *)
Writes(m, u) ==
  /\ m \in Answer /\ finished # <<>> /\ m = finished[1] /\ u \in Seq(AnswerUnit) /\ Joined(d2c', d2c, u)
  /\ Len(u) \in {1, 2, 3} /\ \A i \in 1..Len(u) : u[i] = [msg |-> m, k |-> i]
  /\ finished' = IF Len(u) = 3 THEN Tail(finished) ELSE finished
  /\ UNCHANGED <<c2d, handled, atcmds, queued, next_msg_id, inbuf, waiting, got, returned, sent, hist>>

LEMMA WriteTypes ==
  ASSUME Types, WriteMessage \/ AnyShort
  PROVE  Types' /\ \E m, u : Writes(m, u)
<1>. DEFINE m == finished[1]
            v == Units(m)
<1>1. finished # <<>> /\ finished \in Seq(Answer)
  BY DEF WriteMessage, Types, DaemonTypes, AnyShort
<1>2. m \in Answer /\ Head(finished) = m
  BY <1>1, NonEmpty
<1>3. m.n = 1 /\ m.n \in Nat /\ m.n + 2 = 3 /\ m.n + 1 = 2
  <2>1. m.n = 1
    BY <1>2 DEF Answer
  <2>. QED  BY <2>1
<1>. HIDE DEF m
<1>4. \A k \in 1..(m.n + 2) : [msg |-> m, k |-> k] \in AnswerUnit
  <2>1. \A k \in 1..(m.n + 2) : k \in {1, 2, 3}
    BY <1>3
  <2>. QED  BY <1>2, <2>1 DEF AnswerUnit
<1>5. v \in Seq(AnswerUnit) /\ Len(v) = m.n + 2 /\ \A k \in 1..(m.n + 2) : v[k] = [msg |-> m, k |-> k]
  BY <1>3, <1>4, UnitsFacts
<1>. HIDE DEF v
<1>6. Len(v) = 3 /\ \A k \in 1..3 : v[k] = [msg |-> m, k |-> k]
  BY <1>3, <1>5
<1>7. CASE WriteMessage
  <2>1. Joined(d2c', d2c, v) /\ finished' = Tail(finished) /\ wantWrite' = (Len(finished) > 1)
    BY <1>2, <1>7 DEF WriteMessage, Joined, v
  <2>2. UNCHANGED <<c2d, atcmds, handled, queued, next_msg_id, inbuf, waiting, got, returned, sent, hist>>
    BY <1>7 DEF WriteMessage, client
  <2>3. finished' \in Seq(Answer) /\ Len(finished') = Len(finished) - 1 /\ Len(finished) \in Nat
    BY <1>1, <2>1, TailFacts
  <2>4. d2c' \in Seq(AnswerUnit)
    BY <1>5, <2>1, JoinFacts DEF Types
  <2>5. wantWrite' = (finished' # <<>>)
    <3>1. finished' = <<>> <=> Len(finished') = 0
      BY <2>3, NonEmpty
    <3>2. Len(finished) >= 1
      BY <1>1, NonEmpty
    <3>3. Len(finished) > 1 <=> Len(finished') # 0
      BY <2>3, <3>2
    <3>. QED  BY <2>1, <3>1, <3>3
  <2>6. Types'
    BY <2>2, <2>3, <2>4, <2>5 DEF Types, ClientTypes, DaemonTypes
  <2>7. Writes(m, v)
    BY <1>1, <1>2, <1>5, <1>6, <2>1, <2>2 DEF Writes, m
  <2>. QED  BY <2>6, <2>7
<1>8. ASSUME NEW n \in 1..(Head(finished).n + 1), WriteShort(n) PROVE Types' /\ \E mm, u : Writes(mm, u)
  <2>1. n \in {1, 2}
    BY <1>2, <1>3
  <2>2. PICK u : u = SubSeq(v, 1, n)
    OBVIOUS
  <2>3. Joined(d2c', d2c, u)
    BY <1>2, <1>8, <2>2 DEF WriteShort, Joined, v
  <2>4. UNCHANGED <<c2d, atcmds, handled, queued, next_msg_id, inbuf, waiting, got, returned, sent, hist,
                    finished, wantWrite>>
    BY <1>8 DEF WriteShort, client, daemon
  <2>5. u \in Seq(AnswerUnit) /\ Len(u) = n /\ \A i \in 1..n : u[i] = [msg |-> m, k |-> i]
    <3>1. ASSUME NEW i \in 1..n PROVE v[i] \in AnswerUnit /\ v[i] = [msg |-> m, k |-> i]
      <4>1. i \in 1..3
        BY <2>1
      <4>2. v[i] = [msg |-> m, k |-> i]
        BY <1>6, <4>1
      <4>. QED  BY <1>3, <1>4, <4>1, <4>2
    <3>2. /\ u \in Seq(AnswerUnit) /\ Len(u) = (IF 1 <= n THEN n - 1 + 1 ELSE 0)
          /\ \A i \in 1..n - 1 + 1 : u[i] = v[1 + i - 1]
      <4>1. n \in Nat
        BY <2>1
      <4>2. \A i \in 1..n : v[i] \in AnswerUnit
        BY <3>1
      <4>. QED  BY <2>2, <4>1, <4>2, SubSeqProperties
    <3>3. n - 1 + 1 = n /\ 1 <= n
      BY <2>1
    <3>4. ASSUME NEW i \in 1..n PROVE u[i] = v[i]
      <4>1. i \in 1..n - 1 + 1 /\ 1 + i - 1 = i
        BY <2>1, <3>3
      <4>. QED  BY <3>2, <4>1
    <3>. QED  BY <3>1, <3>2, <3>3, <3>4
  <2>6. d2c' \in Seq(AnswerUnit)
    BY <2>3, <2>5, JoinFacts DEF Types
  <2>7. Types'
    BY <2>4, <2>6 DEF Types, ClientTypes, DaemonTypes
  <2>8. Writes(m, u)
    BY <1>1, <1>2, <2>1, <2>3, <2>4, <2>5 DEF Writes, m
  <2>. QED  BY <2>7, <2>8
<1>. QED  BY <1>7, <1>8 DEF AnyShort

LEMMA NextTypes == Types /\ [Next]_vars => Types'
<1>. SUFFICES ASSUME Types, [Next]_vars PROVE Types'
  OBVIOUS
<1>1. CASE UNCHANGED vars
  BY <1>1 DEF vars, Types, ClientTypes, DaemonTypes
<1>. QED  BY <1>1, AnySendTypes, EventLoopTypes, WaitTypes, HandleTypes, ReadTypes, QueueTypes, WriteTypes, NextCases

LEMMA AlwaysTypes == Spec => []Types
BY InitTypes, NextTypes, PTL DEF Spec

(* Type correctness of the socket model: the daemon watches the socket for     *)
(* writing exactly when it has a message for the client.                       *)
THEOREM StreamTyped == Spec => []TypeOK
<1>1. Types => TypeOK
  BY Constants DEF Types, ClientTypes, DaemonTypes, TypeOK
<1>. QED  BY <1>1, AlwaysTypes, PTL

-----------------------------------------------------------------------------
(* What a blocking call returns.  As long as no read of the client was cut,    *)
(* the stream to it starts with a header; as long as no read of the daemon was *)
(* split, nothing on the way to the client answers bytes that were no request. *)

PlainRequest == [kind : {"request", "blank"}, id : Nat, n : Nat]
PlainAnswer == [kind : {"reply", "event"}, id : Nat, n : {1}]
PlainUnit == [msg : PlainAnswer, k : {1, 2, 3}]

Aligned == "cut" \notin hist => ~Inside(d2c)
Sendings == c2d \in Seq([msg : PlainRequest, k : Nat])
NoStray ==
  "split" \notin hist =>
     atcmds \in Seq(PlainRequest) /\ finished \in Seq(PlainAnswer) /\ d2c \in Seq(PlainUnit)
OInv == Aligned /\ Sendings /\ NoStray /\ OwnAnswer

LEMMA Retype ==
  ASSUME NEW S, NEW T, NEW s \in Seq(S), \A i \in 1..Len(s) : s[i] \in T
  PROVE  s \in Seq(T)
<1>1. s \in [1..Len(s) -> S] /\ Len(s) \in Nat
  BY LenProperties
<1>2. s \in [1..Len(s) -> T]
  BY <1>1
<1>. QED  BY <1>1, <1>2, SeqDef

(* A step that leaves alone all these invariants are about. *)
LEMMA KeepOwn ==
  ASSUME OInv, UNCHANGED <<d2c, c2d, atcmds, finished, returned>>, hist \subseteq hist'
  PROVE  OInv'
BY DEF OInv, Aligned, Inside, Sendings, NoStray, OwnAnswer

LEMMA SendOwn ==
  ASSUME Types, OInv, NEW kind \in {"request", "blank"}, NEW n \in Nat, NEW blocking \in BOOLEAN,
         lgsm_passthrough_send(kind, n, blocking)
  PROVE  OInv'
<1>1. UNCHANGED <<d2c, atcmds, finished, returned, hist>>
  BY DEF lgsm_passthrough_send, daemon
<1>2. PICK m : m = Msg(kind, next_msg_id, n)
  OBVIOUS
<1>3. m \in PlainRequest /\ m.n = n
  BY <1>2 DEF Types, ClientTypes, Msg, PlainRequest
<1>4. PICK u : u = Units(m)
  OBVIOUS
<1>5. Joined(c2d', c2d, u)
  BY <1>2, <1>4 DEF lgsm_passthrough_send, Joined
<1>6. \A k \in 1..(m.n + 2) : [msg |-> m, k |-> k] \in [msg : PlainRequest, k : Nat]
  BY <1>3
<1>7. u \in Seq([msg : PlainRequest, k : Nat])
  BY <1>3, <1>4, <1>6, UnitsFacts
<1>8. Sendings'
  BY <1>5, <1>7, JoinFacts DEF OInv, Sendings
<1>. QED  BY <1>1, <1>8 DEF OInv, Aligned, Inside, NoStray, OwnAnswer

LEMMA EventLoopOwn == ASSUME Types, OInv, EventLoop PROVE OInv'
<1>1. UNCHANGED <<c2d, atcmds, finished, returned>>
  BY DEF EventLoop, daemon
<1>2. hist \subseteq hist' /\ (Inside(d2c') => "cut" \in hist')
  BY DEF EventLoop, Note
<1>3. Cut(inbuf', d2c', d2c, AppBuf)
  BY EventLoopTypes
<1>4. d2c \in Seq(PlainUnit) => d2c' \in Seq(PlainUnit)
  BY <1>3, Constants, CutFacts
<1>5. Aligned'
  BY <1>2 DEF Aligned, Inside
<1>. QED  BY <1>1, <1>2, <1>4, <1>5 DEF OInv, Sendings, NoStray, OwnAnswer

LEMMA WaitOwn == ASSUME Types, OInv, lgsm_blocking_wait_packet PROVE OInv'
<1>1. PICK chunk : Waits(chunk)
  BY WaitFacts
<1>2. UNCHANGED <<c2d, atcmds, finished>> /\ Cut(chunk, d2c', d2c, WaitBuf)
  BY <1>1 DEF Waits
<1>3. d2c \in Seq(PlainUnit) => d2c' \in Seq(PlainUnit)
  BY <1>2, Constants, CutFacts
<1>4. hist \subseteq hist' /\ (Inside(d2c') => "cut" \in hist')
  BY <1>1 DEF Waits, Matched, Passed, Note
<1>5. Aligned' /\ Sendings' /\ NoStray'
  BY <1>2, <1>3, <1>4 DEF OInv, Aligned, Inside, Sendings, NoStray
<1>6. OwnAnswer'
  <2>1. CASE Passed(chunk)
    BY <1>4, <2>1 DEF OInv, OwnAnswer, Passed
  <2>2. CASE Matched(Given(chunk, d2c[1].msg), chunk)
    <3>. SUFFICES ASSUME hist' \cap {"cut", "chance", "split"} = {}, NEW i \in 1..Len(returned')
                  PROVE  returned'[i].msg.kind = "reply" /\ returned'[i].msg.id = returned'[i].call
      BY DEF OwnAnswer
    <3>1. PICK g : g = Given(chunk, d2c[1].msg)
      OBVIOUS
    <3>2. Matched(g, chunk)
      BY <2>2, <3>1
    <3>3. PICK m \in Answer : m = d2c[1].msg
      BY <1>1 DEF Waits, AnswerUnit
    <3>4. g \in Gift /\ (g # Garbage => g = m /\ Complete(chunk, m))
      BY <3>1, <3>3, GivenFacts
    <3>5. ~Inside(d2c) /\ chunk # <<>> /\ chunk[1] = d2c[1] /\ d2c # <<>>
      BY <1>1, <1>4 DEF OInv, Aligned, Waits
    <3>6. ~Inside(chunk)
      BY <3>5 DEF Inside
    <3>7. g # Garbage /\ g.kind # "event"
      BY <3>2, <3>6 DEF Matched, Note
    <3>8. g = m /\ Complete(chunk, m) /\ Len(chunk) \in Nat
      BY <1>2, <3>4, <3>7, Constants, CutFacts DEF Types
    <3>9. HasHeader(chunk)
      BY <3>8, CompleteFacts
    <3>10. g.id = waiting
      BY <3>2, <3>3, <3>5, <3>8, <3>9 DEF Matched
    <3>11. g.kind = "reply"
      <4>1. d2c \in Seq(PlainUnit)
        BY <1>4 DEF OInv, NoStray
      <4>2. d2c[1] \in PlainUnit
        BY <3>5, <4>1, NonEmpty
      <4>3. g \in PlainAnswer
        BY <3>3, <3>8, <4>2 DEF PlainUnit
      <4>. QED  BY <3>7, <4>3 DEF PlainAnswer
    <3>12. waiting \in Nat
      BY <1>1, Constants DEF Types, ClientTypes, Waits
    <3>13. [call |-> waiting, msg |-> g] \in Result
      BY <3>4, <3>12 DEF Result
    <3>14. /\ Len(returned) \in Nat /\ Len(returned') = Len(returned) + 1
           /\ returned'[Len(returned) + 1] = [call |-> waiting, msg |-> g]
           /\ \A j \in 1..Len(returned) : returned'[j] = returned[j]
      BY <3>2, <3>13, AppendFacts DEF Matched, Types, ClientTypes
    <3>15. CASE i \in 1..Len(returned)
      BY <1>4, <3>14, <3>15 DEF OInv, OwnAnswer
    <3>16. CASE i = Len(returned) + 1
      BY <3>10, <3>11, <3>14, <3>16
    <3>. QED  BY <3>14, <3>15, <3>16
  <2>. QED  BY <1>1, <2>1, <2>2 DEF Waits
<1>. QED  BY <1>5, <1>6 DEF OInv

LEMMA ReadOwn == ASSUME Types, OInv, ReadRequest PROVE OInv'
<1>1. PICK chunk : Reads(chunk)
  BY ReadFacts
<1>2. /\ UNCHANGED <<d2c, finished, returned>> /\ hist \subseteq hist'
      /\ Cut(chunk, c2d', c2d, DaemonBuf) /\ c2d # <<>>
  BY <1>1 DEF Reads
<1>3. Sendings'
  BY <1>2, Constants, CutFacts DEF OInv, Sendings
<1>4. ASSUME "split" \notin hist' PROVE atcmds' \in Seq(PlainRequest)
  <2>1. atcmds \in Seq(PlainRequest)
    BY <1>2, <1>4 DEF OInv, NoStray
  <2>2. Takes(c2d[1].msg)
    BY <1>1, <1>4 DEF Reads
  <2>3. c2d[1] \in [msg : PlainRequest, k : Nat]
    BY <1>2, NonEmpty DEF OInv, Sendings
  <2>4. c2d[1].msg \in PlainRequest
    BY <2>3
  <2>. QED  BY <2>1, <2>2, <2>4, AppendFacts DEF Takes
<1>. QED  BY <1>2, <1>3, <1>4 DEF OInv, Aligned, Inside, NoStray, OwnAnswer

LEMMA QueueOwn == ASSUME Types, OInv, NEW m, Queues(m) PROVE OInv'
<1>1. UNCHANGED <<c2d, d2c, returned, hist>> /\ m \in Answer /\ Appended(finished', finished, m)
  BY DEF Queues
<1>2. ASSUME "split" \notin hist' PROVE atcmds' \in Seq(PlainRequest) /\ finished' \in Seq(PlainAnswer)
  <2>1. atcmds \in Seq(PlainRequest) /\ finished \in Seq(PlainAnswer)
    BY <1>1, <1>2 DEF OInv, NoStray
  <2>2. atcmds' \in Seq(PlainRequest)
    BY <2>1, TailFacts DEF Queues
  <2>3. atcmds # <<>> => atcmds[1] \in PlainRequest
    BY <2>1, NonEmpty
  <2>4. m.kind # "stray"
    BY <2>3 DEF Queues, PlainRequest
  <2>5. m \in PlainAnswer
    BY <1>1, <2>4 DEF Answer, PlainAnswer
  <2>. QED  BY <1>1, <2>1, <2>2, <2>5, AppendFacts
<1>. QED  BY <1>1, <1>2 DEF OInv, Aligned, Inside, Sendings, NoStray, OwnAnswer

LEMMA WriteOwn == ASSUME Types, OInv, NEW m, NEW u, Writes(m, u) PROVE OInv'
<1>1. /\ UNCHANGED <<c2d, atcmds, returned, hist>> /\ finished # <<>> /\ m = finished[1]
      /\ u \in Seq(AnswerUnit) /\ Joined(d2c', d2c, u) /\ d2c \in Seq(AnswerUnit)
      /\ Len(u) \in {1, 2, 3} /\ \A i \in 1..Len(u) : u[i] = [msg |-> m, k |-> i]
      /\ (finished' = Tail(finished) \/ finished' = finished)
  BY DEF Writes, Types
<1>2. PICK l \in {1, 2, 3} : l = Len(u)
  BY <1>1
<1>3. Aligned'
  <2>1. /\ d2c' \in Seq(AnswerUnit) /\ Len(d2c) \in Nat /\ Len(u) \in Nat
        /\ \A i \in 1..Len(d2c) : d2c'[i] = d2c[i]
        /\ \A i \in 1..Len(u) : d2c'[Len(d2c) + i] = u[i]
    BY <1>1, JoinFacts
  <2>2. CASE d2c = <<>>
    <3>1. Len(d2c) = 0 /\ Len(d2c) + 1 = 1
      BY <2>2
    <3>2. 1 \in 1..Len(u)
      BY <1>2
    <3>3. d2c'[Len(d2c) + 1] = u[1]
      BY <2>1, <3>2
    <3>4. u[1] = [msg |-> m, k |-> 1]
      BY <1>1, <3>2
    <3>5. d2c'[1].k = 1
      BY <3>1, <3>3, <3>4
    <3>. QED  BY <3>5 DEF Aligned, Inside
  <2>3. CASE d2c # <<>>
    <3>1. 1 \in 1..Len(d2c)
      BY <1>1, <2>3, NonEmpty
    <3>2. d2c'[1] = d2c[1]
      BY <2>1, <3>1
    <3>. QED  BY <1>1, <2>3, <3>2 DEF OInv, Aligned, Inside
  <2>. QED  BY <2>2, <2>3
<1>4. ASSUME "split" \notin hist' PROVE finished' \in Seq(PlainAnswer) /\ d2c' \in Seq(PlainUnit)
  <2>1. finished \in Seq(PlainAnswer) /\ d2c \in Seq(PlainUnit)
    BY <1>1, <1>4 DEF OInv, NoStray
  <2>2. m \in PlainAnswer
    BY <1>1, <2>1, NonEmpty
  <2>3. \A i \in 1..l : i \in {1, 2, 3}
    OBVIOUS
  <2>4. ASSUME NEW i \in 1..Len(u) PROVE u[i] \in PlainUnit
    <3>1. i \in {1, 2, 3} /\ u[i] = [msg |-> m, k |-> i]
      BY <1>1, <1>2, <2>3
    <3>. QED  BY <2>2, <3>1 DEF PlainUnit
  <2>5. u \in Seq(PlainUnit)
    BY <1>1, <2>4, Retype
  <2>6. d2c' \in Seq(PlainUnit)
    BY <1>1, <2>1, <2>5, JoinFacts
  <2>7. finished' \in Seq(PlainAnswer)
    BY <1>1, <2>1, TailFacts
  <2>. QED  BY <2>6, <2>7
<1>. QED  BY <1>1, <1>3, <1>4 DEF OInv, Sendings, NoStray, OwnAnswer

LEMMA OInvStep == Types /\ OInv /\ [Next]_vars => OInv'
<1>. SUFFICES ASSUME Types, OInv, [Next]_vars PROVE OInv'
  OBVIOUS
<1>1. CASE UNCHANGED vars
  BY <1>1, KeepOwn DEF vars
<1>2. CASE AnySend
  BY <1>2, SendOwn, Constants DEF AnySend
<1>3. CASE lgsm_handle_packet
  BY <1>3, HandleFacts, KeepOwn DEF Handles
<1>4. CASE usock_cmd_cb \/ \E id \in Ids : usock_evt_send(id)
  BY <1>4, QueueTypes, QueueOwn
<1>5. CASE WriteMessage \/ AnyShort
  BY <1>5, WriteTypes, WriteOwn
<1>. QED  BY <1>1, <1>2, <1>3, <1>4, <1>5, EventLoopOwn, WaitOwn, ReadOwn, NextCases

(* lgsm_blocking_wait_packet compares the id field of whatever its read begins *)
(* with: a blocking call still returns the whole answer to its own request,    *)
(* for any buffer sizes and any number of messages, as long as no read of the  *)
(* client ended inside a message or held one that was cut off, no event had    *)
(* its id by chance, and no read of the daemon was split.                      *)
THEOREM CallsOwnAnswer == Spec => []OwnAnswer
<1>1. Init => OInv
  <2>. SUFFICES ASSUME Init PROVE OInv
    OBVIOUS
  <2>1. \A S : <<>> \in Seq(S)
    BY EmptySeq
  <2>2. Aligned /\ OwnAnswer
    BY DEF Init, OwnAnswer, Aligned, Inside
  <2>3. Sendings /\ NoStray
    BY <2>1 DEF Init, Sendings, NoStray
  <2>. QED  BY <2>2, <2>3 DEF OInv
<1>2. OInv => OwnAnswer
  BY DEF OInv
<1>. QED  BY <1>1, <1>2, OInvStep, AlwaysTypes, PTL DEF Spec

-----------------------------------------------------------------------------
(* The requests.  While no read of the daemon was merged or split, the stream  *)
(* holds the requests that were sent and not handled, whole and in order: it   *)
(* starts with the header of the next one, every header is followed by its     *)
(* payload and then by the header of the next request, and the last one is the *)
(* last one sent.                                                              *)

Follows(i) ==
  LET m == c2d[i].msg
      end == i + (m.n + 1)
  IN  /\ end <= Len(c2d)
      /\ end = Len(c2d) => m.id + 1 = Len(sent)
      /\ end < Len(c2d) => c2d[end + 1].k = 1 /\ c2d[end + 1].msg.id = m.id + 1

Handled == Len(handled) <= Len(sent) /\ \A i \in 1..Len(handled) : handled[i] = sent[i]
Begins ==
  /\ Len(c2d) = 0 => Len(handled) = Len(sent)
  /\ Len(c2d) # 0 => c2d[1].k = 1 /\ c2d[1].msg.id = Len(handled)
Pending == \A i \in 1..Len(c2d) : c2d[i].msg.id < Len(sent) /\ c2d[i].msg = sent[c2d[i].msg.id + 1]
Framed == \A i \in 1..Len(c2d) : c2d[i].k = 1 => Follows(i)

Unmixed == hist \cap {"merged", "split"} = {}
QInv == Unmixed => Handled /\ Begins /\ Pending /\ Framed

LEMMA UnitFacts ==
  ASSUME Types, NEW i \in 1..Len(c2d)
  PROVE  c2d[i].msg \in Request /\ c2d[i].msg.n \in Nat /\ c2d[i].msg.id \in Nat /\ c2d[i].k \in Nat
<1>1. c2d[i] \in RequestUnit
  BY ElementOfSeq DEF Types
<1>2. c2d[i].msg \in Request /\ c2d[i].k \in Nat
  BY <1>1 DEF RequestUnit
<1>. QED  BY <1>2 DEF Request

LEMMA LenFacts ==
  ASSUME Types PROVE Len(c2d) \in Nat /\ Len(sent) \in Nat /\ Len(handled) \in Nat
BY LenProperties DEF Types, ClientTypes, DaemonTypes

LEMMA SendRequest ==
  ASSUME Types, QInv, NEW kind \in {"request", "blank"}, NEW n \in Nat, NEW blocking \in BOOLEAN,
         lgsm_passthrough_send(kind, n, blocking)
  PROVE  QInv'
<1>. SUFFICES ASSUME Unmixed' PROVE (Handled /\ Begins /\ Pending /\ Framed)'
  BY DEF QInv
<1>1. hist' = hist /\ handled' = handled
  BY DEF lgsm_passthrough_send, daemon
<1>2. Handled /\ Begins /\ Pending /\ Framed
  BY <1>1 DEF QInv, Unmixed
<1>3. PICK m \in Request, u \in Seq(RequestUnit) :
               /\ m.id = Len(sent) /\ m.n = n /\ Appended(sent', sent, m) /\ Joined(c2d', c2d, u)
               /\ Len(u) = n + 2 /\ \A k \in 1..(n + 2) : u[k] = [msg |-> m, k |-> k]
  BY SendTypes
<1>4. n \in Nat /\ Len(c2d) \in Nat /\ Len(sent) \in Nat /\ Len(handled) \in Nat
  BY Constants, LenFacts
<1>5. /\ Len(sent') = Len(sent) + 1 /\ sent'[Len(sent) + 1] = m
      /\ \A i \in 1..Len(sent) : sent'[i] = sent[i]
  <2>1. sent \in Seq(Request) /\ Appended(sent', sent, m)
    BY <1>3 DEF Types, ClientTypes
  <2>. QED  BY <2>1, AppendFacts
<1>6. /\ Len(c2d') = Len(c2d) + (n + 2)
      /\ \A i \in 1..Len(c2d) : c2d'[i] = c2d[i]
      /\ \A k \in 1..(n + 2) : c2d'[Len(c2d) + k] = u[k]
  <2>1. c2d \in Seq(RequestUnit) /\ Joined(c2d', c2d, u) /\ Len(u) = n + 2
    BY <1>3 DEF Types
  <2>2. /\ Len(c2d') = Len(c2d) + Len(u)
        /\ \A i \in 1..Len(c2d) : c2d'[i] = c2d[i]
        /\ \A k \in 1..Len(u) : c2d'[Len(c2d) + k] = u[k]
    BY <2>1, JoinFacts
  <2>. QED  BY <2>1, <2>2
<1>7. ASSUME NEW k \in 1..(n + 2)
      PROVE  c2d'[Len(c2d) + k].msg = m /\ c2d'[Len(c2d) + k].k = k
  <2>1. u[k] = [msg |-> m, k |-> k]
    BY <1>3
  <2>2. c2d'[Len(c2d) + k] = u[k]
    BY <1>6
  <2>. QED  BY <2>1, <2>2
<1>8. Handled'
  BY <1>1, <1>2, <1>4, <1>5 DEF Handled
<1>9. Begins'
  <2>1. CASE Len(c2d) = 0
    <3>1. 1 \in 1..(n + 2) /\ Len(c2d) + 1 = 1
      BY <1>4, <2>1
    <3>2. c2d'[1].msg = m /\ c2d'[1].k = 1
      BY <1>7, <3>1
    <3>. QED  BY <1>1, <1>2, <1>3, <1>4, <1>6, <2>1, <3>2 DEF Begins
  <2>2. CASE Len(c2d) # 0
    <3>1. 1 \in 1..Len(c2d)
      BY <1>4, <2>2
    <3>. QED  BY <1>1, <1>2, <1>4, <1>6, <2>2, <3>1 DEF Begins
  <2>. QED  BY <2>1, <2>2
<1>10. ASSUME NEW i \in 1..Len(c2d')
       PROVE  i \in 1..Len(c2d) \/ \E k \in 1..(n + 2) : i = Len(c2d) + k
  <2>1. ASSUME i \notin 1..Len(c2d) PROVE i - Len(c2d) \in 1..(n + 2) /\ i = Len(c2d) + (i - Len(c2d))
    BY <1>4, <1>6, <2>1
  <2>. QED  BY <2>1
<1>11. ASSUME NEW i \in 1..Len(c2d')
       PROVE  c2d'[i].msg.id < Len(sent') /\ c2d'[i].msg = sent'[c2d'[i].msg.id + 1]
  <2>1. CASE i \in 1..Len(c2d)
    <3>1. c2d'[i] = c2d[i] /\ c2d[i].msg.id < Len(sent) /\ c2d[i].msg = sent[c2d[i].msg.id + 1]
      BY <1>2, <1>6, <2>1 DEF Pending
    <3>2. c2d[i].msg.id \in Nat
      BY <2>1, UnitFacts
    <3>3. c2d[i].msg.id + 1 \in 1..Len(sent)
      BY <1>4, <3>1, <3>2
    <3>4. c2d[i].msg.id < Len(sent')
      BY <1>4, <1>5, <3>1, <3>2
    <3>. QED  BY <1>5, <3>1, <3>3, <3>4
  <2>2. ASSUME NEW k \in 1..(n + 2), i = Len(c2d) + k
        PROVE  c2d'[i].msg.id < Len(sent') /\ c2d'[i].msg = sent'[c2d'[i].msg.id + 1]
    <3>1. c2d'[i].msg = m
      BY <1>7, <2>2
    <3>. QED  BY <1>3, <1>4, <1>5, <3>1
  <2>. QED  BY <1>10, <2>1, <2>2
<1>12. ASSUME NEW i \in 1..Len(c2d'), c2d'[i].k = 1 PROVE Follows(i)'
  <2>1. CASE i \in 1..Len(c2d)
    <3>1. c2d'[i] = c2d[i] /\ Follows(i)
      BY <1>2, <1>6, <1>12, <2>1 DEF Framed
    <3>2. PICK e \in Nat : e = i + (c2d[i].msg.n + 1)
      BY <1>4, <2>1, UnitFacts
    <3>3. c2d[i].msg.id \in Nat
      BY <2>1, UnitFacts
    <3>4. /\ e <= Len(c2d) /\ (e = Len(c2d) => c2d[i].msg.id + 1 = Len(sent))
          /\ e < Len(c2d) => c2d[e + 1].k = 1 /\ c2d[e + 1].msg.id = c2d[i].msg.id + 1
      BY <3>1, <3>2 DEF Follows
    <3>5. e < Len(c2d')
      BY <1>4, <1>6, <3>4
    <3>6. c2d'[e + 1].k = 1 /\ c2d'[e + 1].msg.id = c2d[i].msg.id + 1
      <4>1. CASE e < Len(c2d)
        <5>1. e + 1 \in 1..Len(c2d)
          BY <1>4, <4>1
        <5>. QED  BY <1>6, <3>4, <4>1, <5>1
      <4>2. CASE e = Len(c2d)
        <5>1. 1 \in 1..(n + 2) /\ e + 1 = Len(c2d) + 1
          BY <1>4, <4>2
        <5>2. c2d'[e + 1].msg = m /\ c2d'[e + 1].k = 1
          BY <1>7, <5>1
        <5>. QED  BY <1>3, <3>4, <4>2, <5>2
      <4>. QED  BY <1>4, <3>4, <4>1, <4>2
    <3>7. e <= Len(c2d') /\ e # Len(c2d')
      BY <1>4, <1>6, <3>4
    <3>. QED  BY <3>1, <3>2, <3>6, <3>7 DEF Follows
  <2>2. ASSUME NEW k \in 1..(n + 2), i = Len(c2d) + k PROVE Follows(i)'
    <3>1. c2d'[i].msg = m /\ k = 1
      BY <1>7, <1>12, <2>2
    <3>2. i + (m.n + 1) = Len(c2d')
      BY <1>3, <1>4, <1>6, <2>2, <3>1
    <3>3. m.id + 1 = Len(sent')
      BY <1>3, <1>5
    <3>4. Len(c2d') \in Nat
      BY <1>4, <1>6
    <3>. QED  BY <3>1, <3>2, <3>3, <3>4 DEF Follows
  <2>. QED  BY <1>10, <2>1, <2>2
<1>. QED  BY <1>8, <1>9, <1>11, <1>12 DEF Pending, Framed

LEMMA ReadOne ==
  ASSUME Types, QInv, ReadRequest PROVE QInv'
<1>. SUFFICES ASSUME Unmixed' PROVE (Handled /\ Begins /\ Pending /\ Framed)'
  BY DEF QInv
<1>1. PICK chunk : Reads(chunk)
  BY ReadFacts
<1>. DEFINE n == c2d[1].msg.n
            m == c2d[1].msg
<1>2. Handled /\ Begins /\ Pending /\ Framed
  <2>1. Unmixed
    BY <1>1 DEF Unmixed, Reads
  <2>. QED  BY <2>1 DEF QInv
<1>3. c2d[1].k = 1 /\ Takes(m) /\ ~(Len(chunk) > n + 2) /\ ~(Len(chunk) < n + 2)
  BY <1>1 DEF Unmixed, Reads
<1>4. Len(c2d) \in Nat /\ Len(sent) \in Nat /\ Len(handled) \in Nat /\ 1 \in 1..Len(c2d)
  BY <1>1, LenFacts, NonEmpty DEF Types, Reads
<1>5. m \in Request /\ n \in Nat /\ m.id \in Nat
  BY <1>4, UnitFacts
<1>6. /\ Len(chunk) \in Nat /\ Len(c2d') \in Nat /\ Len(chunk) + Len(c2d') = Len(c2d)
      /\ \A i \in 1..Len(c2d') : c2d'[i] = c2d[Len(chunk) + i]
  BY <1>1, Constants, CutFacts DEF Types, Reads
<1>7. Len(chunk) = n + 2
  BY <1>3, <1>5, <1>6
<1>8. m.id = Len(handled) /\ m.id < Len(sent) /\ m = sent[m.id + 1] /\ Follows(1)
  BY <1>2, <1>3, <1>4 DEF Begins, Pending, Framed
<1>9. /\ Len(handled') = Len(handled) + 1 /\ handled'[Len(handled) + 1] = m
      /\ \A i \in 1..Len(handled) : handled'[i] = handled[i]
  BY <1>1, <1>3, <1>5, AppendFacts DEF Types, DaemonTypes, Takes
<1>10. sent' = sent
  BY <1>1 DEF Reads
<1>. HIDE DEF n, m
<1>11. Handled'
  <2>1. Len(handled') <= Len(sent')
    BY <1>4, <1>8, <1>9, <1>10
  <2>2. ASSUME NEW i \in 1..Len(handled') PROVE handled'[i] = sent'[i]
    <3>1. CASE i \in 1..Len(handled)
      BY <1>2, <1>9, <1>10, <3>1 DEF Handled
    <3>2. CASE i = Len(handled) + 1
      BY <1>8, <1>9, <1>10, <3>2
    <3>. QED  BY <1>4, <1>9, <3>1, <3>2
  <2>. QED  BY <2>1, <2>2 DEF Handled
<1>12. /\ 1 + (n + 1) <= Len(c2d) /\ (1 + (n + 1) = Len(c2d) => m.id + 1 = Len(sent))
       /\ 1 + (n + 1) < Len(c2d) => c2d[(1 + (n + 1)) + 1].k = 1 /\ c2d[(1 + (n + 1)) + 1].msg.id = m.id + 1
  BY <1>8 DEF Follows, n, m
<1>13. Begins'
  <2>1. CASE Len(c2d') = 0
    <3>1. 1 + (n + 1) = Len(c2d)
      BY <1>5, <1>6, <1>7, <2>1
    <3>2. Len(handled') = Len(sent')
      BY <1>8, <1>9, <1>10, <1>12, <3>1
    <3>. QED  BY <2>1, <3>2 DEF Begins
  <2>2. CASE Len(c2d') # 0
    <3>1. 1 + (n + 1) < Len(c2d) /\ 1 \in 1..Len(c2d') /\ Len(chunk) + 1 = (1 + (n + 1)) + 1
      BY <1>4, <1>5, <1>6, <1>7, <2>2
    <3>2. c2d'[1] = c2d[(1 + (n + 1)) + 1]
      BY <1>6, <3>1
    <3>3. c2d'[1].k = 1 /\ c2d'[1].msg.id = Len(handled')
      BY <1>8, <1>9, <1>12, <3>1, <3>2
    <3>. QED  BY <2>2, <3>3 DEF Begins
  <2>. QED  BY <2>1, <2>2
<1>14. ASSUME NEW i \in 1..Len(c2d')
       PROVE  (n + 2) + i \in 1..Len(c2d) /\ c2d'[i] = c2d[(n + 2) + i]
  BY <1>5, <1>6, <1>7
<1>15. Pending'
  BY <1>2, <1>10, <1>14 DEF Pending
<1>16. ASSUME NEW i \in 1..Len(c2d'), c2d'[i].k = 1 PROVE Follows(i)'
  <2>1. PICK j \in 1..Len(c2d) : j = (n + 2) + i /\ c2d'[i] = c2d[j]
    BY <1>14
  <2>2. Follows(j) /\ c2d[j].msg.n \in Nat
    BY <1>2, <1>16, <2>1, UnitFacts DEF Framed
  <2>3. PICK d \in Nat : d = c2d[j].msg.n + 1
    BY <2>2
  <2>4. /\ j + d <= Len(c2d) /\ (j + d = Len(c2d) => c2d[j].msg.id + 1 = Len(sent))
        /\ j + d < Len(c2d) => c2d[(j + d) + 1].k = 1 /\ c2d[(j + d) + 1].msg.id = c2d[j].msg.id + 1
    BY <2>2, <2>3 DEF Follows
  <2>5. /\ i + d <= Len(c2d') /\ (i + d = Len(c2d') => j + d = Len(c2d))
        /\ (i + d < Len(c2d') => j + d < Len(c2d))
    <3>1. Len(c2d) = (n + 2) + Len(c2d') /\ j = (n + 2) + i /\ j + d <= Len(c2d)
      BY <1>6, <1>7, <2>1, <2>4
    <3>2. PICK l \in Nat, r \in Nat : l = Len(c2d) /\ r = Len(c2d')
      BY <1>4, <1>6
    <3>3. i \in Nat /\ j \in Nat
      BY <1>4, <1>6
    <3>. QED  BY <1>5, <3>1, <3>2, <3>3
  <2>6. ASSUME i + d < Len(c2d') PROVE c2d'[(i + d) + 1] = c2d[(j + d) + 1]
    <3>1. (i + d) + 1 \in 1..Len(c2d') /\ (n + 2) + ((i + d) + 1) = (j + d) + 1
      BY <1>5, <1>6, <2>1, <2>6
    <3>. QED  BY <1>14, <3>1
  <2>. QED  BY <1>10, <2>1, <2>3, <2>4, <2>5, <2>6 DEF Follows
<1>. QED  BY <1>11, <1>13, <1>15, <1>16 DEF Framed

LEMMA QInvStep == Types /\ QInv /\ [Next]_vars => QInv'
<1>. SUFFICES ASSUME Types, QInv, [Next]_vars PROVE QInv'
  OBVIOUS
<1>1. ASSUME c2d' = c2d, sent' = sent, handled' = handled, hist \subseteq hist' PROVE QInv'
  <2>1. Unmixed' => Unmixed
    BY <1>1 DEF Unmixed
  <2>2. (Handled /\ Begins /\ Pending /\ Framed)' <=> (Handled /\ Begins /\ Pending /\ Framed)
    BY <1>1 DEF Handled, Begins, Pending, Framed, Follows
  <2>. QED  BY <2>1, <2>2 DEF QInv
<1>2. CASE UNCHANGED vars
  BY <1>1, <1>2 DEF vars
<1>3. CASE EventLoop
  BY <1>1, <1>3 DEF EventLoop, daemon, Note
<1>4. CASE lgsm_blocking_wait_packet
  <2>1. hist \subseteq hist'
    BY <1>4, WaitFacts DEF Matched, Passed, Waits
  <2>. QED  BY <1>1, <1>4, <2>1, WaitFacts DEF Waits
<1>5. CASE lgsm_handle_packet
  <2>1. hist \subseteq hist'
    BY <1>5, HandleFacts DEF Handles
  <2>. QED  BY <1>1, <1>5, <2>1, HandleFacts DEF Handles
<1>6. CASE usock_cmd_cb \/ \E id \in Ids : usock_evt_send(id)
  BY <1>1, <1>6, QueueTypes DEF Queues
<1>7. CASE WriteMessage \/ AnyShort
  BY <1>1, <1>7, WriteTypes DEF Writes
<1>8. CASE AnySend
  BY <1>8, SendRequest, Constants DEF AnySend
<1>. QED  BY <1>2, <1>3, <1>4, <1>5, <1>6, <1>7, <1>8, ReadOne, NextCases

(* gsmd_usock_user_cb looks at one message of what a read returned: the daemon *)
(* still takes every request once and in the order sent, for any number and    *)
(* size of requests, as long as no read held more or less than one request.    *)
THEOREM RequestsKeepOrder == Spec => []RequestsInOrder
<1>1. Init => QInv
  <2>. SUFFICES ASSUME Init PROVE Handled /\ Begins /\ Pending /\ Framed
    BY DEF QInv
  <2>1. Len(c2d) = 0 /\ Len(handled) = 0 /\ Len(sent) = 0
    BY DEF Init
  <2>. QED  BY <2>1 DEF Handled, Begins, Pending, Framed
<1>2. Types /\ QInv => RequestsInOrder
  <2>. SUFFICES ASSUME Types, QInv, Unmixed PROVE IsPrefix(handled, sent) /\ (c2d = <<>> => handled = sent)
    BY DEF RequestsInOrder, Unmixed
  <2>1. Handled /\ Begins
    BY DEF QInv
  <2>2. IsPrefix(handled, sent) /\ (Len(handled) = Len(sent) => handled = sent)
    BY <2>1, PrefixFacts DEF Handled, Types, ClientTypes, DaemonTypes
  <2>3. c2d = <<>> => Len(c2d) = 0
    OBVIOUS
  <2>. QED  BY <2>1, <2>2, <2>3 DEF Begins
<1>. QED  BY <1>1, <1>2, QInvStep, AlwaysTypes, PTL DEF Spec

-----------------------------------------------------------------------------
(* The replies and events.  Flow is the number of units that lie between the   *)
(* daemon and the client's code, in a read under way and in the socket, and    *)
(* Unit(i) the i-th of them.  The daemon has taken Written messages off its    *)
(* queue.  While no read was cut and nothing came ahead, every unit belongs to *)
(* the queued message whose place is its rank: ranks start at the next message *)
(* the client is to be given, stay within a message and grow by one after its  *)
(* last unit, the third.  What a short write left behind is followed by the    *)
(* beginning of the same message, so its successor has its rank too.           *)

Flow == Len(inbuf) + Len(d2c)
Unit(i) == IF i <= Len(inbuf) THEN inbuf[i] ELSE d2c[i - Len(inbuf)]
Written == Len(queued) - Len(finished)

Backlog == Len(finished) <= Len(queued) /\ \A i \in 1..Len(finished) : finished[i] = queued[Written + i]
InOrder == Len(got) <= Len(queued) /\ \A i \in 1..Len(got) : got[i] = queued[i]

Succeeds(R, i) ==
  /\ Unit(i).k # 3 => R[i + 1] = R[i]
  /\ Unit(i).k = 3 => R[i + 1] = R[i] + 1 /\ Unit(i + 1).k = 1
Belongs(R, i) == R[i] \in 1..Len(queued) /\ Unit(i).msg = queued[R[i]]
Starts(R) ==
  /\ Flow = 0 => Len(got) = Written
  /\ Flow # 0 => R[1] = Len(got) + 1 /\ Unit(1).k = 1
Ends(R) ==
  Flow # 0 => /\ Unit(Flow).k # 3 => R[Flow] = Written + 1
              /\ Unit(Flow).k = 3 => R[Flow] = Written
Ranked(R) ==
  /\ \A i \in 1..Flow : Belongs(R, i)
  /\ \A i \in 1..(Flow - 1) : Succeeds(R, i)
  /\ Starts(R) /\ Ends(R)

Intact == hist \cap {"cut", "ahead"} = {}
RInv == Backlog /\ (Intact => InOrder /\ \E R : Ranked(R))

LEMMA FlowFacts ==
  ASSUME Types
  PROVE  /\ Len(inbuf) \in Nat /\ Len(d2c) \in Nat /\ Flow \in Nat
         /\ Len(queued) \in Nat /\ Len(finished) \in Nat /\ Len(got) \in Nat /\ Written \in Int
<1>1. Len(inbuf) \in Nat /\ Len(d2c) \in Nat /\ Len(queued) \in Nat /\ Len(finished) \in Nat /\ Len(got) \in Nat
  BY LenProperties DEF Types, ClientTypes, DaemonTypes
<1>. QED  BY <1>1 DEF Flow, Written

(* A read moves units and changes none; a queued message is not in the flow. *)
LEMMA KeepRanks ==
  ASSUME Types, RInv, Flow' = Flow, \A i \in 1..Flow : Unit(i)' = Unit(i), got' = got, Written' = Written,
         Backlog', Intact' => Intact,
         Len(queued) <= Len(queued'), Len(queued') \in Nat, \A i \in 1..Len(queued) : queued'[i] = queued[i]
  PROVE  RInv'
<1>1. Flow \in Nat /\ Len(queued) \in Nat /\ Len(got) \in Nat
  BY FlowFacts
<1>2. ASSUME InOrder PROVE InOrder'
  BY <1>1, <1>2 DEF InOrder
<1>3. ASSUME NEW R, Ranked(R) PROVE Ranked(R)'
  <2>1. \A i \in 1..Flow : Belongs(R, i)
    BY <1>3 DEF Ranked
  <2>2. ASSUME NEW i \in 1..Flow' PROVE Belongs(R, i)'
    <3>1. Belongs(R, i) /\ Unit(i)' = Unit(i)
      BY <2>1
    <3>. QED  BY <1>1, <3>1 DEF Belongs
  <2>3. ASSUME NEW i \in 1..(Flow' - 1) PROVE Succeeds(R, i)'
    <3>1. i \in 1..Flow /\ i + 1 \in 1..Flow /\ i \in 1..(Flow - 1)
      BY <1>1
    <3>2. Unit(i)' = Unit(i) /\ Unit(i + 1)' = Unit(i + 1)
      BY <3>1
    <3>3. Succeeds(R, i)
      BY <1>3, <3>1 DEF Ranked
    <3>. QED  BY <3>2, <3>3 DEF Succeeds
  <2>4. Flow # 0 => Unit(1)' = Unit(1) /\ Unit(Flow)' = Unit(Flow)
    <3>1. Flow # 0 => 1 \in 1..Flow /\ Flow \in 1..Flow
      BY <1>1
    <3>. QED  BY <3>1
  <2>5. Starts(R)'
    BY <1>3, <2>4 DEF Ranked, Starts
  <2>6. Ends(R)'
    BY <1>3, <2>4 DEF Ranked, Ends
  <2>. QED  BY <2>2, <2>3, <2>5, <2>6 DEF Ranked
<1>. QED  BY <1>2, <1>3 DEF RInv

(* The client's code is given the message at the head of the flow. *)
LEMMA GiveFirst ==
  ASSUME Types, RInv, Intact, Flow >= 3, Unit(1) \in AnswerUnit,
         Unit(1).k = 1, Unit(2).k = 2, Unit(3).k = 3,
         Flow' = Flow - 3, \A i \in 1..(Flow - 3) : Unit(i)' = Unit(i + 3),
         Appended(got', got, Unit(1).msg), queued' = queued, finished' = finished
  PROVE  RInv'
<1>1. Flow \in Nat /\ Len(queued) \in Nat /\ Len(got) \in Nat /\ Written \in Int
  BY FlowFacts
<1>2. InOrder /\ Backlog
  BY DEF RInv
<1>3. PICK R : Ranked(R)
  BY DEF RInv
<1>4. Unit(1).msg \in Gift
  BY DEF AnswerUnit, Gift
<1>5. /\ Len(got') = Len(got) + 1 /\ got'[Len(got) + 1] = Unit(1).msg
      /\ \A i \in 1..Len(got) : got'[i] = got[i]
  BY <1>4, AppendFacts DEF Types, ClientTypes
<1>6. R[1] = Len(got) + 1 /\ R[1] \in 1..Len(queued) /\ Unit(1).msg = queued[R[1]]
  <2>1. Flow # 0 /\ 1 \in 1..Flow
    BY <1>1
  <2>. QED  BY <1>3, <2>1 DEF Ranked, Starts, Belongs
<1>7. R[3] = Len(got) + 1
  <2>1. 1 \in 1..(Flow - 1) /\ 2 \in 1..(Flow - 1) /\ 1 + 1 = 2 /\ 2 + 1 = 3
    BY <1>1
  <2>2. Succeeds(R, 1) /\ Succeeds(R, 2)
    BY <1>3, <2>1 DEF Ranked
  <2>3. R[2] = R[1]
    BY <2>1, <2>2 DEF Succeeds
  <2>4. R[3] = R[2]
    BY <2>1, <2>2 DEF Succeeds
  <2>. QED  BY <1>6, <2>3, <2>4
<1>8. InOrder'
  <2>1. Len(got') <= Len(queued')
    BY <1>1, <1>5, <1>6
  <2>2. ASSUME NEW i \in 1..Len(got') PROVE got'[i] = queued'[i]
    <3>1. CASE i \in 1..Len(got)
      BY <1>2, <1>5, <3>1 DEF InOrder
    <3>2. CASE i = Len(got) + 1
      BY <1>5, <1>6, <3>2
    <3>. QED  BY <1>1, <1>5, <3>1, <3>2
  <2>. QED  BY <2>1, <2>2 DEF InOrder
<1>9. Backlog' /\ Written' = Written
  BY <1>2 DEF Backlog, Written
<1>10. PICK Q : Q = [i \in 1..(Flow - 3) |-> R[i + 3]]
  OBVIOUS
<1>11. ASSUME NEW i \in 1..Flow'
       PROVE  i \in 1..(Flow - 3) /\ i + 3 \in 1..Flow /\ Q[i] = R[i + 3] /\ Unit(i)' = Unit(i + 3)
  BY <1>1, <1>10
<1>12. ASSUME NEW i \in 1..Flow' PROVE Belongs(Q, i)'
  <2>1. Belongs(R, i + 3)
    BY <1>3, <1>11 DEF Ranked
  <2>. QED  BY <1>11, <2>1 DEF Belongs
<1>13. ASSUME NEW i \in 1..(Flow' - 1) PROVE Succeeds(Q, i)'
  <2>1. i \in 1..Flow' /\ i + 1 \in 1..Flow' /\ i + 3 \in 1..(Flow - 1) /\ (i + 1) + 3 = (i + 3) + 1
    BY <1>1
  <2>2. Q[i] = R[i + 3] /\ Q[i + 1] = R[(i + 3) + 1]
    BY <1>11, <2>1
  <2>3. Unit(i)' = Unit(i + 3) /\ Unit(i + 1)' = Unit((i + 3) + 1)
    BY <1>11, <2>1
  <2>4. Succeeds(R, i + 3)
    BY <1>3, <2>1 DEF Ranked
  <2>. QED  BY <2>2, <2>3, <2>4 DEF Succeeds
<1>14. Starts(Q)'
  <2>1. CASE Flow = 3
    <3>1. R[3] = Written
      BY <1>3, <2>1 DEF Ranked, Ends
    <3>. QED  BY <1>1, <1>5, <1>7, <1>9, <2>1, <3>1 DEF Starts
  <2>2. CASE Flow # 3
    <3>1. 1 \in 1..Flow' /\ 3 \in 1..(Flow - 1) /\ 1 + 3 = 4 /\ 3 + 1 = 4 /\ Flow' # 0
      BY <1>1, <2>2
    <3>2. R[4] = R[3] + 1 /\ Unit(4).k = 1
      BY <1>3, <3>1 DEF Ranked, Succeeds
    <3>3. Q[1] = R[4] /\ Unit(1)' = Unit(4)
      BY <1>11, <3>1
    <3>. QED  BY <1>5, <1>7, <3>1, <3>2, <3>3 DEF Starts
  <2>. QED  BY <2>1, <2>2
<1>15. Ends(Q)'
  <2>. SUFFICES ASSUME Flow' # 0 PROVE Ends(Q)'
    BY DEF Ends
  <2>1. PICK f \in 1..Flow' : f = Flow' /\ f + 3 = Flow
    <3>1. Flow' \in 1..Flow' /\ Flow' + 3 = Flow
      BY <1>1
    <3>. QED  BY <3>1
  <2>2. Q[f] = R[Flow] /\ Unit(f)' = Unit(Flow)
    BY <1>11, <2>1
  <2>3. Ends(R) /\ Flow # 0
    BY <1>1, <1>3 DEF Ranked
  <2>. QED  BY <1>9, <2>1, <2>2, <2>3 DEF Ends
<1>16. Ranked(Q)'
  BY <1>12, <1>13, <1>14, <1>15 DEF Ranked
<1>. QED  BY <1>8, <1>9, <1>16 DEF RInv

(* The daemon writes its first finished message, in full or in part. *)
LEMMA WriteRanks ==
  ASSUME Types, RInv, NEW m, NEW u, Writes(m, u), Types' PROVE RInv'
<1>1. Flow \in Nat /\ Len(queued) \in Nat /\ Len(got) \in Nat /\ Written \in Int /\ Len(finished) \in Nat
      /\ Len(inbuf) \in Nat /\ Len(d2c) \in Nat
  BY FlowFacts
<1>2. /\ queued' = queued /\ got' = got /\ hist' = hist /\ inbuf' = inbuf
      /\ finished # <<>> /\ m = finished[1] /\ m \in Answer
  BY DEF Writes
<1>3. Backlog /\ 1 \in 1..Len(finished) /\ Len(finished) <= Len(queued)
  <2>1. finished \in Seq(Answer)
    BY DEF Types, DaemonTypes
  <2>. QED  BY <1>2, <2>1, NonEmpty DEF RInv, Backlog
<1>4. Written + 1 \in 1..Len(queued) /\ m = queued[Written + 1]
  BY <1>1, <1>2, <1>3 DEF Backlog, Written
<1>5. u \in Seq(AnswerUnit) /\ Joined(d2c', d2c, u) /\ d2c \in Seq(AnswerUnit)
  BY DEF Writes, Types
<1>6. /\ Len(u) \in {1, 2, 3} /\ \A i \in 1..Len(u) : u[i].msg = m /\ u[i].k = i
      /\ finished' = IF Len(u) = 3 THEN Tail(finished) ELSE finished
  <2>1. /\ Len(u) \in {1, 2, 3} /\ finished' = IF Len(u) = 3 THEN Tail(finished) ELSE finished
        /\ \A i \in 1..Len(u) : u[i] = [msg |-> m, k |-> i]
    BY DEF Writes
  <2>2. ASSUME NEW i \in 1..Len(u) PROVE u[i].msg = m /\ u[i].k = i
    <3>1. u[i] = [msg |-> m, k |-> i]
      BY <2>1
    <3>. QED  BY <3>1
  <2>. QED  BY <2>1, <2>2
<1>7. /\ Len(d2c') = Len(d2c) + Len(u)
      /\ \A i \in 1..Len(d2c) : d2c'[i] = d2c[i]
      /\ \A i \in 1..Len(u) : d2c'[Len(d2c) + i] = u[i]
  <2>1. u \in Seq(AnswerUnit) /\ d2c \in Seq(AnswerUnit) /\ Joined(d2c', d2c, u)
    BY <1>5
  <2>. QED  BY <2>1, JoinFacts
<1>8. PICK f \in Nat, l \in {1, 2, 3} : f = Flow /\ l = Len(u)
  BY <1>1, <1>6
<1>9. Flow' = f + l
  BY <1>1, <1>2, <1>7, <1>8 DEF Flow
<1>10. ASSUME NEW i \in 1..f PROVE Unit(i)' = Unit(i)
  <2>1. CASE i <= Len(inbuf)
    BY <1>2, <2>1 DEF Unit
  <2>2. CASE ~(i <= Len(inbuf))
    <3>1. i - Len(inbuf) \in 1..Len(d2c)
      BY <1>1, <1>8, <2>2 DEF Flow
    <3>. QED  BY <1>2, <1>7, <2>2, <3>1 DEF Unit
  <2>. QED  BY <2>1, <2>2
<1>11. ASSUME NEW i \in 1..l PROVE Unit(f + i)'.msg = m /\ Unit(f + i)'.k = i
  <2>1. ~(f + i <= Len(inbuf)) /\ (f + i) - Len(inbuf) = Len(d2c) + i
    BY <1>1, <1>8 DEF Flow
  <2>2. d2c'[Len(d2c) + i] = u[i] /\ u[i].msg = m /\ u[i].k = i
    BY <1>6, <1>7, <1>8
  <2>. QED  BY <1>2, <2>1, <2>2 DEF Unit
<1>12. ASSUME l = 3
       PROVE  /\ Written' = Written + 1
              /\ Len(finished') = Len(finished) - 1 /\ \A i \in 1..Len(finished') : finished'[i] = finished[i + 1]
  <2>1. finished' = Tail(finished)
    BY <1>6, <1>8, <1>12
  <2>2. finished \in Seq(Answer)
    BY DEF Types, DaemonTypes
  <2>3. Len(finished') = Len(finished) - 1 /\ \A i \in 1..Len(finished') : finished'[i] = finished[i + 1]
    BY <1>2, <2>1, <2>2, TailFacts
  <2>4. Written' = Written + 1
    BY <1>1, <1>2, <2>3 DEF Written
  <2>. QED  BY <2>3, <2>4
<1>13. ASSUME l # 3 PROVE finished' = finished /\ Written' = Written
  BY <1>2, <1>6, <1>8, <1>13 DEF Written
<1>14. Backlog'
  <2>1. CASE l # 3
    BY <1>2, <1>3, <1>13, <2>1 DEF Backlog
  <2>2. CASE l = 3
    <3>1. Len(finished') \in Nat /\ Len(finished') <= Len(queued')
      BY <1>1, <1>2, <1>3, <1>12, <2>2
    <3>2. ASSUME NEW i \in 1..Len(finished') PROVE finished'[i] = queued'[Written' + i]
      <4>1. finished'[i] = finished[i + 1] /\ Written' = Written + 1
        BY <1>12, <2>2
      <4>2. PICK a \in Nat, b \in Nat : a = Len(finished) /\ b = Len(finished')
        BY <1>1, <3>1
      <4>3. b = a - 1
        BY <1>12, <2>2, <4>2
      <4>4. i + 1 \in 1..a
        BY <4>2, <4>3
      <4>5. i + 1 \in 1..Len(finished) /\ Written + (i + 1) = (Written + 1) + i
        BY <1>1, <4>2, <4>4
      <4>6. finished[i + 1] = queued[Written + (i + 1)]
        BY <1>3, <4>5 DEF Backlog
      <4>. QED  BY <1>2, <4>1, <4>5, <4>6
    <3>. QED  BY <3>1, <3>2 DEF Backlog
  <2>. QED  BY <2>1, <2>2
<1>15. SUFFICES ASSUME Intact' PROVE InOrder' /\ \E R : Ranked(R)'
  BY <1>14 DEF RInv
<1>16. Intact
  BY <1>2, <1>15 DEF Intact
<1>17. InOrder'
  BY <1>2, <1>16 DEF RInv, InOrder
<1>18. PICK R : Ranked(R)
  BY <1>16 DEF RInv
<1>19. PICK Q : Q = [i \in 1..(f + l) |-> IF i <= f THEN R[i] ELSE Written + 1]
  OBVIOUS
<1>20. ASSUME NEW i \in 1..f PROVE Q[i] = R[i]
  BY <1>8, <1>19
<1>21. ASSUME NEW i \in 1..l PROVE Q[f + i] = Written + 1
  BY <1>8, <1>19
<1>22. ASSUME NEW i \in 1..(f + l) PROVE i \in 1..f \/ \E j \in 1..l : i = f + j
  <2>1. ASSUME i \notin 1..f PROVE i - f \in 1..l /\ i = f + (i - f)
    BY <1>8, <2>1
  <2>. QED  BY <2>1
<1>23. ASSUME NEW i \in 1..Flow' PROVE Belongs(Q, i)'
  <2>1. CASE i \in 1..f
    <3>1. Belongs(R, i)
      BY <1>8, <1>18, <2>1 DEF Ranked
    <3>. QED  BY <1>2, <1>10, <1>20, <2>1, <3>1 DEF Belongs
  <2>2. ASSUME NEW j \in 1..l, i = f + j PROVE Belongs(Q, i)'
    BY <1>2, <1>4, <1>11, <1>21, <2>2 DEF Belongs
  <2>. QED  BY <1>9, <1>22, <2>1, <2>2
<1>24. Q[f + 1] = Written + 1 /\ Unit(f + 1)'.k = 1
  <2>1. 1 \in 1..l
    BY <1>8
  <2>. QED  BY <1>11, <1>21, <2>1
<1>25. ASSUME NEW i \in 1..(Flow' - 1) PROVE Succeeds(Q, i)'
  <2>1. CASE i \in 1..(f - 1)
    <3>1. i \in 1..f /\ i + 1 \in 1..f
      BY <1>8, <2>1
    <3>2. Succeeds(R, i)
      BY <1>8, <1>18, <2>1 DEF Ranked
    <3>3. Q[i] = R[i] /\ Q[i + 1] = R[i + 1]
      BY <1>20, <3>1
    <3>4. Unit(i)' = Unit(i) /\ Unit(i + 1)' = Unit(i + 1)
      BY <1>10, <3>1
    <3>. QED  BY <3>2, <3>3, <3>4 DEF Succeeds
  <2>2. CASE i = f
    <3>1. f \in 1..f /\ Flow # 0
      BY <1>8, <2>2
    <3>2. /\ Unit(f).k # 3 => R[f] = Written + 1
          /\ Unit(f).k = 3 => R[f] = Written
      BY <1>8, <1>18, <3>1 DEF Ranked, Ends
    <3>3. Q[f] = R[f] /\ Unit(f)' = Unit(f)
      BY <1>10, <1>20, <3>1
    <3>. QED  BY <1>24, <2>2, <3>2, <3>3 DEF Succeeds
  <2>3. ASSUME NEW j \in 1..(l - 1), i = f + j PROVE Succeeds(Q, i)'
    <3>1. j \in 1..l /\ j + 1 \in 1..l /\ j # 3 /\ i + 1 = f + (j + 1)
      BY <1>8, <2>3
    <3>2. Q[i] = Written + 1 /\ Q[i + 1] = Written + 1 /\ Unit(i)'.k = j
      BY <1>11, <1>21, <2>3, <3>1
    <3>. QED  BY <3>1, <3>2 DEF Succeeds
  <2>4. i \in 1..(f - 1) \/ i = f \/ (i - f \in 1..(l - 1) /\ i = f + (i - f))
    <3>1. f \in Nat /\ l \in Nat /\ i \in 1..((f + l) - 1)
      BY <1>8, <1>9
    <3>. QED  BY <3>1
  <2>. QED  BY <2>1, <2>2, <2>3, <2>4
<1>26. Starts(Q)'
  <2>1. Flow' # 0
    BY <1>8, <1>9
  <2>2. CASE f = 0
    <3>1. f + 1 = 1 /\ Len(got) = Written
      BY <1>8, <1>18, <2>2 DEF Ranked, Starts
    <3>. QED  BY <1>2, <1>24, <2>1, <3>1 DEF Starts
  <2>3. CASE f # 0
    <3>1. 1 \in 1..f
      BY <1>8, <2>3
    <3>2. R[1] = Len(got) + 1 /\ Unit(1).k = 1
      BY <1>8, <1>18, <2>3 DEF Ranked, Starts
    <3>. QED  BY <1>2, <1>10, <1>20, <2>1, <3>1, <3>2 DEF Starts
  <2>. QED  BY <2>2, <2>3
<1>27. Ends(Q)'
  <2>1. l \in 1..l
    BY <1>8
  <2>2. Q[f + l] = Written + 1 /\ Unit(f + l)'.k = l
    BY <1>11, <1>21, <2>1
  <2>3. CASE l # 3
    BY <1>9, <1>13, <2>2, <2>3 DEF Ends
  <2>4. CASE l = 3
    BY <1>9, <1>12, <2>2, <2>4 DEF Ends
  <2>. QED  BY <2>3, <2>4
<1>28. Ranked(Q)'
  BY <1>23, <1>25, <1>26, <1>27 DEF Ranked
<1>. QED  BY <1>17, <1>28

LEMMA QueueRanks ==
  ASSUME Types, RInv, NEW m, Queues(m) PROVE RInv'
<1>1. Flow \in Nat /\ Len(queued) \in Nat /\ Written \in Int /\ Len(finished) \in Nat
  BY FlowFacts
<1>2. /\ d2c' = d2c /\ inbuf' = inbuf /\ got' = got /\ hist' = hist /\ m \in Answer
      /\ Appended(finished', finished, m) /\ Appended(queued', queued, m)
      /\ finished \in Seq(Answer) /\ queued \in Seq(Answer)
  BY DEF Queues, Types, DaemonTypes
<1>3. /\ Len(queued') = Len(queued) + 1 /\ queued'[Len(queued) + 1] = m
      /\ \A i \in 1..Len(queued) : queued'[i] = queued[i]
  BY <1>2, AppendFacts
<1>4. /\ Len(finished') = Len(finished) + 1 /\ finished'[Len(finished) + 1] = m
      /\ \A i \in 1..Len(finished) : finished'[i] = finished[i]
  BY <1>2, AppendFacts
<1>5. Written' = Written /\ Flow' = Flow /\ \A i \in 1..Flow : Unit(i)' = Unit(i)
  BY <1>1, <1>2, <1>3, <1>4 DEF Written, Flow, Unit
<1>6. Backlog'
  <2>1. Backlog
    BY DEF RInv
  <2>2. ASSUME NEW i \in 1..Len(finished') PROVE finished'[i] = queued'[Written' + i]
    <3>1. CASE i \in 1..Len(finished)
      <4>1. finished[i] = queued[Written + i] /\ Written + i \in 1..Len(queued)
        BY <1>1, <2>1, <3>1 DEF Backlog, Written
      <4>. QED  BY <1>3, <1>4, <1>5, <3>1, <4>1
    <3>2. CASE i = Len(finished) + 1
      <4>1. Written + i = Len(queued) + 1
        BY <1>1, <3>2 DEF Written
      <4>. QED  BY <1>3, <1>4, <1>5, <3>2, <4>1
    <3>. QED  BY <1>1, <1>4, <3>1, <3>2
  <2>3. Len(finished') <= Len(queued')
    BY <1>1, <1>3, <1>4, <2>1 DEF Backlog
  <2>. QED  BY <2>2, <2>3 DEF Backlog
<1>7. Len(queued) <= Len(queued') /\ Len(queued') \in Nat /\ (Intact' => Intact)
  BY <1>1, <1>2, <1>3 DEF Intact
<1>. QED  BY <1>2, <1>3, <1>5, <1>6, <1>7, KeepRanks

LEMMA ReadRanks ==
  ASSUME Types, RInv, inbuf = <<>>, NEW size \in Nat, Cut(inbuf', d2c', d2c, size),
         queued' = queued, finished' = finished, got' = got, hist \subseteq hist'
  PROVE  RInv'
<1>1. Flow \in Nat /\ Len(queued) \in Nat /\ Len(d2c) \in Nat
  BY FlowFacts
<1>2. /\ Len(inbuf') \in Nat /\ Len(d2c') \in Nat /\ Len(inbuf') + Len(d2c') = Len(d2c)
      /\ \A i \in 1..Len(inbuf') : inbuf'[i] = d2c[i]
      /\ \A i \in 1..Len(d2c') : d2c'[i] = d2c[Len(inbuf') + i]
  BY CutFacts DEF Types
<1>3. Len(inbuf) = 0
  OBVIOUS
<1>4. Flow' = Flow
  BY <1>1, <1>2, <1>3 DEF Flow
<1>5. ASSUME NEW i \in 1..Flow PROVE Unit(i)' = Unit(i)
  <2>1. i \in 1..Len(d2c) /\ ~(i <= Len(inbuf)) /\ i - Len(inbuf) = i
    BY <1>1, <1>3 DEF Flow
  <2>2. Unit(i) = d2c[i]
    BY <2>1 DEF Unit
  <2>3. CASE i <= Len(inbuf')
    <3>1. i \in 1..Len(inbuf')
      BY <1>2, <2>1, <2>3
    <3>. QED  BY <1>2, <2>2, <2>3, <3>1 DEF Unit
  <2>4. CASE ~(i <= Len(inbuf'))
    <3>1. i - Len(inbuf') \in 1..Len(d2c') /\ Len(inbuf') + (i - Len(inbuf')) = i
      BY <1>1, <1>2, <2>1, <2>4
    <3>2. d2c'[i - Len(inbuf')] = d2c[i]
      BY <1>2, <3>1
    <3>. QED  BY <2>2, <2>4, <3>2 DEF Unit
  <2>. QED  BY <2>3, <2>4
<1>6. Written' = Written /\ Backlog' /\ (Intact' => Intact)
  BY DEF RInv, Backlog, Written, Intact
<1>7. Len(queued) <= Len(queued') /\ Len(queued') \in Nat /\ \A i \in 1..Len(queued) : queued'[i] = queued[i]
  BY <1>1
<1>. QED  BY <1>4, <1>5, <1>6, <1>7, KeepRanks

LEMMA WaitRanks ==
  ASSUME Types, RInv, lgsm_blocking_wait_packet PROVE RInv'
<1>1. PICK chunk : Waits(chunk)
  BY WaitFacts
<1>2. CASE Passed(chunk)
  BY <1>1, <1>2, Constants, ReadRanks DEF Passed, Waits
<1>3. CASE Matched(Given(chunk, d2c[1].msg), chunk)
  <2>1. PICK g : g = Given(chunk, d2c[1].msg)
    OBVIOUS
  <2>2. Matched(g, chunk) /\ inbuf' = <<>>
    BY <1>3, <2>1 DEF Matched
  <2>3. PICK m \in Answer : m = d2c[1].msg
    BY <1>1 DEF Waits, AnswerUnit
  <2>4. /\ Len(chunk) \in Nat /\ Len(d2c') \in Nat /\ Len(chunk) + Len(d2c') = Len(d2c)
        /\ \A i \in 1..Len(chunk) : chunk[i] = d2c[i]
        /\ \A i \in 1..Len(d2c') : d2c'[i] = d2c[Len(chunk) + i]
    BY <1>1, Constants, CutFacts DEF Types, Waits
  <2>5. inbuf = <<>> /\ d2c # <<>> /\ chunk # <<>> /\ chunk[1] = d2c[1] /\ UNCHANGED <<finished, queued>>
    BY <1>1 DEF Waits
  <2>6. CASE ~Intact'
    <3>1. Backlog'
      BY <2>5 DEF RInv, Backlog, Written
    <3>. QED  BY <2>6, <3>1 DEF RInv
  <2>7. CASE Intact'
    <3>1. Intact
      BY <2>2, <2>7 DEF Intact, Matched
    <3>2. Len(inbuf) = 0 /\ Len(inbuf') = 0 /\ Len(d2c) \in Nat /\ Len(d2c) # 0
      BY <2>2, <2>5, FlowFacts, NonEmpty DEF Types
    <3>3. Flow = Len(d2c)
      BY <3>2 DEF Flow
    <3>4. ASSUME NEW i \in 1..Flow PROVE Unit(i) = d2c[i]
      BY <3>2, <3>3 DEF Unit
    <3>5. Unit(1) = d2c[1]
      <4>1. 1 \in 1..Flow
        BY <3>2, <3>3
      <4>. QED  BY <3>4, <4>1
    <3>6. Unit(1).k = 1
      BY <3>1, <3>2, <3>3 DEF RInv, Ranked, Starts
    <3>7. ~Inside(chunk)
      BY <2>5, <3>5, <3>6 DEF Inside
    <3>8. g # Garbage /\ ~(Len(chunk) > g.n + 2)
      BY <2>2, <2>7, <3>7 DEF Matched, Intact, Note
    <3>9. g = m /\ Complete(chunk, m)
      BY <2>1, <2>3, <3>8, GivenFacts
    <3>10. Len(chunk) >= 3 /\ chunk[2].k = 2 /\ chunk[3].k = 3
      BY <2>4, <3>9, CompleteFacts
    <3>11. Len(chunk) = 3
      <4>1. g.n = 1
        BY <3>9 DEF Answer
      <4>2. ~(Len(chunk) > 3)
        BY <3>8, <4>1
      <4>3. PICK l \in Nat : l = Len(chunk)
        BY <2>4
      <4>4. l = 3
        BY <3>10, <4>2, <4>3
      <4>. QED  BY <4>3, <4>4
    <3>12. Flow' = Flow - 3 /\ Flow >= 3
      BY <2>4, <3>2, <3>11 DEF Flow
    <3>13. ASSUME NEW i \in 1..(Flow - 3) PROVE Unit(i)' = Unit(i + 3)
      <4>1. ~(i <= Len(inbuf')) /\ i - Len(inbuf') = i /\ i \in 1..Len(d2c') /\ i + 3 \in 1..Flow /\ 3 + i = i + 3
        BY <2>4, <3>2, <3>3, <3>11, <3>12
      <4>2. Unit(i)' = d2c'[i]
        BY <4>1 DEF Unit
      <4>3. d2c'[i] = d2c[i + 3]
        BY <2>4, <3>11, <4>1
      <4>. QED  BY <3>4, <4>1, <4>2, <4>3
    <3>14. Unit(2).k = 2 /\ Unit(3).k = 3
      <4>1. 2 \in 1..Flow /\ 3 \in 1..Flow /\ 2 \in 1..Len(chunk) /\ 3 \in 1..Len(chunk)
        BY <3>2, <3>3, <3>11, <3>12
      <4>2. chunk[2] = d2c[2] /\ chunk[3] = d2c[3]
        BY <2>4, <4>1
      <4>. QED  BY <3>4, <3>10, <4>1, <4>2
    <3>15. Unit(1) \in AnswerUnit /\ Appended(got', got, Unit(1).msg)
      BY <1>1, <2>2, <2>3, <3>5, <3>9 DEF Waits, Matched
    <3>. QED  BY <2>5, <3>1, <3>6, <3>12, <3>13, <3>14, <3>15, GiveFirst
  <2>. QED  BY <2>6, <2>7
<1>. QED  BY <1>1, <1>2, <1>3 DEF Waits

LEMMA HandleRanks ==
  ASSUME Types, RInv, lgsm_handle_packet PROVE RInv'
<1>1. Handles
  BY HandleFacts
<1>2. CASE ~Intact'
  <2>1. Backlog'
    BY <1>1 DEF RInv, Backlog, Written, Handles
  <2>. QED  BY <1>2, <2>1 DEF RInv
<1>3. CASE Intact'
  <2>1. /\ Complete(inbuf, inbuf[1].msg) /\ hist' = hist
        /\ Appended(got', got, inbuf[1].msg)
        /\ \E chunk : Cut(chunk, inbuf', inbuf, 3)
    BY <1>1, <1>3 DEF Intact, Handles
  <2>2. Intact /\ UNCHANGED <<d2c, finished, queued>> /\ inbuf[1] \in AnswerUnit
    BY <1>1, <1>3, <2>1 DEF Intact, Handles
  <2>3. Len(inbuf) \in Nat /\ Len(d2c) \in Nat
    BY FlowFacts
  <2>4. Len(inbuf) >= 3 /\ inbuf[1].k = 1 /\ inbuf[2].k = 2 /\ inbuf[3].k = 3
    <3>1. inbuf[1].msg \in Answer
      BY <2>2 DEF AnswerUnit
    <3>. QED  BY <2>1, <2>3, <3>1, CompleteFacts
  <2>5. PICK chunk : Cut(chunk, inbuf', inbuf, 3)
    BY <2>1
  <2>6. /\ Len(chunk) = (IF Len(inbuf) < 3 THEN Len(inbuf) ELSE 3)
        /\ Len(inbuf') \in Nat /\ Len(chunk) + Len(inbuf') = Len(inbuf)
        /\ \A i \in 1..Len(inbuf') : inbuf'[i] = inbuf[Len(chunk) + i]
    <3>1. inbuf \in Seq(AnswerUnit)
      BY DEF Types, ClientTypes
    <3>2. PICK size \in Nat : size = 3
      OBVIOUS
    <3>3. Cut(chunk, inbuf', inbuf, size)
      BY <2>5, <3>2
    <3>4. /\ Len(chunk) = (IF Len(inbuf) < size THEN Len(inbuf) ELSE size)
          /\ Len(inbuf') \in Nat /\ Len(chunk) + Len(inbuf') = Len(inbuf)
          /\ \A i \in 1..Len(inbuf') : inbuf'[i] = inbuf[Len(chunk) + i]
      BY <3>1, <3>3, CutFacts
    <3>. QED  BY <3>2, <3>4
  <2>7. Len(chunk) = 3 /\ Len(inbuf) = Len(inbuf') + 3
    BY <2>3, <2>4, <2>6
  <2>8. Flow >= 3 /\ Flow' = Flow - 3
    BY <2>2, <2>3, <2>4, <2>6, <2>7 DEF Flow
  <2>9. ASSUME NEW i \in 1..(Flow - 3) PROVE Unit(i)' = Unit(i + 3)
    <3>1. CASE i <= Len(inbuf')
      <4>1. i \in 1..Len(inbuf') /\ i + 3 <= Len(inbuf) /\ 3 + i = i + 3
        BY <2>3, <2>6, <2>7, <3>1
      <4>2. inbuf'[i] = inbuf[i + 3]
        BY <2>6, <2>7, <4>1
      <4>. QED  BY <3>1, <4>1, <4>2 DEF Unit
    <3>2. CASE ~(i <= Len(inbuf'))
      <4>1. ~(i + 3 <= Len(inbuf)) /\ (i + 3) - Len(inbuf) = i - Len(inbuf')
        BY <2>3, <2>6, <2>7, <3>2
      <4>. QED  BY <2>2, <3>2, <4>1 DEF Unit
    <3>. QED  BY <3>1, <3>2
  <2>10. Unit(1) = inbuf[1] /\ Unit(2) = inbuf[2] /\ Unit(3) = inbuf[3]
    BY <2>3, <2>4 DEF Unit
  <2>. QED  BY <2>1, <2>2, <2>4, <2>8, <2>9, <2>10, GiveFirst
<1>. QED  BY <1>2, <1>3

LEMMA RInvStep == Types /\ RInv /\ [Next]_vars => RInv'
<1>. SUFFICES ASSUME Types, RInv, [Next]_vars PROVE RInv'
  OBVIOUS
<1>1. ASSUME d2c' = d2c, inbuf' = inbuf, queued' = queued, finished' = finished, got' = got, hist \subseteq hist'
      PROVE  RInv'
  <2>1. Intact' => Intact
    BY <1>1 DEF Intact
  <2>2. Backlog' /\ (InOrder => InOrder')
    BY <1>1 DEF RInv, Backlog, InOrder, Written
  <2>3. ASSUME NEW R, Ranked(R) PROVE Ranked(R)'
    BY <1>1, <2>3 DEF Ranked, Belongs, Succeeds, Starts, Ends, Flow, Unit, Written
  <2>. QED  BY <2>1, <2>2, <2>3 DEF RInv
<1>2. CASE UNCHANGED vars
  BY <1>1, <1>2 DEF vars
<1>3. CASE AnySend
  BY <1>1, <1>3 DEF AnySend, lgsm_passthrough_send, daemon
<1>4. CASE EventLoop
  <2>1. UNCHANGED <<queued, finished, got>> /\ hist \subseteq hist'
    BY <1>4 DEF EventLoop, daemon
  <2>2. AppBuf \in Nat /\ inbuf = <<>> /\ Cut(inbuf', d2c', d2c, AppBuf)
    BY <1>4, Constants, EventLoopTypes
  <2>. QED  BY <2>1, <2>2, ReadRanks
<1>5. CASE ReadRequest
  <2>1. UNCHANGED <<d2c, inbuf, queued, finished, got>> /\ hist \subseteq hist'
    BY <1>5, ReadFacts DEF Reads
  <2>. QED  BY <1>1, <2>1
<1>6. CASE usock_cmd_cb \/ \E id \in Ids : usock_evt_send(id)
  BY <1>6, QueueTypes, QueueRanks
<1>7. CASE WriteMessage \/ AnyShort
  BY <1>7, WriteTypes, WriteRanks
<1>. QED  BY <1>2, <1>3, <1>4, <1>5, <1>6, <1>7, WaitRanks, HandleRanks, NextCases

(* libgsmd treats what a read returned as whole messages, and the daemon       *)
(* starts a message anew after a short write: the client's code is still given *)
(* every reply and event once and in the order the daemon queued them, for any *)
(* number of messages and any buffer sizes, as long as no read was cut inside  *)
(* a message and nothing came behind the answer of a blocking call.            *)
THEOREM RepliesKeepOrder == Spec => []RepliesInOrder
<1>1. Init => RInv
  <2>. SUFFICES ASSUME Init PROVE RInv
    OBVIOUS
  <2>1. Len(d2c) = 0 /\ Len(inbuf) = 0 /\ Len(got) = 0 /\ Len(queued) = 0 /\ Len(finished) = 0
    BY DEF Init
  <2>2. Flow = 0 /\ Written = 0
    BY <2>1 DEF Flow, Written
  <2>3. Backlog /\ InOrder
    BY <2>1 DEF Backlog, InOrder
  <2>4. Ranked(<<>>)
    BY <2>1, <2>2 DEF Ranked, Starts, Ends
  <2>. QED  BY <2>3, <2>4 DEF RInv
<1>2. Types /\ RInv => RepliesInOrder
  <2>. SUFFICES ASSUME Types, RInv, Intact
                PROVE  /\ IsPrefix(got, queued)
                       /\ (finished = <<>> /\ d2c = <<>> /\ inbuf = <<>>) => got = queued
    BY DEF RepliesInOrder, Intact
  <2>1. InOrder
    BY DEF RInv
  <2>2. queued \in Seq(Gift)
    <3>1. queued \in Seq(Answer)
      BY DEF Types, DaemonTypes
    <3>2. \A i \in 1..Len(queued) : queued[i] \in Gift
      BY <3>1, ElementOfSeq DEF Gift
    <3>. QED  BY <3>1, <3>2, Retype
  <2>3. IsPrefix(got, queued) /\ (Len(got) = Len(queued) => got = queued)
    BY <2>1, <2>2, PrefixFacts DEF InOrder, Types, ClientTypes
  <2>4. ASSUME finished = <<>>, d2c = <<>>, inbuf = <<>> PROVE Len(got) = Len(queued)
    <3>1. PICK R : Ranked(R)
      BY DEF RInv
    <3>2. Len(d2c) = 0 /\ Len(inbuf) = 0 /\ Len(finished) = 0
      BY <2>4
    <3>3. Flow = 0 /\ Written = Len(queued)
      BY <3>2, FlowFacts DEF Flow, Written
    <3>. QED  BY <3>1, <3>3 DEF Ranked, Starts
  <2>. QED  BY <2>3, <2>4
<1>. QED  BY <1>1, <1>2, RInvStep, AlwaysTypes, PTL DEF Spec

=============================================================================
