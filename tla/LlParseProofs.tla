--------------------------- MODULE LlParseProofs ---------------------------
(***************************************************************************)
(* Proofs about the byte parser (LlParse): its buffer is never overrun,    *)
(* nothing of a line is left behind for the next one, a serial line that   *)
(* loses nothing never makes gsmd initialise the modem again and delivers  *)
(* every response exactly once, and after a loss the parser finds back     *)
(* into the stream, for any texts, buffer and read size.                   *)
(***************************************************************************)
EXTENDS LlParse, SequenceTheorems, WellFoundedInduction, TLAPS

-----------------------------------------------------------------------------
(* The parser's operators. *)

LEMMA ControlBytes == "CR" \in Byte /\ "LF" \in Byte /\ "GT" \in Byte /\ "SP" \in Byte
  BY DEF Byte

Buffer == {b \in Seq(Byte) : Len(b) <= BufSize}
Parser_Set == [state : States, buf : Buffer, ok : BOOLEAN]

LEMMA EmptyBuffer == <<>> \in Buffer
  BY LlParseAssumption, EmptySeq DEF Buffer

(* llparse_append keeps the state, and the length of the buffer within bounds. *)
LEMMA AppendType ==
  ASSUME NEW p \in Parser_Set, NEW b \in Byte
  PROVE  /\ llparse_append(p, b) \in Parser_Set
         /\ llparse_append(p, b).state = p.state
         /\ llparse_append(p, b).buf # <<>>
<1>1. BufSize \in Nat \ {0}
  BY LlParseAssumption
<1>2. p.buf \in Seq(Byte) /\ Len(p.buf) \in Nat /\ Len(p.buf) <= BufSize
  BY DEF Parser_Set, Buffer
<1>3. CASE Len(p.buf) < BufSize
  <2>1. Append(p.buf, b) # <<>>
    BY <1>2, AppendProperties
  <2>2. Append(p.buf, b) \in Seq(Byte) /\ Len(Append(p.buf, b)) = Len(p.buf) + 1
    BY <1>2, AppendProperties
  <2>3. Append(p.buf, b) \in Buffer
    BY <1>1, <1>2, <1>3, <2>2 DEF Buffer
  <2>4. llparse_append(p, b) = [p EXCEPT !.buf = Append(p.buf, b), !.ok = TRUE]
    BY <1>3 DEF llparse_append
  <2>. QED  BY <2>1, <2>3, <2>4 DEF Parser_Set
<1>4. CASE ~(Len(p.buf) < BufSize)
  <2>1. llparse_append(p, b) = [p EXCEPT !.ok = FALSE]
    BY <1>4 DEF llparse_append
  <2>2. p.buf # <<>>
    BY <1>1, <1>2, <1>4
  <2>. QED  BY <2>1, <2>2 DEF Parser_Set
<1>. QED  BY <1>3, <1>4

LEMMA ToType ==
  ASSUME NEW p \in Parser_Set, NEW s \in States
  PROVE  To(p, s) \in Parser_Set /\ To(p, s).state = s /\ To(p, s).buf = p.buf
  BY DEF To, Parser_Set

LEMMA EndlineType ==
  ASSUME NEW p \in Parser_Set
  PROVE  /\ llparse_endline(p) \in Parser_Set
         /\ llparse_endline(p).state = "IDLE" /\ llparse_endline(p).buf = <<>>
  BY EmptyBuffer DEF llparse_endline, Parser_Set, States

(* What one byte does: where each state comes from, and what is in the buffer. *)
Clean(p) == /\ p.state \notin {"RESULT", "RESULT_CR"} => p.buf = <<>>
            /\ p.state = "RESULT" => p.buf # <<>>

Origin(p, b, q) ==
  /\ ~q.ok => q.state = "RESULT"
  /\ q.state = "IDLE" => p.state = "RESULT_CR" /\ b = "LF"
  /\ q.state = "IDLE_CR" => b = "CR" /\ p.state \in {"IDLE", "PROMPT_SPC", "IDLE_CR"}
  /\ q.state = "IDLE_LF" => b = "LF" /\ p.state = "IDLE_CR"
  /\ q.state = "PROMPT" => b = "GT" /\ p.state \in {"IDLE", "PROMPT_SPC", "IDLE_LF"}
  /\ q.state = "PROMPT_SPC" => b = "SP" /\ p.state = "PROMPT"
  /\ q.state = "RESULT_CR" => /\ q.buf = p.buf
                              /\ \/ p.state = "RESULT_CR"
                                 \/ b = "CR" /\ p.state \in {"RESULT", "IDLE_LF"}
  /\ q.state = "ERROR" => p.state = "ERROR" \/ (p.state = "IDLE_CR" /\ b \notin {"CR", "LF"})

LEMMA ByteStep ==
  ASSUME NEW p \in Parser_Set, p.ok = TRUE, Clean(p), NEW b \in Byte, NEW q, q = llparse_byte(p, b)
  PROVE  q \in Parser_Set /\ Clean(q) /\ Origin(p, b, q)
<1>. DEFINE append(r) == llparse_append(r, b)
<1>1. p.state \in States
  BY DEF Parser_Set
<1>2. \A s \in States : To(p, s) \in Parser_Set /\ To(p, s).state = s /\ To(p, s).buf = p.buf /\ To(p, s).ok = TRUE
  <2>1. \A s \in States : To(p, s).ok = TRUE
    BY DEF To, Parser_Set
  <2>. QED  BY <2>1, ToType
<1>3. \A r \in Parser_Set : /\ append(r) \in Parser_Set /\ append(r).state = r.state
                            /\ append(r).buf # <<>>
  BY AppendType
<1>4. {"RESULT", "IDLE_CR", "IDLE_LF", "PROMPT", "PROMPT_SPC", "ERROR", "RESULT_CR"} \subseteq States
  BY DEF States
<1>5. llparse_append(To(p, "RESULT"), "GT") \in Parser_Set /\ llparse_append(To(p, "RESULT"), "GT").state = "RESULT"
  <2>1. To(p, "RESULT") \in Parser_Set /\ To(p, "RESULT").state = "RESULT" /\ "GT" \in Byte
    BY <1>2, ControlBytes DEF States
  <2>. QED  BY <2>1, AppendType
<1>6. CASE p.state \in {"IDLE", "PROMPT_SPC"}
  <2>1. CASE b = "CR"
    <3>1. q = To(p, "IDLE_CR")
      BY <1>6, <2>1 DEF llparse_byte
    <3>. QED  BY <1>2, <1>4, <1>6, <2>1, <3>1 DEF Clean, Origin
  <2>2. CASE b = "GT"
    <3>1. q = To(p, "PROMPT")
      BY <1>6, <2>2 DEF llparse_byte
    <3>. QED  BY <1>2, <1>4, <1>6, <2>2, <3>1 DEF Clean, Origin
  <2>3. CASE b \notin {"CR", "GT"}
    <3>1. q = append(To(p, "RESULT"))
      BY <1>6, <2>3 DEF llparse_byte
    <3>2. q \in Parser_Set /\ q.state = "RESULT" /\ q.buf # <<>>
      BY <1>2, <1>3, <1>4, <3>1
    <3>. QED  BY <3>2 DEF Clean, Origin
  <2>. QED  BY <2>1, <2>2, <2>3
<1>7. CASE p.state = "IDLE_CR"
  <2>1. CASE b = "LF"
    <3>1. q = To(p, "IDLE_LF")
      BY <1>7, <2>1 DEF llparse_byte
    <3>. QED  BY <1>2, <1>4, <1>7, <2>1, <3>1 DEF Clean, Origin
  <2>2. CASE b = "CR"
    <3>1. q = p
      BY <1>7, <2>2 DEF llparse_byte
    <3>. QED  BY <1>7, <2>2, <3>1 DEF Clean, Origin
  <2>3. CASE b \notin {"CR", "LF"}
    <3>1. q = To(p, "ERROR")
      BY <1>7, <2>3 DEF llparse_byte
    <3>. QED  BY <1>2, <1>4, <1>7, <2>3, <3>1 DEF Clean, Origin
  <2>. QED  BY <2>1, <2>2, <2>3
<1>8. CASE p.state = "IDLE_LF"
  <2>1. CASE b = "CR"
    <3>1. q = To(p, "RESULT_CR")
      BY <1>8, <2>1 DEF llparse_byte
    <3>. QED  BY <1>2, <1>4, <1>8, <2>1, <3>1 DEF Clean, Origin
  <2>2. CASE b = "GT"
    <3>1. q = To(p, "PROMPT")
      BY <1>8, <2>2 DEF llparse_byte
    <3>. QED  BY <1>2, <1>4, <1>8, <2>2, <3>1 DEF Clean, Origin
  <2>3. CASE b \notin {"CR", "GT"}
    <3>1. q = append(To(p, "RESULT"))
      BY <1>8, <2>3 DEF llparse_byte
    <3>. QED  BY <1>2, <1>3, <1>4, <1>8, <2>3, <3>1 DEF Clean, Origin
  <2>. QED  BY <2>1, <2>2, <2>3
<1>9. CASE p.state = "RESULT"
  <2>1. CASE b = "CR"
    <3>1. q = To(p, "RESULT_CR")
      BY <1>9, <2>1 DEF llparse_byte
    <3>. QED  BY <1>2, <1>4, <1>9, <2>1, <3>1 DEF Clean, Origin
  <2>2. CASE b # "CR"
    <3>1. q = append(p)
      BY <1>9, <2>2 DEF llparse_byte
    <3>. QED  BY <1>3, <1>9, <2>2, <3>1 DEF Clean, Origin
  <2>. QED  BY <2>1, <2>2
<1>10. CASE p.state = "RESULT_CR"
  <2>1. CASE b = "LF"
    <3>1. q = llparse_endline(p)
      BY <1>10, <2>1 DEF llparse_byte
    <3>2. q.ok = TRUE
      BY <3>1 DEF llparse_endline, Parser_Set
    <3>. QED  BY <1>10, <2>1, <3>1, <3>2, EndlineType DEF Clean, Origin
  <2>2. CASE b # "LF"
    <3>1. q = p
      BY <1>10, <2>2 DEF llparse_byte
    <3>. QED  BY <1>10, <2>2, <3>1 DEF Clean, Origin
  <2>. QED  BY <2>1, <2>2
<1>11. CASE p.state = "PROMPT"
  <2>1. CASE b = "SP"
    <3>1. q = To(p, "PROMPT_SPC")
      BY <1>11, <2>1 DEF llparse_byte
    <3>. QED  BY <1>2, <1>4, <1>11, <2>1, <3>1 DEF Clean, Origin
  <2>2. CASE b # "SP"
    <3>1. q = append(llparse_append(To(p, "RESULT"), "GT"))
      BY <1>11, <2>2 DEF llparse_byte
    <3>. QED  BY <1>3, <1>5, <1>11, <2>2, <3>1 DEF Clean, Origin
  <2>. QED  BY <2>1, <2>2
<1>12. CASE p.state = "ERROR"
  <2>1. q = p
    BY <1>12 DEF llparse_byte
  <2>. QED  BY <1>12, <2>1 DEF Clean, Origin
<1>. QED  BY <1>1, <1>6, <1>7, <1>8, <1>9, <1>10, <1>11, <1>12 DEF States

-----------------------------------------------------------------------------
(* Types: every byte string the actions build is one. *)

LEMMA TupleType ==
  ASSUME NEW S, NEW a \in S, NEW b \in S, NEW c \in S, NEW d \in S
  PROVE  <<a>> \in Seq(S) /\ <<a, b>> \in Seq(S) /\ <<a, b, c, d>> \in Seq(S)
  OBVIOUS

LEMMA BytesType ==
  ASSUME NEW x \in Item_Set
  PROVE  Bytes(x) \in Seq(Byte)
<1>1. x.text \in Seq(Byte) /\ x.kind \in {"line", "prompt", "echo"}
  BY DEF Item_Set
<1>2. <<"CR", "LF">> \in Seq(Byte) /\ <<"CR">> \in Seq(Byte) /\ <<"CR", "LF", "GT", "SP">> \in Seq(Byte)
  BY ControlBytes, TupleType
<1>3. x.text \o <<"CR">> \in Seq(Byte) /\ <<"CR", "LF">> \o x.text \in Seq(Byte)
  BY <1>1, <1>2, ConcatProperties
<1>4. <<"CR", "LF">> \o x.text \o <<"CR", "LF">> \in Seq(Byte)
  BY <1>2, <1>3, ConcatProperties
<1>. QED  BY <1>1, <1>2, <1>3, <1>4 DEF Bytes

LEMMA ItemsTyped ==
  /\ \A t \in Texts : Item("line", t) \in Item_Set
  /\ \A t \in Echoes : Item("echo", t) \in Item_Set
  /\ Prompt \in Item_Set
  /\ \A b \in Seq(Byte) : Item("line", b) \in Item_Set
  BY LlParseAssumption, EmptySeq DEF Item, Item_Set, Prompt

LEMMA CutType ==
  ASSUME NEW s \in Seq(Byte), NEW m \in 1..(Len(s) + 1), NEW n \in 0..Len(s)
  PROVE  SubSeq(s, m, n) \in Seq(Byte)
<1>1. \A i \in m..n : s[i] \in Byte
  BY ElementOfSeq
<1>. QED  BY <1>1, SubSeqProperties

LEMMA RemoveType ==
  ASSUME NEW s \in Seq(Byte), NEW i \in 1..Len(s)
  PROVE  RemoveAt(s, i) \in Seq(Byte)
<1>1. SubSeq(s, 1, i - 1) \in Seq(Byte) /\ SubSeq(s, i + 1, Len(s)) \in Seq(Byte)
  BY CutType
<1>. QED  BY <1>1, ConcatProperties DEF RemoveAt

-----------------------------------------------------------------------------
(* TypeOK, NoResidue and the fact that a line under way is not empty are       *)
(* inductive together.                                                         *)
PInv == TypeOK /\ Clean([state |-> state, buf |-> buf])

LEMMA PInit == Init => PInv
<1>1. /\ <<>> \in Seq(Byte) /\ <<>> \in Seq(Item_Set) /\ Len(<<>>) <= BufSize
  BY LlParseAssumption, EmptySeq
<1>2. ASSUME Init PROVE TypeOK
  <2>1. buf \in Seq(Byte) /\ Len(buf) <= BufSize /\ chunk \in Seq(Byte) /\ wire \in Seq(Byte)
    BY <1>1, <1>2 DEF Init
  <2>2. sent \in Seq(Item_Set) /\ got \in Seq(Item_Set)
    BY <1>1, <1>2 DEF Init
  <2>3. state \in States /\ lost \in Nat /\ lostAt \in Nat /\ overrun \in BOOLEAN
    BY <1>2 DEF Init, States
  <2>. QED  BY <2>1, <2>2, <2>3 DEF TypeOK
<1>3. Init => Clean([state |-> state, buf |-> buf])
  BY DEF Init, Clean
<1>. QED  BY <1>2, <1>3 DEF PInv

LEMMA SendType ==
  ASSUME TypeOK, NEW x \in Item_Set, Send(x)
  PROVE  TypeOK'
<1>1. wire' \in Seq(Byte)
  BY BytesType, ConcatProperties DEF Send, TypeOK
<1>2. sent' \in Seq(Item_Set)
  BY AppendProperties DEF Send, TypeOK
<1>. QED  BY <1>1, <1>2 DEF Send, TypeOK, parser

(* The byte that Parse looks at, and what llparse_byte makes of it. *)
Current == [state |-> state, buf |-> buf, ok |-> TRUE]
After == llparse_byte(Current, Head(chunk))

LEMMA ParseStep ==
  ASSUME PInv, Parse
  PROVE  /\ Head(chunk) \in Byte /\ Tail(chunk) \in Seq(Byte)
         /\ After \in Parser_Set /\ Clean(After) /\ Origin(Current, Head(chunk), After)
         /\ state' = After.state /\ buf' = After.buf /\ llparse_string(After)
<1>1. chunk \in Seq(Byte) /\ chunk # <<>>
  BY DEF PInv, TypeOK, Parse
<1>2. Head(chunk) \in Byte /\ Tail(chunk) \in Seq(Byte)
  BY <1>1, HeadTailProperties
<1>3. Current \in Parser_Set /\ Current.ok = TRUE /\ Clean(Current)
  BY DEF PInv, TypeOK, Parser_Set, Buffer, Current, Clean
<1>4. After \in Parser_Set /\ Clean(After) /\ Origin(Current, Head(chunk), After)
  BY <1>2, <1>3, ByteStep DEF After
<1>5. state' = After.state /\ buf' = After.buf /\ llparse_string(After)
  BY DEF Parse, After, Current
<1>. QED  BY <1>2, <1>4, <1>5

LEMMA PNext == PInv /\ [Next]_vars => PInv'
<1>. SUFFICES ASSUME PInv, [Next]_vars PROVE PInv'
  OBVIOUS
<1>1. ASSUME NEW x \in Item_Set, Send(x) PROVE PInv'
  BY <1>1, SendType DEF PInv, Clean, Send, parser
<1>2. CASE \E t \in Texts : Send(Item("line", t))
  BY <1>1, <1>2, ItemsTyped
<1>3. CASE Send(Prompt)
  BY <1>1, <1>3, ItemsTyped
<1>4. CASE \E t \in Echoes : Send(Item("echo", t))
  BY <1>1, <1>4, ItemsTyped
<1>5. ASSUME NEW i \in 1..Len(wire), Lose(i) PROVE PInv'
  <2>1. wire' \in Seq(Byte)
    BY <1>5, RemoveType DEF Lose, PInv, TypeOK
  <2>2. lost' \in Nat /\ lostAt' \in Nat
    BY <1>5 DEF Lose, PInv, TypeOK
  <2>. QED  BY <1>5, <2>1, <2>2 DEF Lose, PInv, TypeOK, Clean, parser
<1>6. CASE Reading
  <2>1. PICK n \in 1..Len(wire) : Read(n)
    BY <1>6, LlParseAssumption DEF Reading, PInv, TypeOK
  <2>2. chunk' \in Seq(Byte) /\ wire' \in Seq(Byte)
    BY <2>1, CutType DEF Read, PInv, TypeOK
  <2>. QED  BY <2>1, <2>2 DEF Read, PInv, TypeOK, Clean, history
<1>7. CASE Parse
  <2>1. state' \in States /\ buf' \in Seq(Byte) /\ Len(buf') <= BufSize
    BY <1>7, ParseStep DEF Parser_Set, Buffer
  <2>2. chunk' \in Seq(Byte) /\ overrun' \in BOOLEAN
    BY <1>7, ParseStep, EmptySeq DEF llparse_string, PInv, TypeOK
  <2>3. After.buf \in Seq(Byte)
    BY <1>7, ParseStep DEF Parser_Set, Buffer
  <2>4. got' \in {got, Append(got, Item("line", After.buf)), Append(got, Prompt)}
    BY <1>7, ParseStep DEF llparse_string
  <2>5. got' \in Seq(Item_Set)
    <3>1. got \in Seq(Item_Set) /\ Item("line", After.buf) \in Item_Set /\ Prompt \in Item_Set
      BY <2>3, ItemsTyped DEF PInv, TypeOK
    <3>2. \A x \in Item_Set : Append(got, x) \in Seq(Item_Set)
      BY <3>1, AppendProperties
    <3>. QED  BY <2>4, <3>1, <3>2
  <2>6. Clean([state |-> state, buf |-> buf])'
    BY <1>7, ParseStep DEF Clean
  <2>. QED  BY <1>7, <2>1, <2>2, <2>5, <2>6 DEF Parse, PInv, TypeOK
<1>8. CASE UNCHANGED vars
  BY <1>8 DEF vars, PInv, TypeOK, Clean
<1>. QED  BY <1>2, <1>3, <1>4, <1>5, <1>6, <1>7, <1>8 DEF Next

(* The parser's buffer never outgrows llp->buf, for any buffer and read size   *)
(* and whatever bytes arrive: llparse_append is the only writer and tests the  *)
(* length first.                                                               *)
THEOREM LinesTyped == Spec => []TypeOK
<1>1. Spec => []PInv
  BY PInit, PNext, PTL DEF Spec
<1>2. PInv => TypeOK
  BY DEF PInv
<1>. QED  BY <1>1, <1>2, PTL

(* Outside a line the buffer is empty: neither llparse_endline nor the prompt  *)
(* states leave bytes that would become the beginning of the next line.        *)
THEOREM LinesSeparate == Spec => []NoResidue
<1>1. Spec => []PInv
  BY PInit, PNext, PTL DEF Spec
<1>2. PInv => NoResidue
  BY DEF PInv, Clean, NoResidue
<1>. QED  BY <1>1, <1>2, PTL

-----------------------------------------------------------------------------
(* No false reset.  As long as nothing is lost the bytes not parsed yet are   *)
(* sound: a CR that follows an LF or a prompt begins a header, which is there *)
(* in full and is followed by a text or a prompt, and "> " follows an LF only *)
(* as a prompt.  This is a property of every position, so that it survives    *)
(* when llparse_string drops a part of the bytes.                             *)

stream == chunk \o wire

Header(s, i) == i + 2 <= Len(s) /\ s[i + 1] = "LF" /\ s[i + 2] # "CR"
AfterPrompt(s, i) ==
  i <= Len(s) => /\ s[i] = "CR" => Header(s, i)
                 /\ s[i] = "GT" => i < Len(s) /\ s[i + 1] # "SP"
Fresh(s, i) ==
  i <= Len(s) => /\ s[i] = "CR" => Header(s, i)
                 /\ s[i] = "GT" => i < Len(s) /\ (s[i + 1] = "SP" => AfterPrompt(s, i + 2))
Sound(s) == \A i \in 1..Len(s) : s[i] = "LF" => Fresh(s, i + 1)

(* What the parser's state says of the next bytes. *)
Here(st, s) ==
  /\ st # "ERROR"
  /\ st = "IDLE" => Fresh(s, 1)
  /\ st = "PROMPT_SPC" => AfterPrompt(s, 1)
  /\ st = "IDLE_CR" => Len(s) >= 2 /\ s[1] = "LF" /\ s[2] # "CR"
  /\ st = "IDLE_LF" => Len(s) >= 1 /\ s[1] # "CR" /\ Fresh(s, 1)
  /\ st = "PROMPT" => Len(s) >= 1 /\ (s[1] = "SP" => AfterPrompt(s, 2))

Join(s, t, u) ==
  /\ Len(s) \in Nat /\ Len(t) \in Nat /\ Len(u) = Len(s) + Len(t)
  /\ \A i \in 1..Len(s) : u[i] = s[i]
  /\ \A i \in 1..Len(t) : u[Len(s) + i] = t[i]

LEMMA Joined ==
  ASSUME NEW s \in Seq(Byte), NEW t \in Seq(Byte)
  PROVE  Join(s, t, s \o t)
<1>1. \A i \in 1..Len(t) : Len(s) + i \in 1..Len(s) + Len(t) /\ ~(Len(s) + i <= Len(s)) /\ Len(s) + i - Len(s) = i
  BY LenProperties
<1>. QED  BY <1>1, ConcatProperties, LenProperties DEF Join

LEMMA StableHeader ==
  ASSUME NEW s, NEW t, NEW u, Join(s, t, u), NEW i \in 1..Len(s), Header(s, i)
  PROVE  Header(u, i)
  BY DEF Join, Header

LEMMA ShiftHeader ==
  ASSUME NEW s, NEW t, NEW u, Join(s, t, u), NEW i \in 1..Len(t), Header(t, i)
  PROVE  Header(u, Len(s) + i)
  BY DEF Join, Header

LEMMA StableAfterPrompt ==
  ASSUME NEW s, NEW t, NEW u, Join(s, t, u),
         NEW i \in 1..Len(s) + 1, AfterPrompt(s, i), AfterPrompt(t, 1)
  PROVE  AfterPrompt(u, i)
<1>. SUFFICES ASSUME i <= Len(u)
              PROVE  /\ u[i] = "CR" => Header(u, i)
                     /\ u[i] = "GT" => i < Len(u) /\ u[i + 1] # "SP"
  BY DEF AfterPrompt
<1>1. CASE i <= Len(s)
  <2>1. i \in 1..Len(s) /\ u[i] = s[i]
    BY <1>1 DEF Join
  <2>2. ASSUME u[i] = "CR" PROVE Header(u, i)
    <3>1. Header(s, i)
      BY <1>1, <2>1, <2>2 DEF AfterPrompt
    <3>. QED  BY <2>1, <3>1, StableHeader
  <2>3. ASSUME u[i] = "GT" PROVE i < Len(u) /\ u[i + 1] # "SP"
    BY <1>1, <2>1, <2>3 DEF AfterPrompt, Join
  <2>. QED  BY <2>2, <2>3
<1>2. CASE i = Len(s) + 1
  <2>1. 1 \in 1..Len(t) /\ u[i] = t[1] /\ 1 <= Len(t)
    BY <1>2 DEF Join
  <2>2. ASSUME u[i] = "CR" PROVE Header(u, i)
    <3>1. Header(t, 1)
      BY <2>1, <2>2 DEF AfterPrompt
    <3>. QED  BY <1>2, <2>1, <3>1, ShiftHeader
  <2>3. ASSUME u[i] = "GT" PROVE i < Len(u) /\ u[i + 1] # "SP"
    <3>1. 1 < Len(t) /\ t[2] # "SP"
      BY <2>1, <2>3 DEF AfterPrompt
    <3>. QED  BY <1>2, <3>1 DEF Join
  <2>. QED  BY <2>2, <2>3
<1>. QED  BY <1>1, <1>2 DEF Join

LEMMA ShiftAfterPrompt ==
  ASSUME NEW s, NEW t, NEW u, Join(s, t, u), NEW i \in Nat \ {0}, AfterPrompt(t, i)
  PROVE  AfterPrompt(u, Len(s) + i)
<1>. SUFFICES ASSUME Len(s) + i <= Len(u)
              PROVE  /\ u[Len(s) + i] = "CR" => Header(u, Len(s) + i)
                     /\ u[Len(s) + i] = "GT" => Len(s) + i < Len(u) /\ u[Len(s) + i + 1] # "SP"
  BY DEF AfterPrompt
<1>1. i \in 1..Len(t) /\ u[Len(s) + i] = t[i] /\ i <= Len(t)
  BY DEF Join
<1>2. ASSUME t[i] = "CR" PROVE Header(u, Len(s) + i)
  <2>1. Header(t, i)
    BY <1>1, <1>2 DEF AfterPrompt
  <2>. QED  BY <1>1, <2>1, ShiftHeader
<1>3. ASSUME t[i] = "GT" PROVE Len(s) + i < Len(u) /\ u[Len(s) + i + 1] # "SP"
  <2>1. i < Len(t) /\ t[i + 1] # "SP"
    BY <1>1, <1>3 DEF AfterPrompt
  <2>2. i + 1 \in 1..Len(t) /\ Len(s) + i + 1 = Len(s) + (i + 1)
    BY <2>1 DEF Join
  <2>3. u[Len(s) + i + 1] = t[i + 1]
    BY <2>2 DEF Join
  <2>. QED  BY <2>1, <2>3 DEF Join
<1>. QED  BY <1>1, <1>2, <1>3

LEMMA ShiftFresh ==
  ASSUME NEW s, NEW t, NEW u, Join(s, t, u), NEW i \in Nat \ {0}, Fresh(t, i), NEW j, j = Len(s) + i
  PROVE  Fresh(u, j)
<1>. SUFFICES ASSUME j <= Len(u)
              PROVE  /\ u[j] = "CR" => Header(u, j)
                     /\ u[j] = "GT" => j < Len(u) /\ (u[j + 1] = "SP" => AfterPrompt(u, j + 2))
  BY DEF Fresh
<1>1. i \in 1..Len(t) /\ u[j] = t[i] /\ i <= Len(t)
  BY DEF Join
<1>2. ASSUME t[i] = "CR" PROVE Header(u, j)
  <2>1. Header(t, i)
    BY <1>1, <1>2 DEF Fresh
  <2>. QED  BY <1>1, <2>1, ShiftHeader
<1>3. ASSUME t[i] = "GT" PROVE j < Len(u) /\ (u[j + 1] = "SP" => AfterPrompt(u, j + 2))
  <2>1. i < Len(t) /\ (t[i + 1] = "SP" => AfterPrompt(t, i + 2))
    BY <1>1, <1>3 DEF Fresh
  <2>2. /\ i + 1 \in 1..Len(t) /\ j + 1 = Len(s) + (i + 1) /\ j < Len(u)
        /\ i + 2 \in Nat \ {0} /\ j + 2 = Len(s) + (i + 2)
    BY <2>1 DEF Join
  <2>3. u[j + 1] = t[i + 1]
    BY <2>2 DEF Join
  <2>4. ASSUME t[i + 1] = "SP" PROVE AfterPrompt(u, j + 2)
    <3>1. AfterPrompt(u, Len(s) + (i + 2))
      BY <2>1, <2>2, <2>4, ShiftAfterPrompt
    <3>. QED  BY <2>2, <3>1
  <2>. QED  BY <2>1, <2>2, <2>3, <2>4
<1>. QED  BY <1>1, <1>2, <1>3

LEMMA StableFresh ==
  ASSUME NEW s, NEW t, NEW u, Join(s, t, u),
         NEW i \in 1..Len(s) + 1, Fresh(s, i), Fresh(t, 1), AfterPrompt(t, 1)
  PROVE  Fresh(u, i)
<1>1. CASE i <= Len(s)
  <2>. SUFFICES ASSUME i <= Len(u)
                PROVE  /\ u[i] = "CR" => Header(u, i)
                       /\ u[i] = "GT" => i < Len(u) /\ (u[i + 1] = "SP" => AfterPrompt(u, i + 2))
    BY DEF Fresh
  <2>1. i \in 1..Len(s) /\ u[i] = s[i]
    BY <1>1 DEF Join
  <2>2. ASSUME u[i] = "CR" PROVE Header(u, i)
    <3>1. Header(s, i)
      BY <1>1, <2>1, <2>2 DEF Fresh
    <3>. QED  BY <2>1, <3>1, StableHeader
  <2>3. ASSUME u[i] = "GT" PROVE i < Len(u) /\ (u[i + 1] = "SP" => AfterPrompt(u, i + 2))
    <3>1. i < Len(s) /\ (s[i + 1] = "SP" => AfterPrompt(s, i + 2))
      BY <1>1, <2>1, <2>3 DEF Fresh
    <3>2. u[i + 1] = s[i + 1] /\ i + 2 \in 1..Len(s) + 1 /\ i < Len(u)
      BY <3>1 DEF Join
    <3>. QED  BY <3>1, <3>2, StableAfterPrompt
  <2>. QED  BY <2>2, <2>3
<1>2. CASE i = Len(s) + 1
  BY <1>2, ShiftFresh
<1>. QED  BY <1>1, <1>2 DEF Join

(* Sound streams can be put together, and cut. *)
Begins(t) == Len(t) >= 1 /\ Fresh(t, 1) /\ AfterPrompt(t, 1)

LEMMA JoinSound ==
  ASSUME NEW s, NEW t, NEW u, Join(s, t, u), Sound(s), Sound(t), Begins(t)
  PROVE  Sound(u)
<1>. SUFFICES ASSUME NEW i \in 1..Len(u), u[i] = "LF" PROVE Fresh(u, i + 1)
  BY DEF Sound
<1>1. CASE i <= Len(s)
  <2>1. i \in 1..Len(s) /\ s[i] = "LF" /\ i + 1 \in 1..Len(s) + 1
    BY <1>1 DEF Join
  <2>2. Fresh(s, i + 1)
    BY <2>1 DEF Sound
  <2>. QED  BY <2>1, <2>2, StableFresh DEF Begins
<1>2. CASE i > Len(s)
  <2>. DEFINE k == i - Len(s)
  <2>1. k \in 1..Len(t) /\ i = Len(s) + k /\ k + 1 \in Nat \ {0} /\ i + 1 = Len(s) + (k + 1)
    BY <1>2 DEF Join
  <2>2. t[k] = "LF"
    BY <2>1 DEF Join
  <2>3. Fresh(t, k + 1)
    BY <2>1, <2>2 DEF Sound
  <2>. HIDE DEF k
  <2>. QED  BY <2>1, <2>3, ShiftFresh
<1>. QED  BY <1>1, <1>2 DEF Join

LEMMA JoinHere ==
  ASSUME NEW s, NEW t, NEW u, Join(s, t, u), Begins(t), NEW st, Here(st, s)
  PROVE  Here(st, u)
<1>1. 1 \in 1..Len(s) + 1
  BY DEF Join
<1>2. Fresh(s, 1) => Fresh(u, 1)
  BY <1>1, StableFresh DEF Begins
<1>3. AfterPrompt(s, 1) => AfterPrompt(u, 1)
  BY <1>1, StableAfterPrompt DEF Begins
<1>4. Len(s) >= 1 /\ AfterPrompt(s, 2) => AfterPrompt(u, 2)
  <2>1. Len(s) >= 1 => 2 \in 1..Len(s) + 1
    BY DEF Join
  <2>. QED  BY <2>1, StableAfterPrompt DEF Begins
<1>5. /\ Len(s) >= 1 => Len(u) >= 1 /\ u[1] = s[1]
      /\ Len(s) >= 2 => Len(u) >= 2 /\ u[1] = s[1] /\ u[2] = s[2]
  BY DEF Join
<1>. QED  BY <1>2, <1>3, <1>4, <1>5 DEF Here

(* s ends in t: what llparse_string leaves of the stream. *)
Suffix(t, n, s) ==
  /\ n \in Nat /\ Len(t) \in Nat /\ Len(s) = n + Len(t)
  /\ \A i \in 1..Len(t) : t[i] = s[n + i]

LEMMA SuffixFresh ==
  ASSUME NEW s, NEW t, NEW n, Suffix(t, n, s), NEW i \in Nat \ {0}, NEW j, j = n + i
  PROVE  /\ AfterPrompt(s, j) => AfterPrompt(t, i)
         /\ Fresh(s, j) => Fresh(t, i)
<1>1. ASSUME NEW a \in Nat \ {0}, NEW c, c = n + a, a <= Len(t), Header(s, c) PROVE Header(t, a)
  BY <1>1 DEF Header, Suffix
<1>2. ASSUME NEW a \in Nat \ {0}, NEW c, c = n + a, AfterPrompt(s, c) PROVE AfterPrompt(t, a)
  <2>. SUFFICES ASSUME a <= Len(t)
                PROVE  /\ t[a] = "CR" => Header(t, a)
                       /\ t[a] = "GT" => a < Len(t) /\ t[a + 1] # "SP"
    BY DEF AfterPrompt
  <2>1. t[a] = s[c] /\ c <= Len(s)
    BY <1>2 DEF Suffix
  <2>2. ASSUME t[a] = "CR" PROVE Header(t, a)
    BY <1>1, <1>2, <2>1, <2>2 DEF AfterPrompt
  <2>3. ASSUME t[a] = "GT" PROVE a < Len(t) /\ t[a + 1] # "SP"
    <3>1. c < Len(s) /\ s[c + 1] # "SP"
      BY <1>2, <2>1, <2>3 DEF AfterPrompt
    <3>2. a < Len(t) /\ a + 1 \in 1..Len(t) /\ c + 1 = n + (a + 1)
      BY <1>2, <3>1 DEF Suffix
    <3>. QED  BY <3>1, <3>2 DEF Suffix
  <2>. QED  BY <2>2, <2>3
<1>3. ASSUME Fresh(s, j) PROVE Fresh(t, i)
  <2>. SUFFICES ASSUME i <= Len(t)
                PROVE  /\ t[i] = "CR" => Header(t, i)
                       /\ t[i] = "GT" => i < Len(t) /\ (t[i + 1] = "SP" => AfterPrompt(t, i + 2))
    BY DEF Fresh
  <2>1. t[i] = s[j] /\ j <= Len(s)
    BY DEF Suffix
  <2>2. ASSUME t[i] = "CR" PROVE Header(t, i)
    BY <1>1, <1>3, <2>1, <2>2 DEF Fresh
  <2>3. ASSUME t[i] = "GT" PROVE i < Len(t) /\ (t[i + 1] = "SP" => AfterPrompt(t, i + 2))
    <3>1. j < Len(s) /\ (s[j + 1] = "SP" => AfterPrompt(s, j + 2))
      BY <1>3, <2>1, <2>3 DEF Fresh
    <3>2. i < Len(t) /\ i + 1 \in 1..Len(t) /\ j + 1 = n + (i + 1) /\ i + 2 \in Nat \ {0} /\ j + 2 = n + (i + 2)
      BY <3>1 DEF Suffix
    <3>3. t[i + 1] = s[j + 1]
      BY <3>2 DEF Suffix
    <3>. QED  BY <1>2, <3>1, <3>2, <3>3
  <2>. QED  BY <2>2, <2>3
<1>. QED  BY <1>2, <1>3

LEMMA SuffixSound ==
  ASSUME NEW s, NEW t, NEW n, Suffix(t, n, s), Sound(s)
  PROVE  Sound(t)
<1>. SUFFICES ASSUME NEW i \in 1..Len(t), t[i] = "LF" PROVE Fresh(t, i + 1)
  BY DEF Sound
<1>1. n + i \in 1..Len(s) /\ s[n + i] = "LF" /\ i + 1 \in Nat \ {0} /\ n + i + 1 = n + (i + 1)
  BY DEF Suffix
<1>2. Fresh(s, n + i + 1)
  BY <1>1 DEF Sound
<1>. QED  BY <1>1, <1>2, SuffixFresh

(* Every item is sound on its own. *)
LEMMA PlainText ==
  ASSUME NEW t \in Texts \cup Echoes, Plain(t)
  PROVE  /\ t \in Seq(Byte) /\ Len(t) \in Nat /\ Len(t) >= 1
         /\ \A k \in 1..Len(t) : t[k] # "CR" /\ t[k] # "LF"
         /\ t[1] = "GT" => Len(t) >= 2 /\ t[2] # "SP"
<1>1. t \in Seq(Byte) /\ t # <<>> /\ \A k \in 1..Len(t) : t[k] \notin {"CR", "LF"}
  BY LlParseAssumption
<1>2. Len(t) \in Nat /\ Len(t) >= 1
  BY <1>1, EmptySeq
<1>3. <<"GT">> \in Seq(Byte) /\ <<"GT", "SP">> \in Seq(Byte)
  BY ControlBytes, TupleType
<1>4. ASSUME t[1] = "GT", Len(t) = 1 PROVE FALSE
  <2>1. Len(<<"GT">>) = 1 /\ <<"GT">>[1] = "GT"
    OBVIOUS
  <2>2. Len(t) = Len(<<"GT">>) /\ \A i \in 1..Len(t) : t[i] = <<"GT">>[i]
    BY <1>4, <2>1
  <2>3. t = <<"GT">>
    BY <1>1, <1>3, <2>2, SeqEqual
  <2>. QED  BY <2>3 DEF Plain
<1>5. ASSUME t[1] = "GT", t[2] = "SP", Len(t) >= 2 PROVE FALSE
  <2>. DEFINE u == SubSeq(t, 1, 2)
              v == <<"GT", "SP">>
  <2>1. u \in Seq(Byte) /\ Len(u) = 2 /\ u[1] = t[1] /\ u[2] = t[2]
    <3>1. \A i \in 1..2 : t[i] \in Byte
      BY <1>1, <1>5, ElementOfSeq
    <3>. QED  BY <3>1, SubSeqProperties
  <2>2. v \in Seq(Byte) /\ Len(v) = 2 /\ v[1] = "GT" /\ v[2] = "SP"
    BY <1>3
  <2>3. SubSeq(v, 1, Len(v)) = v
    BY <2>2, SubSeqFull
  <2>. HIDE DEF u, v
  <2>4. Len(v) = Len(u) /\ \A i \in 1..Len(v) : v[i] = u[i]
    BY <1>5, <2>1, <2>2
  <2>5. v = u
    BY <2>1, <2>2, <2>4, SeqEqual
  <2>6. IsPrefix(v, t)
    BY <1>5, <2>2, <2>3, <2>5 DEF IsPrefix, u
  <2>. QED  BY <2>6 DEF Plain, v
<1>6. Len(t) = 1 \/ Len(t) >= 2
  <2>1. \A n \in Nat : n >= 1 => n = 1 \/ n >= 2
    OBVIOUS
  <2>. QED  BY <1>2, <2>1, Zenon
<1>7. t[1] = "GT" => Len(t) >= 2 /\ t[2] # "SP"
  BY <1>4, <1>5, <1>6
<1>. QED  BY <1>1, <1>2, <1>7

LEMMA LineBytes ==
  ASSUME NEW t \in Texts, Plain(t), NEW b, b = Bytes(Item("line", t))
  PROVE  b \in Seq(Byte) /\ Begins(b) /\ Sound(b)
<1>. DEFINE h == <<"CR", "LF">>
            n == Len(t)
<1>1. h \in Seq(Byte) /\ Len(h) = 2 /\ h[1] = "CR" /\ h[2] = "LF"
  BY ControlBytes, TupleType
<1>2. /\ t \in Seq(Byte) /\ n \in Nat /\ n >= 1
      /\ \A k \in 1..n : t[k] # "CR" /\ t[k] # "LF"
      /\ t[1] = "GT" => n >= 2 /\ t[2] # "SP"
  BY PlainText
<1>3. b = h \o t \o h
  BY DEF Bytes, Item
<1>. HIDE DEF h, n
<1>4. h \o t \in Seq(Byte) /\ Join(h, t, h \o t)
  BY <1>1, <1>2, ConcatProperties, Joined
<1>5. b \in Seq(Byte) /\ Join(h \o t, h, b)
  BY <1>1, <1>3, <1>4, ConcatProperties, Joined
<1>6. Len(h \o t) = n + 2 /\ Len(b) = n + 4
  BY <1>1, <1>2, <1>4, <1>5 DEF Join, n
<1>7. b[1] = "CR" /\ b[2] = "LF"
  BY <1>1, <1>2, <1>4, <1>5, <1>6 DEF Join
<1>8. \A k \in 1..n : b[2 + k] = t[k]
  BY <1>1, <1>2, <1>4, <1>5, <1>6 DEF Join, n
<1>9. b[n + 3] = "CR"
  BY <1>1, <1>2, <1>5, <1>6 DEF Join
<1>10. /\ b[3] = t[1] /\ t[1] # "CR"
       /\ b[3] = "GT" => n >= 2 /\ b[4] # "SP"
  BY <1>2, <1>8
<1>11. Begins(b)
  BY <1>2, <1>6, <1>7, <1>10 DEF Begins, Fresh, AfterPrompt, Header
<1>12. ASSUME NEW i \in 1..Len(b), b[i] = "LF" PROVE Fresh(b, i + 1)
  <2>1. CASE i = 2
    BY <1>2, <1>6, <1>10, <2>1 DEF Fresh
  <2>2. CASE i = n + 4
    BY <1>2, <1>6, <2>2 DEF Fresh
  <2>3. i # 1 /\ i # n + 3
    BY <1>7, <1>9, <1>12
  <2>4. CASE i \in 3..n + 2
    <3>1. i - 2 \in 1..n /\ 2 + (i - 2) = i
      BY <1>2, <2>4
    <3>2. b[i] = t[i - 2]
      BY <1>8, <3>1
    <3>. QED  BY <1>2, <1>12, <3>1, <3>2
  <2>. QED  BY <1>2, <1>6, <2>1, <2>2, <2>3, <2>4
<1>. QED  BY <1>5, <1>11, <1>12 DEF Sound

LEMMA PromptBytes ==
  ASSUME NEW b, b = Bytes(Prompt)
  PROVE  b \in Seq(Byte) /\ Begins(b) /\ Sound(b)
<1>1. b = <<"CR", "LF", "GT", "SP">>
  BY DEF Bytes, Prompt, Item
<1>2. b \in Seq(Byte)
  BY <1>1, ControlBytes, TupleType
<1>3. Len(b) = 4 /\ b[1] = "CR" /\ b[2] = "LF" /\ b[3] = "GT" /\ b[4] = "SP"
  BY <1>1
<1>4. Begins(b)
  BY <1>3 DEF Begins, Fresh, AfterPrompt, Header
<1>5. ASSUME NEW i \in 1..Len(b), b[i] = "LF" PROVE Fresh(b, i + 1)
  <2>1. i = 2
    BY <1>3, <1>5
  <2>. QED  BY <1>3, <2>1 DEF Fresh, AfterPrompt
<1>. QED  BY <1>2, <1>4, <1>5 DEF Sound

LEMMA EchoBytes ==
  ASSUME NEW t \in Echoes, Plain(t), NEW b, b = Bytes(Item("echo", t))
  PROVE  b \in Seq(Byte) /\ Begins(b) /\ Sound(b)
<1>. DEFINE h == <<"CR">>
            n == Len(t)
<1>1. h \in Seq(Byte) /\ Len(h) = 1 /\ h[1] = "CR"
  BY ControlBytes, TupleType
<1>2. /\ t \in Seq(Byte) /\ n \in Nat /\ n >= 1
      /\ \A k \in 1..n : t[k] # "CR" /\ t[k] # "LF"
      /\ t[1] = "GT" => n >= 2 /\ t[2] # "SP"
  BY PlainText
<1>3. b = t \o h
  BY DEF Bytes, Item
<1>. HIDE DEF h
<1>4. b \in Seq(Byte) /\ Join(t, h, b)
  BY <1>1, <1>2, <1>3, ConcatProperties, Joined
<1>5. Len(b) = n + 1 /\ b[n + 1] = "CR" /\ \A k \in 1..n : b[k] = t[k]
  BY <1>1, <1>2, <1>4 DEF Join
<1>. HIDE DEF n
<1>6. Begins(b)
  <2>1. b[1] = t[1] /\ t[1] # "CR" /\ (b[1] = "GT" => n >= 2 /\ b[2] # "SP")
    BY <1>2, <1>5
  <2>. QED  BY <1>2, <1>5, <2>1 DEF Begins, Fresh, AfterPrompt
<1>7. \A i \in 1..Len(b) : b[i] # "LF"
  BY <1>2, <1>5
<1>. QED  BY <1>4, <1>6, <1>7 DEF Sound

-----------------------------------------------------------------------------
(* The invariant.  Quiet is the condition of NoFalseReset; it never becomes    *)
(* true again.                                                                 *)
Quiet == lost = 0 /\ AllSent(Plain)
EmptyLine == Item("line", <<>>)

QuietInv == /\ Sound(stream) /\ Here(state, stream)
            /\ state = "RESULT_CR" => buf # <<>>
            /\ \A i \in 1..Len(got) : got[i] # EmptyLine
RInv == Quiet => QuietInv

LEMMA RInit == Init => RInv
<1>. SUFFICES ASSUME Init PROVE QuietInv
  BY DEF RInv
<1>1. stream = <<>> /\ Len(stream) = 0 /\ got = <<>> /\ Len(got) = 0
  <2>1. <<>> \o <<>> = <<>>
    BY EmptySeq, ConcatEmptySeq
  <2>. QED  BY <2>1, EmptySeq DEF Init, stream
<1>2. Sound(stream) /\ Fresh(stream, 1)
  BY <1>1 DEF Sound, Fresh
<1>. QED  BY <1>1, <1>2 DEF Init, QuietInv, Here

LEMMA SendReset ==
  ASSUME PInv, RInv, NEW x \in Item_Set, Send(x), Quiet',
         Plain(x.text) => Bytes(x) \in Seq(Byte) /\ Begins(Bytes(x)) /\ Sound(Bytes(x))
  PROVE  QuietInv'
<1>. DEFINE b == Bytes(x)
<1>1. sent \in Seq(Item_Set) /\ sent' = Append(sent, x) /\ Len(sent) \in Nat
  BY LenProperties DEF Send, PInv, TypeOK
<1>2. /\ Len(sent') = Len(sent) + 1 /\ sent'[Len(sent) + 1] = x
      /\ \A i \in 1..Len(sent) : sent'[i] = sent[i]
  BY <1>1, AppendProperties
<1>3. Plain(x.text)
  BY <1>1, <1>2 DEF Quiet, AllSent
<1>4. AllSent(Plain) /\ lost = 0
  BY <1>1, <1>2 DEF Quiet, AllSent, Send
<1>5. QuietInv
  BY <1>4 DEF RInv, Quiet
<1>6. b \in Seq(Byte) /\ Begins(b) /\ Sound(b)
  BY <1>3
<1>7. chunk \in Seq(Byte) /\ wire \in Seq(Byte) /\ stream \in Seq(Byte)
  BY ConcatProperties DEF PInv, TypeOK, stream
<1>8. stream' = stream \o b
  <2>1. stream' = chunk \o (wire \o b)
    BY DEF Send, stream, parser
  <2>. QED  BY <1>6, <1>7, <2>1, ConcatAssociative DEF stream
<1>. HIDE DEF b
<1>9. Join(stream, b, stream')
  BY <1>6, <1>7, <1>8, Joined
<1>10. Sound(stream')
  BY <1>5, <1>6, <1>9, JoinSound DEF QuietInv
<1>11. Here(state, stream')
  BY <1>5, <1>6, <1>9, JoinHere DEF QuietInv
<1>. QED  BY <1>5, <1>10, <1>11 DEF QuietInv, Send, parser

LEMMA ReadReset ==
  ASSUME PInv, RInv, NEW n \in 1..Len(wire), Read(n)
  PROVE  RInv'
<1>1. wire \in Seq(Byte) /\ Len(wire) \in Nat
  BY LenProperties DEF PInv, TypeOK
<1>2. SubSeq(wire, 1, n) \o SubSeq(wire, n + 1, Len(wire)) = SubSeq(wire, 1, Len(wire))
  BY <1>1, ConcatAdjacentSubSeq
<1>3. stream' = wire
  BY <1>1, <1>2, SubSeqFull DEF Read, stream
<1>4. stream = wire
  BY <1>1, ConcatEmptySeq DEF Read, stream
<1>. QED  BY <1>3, <1>4 DEF Read, RInv, QuietInv, Quiet, AllSent, history

(* One byte parsed: the stream loses its first byte, or the rest of the read. *)
LEMMA ParseStream ==
  ASSUME PInv, Parse
  PROVE  /\ Len(stream) >= 1 /\ stream[1] = Head(chunk)
         /\ After.ok => Suffix(stream', 1, stream)
         /\ ~After.ok => \E n \in Nat : Suffix(stream', n, stream)
<1>1. chunk \in Seq(Byte) /\ chunk # <<>> /\ wire \in Seq(Byte) /\ wire' = wire
  BY DEF PInv, TypeOK, Parse
<1>2. /\ Head(chunk) = chunk[1] /\ Tail(chunk) \in Seq(Byte) /\ Len(chunk) \in Nat /\ Len(chunk) >= 1
      /\ Len(Tail(chunk)) = Len(chunk) - 1
      /\ \A i \in 1..Len(Tail(chunk)) : Tail(chunk)[i] = chunk[i + 1]
  BY <1>1, HeadTailProperties, EmptySeq
<1>3. Join(chunk, wire, stream)
  BY <1>1, Joined DEF stream
<1>4. Len(stream) >= 1 /\ stream[1] = Head(chunk)
  BY <1>2, <1>3 DEF Join
<1>5. ASSUME After.ok PROVE Suffix(stream', 1, stream)
  <2>1. stream' = Tail(chunk) \o wire
    BY <1>1, <1>5, ParseStep DEF llparse_string, stream
  <2>2. Join(Tail(chunk), wire, stream')
    BY <1>1, <1>2, <2>1, Joined
  <2>3. Len(stream') \in Nat /\ Len(stream) = 1 + Len(stream')
    BY <1>2, <1>3, <2>2 DEF Join
  <2>4. ASSUME NEW i \in 1..Len(stream') PROVE stream'[i] = stream[1 + i]
    <3>1. CASE i <= Len(chunk) - 1
      <4>1. i \in 1..Len(Tail(chunk)) /\ i + 1 \in 1..Len(chunk) /\ 1 + i = i + 1
        BY <1>2, <3>1
      <4>2. stream'[i] = Tail(chunk)[i] /\ stream[1 + i] = chunk[i + 1]
        BY <1>3, <2>2, <4>1 DEF Join
      <4>. QED  BY <1>2, <4>1, <4>2
    <3>2. CASE i > Len(chunk) - 1
      <4>. DEFINE k == i - (Len(chunk) - 1)
      <4>1. k \in 1..Len(wire) /\ i = Len(Tail(chunk)) + k /\ 1 + i = Len(chunk) + k
        BY <1>2, <2>2, <3>2 DEF Join
      <4>. HIDE DEF k
      <4>2. stream'[i] = wire[k] /\ stream[1 + i] = wire[k]
        BY <1>3, <2>2, <4>1 DEF Join
      <4>. QED  BY <4>2
    <3>. QED  BY <1>2, <3>1, <3>2
  <2>. QED  BY <2>3, <2>4 DEF Suffix
<1>6. ASSUME ~After.ok PROVE Suffix(stream', Len(chunk), stream)
  <2>1. stream' = wire
    BY <1>1, <1>6, ParseStep, ConcatEmptySeq DEF llparse_string, stream
  <2>. QED  BY <1>2, <1>3, <2>1 DEF Suffix, Join
<1>. QED  BY <1>2, <1>4, <1>5, <1>6

LEMMA HereStep ==
  ASSUME NEW p, NEW q, NEW s, NEW t, Here(p.state, s), Sound(s), Len(s) >= 1,
         Origin(p, s[1], q), Suffix(t, 1, s)
  PROVE  Here(q.state, t)
<1>1. /\ Fresh(s, 2) => Fresh(t, 1)
      /\ AfterPrompt(s, 2) => AfterPrompt(t, 1)
      /\ AfterPrompt(s, 3) => AfterPrompt(t, 2)
  <2>1. 2 = 1 + 1 /\ 3 = 1 + 2 /\ 1 \in Nat \ {0} /\ 2 \in Nat \ {0}
    OBVIOUS
  <2>. QED  BY <2>1, SuffixFresh
<1>2. /\ Len(s) >= 2 => Len(t) >= 1 /\ t[1] = s[2]
      /\ Len(s) >= 3 => Len(t) >= 2 /\ t[2] = s[3]
  BY DEF Suffix
<1>3. s[1] = "LF" => Fresh(s, 2)
  BY DEF Sound, Suffix
<1>4. q.state # "ERROR"
  BY DEF Origin, Here
<1>5. q.state = "IDLE" => Fresh(t, 1)
  BY <1>1, <1>3 DEF Origin
<1>6. q.state = "PROMPT_SPC" => AfterPrompt(t, 1)
  BY <1>1 DEF Origin, Here
<1>7. ASSUME q.state = "IDLE_CR" PROVE Len(t) >= 2 /\ t[1] = "LF" /\ t[2] # "CR"
  <2>1. s[1] = "CR" /\ p.state \in {"IDLE", "PROMPT_SPC"}
    BY <1>7 DEF Origin, Here
  <2>2. Header(s, 1)
    BY <2>1 DEF Here, Fresh, AfterPrompt
  <2>. QED  BY <1>2, <2>2 DEF Header, Suffix
<1>8. ASSUME q.state = "IDLE_LF" PROVE Len(t) >= 1 /\ t[1] # "CR" /\ Fresh(t, 1)
  BY <1>1, <1>2, <1>3, <1>8 DEF Origin, Here
<1>9. ASSUME q.state = "PROMPT" PROVE Len(t) >= 1 /\ (t[1] = "SP" => AfterPrompt(t, 2))
  <2>1. s[1] = "GT" /\ p.state \in {"IDLE", "IDLE_LF", "PROMPT_SPC"}
    BY <1>9 DEF Origin
  <2>2. 1 < Len(s) /\ (s[2] = "SP" => AfterPrompt(s, 3))
    BY <2>1 DEF Here, Fresh, AfterPrompt
  <2>. QED  BY <1>1, <1>2, <2>2 DEF Suffix
<1>. QED  BY <1>4, <1>5, <1>6, <1>7, <1>8, <1>9 DEF Here

LEMMA ParseReset ==
  ASSUME PInv, RInv, Parse, Quiet'
  PROVE  QuietInv'
<1>1. QuietInv
  BY DEF RInv, Quiet, AllSent, Parse
<1>2. /\ After \in Parser_Set /\ Clean(After) /\ Origin(Current, Head(chunk), After)
      /\ state' = After.state /\ buf' = After.buf /\ llparse_string(After)
  BY ParseStep
<1>3. /\ Len(stream) >= 1 /\ stream[1] = Head(chunk)
      /\ After.ok => Suffix(stream', 1, stream)
      /\ ~After.ok => \E n \in Nat : Suffix(stream', n, stream)
  BY ParseStream
<1>4. Current.state = state /\ Current.buf = buf
  BY DEF Current
<1>5. Sound(stream')
  BY <1>1, <1>3, SuffixSound DEF QuietInv
<1>6. Here(state', stream')
  <2>1. CASE After.ok
    <3>1. Here(After.state, stream')
      BY <1>1, <1>2, <1>3, <1>4, <2>1, HereStep DEF QuietInv
    <3>. QED  BY <1>2, <3>1
  <2>2. CASE ~After.ok
    BY <1>2, <2>2 DEF Origin, Here
  <2>. QED  BY <2>1, <2>2
<1>7. ASSUME state' = "RESULT_CR" PROVE buf' # <<>>
  <2>1. /\ buf' = buf
        /\ state = "RESULT_CR" \/ (stream[1] = "CR" /\ state \in {"RESULT", "IDLE_LF"})
    BY <1>2, <1>3, <1>4, <1>7 DEF Origin
  <2>2. state # "IDLE_LF" \/ stream[1] # "CR"
    BY <1>1 DEF QuietInv, Here
  <2>3. state = "RESULT" => buf # <<>>
    BY DEF PInv, Clean
  <2>. QED  BY <1>1, <2>1, <2>2, <2>3 DEF QuietInv
<1>8. \A i \in 1..Len(got') : got'[i] # EmptyLine
  <2>1. got \in Seq(Item_Set) /\ \A i \in 1..Len(got) : got[i] # EmptyLine
    BY <1>1 DEF PInv, TypeOK, QuietInv
  <2>2. ASSUME NEW x \in Item_Set, x # EmptyLine, got' = Append(got, x)
        PROVE  \A i \in 1..Len(got') : got'[i] # EmptyLine
    <3>1. /\ Len(got) \in Nat /\ Len(got') = Len(got) + 1 /\ got'[Len(got) + 1] = x
          /\ \A i \in 1..Len(got) : got'[i] = got[i]
      BY <2>1, <2>2, AppendProperties, LenProperties
    <3>. QED  BY <2>1, <2>2, <3>1
  <2>3. CASE After.ok /\ After.state = "RESULT_CR"
    <3>1. got' = Append(got, Item("line", After.buf)) /\ After.buf \in Seq(Byte) /\ After.buf # <<>>
      BY <1>2, <1>7, <2>3 DEF llparse_string, Parser_Set, Buffer
    <3>2. Item("line", After.buf) \in Item_Set /\ Item("line", After.buf) # EmptyLine
      BY <3>1, ItemsTyped DEF Item, EmptyLine
    <3>. QED  BY <2>2, <3>1, <3>2
  <2>4. CASE After.ok /\ After.state = "PROMPT_SPC"
    <3>1. got' = Append(got, Prompt)
      BY <1>2, <2>4 DEF llparse_string
    <3>2. Prompt \in Item_Set /\ Prompt # EmptyLine
      BY ItemsTyped DEF Item, EmptyLine, Prompt
    <3>. QED  BY <2>2, <3>1, <3>2
  <2>5. CASE ~(After.ok /\ After.state \in {"RESULT_CR", "PROMPT_SPC"})
    <3>1. got' = got
      BY <1>2, <2>5 DEF llparse_string
    <3>. QED  BY <2>1, <3>1
  <2>. QED  BY <2>3, <2>4, <2>5
<1>. QED  BY <1>5, <1>6, <1>7, <1>8 DEF QuietInv

LEMMA RNext == PInv /\ RInv /\ [Next]_vars => RInv'
<1>. SUFFICES ASSUME PInv, RInv, [Next]_vars, Quiet' PROVE QuietInv'
  BY DEF RInv
<1>1. ASSUME NEW t \in Texts, Send(Item("line", t)) PROVE QuietInv'
  <2>1. Item("line", t) \in Item_Set /\ Item("line", t).text = t
    BY ItemsTyped DEF Item
  <2>. QED  BY <1>1, <2>1, LineBytes, SendReset
<1>2. CASE Send(Prompt)
  BY <1>2, ItemsTyped, PromptBytes, SendReset
<1>3. ASSUME NEW t \in Echoes, Send(Item("echo", t)) PROVE QuietInv'
  <2>1. Item("echo", t) \in Item_Set /\ Item("echo", t).text = t
    BY ItemsTyped DEF Item
  <2>. QED  BY <1>3, <2>1, EchoBytes, SendReset
<1>4. ASSUME NEW i \in 1..Len(wire), Lose(i) PROVE QuietInv'
  <2>1. lost' # 0
    BY <1>4 DEF Lose, PInv, TypeOK
  <2>. QED  BY <2>1 DEF Quiet
<1>5. CASE Reading
  <2>1. PICK n \in 1..Len(wire) : Read(n)
    BY <1>5, LlParseAssumption DEF Reading, PInv, TypeOK
  <2>. QED  BY <2>1, ReadReset DEF RInv
<1>6. CASE Parse
  BY <1>6, ParseReset
<1>7. CASE UNCHANGED vars
  BY <1>7 DEF vars, RInv, QuietInv, Quiet, AllSent, stream
<1>. QED  BY <1>1, <1>2, <1>3, <1>4, <1>5, <1>6, <1>7 DEF Next

(* A serial line that loses no byte never brings the parser into ERROR, which  *)
(* it would not leave, and never makes llparse_string report an empty line,    *)
(* on which ml_parse initialises the modem again: for any texts that do not    *)
(* look like a prompt, any buffer and read size, and any cut of the bytes into *)
(* reads, overlong texts that are dropped half-way included.                   *)
THEOREM NoReset == Spec => []NoFalseReset
<1>1. Spec => []PInv
  BY PInit, PNext, PTL DEF Spec
<1>2. PInv /\ RInv => NoFalseReset
  <2>. SUFFICES ASSUME PInv, RInv, lost = 0 /\ AllSent(Plain)
                PROVE  state # "ERROR" /\ Item("line", <<>>) \notin Range(got)
    BY DEF NoFalseReset
  <2>1. QuietInv
    BY DEF RInv, Quiet
  <2>2. DOMAIN got = 1..Len(got)
    BY LenProperties DEF PInv, TypeOK
  <2>. QED  BY <2>1, <2>2 DEF QuietInv, Here, Range, EmptyLine
<1>. QED  BY <1>1, <1>2, RInit, RNext, PTL DEF Spec

-----------------------------------------------------------------------------
(* Induction, with a set in the place of the predicate. *)

LEMMA Least ==
  ASSUME NEW T, T \subseteq Nat, T # {}
  PROVE  \E x \in T : \A y \in T : x <= y
<1>. DEFINE R == OpToRel(<, Nat)
<1>1. IsWellFoundedOn(R, Nat)
  BY NatLessThanWellFounded
<1>2. \A x, y \in Nat : x < y => <<x, y>> \in R
  BY DEF OpToRel
<1>. HIDE DEF R
<1>3. PICK x \in T : \A y \in T : ~(<<y, x>> \in R)
  BY <1>1, WFMin
<1>4. \A y \in T : x \in Nat /\ y \in Nat /\ ~(y < x)
  BY <1>2, <1>3
<1>5. \A y \in T : x <= y
  BY <1>4
<1>. QED  BY <1>5

LEMMA Induction ==
  ASSUME NEW n \in Nat, NEW T, 0 \in T, \A j \in 0..n : j > 0 /\ j - 1 \in T => j \in T
  PROVE  \A j \in 0..n : j \in T
<1>. SUFFICES ASSUME {j \in 0..n : j \notin T} # {} PROVE FALSE
  OBVIOUS
<1>. DEFINE M == {j \in 0..n : j \notin T}
<1>1. M \subseteq Nat
  OBVIOUS
<1>. HIDE DEF M
<1>2. PICK x \in M : \A y \in M : x <= y
  BY <1>1, Least DEF M
<1>3. x \in 0..n /\ x \notin T /\ x # 0
  BY <1>2 DEF M
<1>4. x - 1 \in 0..n /\ ~(x <= x - 1)
  BY <1>3
<1>5. x - 1 \in T
  BY <1>2, <1>4 DEF M
<1>. QED  BY <1>3, <1>4, <1>5

-----------------------------------------------------------------------------
(* Lines: what it makes of a log that grows. *)

Filter(F, s, n) ==
  F = [i \in 0..n |-> IF i = 0 THEN <<>> ELSE IF Heard(s[i]) THEN Append(F[i - 1], s[i]) ELSE F[i - 1]]

LEMMA FilterStep ==
  ASSUME NEW s, NEW n \in Nat, NEW F, Filter(F, s, n)
  PROVE  /\ F[0] = <<>>
         /\ \A i \in 1..n : F[i] = IF Heard(s[i]) THEN Append(F[i - 1], s[i]) ELSE F[i - 1]
<1>1. PICK H : H = [i \in 0..n |-> IF i = 0 THEN <<>> ELSE IF Heard(s[i]) THEN Append(F[i - 1], s[i]) ELSE F[i - 1]]
  OBVIOUS
<1>2. /\ H[0] = <<>>
      /\ \A i \in 1..n : H[i] = IF Heard(s[i]) THEN Append(F[i - 1], s[i]) ELSE F[i - 1]
  BY <1>1
<1>3. F = H
  BY <1>1 DEF Filter
<1>. QED  BY <1>2, <1>3

LEMMA FilterExists ==
  ASSUME NEW s \in Seq(Item_Set), NEW n \in 0..Len(s)
  PROVE  \E F : Filter(F, s, n)
<1>. DEFINE T == {j \in 0..Len(s) : \E F : Filter(F, s, j)}
<1>1. 0 \in T
  <2>1. Filter([i \in 0..0 |-> <<>>], s, 0)
    BY DEF Filter
  <2>. QED  BY <2>1
<1>2. ASSUME NEW j \in 0..Len(s), j > 0, j - 1 \in T PROVE j \in T
  <2>1. PICK F : Filter(F, s, j - 1)
    BY <1>2
  <2>. DEFINE v == IF Heard(s[j]) THEN Append(F[j - 1], s[j]) ELSE F[j - 1]
              G == [i \in 0..j |-> IF i = j THEN v ELSE F[i]]
  <2>2. j \in Nat /\ j - 1 \in Nat /\ \A i \in 0..j : i # j /\ i # 0 => i \in 1..j - 1 /\ i - 1 # j /\ i - 1 \in 0..j
    BY <1>2
  <2>3. F[0] = <<>> /\ \A i \in 1..j - 1 : F[i] = IF Heard(s[i]) THEN Append(F[i - 1], s[i]) ELSE F[i - 1]
    BY <2>1, <2>2, FilterStep
  <2>4. G[j] = v /\ \A i \in 0..j : i # j => G[i] = F[i]
    BY <2>2
  <2>. HIDE DEF v
  <2>5. \A i \in 0..j : G[i] = IF i = 0 THEN <<>> ELSE IF Heard(s[i]) THEN Append(G[i - 1], s[i]) ELSE G[i - 1]
    <3>1. G[j] = IF Heard(s[j]) THEN Append(G[j - 1], s[j]) ELSE G[j - 1]
      BY <1>2, <2>2, <2>4 DEF v
    <3>. HIDE DEF G
    <3>. QED  BY <1>2, <2>2, <2>3, <2>4, <3>1
  <2>6. G = [i \in 0..j |-> G[i]]
    OBVIOUS
  <2>. HIDE DEF G
  <2>7. Filter(G, s, j)
    BY <2>5, <2>6 DEF Filter
  <2>. QED  BY <1>2, <2>7
<1>. HIDE DEF T
<1>3. \A j \in 0..Len(s) : j \in T
  BY <1>1, <1>2, Induction, LenProperties
<1>. QED  BY <1>3 DEF T

LEMMA FilterUnique ==
  ASSUME NEW s, NEW t, NEW m \in Nat, NEW n \in m..m + 1, NEW F, NEW G,
         Filter(F, s, m), Filter(G, t, n), \A i \in 1..m : s[i] = t[i]
  PROVE  F[m] = G[m]
<1>. DEFINE T == {j \in 0..m : F[j] = G[j]}
<1>1. /\ F[0] = <<>> /\ \A i \in 1..m : F[i] = IF Heard(s[i]) THEN Append(F[i - 1], s[i]) ELSE F[i - 1]
      /\ G[0] = <<>> /\ \A i \in 1..m : G[i] = IF Heard(t[i]) THEN Append(G[i - 1], t[i]) ELSE G[i - 1]
  <2>1. F[0] = <<>> /\ \A i \in 1..m : F[i] = IF Heard(s[i]) THEN Append(F[i - 1], s[i]) ELSE F[i - 1]
    BY FilterStep
  <2>2. G[0] = <<>> /\ \A i \in 1..n : G[i] = IF Heard(t[i]) THEN Append(G[i - 1], t[i]) ELSE G[i - 1]
    BY FilterStep
  <2>3. \A i \in 1..m : i \in 1..n
    OBVIOUS
  <2>. QED  BY <2>1, <2>2, <2>3
<1>2. 0 \in T
  BY <1>1
<1>3. \A j \in 0..m : j > 0 /\ j - 1 \in T => j \in T
  BY <1>1
<1>. HIDE DEF T
<1>4. \A j \in 0..m : j \in T
  BY <1>2, <1>3, Induction
<1>. QED  BY <1>4 DEF T

LEMMA LinesFilter ==
  ASSUME NEW s \in Seq(Item_Set)
  PROVE  \E F : Filter(F, s, Len(s)) /\ Lines(s) = F[Len(s)]
<1>1. \E F : Filter(F, s, Len(s))
  BY FilterExists, LenProperties
<1>. QED  BY <1>1 DEF Lines, Filter

LEMMA LinesEmpty == Lines(<<>>) = <<>>
<1>1. <<>> \in Seq(Item_Set) /\ Len(<<>>) = 0
  BY EmptySeq
<1>2. PICK F : Filter(F, <<>>, 0) /\ Lines(<<>>) = F[0]
  BY <1>1, LinesFilter
<1>. QED  BY <1>2, FilterStep

LEMMA LinesAppend ==
  ASSUME NEW s \in Seq(Item_Set), NEW x \in Item_Set
  PROVE  Lines(Append(s, x)) = IF Heard(x) THEN Append(Lines(s), x) ELSE Lines(s)
<1>. DEFINE u == Append(s, x)
            n == Len(s)
<1>1. /\ n \in Nat /\ u \in Seq(Item_Set) /\ Len(u) = n + 1 /\ u[n + 1] = x
      /\ \A i \in 1..n : u[i] = s[i]
  BY AppendProperties, LenProperties
<1>2. PICK F : Filter(F, s, n) /\ Lines(s) = F[n]
  BY LinesFilter
<1>3. PICK G : Filter(G, u, n + 1) /\ Lines(u) = G[n + 1]
  BY <1>1, LinesFilter
<1>. HIDE DEF u, n
<1>4. F[n] = G[n]
  <2>1. n + 1 \in n..n + 1
    BY <1>1
  <2>. QED  BY <1>1, <1>2, <1>3, <2>1, FilterUnique
<1>5. PICK k : k = n + 1
  OBVIOUS
<1>6. k \in 1..n + 1 /\ k - 1 = n /\ n + 1 \in Nat
  BY <1>1, <1>5
<1>7. \A i \in 1..n + 1 : G[i] = IF Heard(u[i]) THEN Append(G[i - 1], u[i]) ELSE G[i - 1]
  BY <1>3, <1>6, FilterStep
<1>8. G[k] = IF Heard(u[k]) THEN Append(G[k - 1], u[k]) ELSE G[k - 1]
  BY <1>6, <1>7, Zenon
<1>. QED  BY <1>1, <1>2, <1>3, <1>4, <1>5, <1>6, <1>8 DEF u

LEMMA LinesType ==
  ASSUME NEW s \in Seq(Item_Set)
  PROVE  Lines(s) \in Seq(Item_Set)
<1>1. PICK F : Filter(F, s, Len(s)) /\ Lines(s) = F[Len(s)]
  BY LinesFilter
<1>. DEFINE T == {j \in 0..Len(s) : F[j] \in Seq(Item_Set)}
<1>2. /\ Len(s) \in Nat /\ F[0] = <<>>
      /\ \A i \in 1..Len(s) : F[i] = IF Heard(s[i]) THEN Append(F[i - 1], s[i]) ELSE F[i - 1]
  BY <1>1, FilterStep, LenProperties
<1>3. 0 \in T
  <2>1. 0 \in 0..Len(s) /\ <<>> \in Seq(Item_Set)
    BY <1>2, EmptySeq
  <2>. QED  BY <1>2, <2>1
<1>4. ASSUME NEW j \in 0..Len(s), j > 0, j - 1 \in T PROVE j \in T
  <2>1. j \in 1..Len(s) /\ s[j] \in Item_Set /\ F[j - 1] \in Seq(Item_Set)
    BY <1>2, <1>4, ElementOfSeq
  <2>2. Append(F[j - 1], s[j]) \in Seq(Item_Set)
    BY <2>1, AppendProperties
  <2>. QED  BY <1>2, <2>1, <2>2
<1>. HIDE DEF T
<1>5. \A j \in 0..Len(s) : j \in T
  BY <1>2, <1>3, <1>4, Induction
<1>. QED  BY <1>1, <1>2, <1>5 DEF T

(* The first items of a log. *)
LEMMA FirstItems ==
  ASSUME NEW s \in Seq(Item_Set)
  PROVE  /\ SubSeq(s, 1, 0) = <<>> /\ SubSeq(s, 1, Len(s)) = s
         /\ \A d \in 0..Len(s) : SubSeq(s, 1, d) \in Seq(Item_Set)
         /\ \A d \in 1..Len(s) : s[d] \in Item_Set /\ SubSeq(s, 1, d) = Append(SubSeq(s, 1, d - 1), s[d])
<1>1. SubSeq(s, 1, 0) = <<>> /\ SubSeq(s, 1, Len(s)) = s
  BY SubSeqFull, SubSeqEmpty
<1>2. \A d \in 0..Len(s) : SubSeq(s, 1, d) \in Seq(Item_Set)
  <2>1. \A i \in 1..Len(s) : s[i] \in Item_Set
    BY ElementOfSeq
  <2>. QED  BY <2>1, SubSeqProperties, LenProperties
<1>3. ASSUME NEW d \in 1..Len(s) PROVE s[d] \in Item_Set /\ SubSeq(s, 1, d) = Append(SubSeq(s, 1, d - 1), s[d])
  BY ElementOfSeq, LenProperties
<1>. QED  BY <1>1, <1>2, <1>3

LEMMA PrefixAppend ==
  ASSUME NEW a \in Seq(Item_Set), NEW b \in Seq(Item_Set), IsPrefix(a, b), NEW x \in Item_Set
  PROVE  IsPrefix(a, Append(b, x))
<1>1. Len(a) \in Nat /\ Len(b) \in Nat /\ Len(a) <= Len(b) /\ SubSeq(a, 1, Len(a)) = SubSeq(b, 1, Len(a))
  BY LenProperties DEF IsPrefix
<1>2. Len(Append(b, x)) = Len(b) + 1
  BY AppendProperties
<1>3. SubSeq(Append(b, x), 1, Len(a)) = SubSeq(b, 1, Len(a))
  BY <1>1, AppendProperties
<1>. QED  BY <1>1, <1>2, <1>3 DEF IsPrefix

LEMMA LinesPrefix ==
  ASSUME NEW s \in Seq(Item_Set), NEW d \in 0..Len(s)
  PROVE  IsPrefix(Lines(SubSeq(s, 1, d)), Lines(s))
<1>. DEFINE a == Lines(SubSeq(s, 1, d))
            T == {j \in 0..Len(s) : j < d \/ IsPrefix(a, Lines(SubSeq(s, 1, j)))}
<1>1. Len(s) \in Nat /\ d \in Nat /\ \A j \in 0..Len(s) : Lines(SubSeq(s, 1, j)) \in Seq(Item_Set)
  <2>1. \A j \in 0..Len(s) : SubSeq(s, 1, j) \in Seq(Item_Set)
    BY FirstItems
  <2>2. \A u \in Seq(Item_Set) : Lines(u) \in Seq(Item_Set)
    BY LinesType
  <2>3. \A j \in 0..Len(s) : Lines(SubSeq(s, 1, j)) \in Seq(Item_Set)
    BY <2>1, <2>2, Zenon
  <2>4. Len(s) \in Nat /\ d \in Nat
    BY LenProperties
  <2>. QED  BY <2>3, <2>4
<1>2. IsPrefix(a, a)
  BY <1>1 DEF IsPrefix
<1>3. 0 \in T
  BY <1>1, <1>2
<1>4. ASSUME NEW j \in 0..Len(s), j > 0, j - 1 \in T PROVE j \in T
  <2>1. j \in 1..Len(s) /\ j - 1 \in 0..Len(s) /\ (j = d \/ j < d \/ ~(j - 1 < d))
    BY <1>1, <1>4
  <2>2. CASE j = d
    BY <1>2, <1>4, <2>2
  <2>3. CASE j < d
    BY <1>4, <2>3
  <2>4. CASE ~(j - 1 < d)
    <3>. DEFINE b == SubSeq(s, 1, j - 1)
                u == SubSeq(s, 1, j)
    <3>1. b \in Seq(Item_Set) /\ s[j] \in Item_Set /\ u = Append(b, s[j])
      BY <2>1, FirstItems
    <3>2. Lines(u) = IF Heard(s[j]) THEN Append(Lines(b), s[j]) ELSE Lines(b)
      BY <3>1, LinesAppend
    <3>3. IsPrefix(a, Lines(b)) /\ a \in Seq(Item_Set) /\ Lines(b) \in Seq(Item_Set)
      BY <1>1, <1>4, <2>1, <2>4
    <3>. HIDE DEF a, b, u
    <3>4. IsPrefix(a, Append(Lines(b), s[j]))
      BY <3>1, <3>3, PrefixAppend
    <3>5. IsPrefix(a, Lines(u))
      BY <3>2, <3>3, <3>4
    <3>. QED  BY <1>4, <3>5 DEF u
  <2>. QED  BY <2>1, <2>2, <2>3, <2>4
<1>. HIDE DEF T
<1>5. \A j \in 0..Len(s) : j \in T
  BY <1>1, <1>3, <1>4, Induction
<1>6. Len(s) \in 0..Len(s) /\ ~(Len(s) < d)
  BY <1>1
<1>7. IsPrefix(a, Lines(SubSeq(s, 1, Len(s))))
  BY <1>5, <1>6 DEF T
<1>. QED  BY <1>7, FirstItems

-----------------------------------------------------------------------------
(* The items, and the bytes they are sent as. *)
Items == {Item("line", t) : t \in Texts} \cup {Prompt} \cup {Item("echo", t) : t \in Echoes}

LEMMA ItemShape ==
  ASSUME NEW x \in Items
  PROVE  /\ x \in Item_Set /\ x.kind \in {"line", "prompt", "echo"}
         /\ x.kind = "line" => x = Item("line", x.text) /\ x.text \in Texts
         /\ x.kind = "prompt" => x = Prompt
         /\ x.kind = "echo" => x = Item("echo", x.text) /\ x.text \in Echoes
  BY ItemsTyped DEF Items, Item, Prompt

LEMMA LineShape ==
  ASSUME NEW t \in Texts, Plain(t), NEW b, b = Bytes(Item("line", t))
  PROVE  /\ b \in Seq(Byte) /\ Len(b) = Len(t) + 4 /\ b[1] = "CR" /\ b[2] = "LF"
         /\ b[Len(t) + 3] = "CR" /\ b[Len(t) + 4] = "LF"
         /\ \A k \in 1..Len(t) : b[2 + k] = t[k]
<1>. DEFINE h == <<"CR", "LF">>
<1>1. h \in Seq(Byte) /\ Len(h) = 2 /\ h[1] = "CR" /\ h[2] = "LF"
  BY ControlBytes, TupleType
<1>2. t \in Seq(Byte) /\ Len(t) \in Nat /\ Len(t) >= 1
  BY PlainText
<1>3. b = h \o t \o h
  BY DEF Bytes, Item
<1>. HIDE DEF h
<1>4. h \o t \in Seq(Byte) /\ Join(h, t, h \o t)
  BY <1>1, <1>2, ConcatProperties, Joined
<1>5. b \in Seq(Byte) /\ Join(h \o t, h, b)
  BY <1>1, <1>3, <1>4, ConcatProperties, Joined
<1>6. Len(h \o t) = Len(t) + 2 /\ Len(b) = Len(t) + 4
  BY <1>1, <1>2, <1>4, <1>5 DEF Join
<1>7. b[1] = "CR" /\ b[2] = "LF" /\ b[Len(t) + 3] = "CR" /\ b[Len(t) + 4] = "LF"
  BY <1>1, <1>2, <1>4, <1>5, <1>6 DEF Join
<1>8. \A k \in 1..Len(t) : b[2 + k] = t[k]
  BY <1>1, <1>2, <1>4, <1>5, <1>6 DEF Join
<1>. QED  BY <1>5, <1>6, <1>7, <1>8

LEMMA PromptShape ==
  ASSUME NEW b, b = Bytes(Prompt)
  PROVE  b \in Seq(Byte) /\ Len(b) = 4 /\ b[1] = "CR" /\ b[2] = "LF" /\ b[3] = "GT" /\ b[4] = "SP"
<1>1. b = <<"CR", "LF", "GT", "SP">>
  BY DEF Bytes, Prompt, Item
<1>2. b \in Seq(Byte)
  BY <1>1, ControlBytes, TupleType
<1>. QED  BY <1>1, <1>2

LEMMA EchoShape ==
  ASSUME NEW t \in Echoes, Plain(t), NEW b, b = Bytes(Item("echo", t))
  PROVE  b \in Seq(Byte) /\ Len(b) = Len(t) + 1 /\ b[Len(t) + 1] = "CR" /\ \A k \in 1..Len(t) : b[k] = t[k]
<1>. DEFINE h == <<"CR">>
<1>1. h \in Seq(Byte) /\ Len(h) = 1 /\ h[1] = "CR"
  BY ControlBytes, TupleType
<1>2. t \in Seq(Byte) /\ Len(t) \in Nat /\ Len(t) >= 1
  BY PlainText
<1>3. b = t \o h
  BY DEF Bytes, Item
<1>. HIDE DEF h
<1>4. b \in Seq(Byte) /\ Join(t, h, b)
  BY <1>1, <1>2, <1>3, ConcatProperties, Joined
<1>. QED  BY <1>1, <1>2, <1>4 DEF Join

(* Whatever the item, its last byte does not begin a prompt. *)
LEMMA LastByte ==
  ASSUME NEW x \in Items, Plain(x.text), NEW b, b = Bytes(x)
  PROVE  b \in Seq(Byte) /\ Len(b) \in Nat /\ Len(b) >= 1 /\ b[Len(b)] # "GT"
<1>1. CASE x.kind = "line"
  <2>1. x.text \in Texts /\ b = Bytes(Item("line", x.text)) /\ Len(x.text) \in Nat
    BY <1>1, ItemShape, PlainText
  <2>2. b \in Seq(Byte) /\ Len(b) = Len(x.text) + 4 /\ b[Len(x.text) + 4] = "LF"
    BY <2>1, LineShape
  <2>. QED  BY <2>1, <2>2
<1>2. CASE x.kind = "prompt"
  BY <1>2, ItemShape, PromptShape
<1>3. CASE x.kind = "echo"
  <2>1. x.text \in Echoes /\ b = Bytes(Item("echo", x.text)) /\ Len(x.text) \in Nat
    BY <1>3, ItemShape, PlainText
  <2>2. b \in Seq(Byte) /\ Len(b) = Len(x.text) + 1 /\ b[Len(x.text) + 1] = "CR"
    BY <2>1, EchoShape
  <2>. QED  BY <2>1, <2>2
<1>. QED  BY <1>1, <1>2, <1>3, ItemShape

-----------------------------------------------------------------------------
(* llparse_byte on the bytes of an item. *)

(* m bytes of a text have been parsed. *)
InText(t, m, p) ==
  IF m = 0 THEN p.state \in {"IDLE", "IDLE_LF", "PROMPT_SPC"} /\ p.buf = <<>>
  ELSE IF m = 1 /\ t[1] = "GT" THEN p.state = "PROMPT" /\ p.buf = <<>>
  ELSE p.state = "RESULT" /\ p.buf = SubSeq(t, 1, m)

(* n bytes of a response or a prompt have been parsed. *)
Reads(x, n, p) ==
  /\ n = 0 => p.state \notin {"PROMPT", "ERROR"}
  /\ n = 1 => p.state \in {"IDLE_CR", "RESULT_CR"}
  /\ x.kind = "line" /\ n \in 2..Len(x.text) + 2 => InText(x.text, n - 2, p)
  /\ x.kind = "line" /\ n = Len(x.text) + 3 => p.state = "RESULT_CR" /\ p.buf = x.text
  /\ x.kind = "prompt" /\ n = 2 => InText(<<>>, 0, p)
  /\ x.kind = "prompt" /\ n = 3 => p.state = "PROMPT"

(* llparse_append, when the buffer takes the byte. *)
LEMMA AppendFits ==
  ASSUME NEW p \in Parser_Set, NEW b
  PROVE  /\ llparse_append(p, b).ok <=> Len(p.buf) < BufSize
         /\ Len(p.buf) < BufSize => llparse_append(p, b).buf = Append(p.buf, b)
         /\ llparse_append(p, b).state = p.state
  BY DEF llparse_append, Parser_Set

LEMMA TextStep ==
  ASSUME NEW t \in Texts \cup Echoes, Plain(t), NEW m \in 0..Len(t) - 1, NEW p \in Parser_Set, p.ok = TRUE,
         InText(t, m, p), NEW q, q = llparse_byte(p, t[m + 1])
  PROVE  /\ q.ok => InText(t, m + 1, q)
         /\ Fits(t) => q.ok
<1>1. /\ t \in Seq(Byte) /\ Len(t) \in Nat /\ Len(t) >= 1
      /\ \A k \in 1..Len(t) : t[k] # "CR" /\ t[k] # "LF"
      /\ t[1] = "GT" => Len(t) >= 2 /\ t[2] # "SP"
  BY PlainText
<1>2. PICK b : b = t[m + 1]
  OBVIOUS
<1>3. m \in Nat /\ m + 1 \in 1..Len(t) /\ b \in Byte /\ b # "CR" /\ b # "LF"
  BY <1>1, <1>2, ElementOfSeq
<1>4. BufSize \in Nat /\ BufSize >= 1
  BY LlParseAssumption
<1>5. SubSeq(t, 1, m + 1) = Append(SubSeq(t, 1, m), b) /\ Len(SubSeq(t, 1, m)) = m
  BY <1>1, <1>2, <1>3
<1>6. To(p, "RESULT") \in Parser_Set /\ To(p, "RESULT").state = "RESULT" /\ To(p, "RESULT").buf = p.buf
  BY ToType DEF States
<1>7. CASE m = 0
  <2>1. p.state \in {"IDLE", "IDLE_LF", "PROMPT_SPC"} /\ p.buf = <<>> /\ b = t[1]
    BY <1>2, <1>7 DEF InText
  <2>2. CASE b = "GT"
    <3>1. q = To(p, "PROMPT")
      BY <1>2, <2>1, <2>2 DEF llparse_byte
    <3>2. q.state = "PROMPT" /\ q.buf = <<>> /\ q.ok = TRUE
      BY <2>1, <3>1 DEF To, Parser_Set
    <3>. QED  BY <1>7, <2>1, <2>2, <3>2 DEF InText
  <2>3. CASE b # "GT"
    <3>1. q = llparse_append(To(p, "RESULT"), b)
      BY <1>2, <1>3, <2>1, <2>3 DEF llparse_byte
    <3>2. Len(p.buf) = 0 /\ SubSeq(t, 1, m) = <<>>
      BY <1>7, <2>1
    <3>3. q.ok /\ q.buf = Append(<<>>, b) /\ q.state = "RESULT"
      BY <1>4, <1>6, <2>1, <3>1, <3>2, AppendFits
    <3>. QED  BY <1>5, <1>7, <2>1, <2>3, <3>2, <3>3 DEF InText
  <2>. QED  BY <2>2, <2>3
<1>8. CASE m = 1 /\ t[1] = "GT"
  <2>1. p.state = "PROMPT" /\ p.buf = <<>> /\ b # "SP"
    BY <1>1, <1>2, <1>8 DEF InText
  <2>. DEFINE r == llparse_append(To(p, "RESULT"), "GT")
  <2>2. q = llparse_append(r, b)
    BY <1>2, <2>1 DEF llparse_byte
  <2>3. r \in Parser_Set
    BY <1>6, ControlBytes, AppendType
  <2>4. r.buf = Append(<<>>, "GT") /\ r.state = "RESULT"
    <3>1. Len(<<>>) = 0
      OBVIOUS
    <3>. QED  BY <1>4, <1>6, <2>1, <3>1, AppendFits
  <2>5. SubSeq(t, 1, 1) = Append(<<>>, "GT") /\ Len(r.buf) = 1
    <3>1. Append(<<>>, "GT") = <<"GT">> /\ Len(<<"GT">>) = 1
      OBVIOUS
    <3>2. \A k \in 0..Len(t) - 1 : SubSeq(t, 1, k + 1) = Append(SubSeq(t, 1, k), t[k + 1])
      BY <1>1
    <3>3. 0 \in 0..Len(t) - 1 /\ 0 + 1 = 1
      BY <1>1
    <3>4. SubSeq(t, 1, 0) = <<>>
      BY <1>1, SubSeqEmpty
    <3>. QED  BY <1>8, <2>4, <3>1, <3>2, <3>3, <3>4
  <2>. HIDE DEF r
  <2>6. /\ q.ok <=> 1 < BufSize
        /\ 1 < BufSize => q.buf = Append(r.buf, b)
        /\ q.state = "RESULT"
    <3>1. /\ llparse_append(r, b).ok <=> Len(r.buf) < BufSize
          /\ Len(r.buf) < BufSize => llparse_append(r, b).buf = Append(r.buf, b)
          /\ llparse_append(r, b).state = r.state
      BY <2>3, AppendFits
    <3>. QED  BY <2>2, <2>4, <2>5, <3>1
  <2>7. q.ok => q.buf = SubSeq(t, 1, m + 1)
    BY <1>5, <1>8, <2>4, <2>5, <2>6
  <2>8. Fits(t) => 1 < BufSize
    BY <1>1, <1>4, <1>8 DEF Fits
  <2>. QED  BY <1>8, <2>6, <2>7, <2>8 DEF InText
<1>9. CASE m >= 1 /\ ~(m = 1 /\ t[1] = "GT")
  <2>1. p.state = "RESULT" /\ p.buf = SubSeq(t, 1, m)
    BY <1>9 DEF InText
  <2>2. q = llparse_append(p, b)
    BY <1>2, <1>3, <2>1 DEF llparse_byte
  <2>3. (q.ok <=> m < BufSize) /\ (q.ok => q.buf = SubSeq(t, 1, m + 1)) /\ q.state = "RESULT"
    BY <1>5, <2>1, <2>2, AppendFits
  <2>4. Fits(t) => m < BufSize
    BY <1>1, <1>3, <1>4 DEF Fits
  <2>5. m + 1 # 0 /\ m + 1 # 1
    BY <1>3, <1>9
  <2>. QED  BY <2>3, <2>4, <2>5 DEF InText
<1>. QED  BY <1>3, <1>7, <1>8, <1>9

LEMMA TextEnd ==
  ASSUME NEW t \in Texts \cup Echoes, Plain(t), NEW p \in Parser_Set, p.ok = TRUE,
         InText(t, Len(t), p), NEW q, q = llparse_byte(p, "CR")
  PROVE  q.ok /\ q.state = "RESULT_CR" /\ q.buf = t
<1>1. /\ t \in Seq(Byte) /\ Len(t) \in Nat /\ Len(t) >= 1
      /\ t[1] = "GT" => Len(t) >= 2
  BY PlainText
<1>2. p.state = "RESULT" /\ p.buf = SubSeq(t, 1, Len(t))
  <2>1. \A k \in Nat : k >= 1 => k # 0 /\ ~(k = 1 /\ k >= 2)
    OBVIOUS
  <2>2. Len(t) # 0 /\ ~(Len(t) = 1 /\ t[1] = "GT")
    BY <1>1, <2>1, Zenon
  <2>. QED  BY <2>2 DEF InText
<1>3. p.buf = t
  BY <1>1, <1>2, SubSeqFull
<1>4. q = To(p, "RESULT_CR")
  BY <1>2 DEF llparse_byte
<1>. QED  BY <1>3, <1>4 DEF To, Parser_Set

(* The two bytes before a text or a prompt, whatever came before them. *)
LEMMA HeaderStep ==
  ASSUME NEW p \in Parser_Set, p.ok = TRUE, Clean(p), NEW q
  PROVE  /\ p.state \notin {"PROMPT", "ERROR"} /\ q = llparse_byte(p, "CR") =>
              q.ok /\ q.state \in {"IDLE_CR", "RESULT_CR"} /\ q.buf = p.buf
         /\ p.state \in {"IDLE_CR", "RESULT_CR"} /\ q = llparse_byte(p, "LF") =>
              q.ok /\ q.state \in {"IDLE", "IDLE_LF"} /\ q.buf = <<>>
<1>1. p.state \in States
  BY DEF Parser_Set
<1>2. ASSUME p.state \notin {"PROMPT", "ERROR"}, q = llparse_byte(p, "CR")
      PROVE  q.ok /\ q.state \in {"IDLE_CR", "RESULT_CR"} /\ q.buf = p.buf
  <2>1. CASE p.state \in {"IDLE", "PROMPT_SPC"}
    BY <1>2, <2>1 DEF llparse_byte, To, Parser_Set
  <2>2. CASE p.state \in {"IDLE_LF", "RESULT"}
    BY <1>2, <2>2 DEF llparse_byte, To, Parser_Set
  <2>3. CASE p.state \in {"IDLE_CR", "RESULT_CR"}
    BY <1>2, <2>3 DEF llparse_byte
  <2>. QED  BY <1>1, <1>2, <2>1, <2>2, <2>3 DEF States
<1>3. ASSUME p.state \in {"IDLE_CR", "RESULT_CR"}, q = llparse_byte(p, "LF")
      PROVE  q.ok /\ q.state \in {"IDLE", "IDLE_LF"} /\ q.buf = <<>>
  <2>1. CASE p.state = "IDLE_CR"
    BY <1>3, <2>1 DEF llparse_byte, To, Parser_Set, Clean
  <2>2. CASE p.state = "RESULT_CR"
    BY <1>3, <2>2 DEF llparse_byte, llparse_endline, Parser_Set
  <2>. QED  BY <1>3, <2>1, <2>2
<1>. QED  BY <1>2, <1>3

(* One more byte of a response or a prompt. *)
LEMMA ReadsStep ==
  ASSUME NEW x \in Items, x.kind # "echo", Plain(x.text), NEW n \in 0..Len(Bytes(x)) - 1,
         NEW p \in Parser_Set, p.ok = TRUE, Clean(p), Reads(x, n, p),
         NEW q, q = llparse_byte(p, Bytes(x)[n + 1])
  PROVE  /\ q.ok => IF n + 1 = Len(Bytes(x)) THEN q.state \in {"IDLE", "PROMPT_SPC"} /\ q.buf = <<>>
                                            ELSE Reads(x, n + 1, q)
         /\ Fits(x.text) => q.ok
         /\ q.ok /\ x.kind = "prompt" /\ n = 3 => q.state = "PROMPT_SPC"
<1>1. ASSUME x.kind = "line"
      PROVE  /\ q.ok => IF n + 1 = Len(Bytes(x)) THEN q.state = "IDLE" /\ q.buf = <<>> ELSE Reads(x, n + 1, q)
             /\ Fits(x.text) => q.ok
  <2>. DEFINE t == x.text
              b == Bytes(x)
  <2>1. t \in Texts /\ b = Bytes(Item("line", t))
    BY <1>1, ItemShape
  <2>2. /\ Len(b) = Len(t) + 4 /\ b[1] = "CR" /\ b[2] = "LF"
        /\ b[Len(t) + 3] = "CR" /\ b[Len(t) + 4] = "LF"
        /\ \A k \in 1..Len(t) : b[2 + k] = t[k]
    BY <2>1, LineShape
  <2>3. Len(t) \in Nat /\ Len(t) >= 1
    BY <2>1, PlainText
  <2>. HIDE DEF t, b
  <2>4. n \in 0..Len(t) + 3 /\ q = llparse_byte(p, b[n + 1])
    BY <2>2, <2>3 DEF b
  <2>5. CASE n = 0
    <3>1. q.ok /\ q.state \in {"IDLE_CR", "RESULT_CR"}
      <4>1. q = llparse_byte(p, "CR") /\ p.state \notin {"PROMPT", "ERROR"}
        BY <2>2, <2>4, <2>5 DEF Reads
      <4>. QED  BY <4>1, HeaderStep
    <3>. QED  BY <2>2, <2>3, <2>5, <3>1 DEF Reads, b, t
  <2>6. CASE n = 1
    <3>1. q.ok /\ q.state \in {"IDLE", "IDLE_LF"} /\ q.buf = <<>>
      <4>1. q = llparse_byte(p, "LF") /\ p.state \in {"IDLE_CR", "RESULT_CR"}
        BY <2>2, <2>4, <2>6 DEF Reads
      <4>. QED  BY <4>1, HeaderStep
    <3>. QED  BY <1>1, <2>2, <2>3, <2>6, <3>1 DEF Reads, InText, b, t
  <2>7. CASE n \in 2..Len(t) + 1
    <3>1. PICK m : m = n - 2
      OBVIOUS
    <3>2. m \in 0..Len(t) - 1 /\ m + 1 \in 1..Len(t) /\ n + 1 = 2 + (m + 1) /\ n + 1 - 2 = m + 1
      BY <2>3, <2>7, <3>1
    <3>3. b[n + 1] = t[m + 1]
      BY <2>2, <3>2
    <3>4. InText(t, m, p)
      BY <1>1, <2>3, <2>7, <3>1 DEF Reads, t
    <3>5. (q.ok => InText(t, m + 1, q)) /\ (Fits(t) => q.ok)
      BY <2>1, <2>4, <3>2, <3>3, <3>4, TextStep DEF t
    <3>6. q.ok => Reads(x, n + 1, q)
      BY <1>1, <2>3, <2>7, <3>2, <3>5 DEF Reads, t
    <3>. QED  BY <2>2, <2>3, <2>7, <3>5, <3>6 DEF b, t
  <2>8. CASE n = Len(t) + 2
    <3>1. InText(t, Len(t), p) /\ b[n + 1] = "CR"
      BY <1>1, <2>2, <2>3, <2>8 DEF Reads, t
    <3>2. q = llparse_byte(p, "CR") /\ t \in Texts \cup Echoes /\ Plain(t)
      BY <2>1, <2>4, <3>1 DEF t
    <3>3. q.ok /\ q.state = "RESULT_CR" /\ q.buf = t
      BY <3>1, <3>2, TextEnd
    <3>. QED  BY <1>1, <2>2, <2>3, <2>8, <3>3 DEF Reads, b, t
  <2>9. CASE n = Len(t) + 3
    <3>1. p.state = "RESULT_CR" /\ b[n + 1] = "LF"
      BY <1>1, <2>2, <2>3, <2>9 DEF Reads, t
    <3>2. q = llparse_endline(p)
      BY <2>4, <3>1 DEF llparse_byte
    <3>3. q.ok /\ q.state = "IDLE" /\ q.buf = <<>>
      BY <3>2 DEF llparse_endline, Parser_Set
    <3>. QED  BY <2>2, <2>3, <2>9, <3>3 DEF b
  <2>. QED  BY <2>3, <2>4, <2>5, <2>6, <2>7, <2>8, <2>9
<1>2. ASSUME x.kind = "prompt"
      PROVE  q.ok /\ IF n + 1 = Len(Bytes(x)) THEN q.state = "PROMPT_SPC" /\ q.buf = <<>> /\ n = 3 ELSE n # 3 /\ Reads(x, n + 1, q)
  <2>1. /\ Len(Bytes(x)) = 4 /\ Bytes(x)[1] = "CR" /\ Bytes(x)[2] = "LF"
        /\ Bytes(x)[3] = "GT" /\ Bytes(x)[4] = "SP"
    BY <1>2, ItemShape, PromptShape
  <2>2. n \in 0..3
    BY <2>1
  <2>3. CASE n = 0
    <3>1. q.ok /\ q.state \in {"IDLE_CR", "RESULT_CR"}
      <4>1. q = llparse_byte(p, "CR") /\ p.state \notin {"PROMPT", "ERROR"}
        BY <2>1, <2>3 DEF Reads
      <4>. QED  BY <4>1, HeaderStep
    <3>. QED  BY <1>2, <2>1, <2>3, <3>1 DEF Reads
  <2>4. CASE n = 1
    <3>1. q.ok /\ q.state \in {"IDLE", "IDLE_LF"} /\ q.buf = <<>>
      <4>1. q = llparse_byte(p, "LF") /\ p.state \in {"IDLE_CR", "RESULT_CR"}
        BY <2>1, <2>4 DEF Reads
      <4>. QED  BY <4>1, HeaderStep
    <3>. QED  BY <1>2, <2>1, <2>4, <3>1 DEF Reads, InText
  <2>5. CASE n = 2
    <3>1. p.state \in {"IDLE", "IDLE_LF", "PROMPT_SPC"}
      BY <1>2, <2>5 DEF Reads, InText
    <3>2. q = To(p, "PROMPT")
      BY <2>1, <2>5, <3>1 DEF llparse_byte
    <3>3. q.ok /\ q.state = "PROMPT"
      BY <3>2 DEF To, Parser_Set
    <3>. QED  BY <1>2, <2>1, <2>5, <3>3 DEF Reads
  <2>6. CASE n = 3
    <3>1. p.state = "PROMPT" /\ p.buf = <<>>
      BY <1>2, <2>6 DEF Reads, Clean
    <3>2. q = To(p, "PROMPT_SPC")
      BY <2>1, <2>6, <3>1 DEF llparse_byte
    <3>3. q.ok /\ q.state = "PROMPT_SPC" /\ q.buf = <<>>
      BY <3>1, <3>2 DEF To, Parser_Set
    <3>. QED  BY <2>1, <2>6, <3>3
  <2>. QED  BY <2>2, <2>3, <2>4, <2>5, <2>6
<1>. QED  BY <1>1, <1>2, ItemShape

-----------------------------------------------------------------------------
(* Where the parser is.  c[i] is the place of the first byte of the item sent  *)
(* as the i-th, counted from the next byte to be parsed, which is at place 1;  *)
(* it is zero or less once bytes of the item have been parsed.  The items sent *)
(* after the first a, the number sent at the last loss, are in the stream as   *)
(* they were sent.                                                             *)
Cut(c, s, x, a) ==
  /\ c \in [1..Len(x) + 1 -> Int] /\ c[Len(x) + 1] = Len(s) + 1
  /\ \A i \in a + 1..Len(x) : c[i + 1] = c[i] + Len(Bytes(x[i])) /\ c[i + 1] <= Len(s) + 1
  /\ \A i \in a + 1..Len(x), k \in Nat :
       k >= 1 /\ k <= Len(Bytes(x[i])) /\ c[i] + k > 1 => s[c[i] + k - 1] = Bytes(x[i])[k]

(* n bytes of the i-th item have been parsed. *)
Place(c, x, i, n) ==
  /\ i \in 1..Len(x) + 1 /\ n \in Nat /\ c[i] = 1 - n
  /\ IF i = Len(x) + 1 THEN n = 0 ELSE n < Len(Bytes(x[i]))

Sizes(x) == \A i \in 1..Len(x) : Len(Bytes(x[i])) \in Nat /\ Len(Bytes(x[i])) >= 1

LEMMA Within ==
  ASSUME NEW e \in Int, NEW l \in Int, NEW m \in Int, NEW k \in Int, k <= l, e + k > 1, e + l <= m + 1
  PROVE  e + k - 1 \in 1..m
  OBVIOUS

(* The modem sends y. *)
LEMMA CutSend ==
  ASSUME NEW x, NEW z, Len(x) \in Nat, Len(z) = Len(x) + 1, \A i \in 1..Len(x) : z[i] = x[i], Sizes(x),
         NEW a \in Nat, a <= Len(x), NEW c, NEW s, NEW u, Cut(c, s, x, a),
         Join(s, Bytes(z[Len(x) + 1]), u), Len(Bytes(z[Len(x) + 1])) >= 1
  PROVE  \E d : /\ Cut(d, u, z, a) /\ \A i \in 1..Len(x) + 1 : d[i] = c[i]
                /\ \A i, n : Place(c, x, i, n) => Place(d, z, i, n)
<1>0. PICK y, b : y = z[Len(x) + 1] /\ b = Bytes(y)
  OBVIOUS
<1>. DEFINE d == [i \in 1..Len(z) + 1 |-> IF i = Len(x) + 2 THEN Len(u) + 1 ELSE c[i]]
<1>1. Len(s) \in Nat /\ Len(b) \in Nat /\ Len(u) = Len(s) + Len(b) /\ Len(b) >= 1
  BY <1>0 DEF Join
<1>2. /\ \A i \in 1..Len(x) + 1 : c[i] \in Int /\ d[i] = c[i]
      /\ d[Len(x) + 2] = Len(u) + 1 /\ d \in [1..Len(z) + 1 -> Int]
  <2>1. \A i \in 1..Len(x) + 1 : c[i] \in Int
    BY DEF Cut
  <2>2. /\ Len(x) + 2 \in 1..Len(z) + 1 /\ Len(u) + 1 \in Int
        /\ \A i \in 1..Len(x) + 1 : i \in 1..Len(z) + 1 /\ i # Len(x) + 2
        /\ \A i \in 1..Len(z) + 1 : i = Len(x) + 2 \/ i \in 1..Len(x) + 1
    BY <1>1
  <2>. QED  BY <2>1, <2>2
<1>3. Len(z) + 1 = Len(x) + 2 /\ c[Len(x) + 1] = Len(s) + 1
  BY DEF Cut
<1>. HIDE DEF d
<1>4. ASSUME NEW i \in a + 1..Len(z)
      PROVE  /\ d[i + 1] = d[i] + Len(Bytes(z[i])) /\ d[i + 1] <= Len(u) + 1
             /\ \A k \in Nat : k >= 1 /\ k <= Len(Bytes(z[i])) /\ d[i] + k > 1 => u[d[i] + k - 1] = Bytes(z[i])[k]
  <2>1. CASE i = Len(x) + 1
    <3>1. d[i] = Len(s) + 1 /\ d[i + 1] = Len(u) + 1 /\ z[i] = y
      BY <1>0, <1>2, <1>3, <2>1
    <3>2. \A k \in Nat : k >= 1 /\ k <= Len(b) => u[Len(s) + 1 + k - 1] = b[k]
      <4>1. \A k \in Nat : k >= 1 /\ k <= Len(b) => k \in 1..Len(b) /\ Len(s) + 1 + k - 1 = Len(s) + k
        BY <1>1
      <4>. QED  BY <1>0, <4>1 DEF Join
    <3>3. d[i + 1] = d[i] + Len(b) /\ d[i + 1] <= Len(u) + 1
      BY <1>1, <3>1
    <3>. QED  BY <1>0, <3>1, <3>2, <3>3
  <2>2. CASE i # Len(x) + 1
    <3>1. i \in a + 1..Len(x) /\ i \in 1..Len(x) /\ i + 1 \in 1..Len(x) + 1 /\ i \in 1..Len(x) + 1
      BY <2>2
    <3>2. d[i] = c[i] /\ d[i + 1] = c[i + 1] /\ z[i] = x[i] /\ c[i] \in Int
      BY <1>2, <3>1
    <3>3. c[i + 1] = c[i] + Len(Bytes(x[i])) /\ c[i + 1] <= Len(s) + 1 /\ Len(Bytes(x[i])) \in Nat
      BY <3>1 DEF Cut, Sizes
    <3>4. ASSUME NEW k \in Nat, k >= 1, k <= Len(Bytes(x[i])), c[i] + k > 1 PROVE u[c[i] + k - 1] = Bytes(x[i])[k]
      <4>0. k \in Int /\ Len(s) \in Int /\ Len(Bytes(x[i])) \in Int /\ c[i] + Len(Bytes(x[i])) <= Len(s) + 1
        BY <1>1, <3>3
      <4>1. c[i] + k - 1 \in 1..Len(s)
        BY <3>2, <3>4, <4>0, Within
      <4>2. u[c[i] + k - 1] = s[c[i] + k - 1]
        BY <4>1 DEF Join
      <4>3. s[c[i] + k - 1] = Bytes(x[i])[k]
        BY <3>1, <3>4 DEF Cut
      <4>. QED  BY <4>2, <4>3
    <3>5. c[i + 1] <= Len(u) + 1
      <4>1. PICK f : f = c[i + 1]
        OBVIOUS
      <4>2. f \in Int /\ f <= Len(s) + 1
        BY <1>2, <3>1, <3>3, <4>1
      <4>3. f <= Len(u) + 1
        BY <1>1, <4>2
      <4>. QED  BY <4>1, <4>3
    <3>. QED  BY <3>2, <3>3, <3>4, <3>5
  <2>. QED  BY <2>1, <2>2
<1>5. Cut(d, u, z, a)
  BY <1>2, <1>3, <1>4 DEF Cut
<1>6. ASSUME NEW i, NEW n, Place(c, x, i, n) PROVE Place(d, z, i, n)
  <2>1. i \in 1..Len(x) + 1 /\ n \in Nat /\ c[i] = 1 - n /\ d[i] = c[i]
    BY <1>2, <1>6 DEF Place
  <2>2. CASE i = Len(x) + 1
    BY <1>0, <1>1, <1>6, <2>1, <2>2 DEF Place
  <2>3. CASE i # Len(x) + 1
    <3>1. i \in 1..Len(x) /\ z[i] = x[i]
      BY <2>1, <2>3
    <3>. QED  BY <1>6, <2>1, <2>3, <3>1 DEF Place
  <2>. QED  BY <2>2, <2>3
<1>. QED  BY <1>2, <1>5, <1>6

(* The parser takes a byte. *)
Shift(c) == [i \in DOMAIN c |-> c[i] - 1]

LEMMA CutParse ==
  ASSUME NEW x, NEW s, NEW u, NEW a \in Nat, NEW c, Cut(c, s, x, a), Sizes(x), Suffix(u, 1, s), Len(x) \in Nat
  PROVE  /\ Cut(Shift(c), u, x, a)
         /\ \A i \in 1..Len(x) + 1 : c[i] \in Int /\ Shift(c)[i] = c[i] - 1
<1>1. Len(u) \in Nat /\ Len(s) = 1 + Len(u) /\ \A j \in 1..Len(u) : u[j] = s[1 + j]
  BY DEF Suffix
<1>2. /\ \A i \in 1..Len(x) + 1 : c[i] \in Int /\ Shift(c)[i] = c[i] - 1
      /\ Shift(c) \in [1..Len(x) + 1 -> Int] /\ c[Len(x) + 1] = Len(s) + 1
  BY DEF Cut, Shift
<1>3. ASSUME NEW i \in a + 1..Len(x)
      PROVE  /\ Shift(c)[i + 1] = Shift(c)[i] + Len(Bytes(x[i])) /\ Shift(c)[i + 1] <= Len(u) + 1
             /\ \A k \in Nat : k >= 1 /\ k <= Len(Bytes(x[i])) /\ Shift(c)[i] + k > 1 =>
                               u[Shift(c)[i] + k - 1] = Bytes(x[i])[k]
  <2>1. i \in 1..Len(x) /\ i \in 1..Len(x) + 1 /\ i + 1 \in 1..Len(x) + 1
    OBVIOUS
  <2>2. PICK e, f, g, l : e = c[i] - 1 /\ f = c[i] /\ g = c[i + 1] /\ l = Len(Bytes(x[i]))
    OBVIOUS
  <2>3. /\ Shift(c)[i] = e /\ Shift(c)[i + 1] = g - 1 /\ f \in Int /\ g \in Int /\ e = f - 1
        /\ g = f + l /\ g <= Len(s) + 1 /\ l \in Nat
    BY <1>2, <2>1, <2>2 DEF Cut, Sizes
  <2>4. ASSUME NEW k \in Nat, k >= 1, k <= l, e + k > 1 PROVE u[e + k - 1] = Bytes(x[i])[k]
    <3>1. k \in Int /\ Len(u) \in Int /\ l \in Int /\ e \in Int /\ e + l <= Len(u) + 1
      BY <1>1, <2>3
    <3>2. e + k - 1 \in 1..Len(u)
      BY <2>4, <3>1, Within
    <3>3. 1 + (e + k - 1) = f + k - 1 /\ f + k > 1
      BY <2>3, <2>4
    <3>4. s[f + k - 1] = Bytes(x[i])[k]
      BY <2>2, <2>4, <3>3 DEF Cut
    <3>. QED  BY <1>1, <3>2, <3>3, <3>4
  <2>5. Shift(c)[i + 1] = e + l /\ Shift(c)[i + 1] <= Len(u) + 1
    BY <1>1, <2>3
  <2>. QED  BY <2>2, <2>3, <2>4, <2>5
<1>4. Shift(c)[Len(x) + 1] = Len(u) + 1
  BY <1>1, <1>2
<1>. QED  BY <1>2, <1>3, <1>4 DEF Cut

(* The byte that is parsed next. *)
LEMMA PlaceByte ==
  ASSUME NEW x, NEW s, NEW a \in Nat, NEW c, Cut(c, s, x, a), Sizes(x), Len(s) \in Nat, Len(s) >= 1, Len(x) \in Nat,
         NEW i, NEW n, Place(c, x, i, n), i > a
  PROVE  i \in 1..Len(x) /\ n \in 0..Len(Bytes(x[i])) - 1 /\ s[1] = Bytes(x[i])[n + 1]
<1>1. i \in 1..Len(x) + 1 /\ n \in Nat /\ c[i] = 1 - n /\ c[Len(x) + 1] = Len(s) + 1
  BY DEF Place, Cut
<1>2. i # Len(x) + 1
  BY <1>1 DEF Place
<1>3. i \in 1..Len(x) /\ i \in a + 1..Len(x)
  BY <1>1, <1>2
<1>4. PICK l : l = Len(Bytes(x[i]))
  OBVIOUS
<1>5. n < l /\ l \in Nat /\ n \in 0..l - 1
  BY <1>1, <1>2, <1>3, <1>4 DEF Place, Sizes
<1>6. n + 1 \in Nat /\ n + 1 >= 1 /\ n + 1 <= l /\ c[i] + (n + 1) > 1 /\ c[i] + (n + 1) - 1 = 1
  BY <1>1, <1>5
<1>7. s[1] = Bytes(x[i])[n + 1]
  BY <1>3, <1>4, <1>6 DEF Cut
<1>. QED  BY <1>3, <1>4, <1>5, <1>7

LEMMA PlaceParse ==
  ASSUME NEW x, NEW s, NEW u, NEW a \in Nat, NEW c, Cut(c, s, x, a), Sizes(x), Suffix(u, 1, s), Len(x) \in Nat,
         NEW i, NEW n, Place(c, x, i, n), i > a
  PROVE  /\ i \in 1..Len(x) /\ n \in 0..Len(Bytes(x[i])) - 1 /\ s[1] = Bytes(x[i])[n + 1]
         /\ IF n + 1 = Len(Bytes(x[i])) THEN Place(Shift(c), x, i + 1, 0) ELSE Place(Shift(c), x, i, n + 1)
<1>1. \A j \in 1..Len(x) + 1 : c[j] \in Int /\ Shift(c)[j] = c[j] - 1
  BY CutParse
<1>2. i \in 1..Len(x) /\ n \in 0..Len(Bytes(x[i])) - 1 /\ s[1] = Bytes(x[i])[n + 1]
  <2>1. Len(s) \in Nat /\ Len(s) >= 1
    BY DEF Suffix
  <2>. QED  BY <2>1, PlaceByte
<1>3. PICK l : l = Len(Bytes(x[i]))
  OBVIOUS
<1>4. /\ c[i] = 1 - n /\ n \in Nat /\ n < l /\ l \in Nat
      /\ i \in a + 1..Len(x) /\ i + 1 \in 1..Len(x) + 1 /\ i \in 1..Len(x) + 1 /\ i # Len(x) + 1
  BY <1>2, <1>3 DEF Place, Sizes
<1>5. CASE n + 1 = l
  <2>1. Shift(c)[i + 1] = 1 - 0
    <3>1. c[i + 1] = c[i] + l
      BY <1>3, <1>4 DEF Cut
    <3>. QED  BY <1>1, <1>4, <1>5, <3>1
  <2>2. i + 1 # Len(x) + 1 => 0 < Len(Bytes(x[i + 1]))
    <3>1. i + 1 # Len(x) + 1 => i + 1 \in 1..Len(x)
      BY <1>2
    <3>. QED  BY <3>1 DEF Sizes
  <2>. QED  BY <1>2, <1>3, <1>4, <1>5, <2>1, <2>2 DEF Place
<1>6. CASE n + 1 # l
  <2>1. Shift(c)[i] = 1 - (n + 1) /\ n + 1 \in Nat /\ n + 1 < l
    BY <1>1, <1>4, <1>6
  <2>. QED  BY <1>2, <1>3, <1>4, <1>6, <2>1 DEF Place
<1>. QED  BY <1>5, <1>6

(* With nothing left in the stream, all items have been parsed. *)
LEMMA PlaceEnd ==
  ASSUME NEW x, NEW s, NEW a \in Nat, NEW c, Cut(c, s, x, a), Sizes(x), Len(x) \in Nat, Len(s) = 0,
         NEW i, NEW n, Place(c, x, i, n), i > a
  PROVE  i = Len(x) + 1 /\ n = 0
<1>. SUFFICES ASSUME i # Len(x) + 1 PROVE FALSE
  BY DEF Place
<1>1. i \in a + 1..Len(x) /\ i \in 1..Len(x) /\ n \in Nat /\ c[i] = 1 - n /\ n < Len(Bytes(x[i]))
  BY DEF Place
<1>2. c[i + 1] = c[i] + Len(Bytes(x[i])) /\ c[i + 1] <= 1 /\ Len(Bytes(x[i])) \in Nat
  BY <1>1 DEF Cut, Sizes
<1>. QED  BY <1>1, <1>2

-----------------------------------------------------------------------------
(* What llparse_string reports, and when an item is to be reported. *)
Says(q, y) == (q.state = "RESULT_CR" /\ y = Item("line", q.buf)) \/ (q.state = "PROMPT_SPC" /\ y = Prompt)
Emits(x, n) == (x.kind = "line" /\ n = Len(x.text) + 2) \/ (x.kind = "prompt" /\ n = 3)

LEMMA SaysItem ==
  ASSUME NEW x \in Items, Plain(x.text), NEW n \in 0..Len(Bytes(x)) - 1, Emits(x, n),
         NEW p \in Parser_Set, p.ok = TRUE, Clean(p), Reads(x, n, p),
         NEW q, q = llparse_byte(p, Bytes(x)[n + 1]), q.ok
  PROVE  Says(q, x)
<1>1. CASE x.kind = "line"
  <2>1. x.text \in Texts /\ x = Item("line", x.text) /\ n = Len(x.text) + 2 /\ Len(x.text) \in Nat
    BY <1>1, ItemShape, PlainText DEF Emits
  <2>2. Len(Bytes(x)) = Len(x.text) + 4
    BY <2>1, LineShape
  <2>3. Reads(x, n + 1, q)
    <3>1. n + 1 # Len(Bytes(x))
      BY <2>1, <2>2
    <3>. QED  BY <1>1, <3>1, ReadsStep
  <2>4. q.state = "RESULT_CR" /\ q.buf = x.text
    BY <1>1, <2>1, <2>3 DEF Reads
  <2>. QED  BY <2>1, <2>4 DEF Says
<1>2. CASE x.kind = "prompt"
  <2>1. q.state = "PROMPT_SPC"
    BY <1>2, ReadsStep DEF Emits
  <2>. QED  BY <1>2, <2>1, ItemShape DEF Says
<1>. QED  BY <1>1, <1>2 DEF Emits

-----------------------------------------------------------------------------
(* While nothing was lost: between two items, and inside of one.  After an     *)
(* echo the parser waits for an LF, and reports the echo with every byte.      *)
Echoed(p) == p.state = "RESULT_CR" /\ p.buf \in Echoes
Between(p) == Echoed(p) \/ (p.state \in {"IDLE", "PROMPT_SPC"} /\ p.buf = <<>>)
CleanAt(x, n, p) ==
  /\ n = 0 => Between(p)
  /\ x.kind # "echo" => Reads(x, n, p)
  /\ x.kind = "echo" => Echoed(p) \/ InText(x.text, n, p)

LEMMA CleanBegin ==
  ASSUME NEW x \in Item_Set, NEW p, Between(p)
  PROVE  CleanAt(x, 0, p)
<1>1. Len(x.text) \in Nat
  BY LenProperties DEF Item_Set
<1>2. Reads(x, 0, p)
  BY <1>1 DEF Reads, Between, Echoed
<1>3. Echoed(p) \/ InText(x.text, 0, p)
  BY DEF Between, InText
<1>. QED  BY <1>2, <1>3 DEF CleanAt

Reported(x, n, q) ==
  IF Emits(x, n) THEN Says(q, x) ELSE q.state # "PROMPT_SPC" /\ (q.state = "RESULT_CR" => q.buf \in Echoes)

LEMMA EchoStep ==
  ASSUME NEW x \in Items, x.kind = "echo", Plain(x.text), Fits(x.text), NEW n \in 0..Len(Bytes(x)) - 1,
         NEW p \in Parser_Set, p.ok = TRUE, CleanAt(x, n, p),
         NEW q, q = llparse_byte(p, Bytes(x)[n + 1])
  PROVE  /\ q.ok /\ Reported(x, n, q)
         /\ IF n + 1 = Len(Bytes(x)) THEN Between(q) ELSE CleanAt(x, n + 1, q)
<1>1. PICK t, b : t = x.text /\ b = Bytes(x)
  OBVIOUS
<1>2. t \in Echoes /\ b = Bytes(Item("echo", t)) /\ t \in Texts \cup Echoes /\ Plain(t) /\ Fits(t)
  BY <1>1, ItemShape
<1>3. Len(b) = Len(t) + 1 /\ b[Len(t) + 1] = "CR" /\ \A k \in 1..Len(t) : b[k] = t[k]
  BY <1>2, EchoShape
<1>4. Len(t) \in Nat /\ Len(t) >= 1 /\ \A k \in 1..Len(t) : t[k] # "CR" /\ t[k] # "LF"
  BY <1>2, PlainText
<1>5. n \in 0..Len(t) /\ n + 1 \in Nat /\ q = llparse_byte(p, b[n + 1])
  BY <1>1, <1>3, <1>4
<1>6. ~Emits(x, n)
  BY DEF Emits
<1>7. SUFFICES /\ q.ok
               /\ \/ Echoed(q)
                  \/ n < Len(t) /\ InText(t, n + 1, q)
  <2>1. InText(t, n + 1, q) => q.state \in {"PROMPT", "RESULT"}
    BY <1>5 DEF InText
  <2>2. Reported(x, n, q)
    BY <1>6, <1>7, <2>1 DEF Reported, Echoed
  <2>3. CASE n + 1 = Len(b)
    <3>1. Echoed(q)
      BY <1>3, <1>4, <1>5, <1>7, <2>3
    <3>. QED  BY <1>1, <1>7, <2>2, <2>3, <3>1 DEF Between
  <2>4. CASE n + 1 # Len(b)
    <3>1. n + 1 # 0 /\ (Echoed(q) \/ InText(x.text, n + 1, q))
      BY <1>1, <1>5, <1>7
    <3>. QED  BY <1>1, <1>7, <2>2, <2>4, <3>1 DEF CleanAt
  <2>. QED  BY <2>3, <2>4
<1>8. CASE Echoed(p)
  <2>1. b[n + 1] # "LF"
    <3>1. n + 1 = Len(t) + 1 \/ n + 1 \in 1..Len(t)
      BY <1>4, <1>5
    <3>. QED  BY <1>3, <1>4, <3>1
  <2>2. q = p
    BY <1>5, <1>8, <2>1 DEF llparse_byte, Echoed
  <2>. QED  BY <1>8, <2>2
<1>9. CASE InText(t, n, p) /\ n < Len(t)
  <2>1. n \in 0..Len(t) - 1 /\ n + 1 \in 1..Len(t)
    BY <1>4, <1>5, <1>9
  <2>2. q = llparse_byte(p, t[n + 1])
    BY <1>3, <1>5, <2>1
  <2>. QED  BY <1>2, <1>9, <2>1, <2>2, TextStep
<1>10. CASE InText(t, n, p) /\ n = Len(t)
  <2>1. q = llparse_byte(p, "CR") /\ InText(t, Len(t), p)
    BY <1>3, <1>5, <1>10
  <2>2. q.ok /\ q.state = "RESULT_CR" /\ q.buf = t
    BY <1>2, <2>1, TextEnd
  <2>. QED  BY <1>2, <2>2 DEF Echoed
<1>. QED  BY <1>1, <1>4, <1>5, <1>8, <1>9, <1>10 DEF CleanAt

LEMMA CleanStep ==
  ASSUME NEW x \in Items, Plain(x.text), Fits(x.text), NEW n \in 0..Len(Bytes(x)) - 1,
         NEW p \in Parser_Set, p.ok = TRUE, Clean(p), CleanAt(x, n, p),
         NEW q, q = llparse_byte(p, Bytes(x)[n + 1])
  PROVE  /\ q.ok /\ Reported(x, n, q)
         /\ IF n + 1 = Len(Bytes(x)) THEN Between(q) ELSE CleanAt(x, n + 1, q)
<1>1. CASE x.kind = "echo"
  BY <1>1, EchoStep
<1>2. CASE x.kind # "echo"
  <2>1. Reads(x, n, p)
    BY <1>2 DEF CleanAt
  <2>2. /\ q.ok
        /\ IF n + 1 = Len(Bytes(x)) THEN q.state \in {"IDLE", "PROMPT_SPC"} /\ q.buf = <<>> ELSE Reads(x, n + 1, q)
    BY <1>2, <2>1, ReadsStep
  <2>3. IF n + 1 = Len(Bytes(x)) THEN Between(q) ELSE CleanAt(x, n + 1, q)
    BY <1>2, <2>2 DEF Between, CleanAt
  <2>4. Emits(x, n) => Says(q, x)
    BY <2>1, <2>2, SaysItem
  <2>5. ASSUME ~Emits(x, n) PROVE q.state # "PROMPT_SPC" /\ (q.state = "RESULT_CR" => q.buf \in Echoes)
    <3>1. x.kind \in {"line", "prompt"} /\ Len(Bytes(x)) \in Nat
      BY <1>2, ItemShape, LastByte
    <3>2. ASSUME n = 0 PROVE Echoed(q) \/ q.state = "IDLE_CR"
      <4>1. Between(p)
        BY <3>2 DEF CleanAt
      <4>2. Bytes(x)[1] = "CR"
        BY <3>1, ItemShape, LineShape, PromptShape
      <4>3. q = llparse_byte(p, "CR")
        BY <3>2, <4>2
      <4>4. CASE Echoed(p)
        BY <4>3, <4>4 DEF llparse_byte, Echoed
      <4>5. CASE p.state \in {"IDLE", "PROMPT_SPC"}
        BY <4>3, <4>5 DEF llparse_byte, To, Parser_Set
      <4>. QED  BY <4>1, <4>4, <4>5 DEF Between
    <3>3. ASSUME x.kind = "line", n # 0 PROVE q.state \notin {"PROMPT_SPC", "RESULT_CR"}
      <4>1. x.text \in Texts /\ x = Item("line", x.text) /\ Len(x.text) \in Nat
        BY <3>3, ItemShape, PlainText
      <4>2. Len(Bytes(x)) = Len(x.text) + 4
        BY <4>1, LineShape
      <4>3. CASE n + 1 = Len(Bytes(x))
        <5>1. p.state = "RESULT_CR" /\ Bytes(x)[n + 1] = "LF"
          <6>1. n = Len(x.text) + 3 /\ n + 1 = Len(x.text) + 4
            BY <4>1, <4>2, <4>3
          <6>2. p.state = "RESULT_CR"
            BY <2>1, <3>3, <6>1 DEF Reads
          <6>. QED  BY <4>1, <6>1, <6>2, LineShape
        <5>. QED  BY <5>1 DEF llparse_byte, llparse_endline, Parser_Set
      <4>4. CASE n + 1 # Len(Bytes(x))
        <5>1. n + 1 \in 2..Len(x.text) + 2
          BY <2>5, <3>3, <4>1, <4>2, <4>4 DEF Emits
        <5>2. InText(x.text, n + 1 - 2, q)
          BY <2>2, <3>3, <4>4, <5>1 DEF Reads
        <5>3. CASE n = 1
          <6>1. p.state \in {"IDLE_CR", "RESULT_CR"} /\ Bytes(x)[n + 1] = "LF"
            BY <2>1, <4>1, <5>3, LineShape DEF Reads
          <6>. QED  BY <5>3, <6>1, HeaderStep
        <5>4. CASE n # 1
          <6>1. n + 1 - 2 # 0
            BY <3>3, <5>4
          <6>. QED  BY <5>2, <6>1 DEF InText
        <5>. QED  BY <5>3, <5>4
      <4>. QED  BY <4>3, <4>4
    <3>4. ASSUME x.kind = "prompt", n # 0 PROVE q.state \notin {"PROMPT_SPC", "RESULT_CR"}
      <4>1. Len(Bytes(x)) = 4 /\ Bytes(x)[2] = "LF"
        BY <3>4, ItemShape, PromptShape
      <4>2. n \in {1, 2}
        BY <2>5, <3>4, <4>1 DEF Emits
      <4>3. CASE n = 1
        <5>1. p.state \in {"IDLE_CR", "RESULT_CR"} /\ q = llparse_byte(p, "LF")
          BY <2>1, <4>1, <4>3 DEF Reads
        <5>. QED  BY <5>1, HeaderStep
      <4>4. CASE n = 2
        BY <2>2, <3>4, <4>1, <4>4 DEF Reads
      <4>. QED  BY <4>2, <4>3, <4>4
    <3>. QED  BY <3>1, <3>2, <3>3, <3>4 DEF Echoed
  <2>. QED  BY <2>2, <2>3, <2>4, <2>5 DEF Reported
<1>. QED  BY <1>1, <1>2

-----------------------------------------------------------------------------
(* What was sent, and when the line last lost a byte. *)
SentInv ==
  /\ \A i \in 1..Len(sent) : sent[i] \in Items
  /\ lostAt <= Len(sent) /\ (lost = 0 => lostAt = 0)

LEMMA SentInit == Init => SentInv
  BY DEF Init, SentInv

LEMMA ItemSent ==
  ASSUME PInv, Next,
         ~(\E i \in 1..Len(wire) : Lose(i)), ~Reading, ~Parse
  PROVE  \E x \in Items : Send(x)
  BY DEF Next, Items

LEMMA AppendItem ==
  ASSUME NEW S, NEW s \in Seq(S), NEW x \in S
  PROVE  /\ Len(s) \in Nat /\ Append(s, x) \in Seq(S) /\ Len(Append(s, x)) = Len(s) + 1
         /\ Append(s, x)[Len(s) + 1] = x /\ \A i \in 1..Len(s) : Append(s, x)[i] = s[i]
  BY AppendProperties, LenProperties

LEMMA SentNext == PInv /\ SentInv /\ [Next]_vars => SentInv'
<1>. SUFFICES ASSUME PInv, SentInv, [Next]_vars PROVE SentInv'
  OBVIOUS
<1>0. sent \in Seq(Item_Set) /\ Len(sent) \in Nat /\ lost \in Nat /\ lostAt \in Nat
  BY LenProperties DEF PInv, TypeOK
<1>1. ASSUME NEW x \in Items, Send(x) PROVE SentInv'
  <2>1. /\ Len(sent') = Len(sent) + 1 /\ sent'[Len(sent) + 1] = x
        /\ \A i \in 1..Len(sent) : sent'[i] = sent[i]
    BY <1>0, <1>1, ItemShape, AppendItem DEF Send
  <2>2. \A i \in 1..Len(sent') : sent'[i] \in Items
    BY <1>0, <1>1, <2>1 DEF SentInv
  <2>. QED  BY <1>0, <1>1, <2>1, <2>2 DEF SentInv, Send
<1>2. CASE \E i \in 1..Len(wire) : Lose(i)
  BY <1>0, <1>2 DEF Lose, SentInv
<1>3. CASE Reading
  BY <1>3 DEF Reading, Read, history, SentInv
<1>4. CASE Parse
  BY <1>4 DEF Parse, SentInv
<1>5. CASE UNCHANGED vars
  BY <1>5 DEF vars, SentInv
<1>. QED  BY <1>1, <1>2, <1>3, <1>4, <1>5, ItemSent

(* The facts about the items that the steps below use. *)
LEMMA SentFacts ==
  ASSUME PInv, SentInv, AllSent(Plain)
  PROVE  /\ sent \in Seq(Item_Set) /\ Len(sent) \in Nat /\ Sizes(sent)
         /\ \A i \in 1..Len(sent) : sent[i] \in Items /\ Plain(sent[i].text)
         /\ lostAt \in Nat /\ lostAt <= Len(sent) /\ lost \in Nat /\ (lost = 0 => lostAt = 0)
<1>1. sent \in Seq(Item_Set) /\ Len(sent) \in Nat /\ lostAt \in Nat /\ lost \in Nat
  BY LenProperties DEF PInv, TypeOK
<1>2. \A i \in 1..Len(sent) : sent[i] \in Items /\ Plain(sent[i].text)
  BY DEF SentInv, AllSent
<1>3. Sizes(sent)
  BY <1>2, LastByte DEF Sizes
<1>. QED  BY <1>1, <1>2, <1>3 DEF SentInv

(* A new item joins the stream. *)
LEMMA SendStream ==
  ASSUME PInv, SentInv, AllSent(Plain)', NEW x \in Items, Send(x)
  PROVE  /\ AllSent(Plain) /\ Plain(x.text) /\ Len(Bytes(x)) >= 1 /\ Join(stream, Bytes(x), stream')
         /\ sent' = Append(sent, x) /\ Len(sent') = Len(sent) + 1 /\ sent'[Len(sent) + 1] = x
         /\ \A i \in 1..Len(sent) : sent'[i] = sent[i]
         /\ state' = state /\ buf' = buf /\ got' = got /\ lost' = lost /\ lostAt' = lostAt /\ overrun' = overrun
<1>1. /\ sent' = Append(sent, x) /\ wire' = wire \o Bytes(x) /\ chunk' = chunk
      /\ state' = state /\ buf' = buf /\ got' = got /\ lost' = lost /\ lostAt' = lostAt /\ overrun' = overrun
  BY DEF Send, parser
<1>2. /\ Len(sent) \in Nat /\ Len(sent') = Len(sent) + 1 /\ sent'[Len(sent) + 1] = x
      /\ \A i \in 1..Len(sent) : sent'[i] = sent[i]
  <2>1. sent \in Seq(Item_Set) /\ x \in Item_Set
    BY ItemShape DEF PInv, TypeOK
  <2>. QED  BY <1>1, <2>1, AppendItem
<1>3. AllSent(Plain) /\ Plain(x.text)
  BY <1>2 DEF AllSent
<1>4. Bytes(x) \in Seq(Byte) /\ Len(Bytes(x)) >= 1
  BY <1>3, LastByte
<1>5. chunk \in Seq(Byte) /\ wire \in Seq(Byte) /\ stream \in Seq(Byte)
  BY ConcatProperties DEF PInv, TypeOK, stream
<1>6. stream' = stream \o Bytes(x)
  <2>1. stream' = chunk \o (wire \o Bytes(x))
    BY <1>1 DEF stream
  <2>. QED  BY <1>4, <1>5, <2>1, ConcatAssociative DEF stream
<1>7. Join(stream, Bytes(x), stream')
  BY <1>4, <1>5, <1>6, Joined
<1>. QED  BY <1>1, <1>2, <1>3, <1>4, <1>7

LEMMA ReadStream ==
  ASSUME PInv, NEW n \in 1..Len(wire), Read(n)
  PROVE  stream' = stream
<1>1. wire \in Seq(Byte) /\ Len(wire) \in Nat
  BY LenProperties DEF PInv, TypeOK
<1>2. SubSeq(wire, 1, n) \o SubSeq(wire, n + 1, Len(wire)) = SubSeq(wire, 1, Len(wire))
  BY <1>1, ConcatAdjacentSubSeq
<1>3. stream' = wire
  BY <1>1, <1>2, SubSeqFull DEF Read, stream
<1>4. stream = wire
  BY <1>1, ConcatEmptySeq DEF Read, stream
<1>. QED  BY <1>3, <1>4

(* A byte is parsed: what it leaves, and what it reports. *)
LEMMA ParseReports ==
  ASSUME PInv, Parse, After.ok
  PROVE  /\ Suffix(stream', 1, stream) /\ After = llparse_byte(Current, stream[1]) /\ Current' = After
         /\ Current \in Parser_Set /\ Current.ok = TRUE /\ Clean(Current)
         /\ overrun' = overrun /\ sent' = sent /\ lost' = lost /\ lostAt' = lostAt
         /\ \A y : Says(After, y) => got' = Append(got, y)
         /\ After.state \notin {"RESULT_CR", "PROMPT_SPC"} => got' = got
<1>1. /\ After \in Parser_Set /\ state' = After.state /\ buf' = After.buf /\ llparse_string(After)
      /\ overrun \in BOOLEAN
  BY ParseStep DEF PInv, TypeOK
<1>2. Suffix(stream', 1, stream) /\ stream[1] = Head(chunk)
  BY ParseStream
<1>3. After = llparse_byte(Current, stream[1])
  BY <1>2 DEF After
<1>4. Current' = After
  BY <1>1 DEF Current, Parser_Set
<1>5. Current \in Parser_Set /\ Current.ok = TRUE /\ Clean(Current)
  BY DEF PInv, TypeOK, Parser_Set, Buffer, Current, Clean
<1>6. overrun' = overrun
  BY <1>1 DEF llparse_string
<1>7. \A y : Says(After, y) => got' = Append(got, y)
  BY <1>1 DEF llparse_string, Says
<1>8. After.state \notin {"RESULT_CR", "PROMPT_SPC"} => got' = got
  BY <1>1 DEF llparse_string
<1>. QED  BY <1>2, <1>3, <1>4, <1>5, <1>6, <1>7, <1>8 DEF Parse

-----------------------------------------------------------------------------
(* Exact lines.  The invariant: the parser is at some place of the items sent, *)
(* its state says how much of the present one it has seen, and what it has     *)
(* reported is what a correct parser reports of the items before that place.   *)
Done(x, i, n) ==
  IF i <= Len(x) /\ x[i].kind = "line" /\ n = Len(x[i].text) + 3 THEN i ELSE i - 1
CleanInv(i, n) ==
  /\ IF i = Len(sent) + 1 THEN Between(Current) ELSE CleanAt(sent[i], n, Current)
  /\ Lines(got) = Lines(SubSeq(sent, 1, Done(sent, i, n)))
ExactInv ==
  Undisturbed => /\ ~overrun
                 /\ \E c, i, n : Cut(c, stream, sent, 0) /\ Place(c, sent, i, n) /\ CleanInv(i, n)

LEMMA ExactInit == Init => ExactInv
<1>. SUFFICES ASSUME Init
              PROVE  \E c, i, n : Cut(c, stream, sent, 0) /\ Place(c, sent, i, n) /\ CleanInv(i, n)
  BY DEF ExactInv, Init
<1>. DEFINE c == [i \in 1..1 |-> 1]
<1>1. stream = <<>> /\ Len(stream) = 0 /\ got = <<>> /\ sent = <<>> /\ Len(sent) = 0
  <2>1. <<>> \o <<>> = <<>>
    BY EmptySeq, ConcatEmptySeq
  <2>. QED  BY <2>1, EmptySeq DEF Init, stream
<1>2. c \in [1..1 -> Int] /\ c[1] = 1
  OBVIOUS
<1>. HIDE DEF c
<1>3. Cut(c, stream, sent, 0)
  BY <1>1, <1>2 DEF Cut
<1>4. Place(c, sent, 1, 0)
  BY <1>1, <1>2 DEF Place
<1>5. Done(sent, 1, 0) = 0
  BY <1>1 DEF Done
<1>6. SubSeq(sent, 1, 0) = <<>>
  <2>1. sent \in Seq(Item_Set)
    BY <1>1, EmptySeq
  <2>. QED  BY <2>1, FirstItems
<1>7. CleanInv(1, 0)
  <2>1. Between(Current) /\ 1 = Len(sent) + 1
    BY <1>1 DEF Between, Current, Init
  <2>. QED  BY <1>1, <1>5, <1>6, <2>1 DEF CleanInv
<1>. QED  BY <1>3, <1>4, <1>7

LEMMA DoneRange ==
  ASSUME NEW x, Len(x) \in Nat, NEW c, NEW i, NEW n, Place(c, x, i, n)
  PROVE  Done(x, i, n) \in 0..Len(x)
  BY DEF Place, Done

LEMMA ExactSend ==
  ASSUME PInv, SentInv, ExactInv, NEW x \in Items, Send(x)
  PROVE  ExactInv'
<1>. SUFFICES ASSUME Undisturbed'
              PROVE  /\ ~overrun'
                     /\ \E c, i, n : /\ Cut(c, stream', sent', 0) /\ Place(c, sent', i, n) /\ CleanInv(i, n)'
  BY DEF ExactInv
<1>1. /\ AllSent(Plain) /\ Plain(x.text) /\ Len(Bytes(x)) >= 1 /\ Join(stream, Bytes(x), stream')
      /\ sent' = Append(sent, x) /\ Len(sent') = Len(sent) + 1 /\ sent'[Len(sent) + 1] = x
      /\ \A i \in 1..Len(sent) : sent'[i] = sent[i]
      /\ state' = state /\ buf' = buf /\ got' = got /\ lost' = lost /\ lostAt' = lostAt /\ overrun' = overrun
  BY SendStream DEF Undisturbed
<1>2. sent \in Seq(Item_Set) /\ Len(sent) \in Nat /\ Sizes(sent) /\ x \in Item_Set
  BY <1>1, SentFacts, ItemShape
<1>3. Undisturbed
  BY <1>1, <1>2 DEF Undisturbed, AllSent
<1>4. PICK c, i, n : Cut(c, stream, sent, 0) /\ Place(c, sent, i, n) /\ CleanInv(i, n)
  BY <1>3 DEF ExactInv
<1>5. PICK d : Cut(d, stream', sent', 0) /\ \A j, m : Place(c, sent, j, m) => Place(d, sent', j, m)
  <2>1. 0 \in Nat /\ 0 <= Len(sent)
    BY <1>2
  <2>2. Join(stream, Bytes(sent'[Len(sent) + 1]), stream') /\ Len(Bytes(sent'[Len(sent) + 1])) >= 1
    BY <1>1
  <2>. QED  BY <1>1, <1>2, <1>4, <2>1, <2>2, CutSend
<1>6. Place(d, sent', i, n) /\ i \in 1..Len(sent) + 1 /\ n \in Nat
  BY <1>4, <1>5 DEF Place
<1>7. Current' = Current
  BY <1>1 DEF Current
<1>8. CleanAt(sent'[i], n, Current) /\ i # Len(sent') + 1
  <2>1. CASE i = Len(sent) + 1
    <3>1. Between(Current) /\ n = 0
      BY <1>4, <2>1 DEF CleanInv, Place
    <3>. QED  BY <1>1, <1>2, <2>1, <3>1, CleanBegin
  <2>2. CASE i # Len(sent) + 1
    <3>1. i \in 1..Len(sent)
      BY <1>2, <1>6, <2>2
    <3>. QED  BY <1>1, <1>2, <1>4, <2>2, <3>1 DEF CleanInv
  <2>. QED  BY <2>1, <2>2
<1>9. Done(sent', i, n) = Done(sent, i, n) /\ Done(sent, i, n) \in 0..Len(sent)
  <2>1. CASE i = Len(sent) + 1
    <3>1. n = 0 /\ Len(x.text) \in Nat
      BY <1>2, <1>4, <2>1, LenProperties DEF Place, Item_Set
    <3>. QED  BY <1>1, <1>2, <2>1, <3>1 DEF Done
  <2>2. CASE i # Len(sent) + 1
    <3>1. i \in 1..Len(sent)
      BY <1>2, <1>6, <2>2
    <3>. QED  BY <1>1, <1>2, <3>1 DEF Done
  <2>. QED  BY <2>1, <2>2
<1>10. \A d1 \in 0..Len(sent) : SubSeq(sent', 1, d1) = SubSeq(sent, 1, d1)
  BY <1>1, <1>2, AppendProperties
<1>11. CleanInv(i, n)'
  BY <1>1, <1>4, <1>7, <1>8, <1>9, <1>10 DEF CleanInv
<1>12. ~overrun'
  BY <1>1, <1>3 DEF ExactInv
<1>. QED  BY <1>5, <1>6, <1>11, <1>12

(* The place (j, m) is one byte after the place (i, n). *)
Moves(x, i, n, j, m) == IF n + 1 = Len(Bytes(x[i])) THEN j = i + 1 /\ m = 0 ELSE j = i /\ m = n + 1

LEMMA DoneStep ==
  ASSUME NEW x, Len(x) \in Nat, NEW i \in 1..Len(x), x[i] \in Items, Plain(x[i].text),
         i < Len(x) => x[i + 1] \in Item_Set, NEW n \in 0..Len(Bytes(x[i])) - 1,
         NEW j, NEW m, Moves(x, i, n, j, m)
  PROVE  IF Emits(x[i], n) THEN Done(x, i, n) = i - 1 /\ Done(x, j, m) = i
         ELSE \/ Done(x, j, m) = Done(x, i, n)
              \/ x[i].kind = "echo" /\ Done(x, i, n) = i - 1 /\ Done(x, j, m) = i
<1>1. PICK y, l : y = x[i] /\ l = Len(Bytes(y))
  OBVIOUS
<1>2. /\ y.kind \in {"line", "prompt", "echo"} /\ y \in Items /\ Plain(y.text)
      /\ y.kind = "line" => y = Item("line", y.text) /\ y.text \in Texts
      /\ y.kind = "prompt" => y = Prompt
      /\ y.kind = "echo" => y = Item("echo", y.text) /\ y.text \in Echoes
  BY <1>1, ItemShape
<1>3. y.kind = "line" => l = Len(y.text) + 4 /\ Len(y.text) \in Nat
  BY <1>1, <1>2, LineShape, PlainText
<1>4. y.kind = "prompt" => l = 4
  BY <1>1, <1>2, PromptShape
<1>5. n \in 0..l - 1 /\ l \in Nat
  BY <1>1, <1>2, LastByte
<1>6. Done(x, i, n) = IF y.kind = "line" /\ n = Len(y.text) + 3 THEN i ELSE i - 1
  BY <1>1 DEF Done
<1>7. CASE n + 1 = l
  <2>1. j = i + 1 /\ m = 0
    BY <1>1, <1>7 DEF Moves
  <2>2. Done(x, j, m) = i
    <3>1. i < Len(x) => Len(x[i + 1].text) \in Nat
      BY LenProperties DEF Item_Set
    <3>. QED  BY <2>1, <3>1 DEF Done
  <2>3. CASE y.kind = "line"
    BY <1>1, <1>3, <1>5, <1>6, <1>7, <2>2, <2>3 DEF Emits
  <2>4. CASE y.kind = "prompt"
    <3>1. (Emits(y, n) <=> n = 3) /\ Done(x, i, n) = i - 1
      BY <1>6, <2>4 DEF Emits
    <3>2. n = 3
      BY <1>4, <1>5, <1>7, <2>4
    <3>. QED  BY <1>1, <2>2, <2>4, <3>1, <3>2
  <2>5. CASE y.kind = "echo"
    BY <1>1, <1>6, <2>2, <2>5 DEF Emits
  <2>. QED  BY <1>2, <2>3, <2>4, <2>5
<1>8. CASE n + 1 # l
  <2>1. j = i /\ m = n + 1
    BY <1>1, <1>8 DEF Moves
  <2>2. Done(x, j, m) = IF y.kind = "line" /\ n + 1 = Len(y.text) + 3 THEN i ELSE i - 1
    BY <1>1, <2>1 DEF Done
  <2>3. CASE y.kind = "line"
    BY <1>1, <1>3, <1>5, <1>6, <1>8, <2>2, <2>3 DEF Emits
  <2>4. CASE y.kind = "prompt"
    <3>1. (Emits(y, n) <=> n = 3) /\ Done(x, i, n) = i - 1
      BY <1>6, <2>4 DEF Emits
    <3>2. n # 3
      BY <1>4, <1>5, <1>8, <2>4
    <3>. QED  BY <1>1, <2>2, <2>4, <3>1, <3>2
  <2>5. CASE y.kind = "echo"
    BY <1>1, <1>6, <2>2, <2>5 DEF Emits
  <2>. QED  BY <1>2, <2>3, <2>4, <2>5
<1>. QED  BY <1>7, <1>8

(* What was reported stays what a correct parser reports. *)
LEMMA LinesStep ==
  ASSUME PInv, SentInv, AllSent(Plain), NEW i \in 1..Len(sent), NEW n \in 0..Len(Bytes(sent[i])) - 1,
         NEW j, NEW m, Moves(sent, i, n, j, m),
         Lines(got) = Lines(SubSeq(sent, 1, Done(sent, i, n))), Reported(sent[i], n, After), Parse, After.ok
  PROVE  Lines(got') = Lines(SubSeq(sent, 1, Done(sent, j, m)))
<1>1. /\ sent \in Seq(Item_Set) /\ Len(sent) \in Nat /\ got \in Seq(Item_Set)
      /\ \A k \in 1..Len(sent) : sent[k] \in Items /\ Plain(sent[k].text)
  BY SentFacts DEF PInv, TypeOK
<1>2. PICK y : y = sent[i] /\ y \in Items /\ y \in Item_Set
  BY <1>1, ItemShape
<1>3. /\ \A z : Says(After, z) => got' = Append(got, z)
      /\ After.state \notin {"RESULT_CR", "PROMPT_SPC"} => got' = got
  BY ParseReports
<1>4. Lines(SubSeq(sent, 1, i)) = IF Heard(y) THEN Append(Lines(SubSeq(sent, 1, i - 1)), y)
                                  ELSE Lines(SubSeq(sent, 1, i - 1))
  <2>1. i - 1 \in 0..Len(sent)
    BY <1>1
  <2>2. SubSeq(sent, 1, i - 1) \in Seq(Item_Set) /\ SubSeq(sent, 1, i) = Append(SubSeq(sent, 1, i - 1), y)
    BY <1>1, <1>2, <2>1, FirstItems
  <2>. QED  BY <1>2, <2>2, LinesAppend
<1>5. IF Emits(y, n) THEN Done(sent, i, n) = i - 1 /\ Done(sent, j, m) = i
      ELSE \/ Done(sent, j, m) = Done(sent, i, n)
           \/ y.kind = "echo" /\ Done(sent, i, n) = i - 1 /\ Done(sent, j, m) = i
  <2>1. i < Len(sent) => sent[i + 1] \in Item_Set
    BY <1>1, ItemShape
  <2>2. sent[i] \in Items /\ Plain(sent[i].text)
    BY <1>1
  <2>3. IF Emits(sent[i], n) THEN Done(sent, i, n) = i - 1 /\ Done(sent, j, m) = i
        ELSE \/ Done(sent, j, m) = Done(sent, i, n)
             \/ sent[i].kind = "echo" /\ Done(sent, i, n) = i - 1 /\ Done(sent, j, m) = i
    BY <1>1, <2>1, <2>2, DoneStep
  <2>. QED  BY <1>2, <2>3
<1>6. CASE Emits(y, n)
  <2>1. got' = Append(got, y)
    BY <1>2, <1>3, <1>6 DEF Reported
  <2>2. Lines(got') = IF Heard(y) THEN Append(Lines(got), y) ELSE Lines(got)
    BY <1>1, <1>2, <2>1, LinesAppend
  <2>. QED  BY <1>4, <1>5, <1>6, <2>2
<1>7. CASE ~Emits(y, n)
  <2>1. Lines(got') = Lines(got)
    <3>1. After.state # "PROMPT_SPC" /\ (After.state = "RESULT_CR" => After.buf \in Echoes)
      BY <1>2, <1>7 DEF Reported
    <3>2. CASE After.state = "RESULT_CR"
      <4>1. PICK z : z = Item("line", After.buf)
        OBVIOUS
      <4>2. After \in Parser_Set
        BY ParseStep
      <4>3. z \in Item_Set /\ ~Heard(z)
        BY <3>1, <3>2, <4>1, <4>2 DEF Item_Set, Item, Heard, Parser_Set, Buffer
      <4>4. got' = Append(got, z)
        BY <1>3, <3>2, <4>1 DEF Says
      <4>. QED  BY <1>1, <4>3, <4>4, LinesAppend
    <3>3. CASE After.state # "RESULT_CR"
      BY <1>3, <3>1, <3>3
    <3>. QED  BY <3>2, <3>3
  <2>2. y.kind = "echo" => ~Heard(y)
    BY DEF Heard
  <2>. QED  BY <1>4, <1>5, <1>7, <2>1, <2>2
<1>. QED  BY <1>6, <1>7

LEMMA ExactParse ==
  ASSUME PInv, SentInv, ExactInv, Parse
  PROVE  ExactInv'
<1>. SUFFICES ASSUME Undisturbed'
              PROVE  /\ ~overrun'
                     /\ \E c, i, n : /\ Cut(c, stream', sent', 0) /\ Place(c, sent', i, n) /\ CleanInv(i, n)'
  BY DEF ExactInv
<1>1. Undisturbed /\ AllSent(Plain)
  BY DEF Undisturbed, AllSent, Parse
<1>2. /\ sent \in Seq(Item_Set) /\ Len(sent) \in Nat /\ Sizes(sent)
      /\ \A k \in 1..Len(sent) : sent[k] \in Items /\ Plain(sent[k].text)
  BY <1>1, SentFacts
<1>3. PICK c, i, n : Cut(c, stream, sent, 0) /\ Place(c, sent, i, n) /\ CleanInv(i, n)
  BY <1>1 DEF ExactInv
<1>4. 0 \in Nat /\ i > 0
  BY <1>2, <1>3 DEF Place
<1>5. Len(stream) \in Nat /\ Len(stream) >= 1 /\ stream[1] = Head(chunk)
  <2>1. stream \in Seq(Byte)
    BY ConcatProperties DEF PInv, TypeOK, stream
  <2>. QED  BY <2>1, ParseStream, LenProperties
<1>6. i \in 1..Len(sent) /\ n \in 0..Len(Bytes(sent[i])) - 1 /\ stream[1] = Bytes(sent[i])[n + 1]
  <2>1. Cut(c, stream, sent, 0) /\ Place(c, sent, i, n)
    BY <1>3
  <2>. QED  BY <1>2, <1>4, <1>5, <2>1, PlaceByte
<1>7. PICK y : y = sent[i] /\ y \in Items /\ Plain(y.text) /\ Fits(y.text)
  BY <1>1, <1>2, <1>6 DEF Undisturbed, AllSent
<1>8. After = llparse_byte(Current, Bytes(y)[n + 1])
  BY <1>5, <1>6, <1>7 DEF After
<1>9. CleanAt(y, n, Current)
  <2>1. i # Len(sent) + 1
    BY <1>2, <1>6
  <2>. QED  BY <1>3, <1>7, <2>1 DEF CleanInv
<1>10. Current \in Parser_Set /\ Current.ok = TRUE /\ Clean(Current)
  BY DEF PInv, TypeOK, Parser_Set, Buffer, Current, Clean
<1>11. /\ After.ok /\ Reported(y, n, After)
       /\ IF n + 1 = Len(Bytes(y)) THEN Between(After) ELSE CleanAt(y, n + 1, After)
  <2>1. n \in 0..Len(Bytes(y)) - 1
    BY <1>6, <1>7
  <2>. QED  BY <1>7, <1>8, <1>9, <1>10, <2>1, CleanStep
<1>12. /\ Suffix(stream', 1, stream) /\ Current' = After
       /\ overrun' = overrun /\ sent' = sent /\ lost' = lost /\ lostAt' = lostAt
  BY <1>11, ParseReports
<1>13. PICK d : d = Shift(c)
  OBVIOUS
<1>14. Cut(d, stream', sent, 0)
  BY <1>2, <1>3, <1>4, <1>12, <1>13, CutParse
<1>15. IF n + 1 = Len(Bytes(y)) THEN Place(d, sent, i + 1, 0) ELSE Place(d, sent, i, n + 1)
  BY <1>2, <1>3, <1>4, <1>7, <1>12, <1>13, PlaceParse
<1>16. ~overrun'
  BY <1>1, <1>12 DEF ExactInv
<1>17. CASE n + 1 = Len(Bytes(y))
  <2>1. Lines(got') = Lines(SubSeq(sent, 1, Done(sent, i + 1, 0)))
    <3>1. Moves(sent, i, n, i + 1, 0)
      BY <1>7, <1>17 DEF Moves
    <3>. QED  BY <1>1, <1>3, <1>6, <1>7, <1>11, <3>1, LinesStep DEF CleanInv
  <2>2. IF i + 1 = Len(sent) + 1 THEN Between(After) ELSE CleanAt(sent[i + 1], 0, After)
    <3>1. i + 1 # Len(sent) + 1 => sent[i + 1] \in Item_Set
      BY <1>2, <1>6, ItemShape
    <3>. QED  BY <1>11, <1>17, <3>1, CleanBegin
  <2>3. CleanInv(i + 1, 0)'
    BY <1>12, <2>1, <2>2 DEF CleanInv
  <2>. QED  BY <1>12, <1>14, <1>15, <1>16, <1>17, <2>3
<1>18. CASE n + 1 # Len(Bytes(y))
  <2>1. Lines(got') = Lines(SubSeq(sent, 1, Done(sent, i, n + 1)))
    <3>1. Moves(sent, i, n, i, n + 1)
      BY <1>7, <1>18 DEF Moves
    <3>. QED  BY <1>1, <1>3, <1>6, <1>7, <1>11, <3>1, LinesStep DEF CleanInv
  <2>2. i # Len(sent) + 1
    BY <1>2, <1>6
  <2>3. CleanInv(i, n + 1)'
    BY <1>7, <1>11, <1>12, <1>18, <2>1, <2>2 DEF CleanInv
  <2>. QED  BY <1>12, <1>14, <1>15, <1>16, <1>18, <2>3
<1>. QED  BY <1>17, <1>18

(* A read moves bytes within the stream only. *)
LEMMA ReadingKeeps ==
  ASSUME PInv, Reading
  PROVE  stream' = stream /\ UNCHANGED <<state, buf, sent, got, lost, lostAt, overrun>>
<1>1. PICK n \in 1..(IF Len(wire) < ReadSize THEN Len(wire) ELSE ReadSize) : Read(n)
  BY DEF Reading
<1>2. Len(wire) \in Nat /\ ReadSize \in Nat
  BY LlParseAssumption, LenProperties DEF PInv, TypeOK
<1>3. n \in 1..Len(wire)
  BY <1>2
<1>4. stream' = stream
  BY <1>1, <1>3, ReadStream
<1>. QED  BY <1>1, <1>4 DEF Read, history

LEMMA ExactNext == PInv /\ SentInv /\ ExactInv /\ [Next]_vars => ExactInv'
<1>. SUFFICES ASSUME PInv, SentInv, ExactInv, [Next]_vars PROVE ExactInv'
  OBVIOUS
<1>1. ASSUME NEW x \in Items, Send(x) PROVE ExactInv'
  BY <1>1, ExactSend
<1>2. CASE \E i \in 1..Len(wire) : Lose(i)
  <2>1. lost \in Nat /\ lost' = lost + 1
    BY <1>2 DEF Lose, PInv, TypeOK
  <2>. QED  BY <2>1 DEF ExactInv, Undisturbed
<1>3. ASSUME stream' = stream, UNCHANGED <<state, buf, sent, got, lost, lostAt, overrun>> PROVE ExactInv'
  BY <1>3 DEF ExactInv, CleanInv, Current, Undisturbed, AllSent
<1>4. CASE Reading
  BY <1>3, <1>4, ReadingKeeps
<1>5. CASE Parse
  BY <1>5, ExactParse
<1>6. CASE UNCHANGED vars
  BY <1>3, <1>6 DEF vars, stream
<1>. QED  BY <1>1, <1>2, <1>4, <1>5, <1>6, ItemSent

LEMMA ExactImplies ==
  ASSUME PInv, SentInv, ExactInv
  PROVE  ExactLines
<1>. SUFFICES ASSUME Undisturbed
              PROVE  IsPrefix(Lines(got), Lines(sent)) /\ (Drained => Lines(got) = Lines(sent))
  BY DEF ExactLines
<1>1. sent \in Seq(Item_Set) /\ Len(sent) \in Nat /\ Sizes(sent)
  BY SentFacts DEF Undisturbed
<1>2. PICK c, i, n : Cut(c, stream, sent, 0) /\ Place(c, sent, i, n) /\ CleanInv(i, n)
  BY DEF ExactInv
<1>3. PICK d : d = Done(sent, i, n) /\ d \in 0..Len(sent) /\ Lines(got) = Lines(SubSeq(sent, 1, d))
  BY <1>1, <1>2, DoneRange DEF CleanInv
<1>4. IsPrefix(Lines(got), Lines(sent))
  BY <1>1, <1>3, LinesPrefix
<1>5. ASSUME Drained PROVE Lines(got) = Lines(sent)
  <2>1. Len(stream) = 0
    BY <1>5, EmptySeq, ConcatEmptySeq DEF Drained, stream
  <2>2. 0 \in Nat /\ i > 0
    BY <1>1, <1>2 DEF Place
  <2>3. i = Len(sent) + 1 /\ n = 0
    BY <1>1, <1>2, <2>1, <2>2, PlaceEnd
  <2>4. d = Len(sent)
    BY <1>1, <1>3, <2>3 DEF Done
  <2>. QED  BY <1>1, <1>3, <2>4, FirstItems
<1>. QED  BY <1>4, <1>5

(* However llparse_string's input is cut into reads, the upper layer hears     *)
(* every response and prompt once and in order, and all of them when nothing   *)
(* is left to read, for any texts that fit the buffer and look like no prompt. *)
THEOREM LinesExact == Spec => []ExactLines
<1>1. Init => PInv /\ SentInv /\ ExactInv
  BY PInit, SentInit, ExactInit
<1>2. PInv /\ SentInv /\ ExactInv /\ [Next]_vars => (PInv /\ SentInv /\ ExactInv)'
  BY PNext, SentNext, ExactNext
<1>3. PInv /\ SentInv /\ ExactInv => ExactLines
  BY ExactImplies
<1>. QED  BY <1>1, <1>2, <1>3, PTL DEF Spec

-----------------------------------------------------------------------------
(* After a loss.  The first item sent after it may be read wrongly, but it     *)
(* leaves the parser outside of a prompt; from the second on, the parser reads *)
(* the items as they were sent, and an item that is done was reported last.    *)
Told(x) == got # <<>> /\ Last(got) = x
Synced(i, n) ==
  i >= lostAt + 2 =>
    /\ n = 0 => state # "PROMPT"
    /\ n = 0 /\ i >= lostAt + 3 /\ sent[i - 1].kind # "echo" => Told(sent[i - 1])
    /\ i <= Len(sent) /\ sent[i].kind # "echo" =>
         /\ Reads(sent[i], n, Current)
         /\ sent[i].kind = "line" /\ n = Len(sent[i].text) + 3 => Told(sent[i])
LossInv ==
  lost # 0 /\ AllSent(Plain) /\ ~overrun /\ state # "ERROR" =>
    \E c : /\ Cut(c, stream, sent, lostAt)
           /\ c[lostAt + 1] > 1 \/ \E i, n : i > lostAt /\ Place(c, sent, i, n) /\ Synced(i, n)

(* The first byte sent after the loss is the next one. *)
LEMMA LossPassed ==
  ASSUME NEW x, Len(x) \in Nat, Sizes(x), NEW a \in Nat, a <= Len(x), NEW c, c[a + 1] = 1
  PROVE  a + 1 > a /\ Place(c, x, a + 1, 0)
<1>1. a + 1 \in 1..Len(x) + 1 /\ 0 \in Nat /\ 1 = 1 - 0 /\ a + 1 > a
  OBVIOUS
<1>2. a + 1 # Len(x) + 1 => 0 < Len(Bytes(x[a + 1]))
  <2>1. a + 1 # Len(x) + 1 => a + 1 \in 1..Len(x)
    OBVIOUS
  <2>. QED  BY <2>1 DEF Sizes
<1>. QED  BY <1>1, <1>2 DEF Place

LEMMA LossLose ==
  ASSUME PInv, PInv', SentInv, NEW k \in 1..Len(wire), Lose(k)
  PROVE  LossInv'
<1>. SUFFICES ASSUME AllSent(Plain)
              PROVE  \E c : /\ Cut(c, stream', sent, Len(sent))
                            /\ c[Len(sent) + 1] > 1 \/ \E i, n : i > Len(sent) /\ Place(c, sent, i, n) /\ Synced(i, n)'
  BY DEF LossInv, Lose, AllSent
<1>1. Len(sent) \in Nat /\ Sizes(sent)
  BY SentFacts
<1>2. Len(stream') \in Nat
  <2>1. stream' \in Seq(Byte)
    BY ConcatProperties DEF PInv, TypeOK, stream
  <2>. QED  BY <2>1, LenProperties
<1>. DEFINE c == [i \in 1..Len(sent) + 1 |-> Len(stream') + 1]
<1>3. c \in [1..Len(sent) + 1 -> Int] /\ c[Len(sent) + 1] = Len(stream') + 1
  BY <1>1, <1>2
<1>. HIDE DEF c
<1>4. Cut(c, stream', sent, Len(sent))
  BY <1>1, <1>3 DEF Cut
<1>5. CASE Len(stream') # 0
  BY <1>2, <1>3, <1>4, <1>5
<1>6. CASE Len(stream') = 0
  <2>1. PICK l : l = Len(sent) + 1
    OBVIOUS
  <2>2. l > Len(sent) /\ Place(c, sent, l, 0)
    BY <1>1, <1>3, <1>6, <2>1, LossPassed
  <2>3. Synced(l, 0)'
    BY <1>1, <2>1 DEF Synced, Lose
  <2>. QED  BY <1>4, <2>2, <2>3
<1>. QED  BY <1>5, <1>6

LEMMA LossSend ==
  ASSUME PInv, SentInv, LossInv, NEW x \in Items, Send(x)
  PROVE  LossInv'
<1>. SUFFICES ASSUME lost' # 0, AllSent(Plain)', ~overrun', state' # "ERROR"
              PROVE  \E c : /\ Cut(c, stream', sent', lostAt)
                            /\ \/ c[lostAt + 1] > 1
                               \/ \E i, n : i > lostAt /\ Place(c, sent', i, n) /\ Synced(i, n)'
  BY DEF LossInv, Send
<1>1. /\ AllSent(Plain) /\ Plain(x.text) /\ Len(Bytes(x)) >= 1 /\ Join(stream, Bytes(x), stream')
      /\ sent' = Append(sent, x) /\ Len(sent') = Len(sent) + 1 /\ sent'[Len(sent) + 1] = x
      /\ \A i \in 1..Len(sent) : sent'[i] = sent[i]
      /\ state' = state /\ buf' = buf /\ got' = got /\ lost' = lost /\ lostAt' = lostAt /\ overrun' = overrun
  BY SendStream
<1>2. /\ sent \in Seq(Item_Set) /\ Len(sent) \in Nat /\ Sizes(sent) /\ x \in Item_Set
      /\ lostAt \in Nat /\ lostAt <= Len(sent)
  BY <1>1, SentFacts, ItemShape
<1>3. PICK c : /\ Cut(c, stream, sent, lostAt)
               /\ c[lostAt + 1] > 1 \/ \E i, n : i > lostAt /\ Place(c, sent, i, n) /\ Synced(i, n)
  BY <1>1 DEF LossInv
<1>4. PICK d : /\ Cut(d, stream', sent', lostAt) /\ \A i \in 1..Len(sent) + 1 : d[i] = c[i]
               /\ \A j, m : Place(c, sent, j, m) => Place(d, sent', j, m)
  <2>1. Join(stream, Bytes(sent'[Len(sent) + 1]), stream') /\ Len(Bytes(sent'[Len(sent) + 1])) >= 1
    BY <1>1
  <2>. QED  BY <1>1, <1>2, <1>3, <2>1, CutSend
<1>5. CASE c[lostAt + 1] > 1
  <2>1. d[lostAt + 1] = c[lostAt + 1]
    BY <1>2, <1>4
  <2>. QED  BY <1>4, <1>5, <2>1
<1>6. ASSUME NEW i, NEW n, i > lostAt, Place(c, sent, i, n), Synced(i, n)
      PROVE  Place(d, sent', i, n) /\ Synced(i, n)'
  <2>1. Place(d, sent', i, n) /\ i \in 1..Len(sent) + 1 /\ n \in Nat /\ (i = Len(sent) + 1 => n = 0)
    BY <1>4, <1>6 DEF Place
  <2>2. Current' = Current
    BY <1>1 DEF Current
  <2>3. CASE i < lostAt + 2
    BY <1>1, <1>2, <2>1, <2>3 DEF Synced
  <2>4. CASE i >= lostAt + 2
    <3>1. i - 1 \in 1..Len(sent) /\ sent'[i - 1] = sent[i - 1]
      BY <1>1, <1>2, <2>1, <2>4
    <3>2. CASE i = Len(sent) + 1
      <4>1. sent'[i] = x /\ n = 0 /\ state # "PROMPT" /\ Len(x.text) \in Nat
        BY <1>1, <1>2, <1>6, <2>1, <2>4, <3>2, LenProperties DEF Synced, Item_Set
      <4>2. Reads(x, 0, Current)
        BY <1>1, <4>1 DEF Reads, Current
      <4>3. n # Len(x.text) + 3
        BY <4>1
      <4>. QED  BY <1>1, <1>6, <2>1, <2>2, <2>4, <3>1, <4>1, <4>2, <4>3 DEF Synced, Told
    <3>3. CASE i # Len(sent) + 1
      <4>1. i \in 1..Len(sent) /\ sent'[i] = sent[i] /\ i <= Len(sent) /\ i <= Len(sent')
        BY <1>1, <1>2, <2>1, <3>3
      <4>. QED  BY <1>1, <1>6, <2>1, <2>2, <2>4, <3>1, <4>1 DEF Synced, Told
    <3>. QED  BY <3>2, <3>3
  <2>. QED  BY <1>2, <2>1, <2>3, <2>4
<1>. QED  BY <1>3, <1>4, <1>5, <1>6

(* One more byte of an item after the loss. *)
LEMMA SyncedStep ==
  ASSUME PInv, SentInv, AllSent(Plain), Parse, After.ok, After.state # "ERROR",
         NEW i \in 1..Len(sent), i > lostAt, NEW n \in 0..Len(Bytes(sent[i])) - 1,
         stream[1] = Bytes(sent[i])[n + 1], Synced(i, n), NEW j, NEW m, Moves(sent, i, n, j, m)
  PROVE  Synced(j, m)'
<1>1. /\ sent \in Seq(Item_Set) /\ Len(sent) \in Nat /\ lostAt \in Nat /\ got \in Seq(Item_Set)
      /\ \A k \in 1..Len(sent) : sent[k] \in Items /\ Plain(sent[k].text)
  BY SentFacts DEF PInv, TypeOK
<1>2. PICK y : y = sent[i] /\ y \in Items /\ y \in Item_Set /\ Plain(y.text)
  BY <1>1, ItemShape
<1>3. /\ After = llparse_byte(Current, stream[1]) /\ Current' = After /\ sent' = sent /\ lostAt' = lostAt
      /\ Current \in Parser_Set /\ Current.ok = TRUE /\ Clean(Current)
      /\ \A z : Says(After, z) => got' = Append(got, z)
      /\ After.state \notin {"RESULT_CR", "PROMPT_SPC"} => got' = got
  BY ParseReports
<1>4. state' = After.state /\ Origin(Current, stream[1], After)
  BY ParseStep, ParseStream
<1>5. After = llparse_byte(Current, Bytes(y)[n + 1]) /\ n \in 0..Len(Bytes(y)) - 1 /\ n \in Nat /\ Len(y.text) \in Nat
  BY <1>2, <1>3, LastByte, LenProperties DEF Item_Set
<1>6. Says(After, y) => Told(y)'
  <2>1. Append(got, y) # <<>> /\ Last(Append(got, y)) = y
    BY <1>1, <1>2, AppendProperties DEF Last
  <2>. QED  BY <1>3, <2>1 DEF Told
<1>7. ASSUME i >= lostAt + 2, y.kind # "echo"
      PROVE  /\ Reads(y, n, Current)
             /\ IF n + 1 = Len(Bytes(y)) THEN Told(y)' ELSE Reads(y, n + 1, After)
             /\ y.kind = "line" /\ n + 1 = Len(y.text) + 3 => Told(y)'
  <2>1. Reads(y, n, Current) /\ (y.kind = "line" /\ n = Len(y.text) + 3 => Told(y))
    BY <1>1, <1>2, <1>7 DEF Synced
  <2>2. n + 1 # Len(Bytes(y)) => Reads(y, n + 1, After)
    BY <1>2, <1>3, <1>5, <1>7, <2>1, ReadsStep
  <2>3. Emits(y, n) => Told(y)'
    BY <1>2, <1>3, <1>5, <1>6, <2>1, SaysItem
  <2>4. y.kind = "line" /\ n + 1 = Len(y.text) + 3 => Told(y)'
    BY <1>5, <2>3 DEF Emits
  <2>5. ASSUME n + 1 = Len(Bytes(y)) PROVE Told(y)'
    <3>1. CASE y.kind = "line"
      <4>1. y.text \in Texts /\ y = Item("line", y.text)
        BY <1>2, <3>1, ItemShape
      <4>2. n = Len(y.text) + 3 /\ Bytes(y)[n + 1] = "LF"
        <5>1. Len(Bytes(y)) = Len(y.text) + 4 /\ Bytes(y)[Len(y.text) + 4] = "LF"
          BY <1>2, <4>1, LineShape
        <5>. QED  BY <1>5, <2>5, <5>1
      <4>3. Current.state = "RESULT_CR"
        BY <2>1, <3>1, <4>2 DEF Reads
      <4>4. After.state \in {"IDLE", "IDLE_LF"}
        BY <1>3, <1>5, <4>2, <4>3, HeaderStep
      <4>. QED  BY <1>3, <2>1, <3>1, <4>2, <4>4 DEF Told
    <3>2. CASE y.kind = "prompt"
      <4>1. Len(Bytes(y)) = 4
        BY <1>2, <3>2, ItemShape, PromptShape
      <4>. QED  BY <1>5, <2>3, <2>5, <3>2, <4>1 DEF Emits
    <3>. QED  BY <1>2, <1>7, <3>1, <3>2, ItemShape
  <2>. QED  BY <2>1, <2>2, <2>4, <2>5
<1>8. CASE n + 1 = Len(Bytes(y))
  <2>1. j = i + 1 /\ m = 0 /\ j - 1 = i
    BY <1>2, <1>8 DEF Moves
  <2>2. After.state # "PROMPT"
    <3>1. Bytes(y)[n + 1] # "GT"
      BY <1>2, <1>8, LastByte
    <3>. QED  BY <1>2, <1>4, <3>1 DEF Origin
  <2>3. j >= lostAt + 3 /\ sent[j - 1].kind # "echo" => Told(y)'
    <3>1. j >= lostAt + 3 => i >= lostAt + 2
      BY <1>1, <2>1
    <3>. QED  BY <1>2, <1>7, <1>8, <2>1, <3>1
  <2>4. ASSUME j <= Len(sent) PROVE Reads(sent[j], 0, After) /\ 0 # Len(sent[j].text) + 3
    <3>1. sent[j] \in Item_Set
      BY <1>1, <2>1, <2>4, ItemShape
    <3>2. Len(sent[j].text) \in Nat
      BY <3>1, LenProperties DEF Item_Set
    <3>. QED  BY <2>2, <3>2 DEF Reads
  <2>. QED  BY <1>2, <1>3, <1>4, <2>1, <2>2, <2>3, <2>4 DEF Synced, Told
<1>9. CASE n + 1 # Len(Bytes(y))
  <2>1. j = i /\ m = n + 1 /\ m # 0
    BY <1>2, <1>5, <1>9 DEF Moves
  <2>2. j >= lostAt + 2 /\ y.kind # "echo" =>
          Reads(y, m, After) /\ (y.kind = "line" /\ m = Len(y.text) + 3 => Told(y)')
    BY <1>7, <1>9, <2>1
  <2>. QED  BY <1>2, <1>3, <2>1, <2>2 DEF Synced, Told
<1>. QED  BY <1>8, <1>9

LEMMA LossParse ==
  ASSUME PInv, SentInv, LossInv, Parse
  PROVE  LossInv'
<1>. SUFFICES ASSUME lost' # 0, AllSent(Plain)', ~overrun', state' # "ERROR"
              PROVE  \E c : /\ Cut(c, stream', sent, lostAt)
                            /\ \/ c[lostAt + 1] > 1
                               \/ \E i, n : i > lostAt /\ Place(c, sent, i, n) /\ Synced(i, n)'
  BY DEF LossInv, Parse
<1>1. AllSent(Plain) /\ lost # 0
  BY DEF AllSent, Parse
<1>2. /\ sent \in Seq(Item_Set) /\ Len(sent) \in Nat /\ Sizes(sent)
      /\ lostAt \in Nat /\ lostAt <= Len(sent)
  BY <1>1, SentFacts
<1>3. After.ok /\ ~overrun /\ After.state # "ERROR"
  BY ParseStep DEF llparse_string
<1>4. state # "ERROR"
  <2>1. state = "ERROR" => After = Current
    BY DEF After, llparse_byte, Current
  <2>. QED  BY <1>3, <2>1 DEF Current
<1>5. PICK c : /\ Cut(c, stream, sent, lostAt)
               /\ c[lostAt + 1] > 1 \/ \E i, n : i > lostAt /\ Place(c, sent, i, n) /\ Synced(i, n)
  BY <1>1, <1>3, <1>4 DEF LossInv
<1>6. Suffix(stream', 1, stream)
  BY <1>3, ParseReports
<1>7. PICK d : d = Shift(c)
  OBVIOUS
<1>8. Cut(d, stream', sent, lostAt) /\ \A i \in 1..Len(sent) + 1 : c[i] \in Int /\ d[i] = c[i] - 1
  BY <1>2, <1>5, <1>6, <1>7, CutParse
<1>9. CASE c[lostAt + 1] > 1
  <2>1. c[lostAt + 1] \in Int /\ d[lostAt + 1] = c[lostAt + 1] - 1
    BY <1>2, <1>8
  <2>2. CASE c[lostAt + 1] = 2
    <3>1. d[lostAt + 1] = 1
      BY <2>1, <2>2
    <3>2. PICK l : l = lostAt + 1
      OBVIOUS
    <3>3. l > lostAt /\ Place(d, sent, l, 0)
      BY <1>2, <3>1, <3>2, LossPassed
    <3>4. Synced(l, 0)'
      BY <1>2, <3>2 DEF Synced, Parse
    <3>. QED  BY <1>8, <3>3, <3>4
  <2>3. CASE c[lostAt + 1] # 2
    <3>1. d[lostAt + 1] > 1
      BY <1>9, <2>1, <2>3
    <3>. QED  BY <1>8, <3>1
  <2>. QED  BY <2>2, <2>3
<1>10. ASSUME NEW i, NEW n, i > lostAt, Place(c, sent, i, n), Synced(i, n)
       PROVE  \E j, m : j > lostAt /\ Place(d, sent, j, m) /\ Synced(j, m)'
  <2>1. /\ i \in 1..Len(sent) /\ n \in 0..Len(Bytes(sent[i])) - 1 /\ stream[1] = Bytes(sent[i])[n + 1]
        /\ IF n + 1 = Len(Bytes(sent[i])) THEN Place(d, sent, i + 1, 0) ELSE Place(d, sent, i, n + 1)
    BY <1>2, <1>5, <1>6, <1>7, <1>10, PlaceParse
  <2>2. CASE n + 1 = Len(Bytes(sent[i]))
    <3>1. Moves(sent, i, n, i + 1, 0) /\ i + 1 > lostAt
      BY <1>2, <1>10, <2>1, <2>2 DEF Moves
    <3>2. Synced(i + 1, 0)'
      BY <1>1, <1>3, <1>10, <2>1, <3>1, SyncedStep
    <3>. QED  BY <2>1, <2>2, <3>1, <3>2
  <2>3. CASE n + 1 # Len(Bytes(sent[i]))
    <3>1. Moves(sent, i, n, i, n + 1)
      BY <2>3 DEF Moves
    <3>2. Synced(i, n + 1)'
      BY <1>1, <1>3, <1>10, <2>1, <3>1, SyncedStep
    <3>. QED  BY <1>10, <2>1, <2>3, <3>2
  <2>. QED  BY <2>2, <2>3
<1>. QED  BY <1>5, <1>8, <1>9, <1>10

LEMMA LossNext == PInv /\ SentInv /\ LossInv /\ [Next]_vars => LossInv'
<1>. SUFFICES ASSUME PInv, SentInv, LossInv, [Next]_vars PROVE LossInv'
  OBVIOUS
<1>1. ASSUME NEW x \in Items, Send(x) PROVE LossInv'
  BY <1>1, LossSend
<1>2. CASE \E i \in 1..Len(wire) : Lose(i)
  <2>1. PInv'
    BY PNext
  <2>2. PICK k \in 1..Len(wire) : Lose(k)
    BY <1>2
  <2>. QED  BY <2>1, <2>2, LossLose
<1>3. ASSUME stream' = stream, UNCHANGED <<state, buf, sent, got, lost, lostAt, overrun>> PROVE LossInv'
  <2>1. \A i, n : Synced(i, n)' <=> Synced(i, n)
    BY <1>3 DEF Synced, Told, Current
  <2>2. AllSent(Plain)' <=> AllSent(Plain)
    BY <1>3 DEF AllSent
  <2>. QED  BY <1>3, <2>1, <2>2 DEF LossInv
<1>4. CASE Reading
  BY <1>3, <1>4, ReadingKeeps
<1>5. CASE Parse
  BY <1>5, LossParse
<1>6. CASE UNCHANGED vars
  BY <1>3, <1>6 DEF vars, stream
<1>. QED  BY <1>1, <1>2, <1>4, <1>5, <1>6, ItemSent

LEMMA LossImplies ==
  ASSUME PInv, SentInv, LossInv
  PROVE  Resync
<1>. SUFFICES ASSUME lost >= 1, AllSent(Plain), ~overrun, Drained, state # "ERROR",
                     Len(sent) >= lostAt + 2, Last(sent).kind # "echo"
              PROVE  Told(Last(sent))
  BY DEF Resync, Told
<1>1. Len(sent) \in Nat /\ Sizes(sent) /\ lostAt \in Nat /\ lost \in Nat
  BY SentFacts
<1>2. PICK c : /\ Cut(c, stream, sent, lostAt)
               /\ c[lostAt + 1] > 1 \/ \E i, n : i > lostAt /\ Place(c, sent, i, n) /\ Synced(i, n)
  BY <1>1 DEF LossInv
<1>3. Len(stream) = 0
  BY EmptySeq, ConcatEmptySeq DEF Drained, stream
<1>4. ~(c[lostAt + 1] > 1)
  <2>1. lostAt + 1 \in lostAt + 1..Len(sent) /\ lostAt + 1 \in 1..Len(sent) /\ lostAt + 1 \in 1..Len(sent) + 1
    BY <1>1
  <2>2. PICK e, l : e = c[lostAt + 1] /\ l = Len(Bytes(sent[lostAt + 1]))
    OBVIOUS
  <2>3. e \in Int /\ l \in Nat /\ e + l <= 1
    BY <1>1, <1>2, <1>3, <2>1, <2>2 DEF Cut, Sizes
  <2>. QED  BY <2>2, <2>3
<1>5. PICK i, n : i > lostAt /\ Place(c, sent, i, n) /\ Synced(i, n)
  BY <1>2, <1>4
<1>6. i = Len(sent) + 1 /\ n = 0
  BY <1>1, <1>2, <1>3, <1>5, PlaceEnd
<1>7. i - 1 = Len(sent) /\ i >= lostAt + 2 /\ i >= lostAt + 3
  BY <1>1, <1>6
<1>. QED  BY <1>5, <1>6, <1>7 DEF Synced, Last

(* Lost bytes spoil the item they are part of and the next one at most: unless *)
(* llparse_byte is in ERROR or the buffer was overrun, the last item of two or *)
(* more sent after the last loss is the last that llparse_string reports, for  *)
(* any texts and any number of losses.                                         *)
THEOREM LinesResync == Spec => []Resync
<1>1. Init => PInv /\ SentInv /\ LossInv
  BY PInit, SentInit DEF Init, LossInv
<1>2. PInv /\ SentInv /\ LossInv /\ [Next]_vars => (PInv /\ SentInv /\ LossInv)'
  BY PNext, SentNext, LossNext
<1>3. PInv /\ SentInv /\ LossInv => Resync
  BY LossImplies
<1>. QED  BY <1>1, <1>2, <1>3, PTL DEF Spec

=============================================================================
