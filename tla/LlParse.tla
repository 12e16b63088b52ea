------------------------------ MODULE LlParse ------------------------------
(***************************************************************************)
(* The low level parser of gsmd (src/target/gsm/src/gsmd/atcmd.c): bytes   *)
(* read from the modem's serial line are cut into lines and "> " prompts.  *)
(* One step of the model is one byte through llparse_byte.  The modem and  *)
(* the serial line are the environment: the modem sends responses (CR LF   *)
(* text CR LF), prompts (CR LF > SP) and, until ATE0 has been obeyed,      *)
(* echoes of what it was sent (text CR); the line may lose bytes.          *)
(***************************************************************************)
EXTENDS Integers, Sequences, SequencesExt

CONSTANTS Texts,      \* texts of the modem's responses, sequences of bytes
          Echoes,     \* texts of the commands the modem may echo
          BufSize,    \* LLPARSE_BUF_SIZE
          ReadSize,   \* sizeof(rxbuf)
          MaxItems,   \* bound: items the modem sends
          MaxLoss     \* bound: bytes the serial line loses

Byte == {"CR", "LF", "GT", "SP"} \cup UNION {Range(t) : t \in Texts \cup Echoes}

ASSUME LlParseAssumption ==
  /\ BufSize \in Nat \ {0} /\ ReadSize \in Nat \ {0}
  /\ MaxItems \in Nat /\ MaxLoss \in Nat
  /\ Texts \subseteq Seq(Byte) /\ Echoes \subseteq Seq(Byte)
  /\ \A t \in Texts \cup Echoes :   \* CR and LF only delimit a text
        t # <<>> /\ \A i \in 1..Len(t) : t[i] \notin {"CR", "LF"}

VARIABLES state,     \* llp->state
          buf,       \* llp->buf up to llp->cur
          chunk,     \* bytes of rxbuf that llparse_string has not seen yet
          wire,      \* bytes sent by the modem and not read yet
          sent,      \* history: items the modem sent
          got,       \* history: calls of llp->cb and llp->prompt_cb
          lost,      \* history: number of bytes lost on the line
          lostAt,    \* history: items sent when the last byte was lost
          overrun    \* history: llparse_append has failed

parser == <<state, buf, chunk>>
history == <<sent, got, lost, lostAt, overrun>>
vars == <<state, buf, chunk, wire, sent, got, lost, lostAt, overrun>>

States == {"IDLE", "IDLE_CR", "IDLE_LF", "RESULT", "RESULT_CR", "PROMPT",
           "PROMPT_SPC", "ERROR"}

Item(kind, text) == [kind |-> kind, text |-> text]
Prompt == Item("prompt", <<>>)
Item_Set == [kind : {"line", "prompt", "echo"}, text : Seq(Byte)]

Bytes(item) ==
  CASE item.kind = "line"   -> <<"CR", "LF">> \o item.text \o <<"CR", "LF">>
    [] item.kind = "prompt" -> <<"CR", "LF", "GT", "SP">>
    [] item.kind = "echo"   -> item.text \o <<"CR">>

-----------------------------------------------------------------------------
(* The parser.  A parser value p has the state, the buffer and the return  *)
(* code of the last byte.                                                  *)

To(p, s) == [p EXCEPT !.state = s]

llparse_append_unbounded(p, byte) == [p EXCEPT !.buf = Append(@, byte)]

llparse_append(p, byte) ==
  IF Len(p.buf) < BufSize
  THEN [p EXCEPT !.buf = Append(@, byte), !.ok = TRUE]
  ELSE [p EXCEPT !.ok = FALSE]

llparse_endline_dirty(p) == [p EXCEPT !.state = "IDLE"]
llparse_endline_lf(p) == [p EXCEPT !.state = "IDLE_LF", !.buf = <<>>]

llparse_endline(p) == [p EXCEPT !.state = "IDLE", !.buf = <<>>]

llparse_byte_eager(p, byte) ==
  CASE p.state = "IDLE_CR" /\ byte = "LF" -> To(p, "IDLE_LF")
    [] p.state = "IDLE_CR" /\ byte # "LF" -> To(p, "ERROR")
    [] p.state = "RESULT_CR" -> llparse_endline(p)
    [] p.state = "RESULT" /\ byte = "CR" -> To(p, "RESULT_CR")
    [] p.state = "PROMPT" /\ byte = "SP"  -> To(p, "PROMPT_SPC")
    [] p.state = "PROMPT" /\ byte # "SP"  -> llparse_append(To(p, "RESULT"), byte)
    [] p.state \in {"IDLE", "PROMPT_SPC"} /\ byte = "CR" -> To(p, "IDLE_CR")
    [] p.state \in {"IDLE", "PROMPT_SPC", "IDLE_LF"} /\ byte = "GT" -> To(p, "PROMPT")
    [] p.state = "ERROR" -> p
    [] OTHER -> llparse_append(To(p, "RESULT"), byte)

llparse_byte(p, byte) ==
  CASE p.state \in {"IDLE", "PROMPT_SPC"} /\ byte = "CR" -> To(p, "IDLE_CR")
    [] p.state \in {"IDLE", "PROMPT_SPC", "IDLE_LF"} /\ byte = "GT" -> To(p, "PROMPT")
    [] p.state \in {"IDLE", "PROMPT_SPC"} /\ byte \notin {"CR", "GT"}
         -> llparse_append(To(p, "RESULT"), byte)
    [] p.state = "IDLE_CR" /\ byte = "LF" -> To(p, "IDLE_LF")
    [] p.state = "IDLE_CR" /\ byte = "CR" -> p
    [] p.state = "IDLE_CR" /\ byte \notin {"CR", "LF"} -> To(p, "ERROR")
    [] p.state \in {"IDLE_LF", "RESULT"} /\ byte = "CR" -> To(p, "RESULT_CR")
    [] p.state = "IDLE_LF" /\ byte \notin {"CR", "GT"}
         -> llparse_append(To(p, "RESULT"), byte)
    [] p.state = "RESULT" /\ byte # "CR" -> llparse_append(p, byte)
    [] p.state = "RESULT_CR" /\ byte = "LF" -> llparse_endline(p)
    [] p.state = "RESULT_CR" /\ byte # "LF" -> p
    [] p.state = "PROMPT" /\ byte = "SP" -> To(p, "PROMPT_SPC")
    [] p.state = "PROMPT" /\ byte # "SP"
         -> llparse_append(llparse_append(To(p, "RESULT"), "GT"), byte)
    [] p.state = "ERROR" -> p

-----------------------------------------------------------------------------
Init ==
  /\ state = "IDLE" /\ buf = <<>> /\ chunk = <<>> /\ wire = <<>>
  /\ sent = <<>> /\ got = <<>> /\ lost = 0 /\ lostAt = 0 /\ overrun = FALSE

(* The modem sends an item. *)
Send(item) ==
  /\ Len(sent) < MaxItems
  /\ wire' = wire \o Bytes(item)
  /\ sent' = Append(sent, item)
  /\ UNCHANGED <<parser, got, lost, lostAt, overrun>>

(* The serial line loses a byte: the UART's receive buffer was full. *)
Lose(i) ==
  /\ lost < MaxLoss
  /\ wire' = RemoveAt(wire, i)
  /\ lost' = lost + 1
  /\ lostAt' = Len(sent)
  /\ UNCHANGED <<parser, sent, got, overrun>>

(* One read() of atcmd_select_cb's loop. *)
Read(n) ==
  /\ chunk = <<>>
  /\ chunk' = SubSeq(wire, 1, n)
  /\ wire' = SubSeq(wire, n + 1, Len(wire))
  /\ UNCHANGED <<state, buf, history>>

(* The select loop calls atcmd_select_cb while there is something to read. *)
Reading == \E n \in 1..(IF Len(wire) < ReadSize THEN Len(wire) ELSE ReadSize) : Read(n)

(* One turn of llparse_string's loop.  A failed append returns from it, and *)
(* with it the rest of the chunk is gone.  After any other byte the state   *)
(* decides which callback runs.                                             *)
llparse_string_return(p) ==
  /\ chunk' = IF p.ok /\ p.state # "RESULT_CR" THEN Tail(chunk) ELSE <<>>
  /\ overrun' = (overrun \/ ~p.ok)
  /\ got' = CASE p.ok /\ p.state = "RESULT_CR"  -> Append(got, Item("line", p.buf))
              [] p.ok /\ p.state = "PROMPT_SPC" -> Append(got, Prompt)
              [] OTHER -> got

llparse_string(p) ==
  /\ chunk' = IF p.ok THEN Tail(chunk) ELSE <<>>
  /\ overrun' = (overrun \/ ~p.ok)
  /\ got' = CASE p.ok /\ p.state = "RESULT_CR"  -> Append(got, Item("line", p.buf))
              [] p.ok /\ p.state = "PROMPT_SPC" -> Append(got, Prompt)
              [] OTHER -> got

Parse ==
  /\ chunk # <<>>
  /\ LET p == llparse_byte([state |-> state, buf |-> buf, ok |-> TRUE], Head(chunk))
     IN  /\ state' = p.state
         /\ buf' = p.buf
         /\ llparse_string(p)
  /\ UNCHANGED <<wire, sent, lost, lostAt>>

Next ==
  \/ \E t \in Texts : Send(Item("line", t))
  \/ Send(Prompt)
  \/ \E t \in Echoes : Send(Item("echo", t))
  \/ \E i \in 1..Len(wire) : Lose(i)
  \/ Reading
  \/ Parse

Spec == Init /\ [][Next]_vars

FairSpec == Spec /\ WF_vars(Parse) /\ WF_vars(Reading)

-----------------------------------------------------------------------------
(* Texts that cannot be taken for a prompt, and texts that leave room for   *)
(* the terminating zero that ml_parse's string functions need.              *)
Plain(t) == t # <<"GT">> /\ ~IsPrefix(<<"GT", "SP">>, t)
Fits(t)  == Len(t) < BufSize

(* What the upper layer makes of a log: ml_parse ignores echoes. *)
Heard(x) == x.kind # "echo" /\ x.text \notin Echoes
Lines(log) ==
  LET Upto[i \in 0..Len(log)] ==
        IF i = 0 THEN <<>> ELSE IF Heard(log[i]) THEN Append(Upto[i - 1], log[i]) ELSE Upto[i - 1]
  IN  Upto[Len(log)]

AllSent(P(_)) == \A i \in 1..Len(sent) : P(sent[i].text)
Drained == wire = <<>> /\ chunk = <<>>
Undisturbed == lost = 0 /\ AllSent(Plain) /\ AllSent(Fits)

(* The parser's state and buffer have their types, and the buffer never      *)
(* outgrows llp->buf.                                                        *)
TypeOK ==
  /\ state \in States
  /\ buf \in Seq(Byte) /\ Len(buf) <= BufSize
  /\ chunk \in Seq(Byte) /\ wire \in Seq(Byte)
  /\ sent \in Seq(Item_Set) /\ got \in Seq(Item_Set)
  /\ lost \in Nat /\ lostAt \in Nat /\ overrun \in BOOLEAN

(* Bytes of a line are in the buffer only between its first byte and the end *)
(* of line: llparse_endline and the prompt states leave nothing behind that  *)
(* could be taken for the beginning of the next line.                        *)
NoResidue == state \notin {"RESULT", "RESULT_CR"} => buf = <<>>

(* However the bytes are cut into reads, llparse_string hands ml_parse every *)
(* response and atcmd_prompt every prompt exactly once and in order, echoes  *)
(* apart, as long as the line loses nothing and no text overfills the buffer *)
(* or looks like a prompt.                                                   *)
ExactLines ==
  Undisturbed => /\ IsPrefix(Lines(got), Lines(sent))
                 /\ Drained => Lines(got) = Lines(sent)

(* An empty line makes ml_parse initialise the modem again, and the state    *)
(* ERROR is never left: neither happens on a line that loses no byte, not    *)
(* even when an overlong text made llparse_string drop the rest of a read.   *)
NoFalseReset ==
  (lost = 0 /\ AllSent(Plain)) =>
     state # "ERROR" /\ Item("line", <<>>) \notin Range(got)

(* A lost byte does damage to the item it is part of and to the next one at  *)
(* most, unless it was the LF of a header: then llparse_byte is in ERROR for *)
(* good.  The item sent last, two or more after the last loss, is delivered. *)
Resync ==
  (/\ lost >= 1 /\ AllSent(Plain) /\ ~overrun /\ Drained
   /\ state # "ERROR" /\ Len(sent) >= lostAt + 2
   /\ Last(sent).kind # "echo")
  => got # <<>> /\ Last(got) = Last(sent)

(* Every response and prompt that is sent reaches its callback.              *)
Delivered ==
  \A k \in 1..MaxItems :
     (Len(Lines(sent)) = k) ~> (Len(Lines(got)) >= k \/ ~Undisturbed)

=============================================================================
