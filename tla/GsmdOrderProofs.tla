-------------------------- MODULE GsmdOrderProofs --------------------------
(***************************************************************************)
(* Order in the command engine: commands are sent as they were submitted   *)
(* and end once, answers meet the command they answer, replies are made of *)
(* its lines, and the engine implements CommandService.  Every step of the *)
(* daemon is first shown to be one of a few moves of the two queues.       *)
(***************************************************************************)
EXTENDS GsmdProofs, GsmdService, FiniteSetTheorems, FunctionTheorems, SequenceTheorems

-----------------------------------------------------------------------------
(* Sequences.  The definitions keep Append and \o out of the provers' sight.   *)

Added(r, s, x) == r = Append(s, x)
Joined(r, s, t) == r = s \o t
Shortened(r, s) == s # <<>> /\ r = Tail(s)

LEMMA AddedFacts ==
  ASSUME NEW S, NEW s \in Seq(S), NEW x \in S, NEW r, Added(r, s, x)
  PROVE  /\ r \in Seq(S) /\ Len(s) \in Nat /\ Len(r) = Len(s) + 1 /\ r[Len(s) + 1] = x
         /\ \A i \in 1..Len(s) : r[i] = s[i]
<1>1. Len(s) \in Nat
  BY LenProperties
<1>. QED  BY <1>1, AppendProperties DEF Added

LEMMA JoinedFacts ==
  ASSUME NEW S, NEW s \in Seq(S), NEW t \in Seq(S), NEW r, Joined(r, s, t)
  PROVE  /\ r \in Seq(S) /\ Len(s) \in Nat /\ Len(t) \in Nat /\ Len(r) = Len(s) + Len(t)
         /\ \A i \in 1..Len(s) : r[i] = s[i]
         /\ \A i \in 1..Len(r) : i \notin 1..Len(s) => i - Len(s) \in 1..Len(t) /\ r[i] = t[i - Len(s)]
<1>1. Len(s) \in Nat /\ Len(t) \in Nat
  BY LenProperties
<1>2. /\ r \in Seq(S) /\ Len(r) = Len(s) + Len(t)
      /\ \A i \in 1..Len(s) + Len(t) : r[i] = IF i <= Len(s) THEN s[i] ELSE t[i - Len(s)]
  BY ConcatProperties DEF Joined
<1>3. ASSUME NEW i \in 1..Len(s) PROVE r[i] = s[i]
  BY <1>1, <1>2
<1>4. ASSUME NEW i \in 1..Len(r), i \notin 1..Len(s)
      PROVE  i - Len(s) \in 1..Len(t) /\ r[i] = t[i - Len(s)]
  <2>1. ~(i <= Len(s)) /\ i \in 1..Len(s) + Len(t) /\ i - Len(s) \in 1..Len(t)
    BY <1>1, <1>2, <1>4
  <2>. QED  BY <1>2, <2>1
<1>. QED  BY <1>1, <1>2, <1>3, <1>4

LEMMA ShortenedFacts ==
  ASSUME NEW S, NEW s \in Seq(S), NEW r, Shortened(r, s)
  PROVE  /\ r \in Seq(S) /\ Len(s) \in Nat /\ Len(r) \in Nat /\ Len(s) = Len(r) + 1
         /\ Head(s) = s[1] /\ s[1] \in S
         /\ \A i \in 1..Len(r) : i + 1 \in 1..Len(s) /\ r[i] = s[i + 1]
<1>1. /\ Head(s) \in S /\ Tail(s) \in Seq(S) /\ Len(Tail(s)) = Len(s) - 1
      /\ \A i \in 1..Len(Tail(s)) : Tail(s)[i] = s[i + 1]
  BY HeadTailProperties DEF Shortened
<1>2. Len(s) \in Nat /\ Len(r) \in Nat
  BY <1>1, LenProperties DEF Shortened
<1>3. r \in Seq(S) /\ Len(r) = Len(s) - 1 /\ \A i \in 1..Len(r) : r[i] = s[i + 1]
  BY <1>1 DEF Shortened
<1>4. Head(s) = s[1]
  BY DEF Shortened
<1>. QED  BY <1>1, <1>2, <1>3, <1>4

LEMMA SeqFacts ==
  ASSUME NEW S, NEW s \in Seq(S)
  PROVE  /\ Len(s) \in Nat /\ DOMAIN s = 1..Len(s) /\ (s = <<>> <=> Len(s) = 0)
         /\ \A i \in 1..Len(s) : s[i] \in S
         /\ s # <<>> => 1 \in 1..Len(s) /\ Head(s) = s[1]
<1>1. Len(s) \in Nat /\ DOMAIN s = 1..Len(s)
  BY LenProperties
<1>2. s = <<>> <=> Len(s) = 0
  BY EmptySeq
<1>3. \A i \in 1..Len(s) : s[i] \in S
  BY ElementOfSeq
<1>4. ASSUME s # <<>> PROVE 1 \in 1..Len(s) /\ Head(s) = s[1]
  <2>1. 1 \in 1..Len(s)
    BY <1>1, <1>2, <1>4
  <2>2. Head(s) = s[1]
    BY <1>4
  <2>. QED  BY <2>1, <2>2
<1>. QED  BY <1>1, <1>2, <1>3, <1>4

-----------------------------------------------------------------------------
(* The commands a submission adds. *)

\* The kinds of command that are ever queued.
Origin == UNION {Kinds, {InitKinds[i] : i \in DOMAIN InitKinds},
                 {NetKinds[i] : i \in DOMAIN NetKinds}, {"first", "wake"}}

\* A command before its first line is sent.
NewCommand == {c \in Command : c.kind \in Origin /\ (c.left > 1 => Kinds \cap TwoLine # {})}

\* The commands s got the numbers after a, up to b.
Numbered(s, a, b) == b = a + Len(s) /\ \A i \in 1..Len(s) : s[i].id = a + i

LEMMA OriginFacts ==
  /\ Origin \subseteq AllKinds
  /\ "sms" \in Origin => Kinds \cap TwoLine # {}
  /\ InitKinds \in Seq(Origin) /\ NetKinds \in Seq(Origin)
<1>1. /\ Len(InitKinds) \in Nat /\ DOMAIN InitKinds = 1..Len(InitKinds)
      /\ \A i \in 1..Len(InitKinds) : InitKinds[i] \in Settings
  BY ConstantsOK, SeqFacts
<1>2. /\ Len(NetKinds) \in Nat /\ DOMAIN NetKinds = 1..Len(NetKinds)
      /\ \A i \in 1..Len(NetKinds) : NetKinds[i] \in Settings
  BY ConstantsOK, SeqFacts
<1>3. {InitKinds[i] : i \in DOMAIN InitKinds} \subseteq Settings
  BY <1>1
<1>4. {NetKinds[i] : i \in DOMAIN NetKinds} \subseteq Settings
  BY <1>2
<1>5. Origin \subseteq AllKinds
  BY <1>3, <1>4, ConstantsOK DEF Origin, AllKinds, DaemonKinds
<1>6. "sms" \in Origin => Kinds \cap TwoLine # {}
  BY <1>3, <1>4 DEF Origin, TwoLine, Settings
<1>7. \A i \in 1..Len(InitKinds) : InitKinds[i] \in Origin
  BY <1>1 DEF Origin
<1>8. \A i \in 1..Len(NetKinds) : NetKinds[i] \in Origin
  BY <1>2 DEF Origin
<1>9. InitKinds \in Seq(Origin)
  BY <1>7, ConstantsOK
<1>10. NetKinds \in Seq(Origin)
  BY <1>8, ConstantsOK
<1>. QED  BY <1>5, <1>6, <1>9, <1>10

LEMMA FillNew ==
  ASSUME NEW k \in Origin, NEW u \in Users \cup {Daemon}, NEW i \in Ids
  PROVE  /\ atcmd_fill(k, u, i) \in NewCommand
         /\ atcmd_fill(k, u, i).id = i /\ atcmd_fill(k, u, i).kind = k
<1> DEFINE c == atcmd_fill(k, u, i)
<1>1. c \in Command
  BY OriginFacts, FillType
<1>2. c.id = i /\ c.kind = k /\ c.left = IF k \in TwoLine THEN 2 ELSE 1
  BY DEF atcmd_fill
<1>3. c.left > 1 => Kinds \cap TwoLine # {}
  <2>1. SUFFICES ASSUME c.left > 1 PROVE Kinds \cap TwoLine # {}
    OBVIOUS
  <2>2. k = "sms"
    BY <1>2, <2>1 DEF TwoLine
  <2>. QED  BY <2>2, OriginFacts
<1> HIDE DEF c
<1>4. c \in NewCommand
  BY <1>1, <1>2, <1>3 DEF NewCommand
<1>. QED  BY <1>2, <1>4 DEF c

\* atcmd_submit numbers what it appends.
LEMMA SubmittedNew ==
  ASSUME NEW base \in Nat, NEW ks \in Seq(Origin), NEW u \in Users \cup {Daemon}
  PROVE  /\ Submitted(base, ks, u) \in Seq(NewCommand)
         /\ Numbered(Submitted(base, ks, u), base, base + Len(Submitted(base, ks, u)))
<1> DEFINE w == IF ExSubmit THEN 2 ELSE 1
           e(i) == IF i % w = 0 THEN atcmd_fill(ks[i \div w], u, base + i)
                                ELSE atcmd_fill("wake", u, base + i)
<1>1. Len(ks) \in Nat /\ \A j \in 1..Len(ks) : ks[j] \in Origin
  BY SeqFacts
<1>2. ASSUME NEW i \in 1..(w * Len(ks)) PROVE e(i) \in NewCommand /\ e(i).id = base + i
  <2>1. base + i \in Ids
    BY <1>1 DEF Ids
  <2>2. "wake" \in Origin
    BY DEF Origin
  <2>3. CASE i % w = 0
    <3>1. i \div w \in 1..Len(ks)
      BY <1>1, <2>3
    <3>2. ks[i \div w] \in Origin
      BY <3>1, <1>1
    <3> QED BY <2>1, <2>3, <3>2, FillNew
  <2>4. CASE i % w # 0
    BY <2>1, <2>2, <2>4, FillNew
  <2> QED BY <2>3, <2>4
<1>3. Submitted(base, ks, u) = [i \in 1..(w * Len(ks)) |-> e(i)]
  BY DEF Submitted
<1>4. w * Len(ks) \in Nat
  BY <1>1
<1> HIDE DEF w, e
<1> DEFINE s == [i \in 1..(w * Len(ks)) |-> e(i)]
<1>5. s \in Seq(NewCommand) /\ Len(s) = w * Len(ks)
  BY <1>2, <1>4
<1>6. \A i \in 1..Len(s) : s[i].id = base + i
  BY <1>2, <1>5
<1> HIDE DEF s
<1>7. Submitted(base, ks, u) = s
  BY <1>3 DEF s
<1>. QED  BY <1>5, <1>6, <1>7 DEF Numbered
-----------------------------------------------------------------------------
(* The moves of the queues. *)

\* d is c after a line was sent, its timer marked or its client gone.
Like(c, d) == d.id = c.id /\ d.kind = c.kind /\ (d.cb => c.cb) /\ d.left <= c.left

Alike(s, t) == Len(t) = Len(s) /\ \A i \in 1..Len(s) : Like(s[i], t[i])

Within(r, s) == \A i \in 1..Len(r) : \E j \in 1..Len(s) : r[i] = s[j]

\* r is q at the places K.
Thinned(r, q, K) ==
  \E at \in [1..Cardinality(K) -> K] :
    /\ \A i, j \in 1..Cardinality(K) : i < j => at[i] < at[j]
    /\ \A k \in K : \E i \in 1..Cardinality(K) : at[i] = k
    /\ r = [i \in 1..Cardinality(K) |-> q[at[i]]]

Others(q, u) == {i \in 1..Len(q) : q[i].ctx # u}

Stays ==
  /\ Alike(busy, busy') /\ Alike(pending, pending')
  /\ Within(owed', owed)
  /\ UNCHANGED <<n, ended>>

Halves ==
  /\ want /\ pending # <<>> /\ pending[1].left > 1
  /\ Alike(pending, pending')
  /\ Added(owed', owed, Answer(pending[1]))
  /\ UNCHANGED <<busy, n, ended>>

Sends ==
  /\ want /\ Shortened(pending', pending) /\ pending[1].left = 1
  /\ \E c \in Command : Like(pending[1], c) /\ Added(busy', busy, c)
  /\ Added(owed', owed, Answer(pending[1]))
  /\ UNCHANGED <<n, ended>>

Adds ==
  /\ \E s \in Seq(NewCommand) : Numbered(s, n, n') /\ Joined(pending', pending, s)
  /\ Within(owed', owed)
  /\ UNCHANGED <<busy, ended>>

Ends ==
  /\ Shortened(busy', busy)
  /\ ended' = ended \cup {busy[1].id}
  /\ Within(owed', owed)
  /\ ~early' => busy[1].id \notin OwedIds(owed')

Finishes ==
  /\ Ends
  /\ \E s \in Seq(NewCommand) : Numbered(s, n, n') /\ Joined(pending', pending, s)

Urgent(h, q) == h.id = n + 1 /\ h.kind = "hangup" /\ Joined(q, <<h>>, pending)

Preempts ==
  /\ Ends
  /\ \E h \in NewCommand, q \in Seq(Command), s \in Seq(NewCommand) :
       Urgent(h, q) /\ Numbered(s, n + 1, n') /\ Joined(pending', q, s)

Leaves(u) ==
  /\ Alike(busy, busy')
  /\ \A i \in 1..Len(busy) : busy'[i].cb => busy[i].ctx # u
  /\ Thinned(pending', pending, Others(pending, u))
  /\ ended' = ended \cup {c.id : c \in Mine(busy, u) \cup Mine(pending, u)}
  /\ ~early' => \A c \in Mine(pending, u) : c.id \notin OwedIds(owed)
  /\ UNCHANGED <<n, owed>>

Moves == \/ Stays \/ Halves \/ Sends \/ Adds \/ Finishes \/ Preempts
         \/ \E u \in Users : Leaves(u)

\* A command that ended early, and a stray prompt, are not forgotten; a prompt
\* answers the first line of a message.
Remembers ==
  /\ early => early'
  /\ stray => stray'
  /\ stray' => stray \/ \E i \in 1..Len(owed) : ~owed[i].last

LEMMA WithinSame == ASSUME NEW s PROVE Within(s, s)
  BY DEF Within

LEMMA WithinTail == ASSUME NEW S, NEW s \in Seq(S), NEW r, Shortened(r, s) PROVE Within(r, s)
  BY ShortenedFacts DEF Within

LEMMA AlikeSame ==
  ASSUME NEW s \in Seq(Command)
  PROVE  Alike(s, s)
<1>1. Len(s) \in Nat /\ \A i \in 1..Len(s) : s[i] \in Command
  BY SeqFacts
<1>2. ASSUME NEW i \in 1..Len(s) PROVE Like(s[i], s[i])
  BY <1>1 DEF Like, Command
<1>. QED  BY <1>2 DEF Alike

LEMMA SameStays ==
  ASSUME TypeOK, UNCHANGED <<busy, pending, n, ended>>, Within(owed', owed)
  PROVE  Stays
  BY AlikeSame DEF Stays, TypeOK

LEMMA AddTailMoves ==
  ASSUME TypeOK, NEW s \in Seq(NewCommand), Numbered(s, n, n + Len(s)), AddTail(s),
         UNCHANGED <<busy, ended, owed>>
  PROVE  Adds
<1>1. Joined(pending', pending, s) /\ n' = n + Len(s)
  BY DEF AddTail, Joined
<1>. QED  BY <1>1, WithinSame DEF Adds

LEMMA SubmitMoves ==
  ASSUME TypeOK, NEW ks \in Seq(Origin), NEW u \in Users \cup {Daemon}, atcmd_submit(ks, u),
         UNCHANGED <<busy, ended, owed>>
  PROVE  Adds
<1>1. n \in Nat
  BY DEF TypeOK
<1>2. PICK s : s = Submitted(n, ks, u)
  OBVIOUS
<1>3. s \in Seq(NewCommand) /\ Numbered(s, n, n + Len(s))
  BY <1>1, <1>2, SubmittedNew
<1>4. AddTail(s)
  BY <1>2 DEF atcmd_submit
<1>. QED  BY <1>3, <1>4, AddTailMoves

\* The end of the head of busy.
LEMMA EndMoves ==
  ASSUME TypeOK, busy # <<>>, NEW base \in Nat, NEW q, NEW lines, NEW code, NEW own, NEW events,
         EndCommand(base, q, lines, code, own, events), Within(owed', owed)
  PROVE  /\ Ends /\ (early => early') /\ stray' = stray
         /\ \E s \in Seq(NewCommand) : Numbered(s, base, n') /\ Joined(pending', q, s)
<1> DEFINE c == Head(busy)
           new == IF c.cb /\ c.kind = "first" THEN Submitted(base, InitKinds, Daemon) ELSE <<>>
<1>1. busy \in Seq(Command)
  BY DEF TypeOK
<1>2. Shortened(busy', busy) /\ n' = base + Len(new) /\ Joined(pending', q, new)
  BY DEF EndCommand, Shortened, Joined
<1>3. ended' = ended \cup {busy[1].id}
  <2>1. Head(busy) = busy[1]
    BY <1>1, SeqFacts
  <2>. QED  BY <2>1 DEF EndCommand
<1>4. (~early' => busy[1].id \notin OwedIds(owed')) /\ (early => early') /\ stray' = stray
  <2>1. Head(busy) = busy[1]
    BY <1>1, SeqFacts
  <2>2. early' = \/ early \/ Head(busy).id \in OwedIds(owed')
                 \/ code \in {"timeout", "cancel", "none"} /\ mlbuf # <<>>
    BY DEF EndCommand
  <2>3. stray' = stray
    BY DEF EndCommand
  <2>. QED  BY <2>1, <2>2, <2>3, Zenon
<1>5. new \in Seq(NewCommand) /\ Numbered(new, base, base + Len(new))
  <2>1. CASE c.cb /\ c.kind = "first"
    <3>1. new = Submitted(base, InitKinds, Daemon)
      BY <2>1
    <3>2. InitKinds \in Seq(Origin)
      BY OriginFacts
    <3> HIDE DEF new
    <3>. QED  BY <3>1, <3>2, SubmittedNew
  <2>2. CASE ~(c.cb /\ c.kind = "first")
    <3>1. new = <<>>
      BY <2>2
    <3> HIDE DEF new
    <3>2. new \in Seq(NewCommand) /\ Len(new) = 0
      BY <3>1
    <3>. QED  BY <3>2 DEF Numbered
  <2>. QED  BY <2>1, <2>2
<1> HIDE DEF new, c
<1>6. Ends
  BY <1>2, <1>3, <1>4 DEF Ends
<1>. QED  BY <1>2, <1>4, <1>5, <1>6

LEMMA DoneMoves ==
  ASSUME TypeOK, busy # <<>>, NEW base \in Nat, NEW q, NEW buf, NEW code, NEW own, NEW events,
         atcmd_done(base, q, buf, code, own, events), Within(owed', owed)
  PROVE  /\ (early => early') /\ stray' = stray
         /\ \/ Stays
            \/ /\ Ends
               /\ \E s \in Seq(NewCommand) : Numbered(s, base, n') /\ Joined(pending', q, s)
<1>1. CASE Crash
  <2>1. UNCHANGED <<busy, pending, n, ended, early, stray>>
    BY <1>1 DEF Crash, engine, history
  <2>. QED  BY <2>1, SameStays
<1>2. CASE \E lines, o : EndCommand(base, q, lines, code, o, events)
  BY <1>2, EndMoves
<1>. QED  BY <1>1, <1>2 DEF atcmd_done

-----------------------------------------------------------------------------
(* A departing client. *)

\* An increasing function from 1..k into a set of k places hits them all.
LEMMA IncreasingOnto ==
  ASSUME NEW N \in Nat, NEW K, K \subseteq 1..N, NEW at \in [1..Cardinality(K) -> K],
         \A i, j \in 1..Cardinality(K) : i < j => at[i] < at[j]
  PROVE  \A k \in K : \E i \in 1..Cardinality(K) : at[i] = k
<1>1. IsFiniteSet(1..N)
  BY FS_Interval
<1>2. IsFiniteSet(K)
  BY <1>1, FS_Subset
<1>3. PICK c : c = Cardinality(K)
  OBVIOUS
<1>4. c \in Nat
  BY <1>2, <1>3, FS_CardinalityType
<1>5. Cardinality(1..c) = c
  BY <1>4, FS_Interval
<1>6. \A i, j \in 1..c : at[i] = at[j] => i = j
  <2>1. SUFFICES ASSUME NEW i \in 1..c, NEW j \in 1..c, at[i] = at[j], i # j PROVE FALSE
    OBVIOUS
  <2>2. at[i] \in Nat /\ at[j] \in Nat
    <3>1. at[i] \in K /\ at[j] \in K
      BY <1>3, <2>1
    <3>2. K \subseteq Nat
      OBVIOUS
    <3>. QED  BY <3>1, <3>2
  <2>3. i < j \/ j < i
    BY <1>4, <2>1
  <2>. QED  BY <1>3, <2>1, <2>2, <2>3
<1>7. at \in Injection(1..c, K)
  BY <1>3, <1>6, Fun_IsInj
<1>8. at \in Surjection(1..c, K)
  BY <1>2, <1>3, <1>5, <1>7, FS_Injection
<1>9. \A k \in K : \E i \in 1..c : at[i] = k
  BY <1>8, Zenon DEF Surjection
<1>. QED  BY <1>3, <1>9

LEMMA DropThins ==
  ASSUME TypeOK, NEW u, DropPending(u)
  PROVE  Thinned(pending', pending, Others(pending, u))
<1> DEFINE K == Others(pending, u)
           M == {i \in DOMAIN pending : pending[i].ctx = u}
           N == Len(pending)
<1>1. N \in Nat /\ DOMAIN pending = 1..N
  BY SeqFacts DEF TypeOK
<1>2. PICK r \in 0..N :
        /\ r = Cardinality(M)
        /\ \E off \in [1..(N - r) -> 0..r] :
             /\ \A i \in DOMAIN off : pending[i + off[i]].ctx # u
             /\ \A i, j \in DOMAIN off : i < j => off[i] <= off[j]
             /\ pending' = [i \in 1..(N - r) |-> pending[i + off[i]]]
  BY Zenon DEF DropPending
<1>3. PICK off \in [1..(N - r) -> 0..r] :
             /\ \A i \in DOMAIN off : pending[i + off[i]].ctx # u
             /\ \A i, j \in DOMAIN off : i < j => off[i] <= off[j]
             /\ pending' = [i \in 1..(N - r) |-> pending[i + off[i]]]
  BY <1>2
<1>4. Cardinality(K) = N - r
  <2>1. K = (1..N) \ M /\ (1..N) \cap M = M
    BY <1>1 DEF Others
  <2> HIDE DEF K, M, N
  <2>2. IsFiniteSet(1..N) /\ Cardinality(1..N) = N
    BY <1>1, FS_Interval
  <2>3. Cardinality((1..N) \ M) = Cardinality(1..N) - Cardinality((1..N) \cap M)
    BY <2>2, FS_Difference
  <2>. QED  BY <1>2, <2>1, <2>2, <2>3
<1> DEFINE at == [i \in 1..(N - r) |-> i + off[i]]
<1>0. r \in Nat /\ r <= N
  BY <1>1, <1>2
<1>5. N - r \in Nat /\ \A i \in 1..(N - r) : i + off[i] \in 1..N
  <2> HIDE DEF N
  <2>1. \A i \in 1..(N - r) : off[i] \in 0..r
    BY <1>3
  <2>. QED  BY <1>0, <1>1, <2>1
<1>6. \A i \in 1..(N - r) : i + off[i] \in K
  BY <1>3, <1>5 DEF Others
<1>7. \A i, j \in 1..(N - r) : i < j => i + off[i] < j + off[j]
  <2> HIDE DEF N
  <2>1. \A i \in 1..(N - r) : off[i] \in 0..r
    BY <1>3
  <2>2. \A i, j \in 1..(N - r) : i < j => off[i] <= off[j]
    BY <1>3
  <2>. QED  BY <1>0, <1>1, <2>1, <2>2
<1>8. K \subseteq 1..N
  BY DEF Others
<1> HIDE DEF K, M, N
<1>9. at \in [1..Cardinality(K) -> K]
  BY <1>4, <1>6
<1>10. \A i, j \in 1..Cardinality(K) : i < j => at[i] < at[j]
  BY <1>4, <1>7
<1>11. pending' = [i \in 1..Cardinality(K) |-> pending[at[i]]]
  BY <1>3, <1>4
<1> HIDE DEF at
<1>12. \A k \in K : \E i \in 1..Cardinality(K) : at[i] = k
  BY <1>1, <1>8, <1>9, <1>10, IncreasingOnto
<1>13. Thinned(pending', pending, K)
  BY <1>9, <1>10, <1>11, <1>12 DEF Thinned
<1>. QED  BY <1>13 DEF K

LEMMA DisconnectMoves ==
  ASSUME TypeOK, NEW u \in Users, Disconnect(u)
  PROVE  (Stays \/ Leaves(u)) /\ (early => early') /\ stray' = stray
<1>0. owed' = owed /\ atcmd_terminate_matching(u)
  BY DEF Disconnect
<1>1. CASE Crash
  <2>1. UNCHANGED <<busy, pending, n, ended, early, stray>>
    BY <1>1 DEF Crash, engine, history
  <2>. QED  BY <1>0, <2>1, SameStays, WithinSame
<1>2. CASE ~Crash
  <2>1. /\ busy' = [i \in DOMAIN busy |->
                      IF busy[i].ctx = u THEN [busy[i] EXCEPT !.cb = FALSE, !.ctx = Daemon]
                                         ELSE busy[i]]
        /\ DropPending(u) /\ n' = n /\ stray' = stray
        /\ ended' = ended \cup {c.id : c \in Mine(busy, u) \cup Mine(pending, u)}
        /\ early' = (early \/ \E c \in Mine(pending, u) : c.id \in OwedIds(owed'))
    BY <1>0, <1>2 DEF atcmd_terminate_matching
  <2>2. /\ Len(busy) \in Nat /\ DOMAIN busy = 1..Len(busy)
        /\ \A i \in 1..Len(busy) : busy[i] \in Command
    BY SeqFacts DEF TypeOK
  <2>3. Len(busy') = Len(busy)
    <3> DEFINE b(i) == IF busy[i].ctx = u THEN [busy[i] EXCEPT !.cb = FALSE, !.ctx = Daemon]
                                          ELSE busy[i]
    <3>1. busy' = [i \in 1..Len(busy) |-> b(i)]
      BY <2>1, <2>2
    <3> HIDE DEF b
    <3>. QED  BY <2>2, <3>1
  <2>4. ASSUME NEW i \in 1..Len(busy)
        PROVE  Like(busy[i], busy'[i]) /\ (busy'[i].cb => busy[i].ctx # u)
    <3>1. CASE busy[i].ctx = u
      <4>1. busy'[i] = [busy[i] EXCEPT !.cb = FALSE, !.ctx = Daemon]
        BY <2>1, <2>2, <3>1
      <4>2. busy'[i].id = busy[i].id /\ busy'[i].kind = busy[i].kind
            /\ busy'[i].left = busy[i].left /\ busy'[i].cb = FALSE
        BY <2>2, <4>1 DEF Command
      <4>3. busy[i].left <= busy[i].left
        BY <2>2 DEF Command
      <4>. QED  BY <4>2, <4>3 DEF Like
    <3>2. CASE busy[i].ctx # u
      <4>1. busy'[i] = busy[i]
        BY <2>1, <2>2, <3>2
      <4>2. busy[i].left <= busy[i].left
        BY <2>2 DEF Command
      <4>. QED  BY <3>2, <4>1, <4>2 DEF Like
    <3>. QED  BY <3>1, <3>2
  <2>5. Alike(busy, busy')
    BY <2>3, <2>4 DEF Alike
  <2>6. Thinned(pending', pending, Others(pending, u))
    BY <2>1, DropThins
  <2>7. (~early' => \A c \in Mine(pending, u) : c.id \notin OwedIds(owed)) /\ (early => early')
    BY <1>0, <2>1, Zenon
  <2>. QED  BY <1>0, <2>1, <2>4, <2>5, <2>6, <2>7 DEF Leaves
<1>. QED  BY <1>1, <1>2

-----------------------------------------------------------------------------
(* Every step is a move. *)

LEMMA UartMoves ==
  ASSUME TypeOK, UartWrite
  PROVE  Moves /\ Remembers
<1> DEFINE c == Head(pending)
<1>0. /\ pending \in Seq(Command) /\ busy \in Seq(Command) /\ owed \in Seq(Owed)
      /\ UNCHANGED <<n, ended, early, stray>> /\ want
  BY DEF TypeOK, UartWrite
<1>1. Remembers
  BY <1>0 DEF Remembers
<1>2. CASE UNCHANGED <<pending, busy, owed>>
  BY <1>0, <1>1, <1>2, SameStays, WithinSame DEF Moves
<1>3. ASSUME pending # <<>> PROVE c = pending[1] /\ c \in Command /\ Tail(pending) \in Seq(Command)
  BY <1>0, <1>3
<1>4. CASE /\ pending # <<>> /\ c.left > 1
           /\ pending' = <<[c EXCEPT !.left = @ - 1]>> \o Tail(pending)
           /\ owed' = Append(owed, Answer(c))
           /\ UNCHANGED busy
  <2>1. PICK d : d = [c EXCEPT !.left = @ - 1]
    OBVIOUS
  <2>2. c \in Command /\ c = pending[1]
    BY <1>3, <1>4
  <2>3. PICK t : t = Tail(pending)
    OBVIOUS
  <2>4. Joined(pending', <<d>>, t) /\ Shortened(t, pending)
    BY <1>4, <2>1, <2>3 DEF Joined, Shortened
  <2>5. Added(owed', owed, Answer(pending[1]))
    BY <1>4, <2>2 DEF Added
  <2> HIDE DEF c
  <2>6. d \in Command /\ Like(c, d)
    <3>1. c.left = 2
      BY <1>4, <2>2 DEF Command
    <3>2. d = [c EXCEPT !.left = 1]
      BY <2>1, <3>1
    <3>3. d \in Command /\ d.id = c.id /\ d.kind = c.kind /\ d.cb = c.cb /\ d.left = 1
      BY <2>2, <3>2 DEF Command
    <3>. QED  BY <3>1, <3>3 DEF Like
  <2>7. /\ t \in Seq(Command) /\ Len(pending) \in Nat /\ Len(t) \in Nat /\ Len(pending) = Len(t) + 1
        /\ \A i \in 1..Len(t) : i + 1 \in 1..Len(pending) /\ t[i] = pending[i + 1]
    BY <1>0, <2>4, ShortenedFacts
  <2>8. PICK o : o = <<d>>
    OBVIOUS
  <2>9. o \in Seq(Command) /\ Len(o) = 1 /\ o[1] = d
    BY <2>6, <2>8
  <2>10. /\ Len(pending') = 1 + Len(t) /\ pending'[1] = d
         /\ \A i \in 1..Len(pending') : i # 1 => i - 1 \in 1..Len(t) /\ pending'[i] = t[i - 1]
    <3>1. Joined(pending', o, t)
      BY <2>4, <2>8
    <3>2. /\ Len(pending') = Len(o) + Len(t)
          /\ \A i \in 1..Len(o) : pending'[i] = o[i]
          /\ \A i \in 1..Len(pending') :
               i \notin 1..Len(o) => i - Len(o) \in 1..Len(t) /\ pending'[i] = t[i - Len(o)]
      <4>1. o \in Seq(Command) /\ t \in Seq(Command)
        BY <2>7, <2>9
      <4>2. PICK p : p = pending'
        OBVIOUS
      <4>3. Joined(p, o, t)
        BY <3>1, <4>2
      <4>4. /\ Len(p) = Len(o) + Len(t)
            /\ \A i \in 1..Len(o) : p[i] = o[i]
            /\ \A i \in 1..Len(p) : i \notin 1..Len(o) => i - Len(o) \in 1..Len(t) /\ p[i] = t[i - Len(o)]
        BY <4>1, <4>3, JoinedFacts
      <4>. QED  BY <4>2, <4>4
    <3>3. 1 \in 1..1 /\ \A i \in Nat : i # 1 => i \notin 1..1
      OBVIOUS
    <3>. QED  BY <2>9, <3>2, <3>3
  <2>11. ASSUME NEW i \in 1..Len(pending) PROVE Like(pending[i], pending'[i])
    <3>1. CASE i = 1
      BY <2>2, <2>6, <2>10, <3>1
    <3>2. CASE i # 1
      <4>1. i - 1 \in 1..Len(t) /\ pending'[i] = t[i - 1] /\ (i - 1) + 1 = i
        BY <2>7, <2>10, <3>2
      <4>2. pending'[i] = pending[i]
        BY <2>7, <4>1
      <4>3. pending[i] \in Command
        BY <1>0, SeqFacts
      <4>. QED  BY <4>2, <4>3 DEF Like, Command
    <3>. QED  BY <3>1, <3>2
  <2>12. Alike(pending, pending')
    BY <2>7, <2>10, <2>11 DEF Alike
  <2>13. Halves
    BY <1>0, <1>4, <2>2, <2>5, <2>12 DEF Halves
  <2>. QED  BY <1>1, <2>13 DEF Moves
<1>5. CASE /\ pending # <<>> /\ c.left = 1
           /\ pending' = Tail(pending)
           /\ busy' = Append(busy, [c EXCEPT !.left = 0, !.tmr = "armed"])
           /\ owed' = Append(owed, Answer(c))
  <2>1. PICK d : d = [c EXCEPT !.left = 0, !.tmr = "armed"]
    OBVIOUS
  <2>2. c \in Command /\ c = pending[1]
    BY <1>3, <1>5
  <2>3. /\ Shortened(pending', pending) /\ Added(busy', busy, d)
        /\ Added(owed', owed, Answer(pending[1]))
    BY <1>5, <2>1, <2>2 DEF Shortened, Added
  <2> HIDE DEF c
  <2>4. d \in Command /\ Like(c, d)
    <3>1. PICK e : e = [c EXCEPT !.left = 0]
      OBVIOUS
    <3>2. e \in Command /\ e.id = c.id /\ e.kind = c.kind /\ e.cb = c.cb /\ e.left = 0
      BY <2>2, <3>1 DEF Command
    <3>3. d = [e EXCEPT !.tmr = "armed"]
      BY <2>1, <3>1
    <3>4. d \in Command /\ d.id = e.id /\ d.kind = e.kind /\ d.cb = e.cb /\ d.left = e.left
      BY <3>2, <3>3 DEF Command
    <3>5. 0 <= c.left
      BY <2>2 DEF Command
    <3>. QED  BY <3>2, <3>4, <3>5 DEF Like
  <2>5. Sends
    BY <1>0, <1>5, <2>2, <2>3, <2>4 DEF Sends
  <2>. QED  BY <1>1, <2>5 DEF Moves
<1>. QED  BY <1>2, <1>4, <1>5 DEF UartWrite

LEMMA HandlersOrigin ==
  ASSUME NEW ks \in pcmd_type_handlers, \A i \in DOMAIN ks : ks[i] \in Kinds
  PROVE  ks \in Seq(Origin)
<1>1. ks \in Seq(AllKinds)
  BY HandlersType
<1>2. ks \in Seq(Kinds)
  BY <1>1
<1>3. Kinds \subseteq Origin
  BY DEF Origin
<1>. QED  BY <1>2, <1>3

LEMMA HangupMoves ==
  ASSUME TypeOK, NEW u \in Users, Hangup(u)
  PROVE  Moves /\ Remembers
<1>0. owed' = owed /\ n \in Nat /\ n + 1 \in Ids /\ "hangup" \in Origin /\ pending \in Seq(Command)
  BY DEF Hangup, TypeOK, Ids, Origin
<1>1. CASE busy = <<>> /\ atcmd_submit(<<"hangup">>, u) /\ UNCHANGED <<busy, ended, early, stray>>
  <2>1. <<"hangup">> \in Seq(Origin)
    BY <1>0
  <2>2. Adds
    BY <1>0, <1>1, <2>1, SubmitMoves
  <2>. QED  BY <1>1, <2>2 DEF Moves, Remembers
<1>2. CASE /\ busy # <<>>
           /\ atcmd_done(n + 1, <<atcmd_fill("hangup", u, n + 1)>> \o pending,
                         <<>>, "cancel", TRUE, NoMessage)
  <2>1. PICK h : h = atcmd_fill("hangup", u, n + 1)
    OBVIOUS
  <2>2. PICK q : q = <<h>> \o pending
    OBVIOUS
  <2>3. atcmd_done(n + 1, q, <<>>, "cancel", TRUE, NoMessage)
    BY <1>2, <2>1, <2>2
  <2>4. h \in NewCommand /\ h.id = n + 1 /\ h.kind = "hangup"
    BY <1>0, <2>1, FillNew
  <2>5. q \in Seq(Command)
    <3>1. h \in Command
      BY <2>4 DEF NewCommand
    <3>. QED  BY <1>0, <2>2, <3>1
  <2>6. Urgent(h, q)
    BY <2>2, <2>4 DEF Urgent, Joined
  <2>7. /\ (early => early') /\ stray' = stray
        /\ \/ Stays
           \/ /\ Ends
              /\ \E s \in Seq(NewCommand) : Numbered(s, n + 1, n') /\ Joined(pending', q, s)
    <3>1. n + 1 \in Nat /\ Within(owed', owed)
      BY <1>0, WithinSame
    <3>. QED  BY <1>2, <2>3, <3>1, DoneMoves
  <2>8. CASE Stays
    BY <2>7, <2>8 DEF Moves, Remembers
  <2>9. CASE /\ Ends
             /\ \E s \in Seq(NewCommand) : Numbered(s, n + 1, n') /\ Joined(pending', q, s)
    <3>1. Preempts
      BY <2>4, <2>5, <2>6, <2>9 DEF Preempts
    <3>. QED  BY <2>7, <3>1 DEF Moves, Remembers
  <2>. QED  BY <2>7, <2>8, <2>9
<1>. QED  BY <1>1, <1>2 DEF Hangup

LEMMA ClientMoves ==
  ASSUME TypeOK, ClientStep
  PROVE  Moves /\ Remembers
<1>0. PICK u \in Users :
        \/ Connect(u) \/ Hangup(u) \/ PowerOff(u) \/ UserWrite(u) \/ Disconnect(u)
        \/ \E ks \in pcmd_type_handlers : Request(u, ks)
  BY DEF ClientStep
<1>1. CASE Connect(u) \/ UserWrite(u)
  <2>1. UNCHANGED <<busy, pending, n, ended, owed, early, stray>>
    BY <1>1 DEF Connect, UserWrite, engine, history
  <2>2. Stays
    BY <2>1, SameStays, WithinSame
  <2>. QED  BY <2>1, <2>2 DEF Moves, Remembers
<1>2. CASE Hangup(u)
  BY <1>2, HangupMoves
<1>3. CASE PowerOff(u)
  <2>1. PICK c : c = atcmd_fill("power", u, n + 1)
    OBVIOUS
  <2>2. n \in Nat /\ n + 1 \in Ids /\ "power" \in Origin
    BY <1>3 DEF TypeOK, Ids, PowerOff, Origin
  <2>3. c \in NewCommand /\ c.id = n + 1
    BY <2>1, <2>2, FillNew
  <2>4. PICK s : s = <<c>>
    OBVIOUS
  <2>5. s \in Seq(NewCommand) /\ Len(s) = 1 /\ s[1] = c
    BY <2>3, <2>4
  <2>6. Numbered(s, n, n + Len(s))
    BY <2>2, <2>3, <2>5 DEF Numbered
  <2>7. AddTail(s) /\ UNCHANGED <<busy, ended, owed, early, stray>>
    BY <1>3, <2>1, <2>4 DEF PowerOff
  <2>8. Adds
    BY <2>5, <2>6, <2>7, AddTailMoves
  <2>. QED  BY <2>7, <2>8 DEF Moves, Remembers
<1>4. CASE Disconnect(u)
  BY <1>4, DisconnectMoves DEF Moves, Remembers
<1>5. CASE \E ks \in pcmd_type_handlers : Request(u, ks)
  <2>1. PICK ks \in pcmd_type_handlers : Request(u, ks)
    BY <1>5
  <2>2. ks \in Seq(Origin)
    BY <2>1, HandlersOrigin DEF Request
  <2>3. atcmd_submit(ks, u) /\ UNCHANGED <<busy, ended, owed, early, stray>>
    BY <2>1 DEF Request
  <2>4. Adds
    BY <2>2, <2>3, SubmitMoves
  <2>. QED  BY <2>3, <2>4 DEF Moves, Remembers
<1>. QED  BY <1>0, <1>1, <1>2, <1>3, <1>4, <1>5

\* A line from the modem submits the settings of a registration or nothing.
LEMMA ParseMoves ==
  ASSUME TypeOK, NEW line, ml_parse(line), UNCHANGED <<busy, owed, ended, early, stray>>
  PROVE  Moves /\ Remembers
<1>1. atcmd_submit(NetKinds, Daemon) \/ UNCHANGED <<n, pending>>
  BY Zenon DEF ml_parse, AppendLine, unsolicited_parse
<1>2. CASE atcmd_submit(NetKinds, Daemon)
  <2>1. Adds
    BY <1>2, OriginFacts, SubmitMoves
  <2>. QED  BY <2>1 DEF Moves, Remembers
<1>3. CASE UNCHANGED <<n, pending>>
  <2>1. Stays
    BY <1>3, SameStays, WithinSame
  <2>. QED  BY <2>1 DEF Moves, Remembers
<1>. QED  BY <1>1, <1>2, <1>3

LEMMA ResultMoves ==
  ASSUME TypeOK, NEW code, NEW of, FinalResult(code, of), Within(owed', owed)
  PROVE  Moves /\ Remembers
<1>1. CASE UNCHANGED <<up, engine, clients, history>>
  <2>1. UNCHANGED <<busy, pending, n, ended, early, stray>>
    BY <1>1 DEF engine, history
  <2>2. Stays
    BY <2>1, SameStays
  <2>. QED  BY <2>1, <2>2 DEF Moves, Remembers
<1>2. CASE /\ busy # <<>>
           /\ \E ev \in ErrorEvents(code) :
                atcmd_done(n, pending, mlbuf, code, of = Head(busy).id, ev)
  <2>1. PICK events \in ErrorEvents(code) :
          atcmd_done(n, pending, mlbuf, code, of = Head(busy).id, events)
    BY <1>2
  <2>2. n \in Nat
    BY DEF TypeOK
  <2>3. PICK own : own = (of = Head(busy).id)
    OBVIOUS
  <2>4. atcmd_done(n, pending, mlbuf, code, own, events)
    BY <2>1, <2>3
  <2>5. /\ (early => early') /\ stray' = stray
        /\ \/ Stays
           \/ /\ Ends
              /\ \E s \in Seq(NewCommand) : Numbered(s, n, n') /\ Joined(pending', pending, s)
    BY <1>2, <2>2, <2>4, DoneMoves
  <2>. QED  BY <2>5 DEF Moves, Remembers, Finishes
<1>. QED  BY <1>1, <1>2 DEF FinalResult

LEMMA ModemMoves ==
  ASSUME TypeOK, ModemStep
  PROVE  Moves /\ Remembers
<1>0. owed \in Seq(Owed)
  BY DEF TypeOK
<1>1. CASE ReadyLine
  <2>1. "first" \in Origin
    BY DEF Origin
  <2>2. <<"first">> \in Seq(Origin)
    BY <2>1
  <2>3. atcmd_submit(<<"first">>, Daemon) /\ UNCHANGED <<busy, ended, owed, early, stray>>
    BY <1>1 DEF ReadyLine
  <2>4. Adds
    BY <2>2, <2>3, SubmitMoves
  <2>. QED  BY <2>3, <2>4 DEF Moves, Remembers
<1>2. CASE FinalLine
  <2>1. \E code : FinalResult(code, Head(owed).id)
    BY <1>2, Zenon DEF FinalLine
  <2>2. Shortened(owed', owed)
    BY <1>2 DEF FinalLine, Shortened
  <2>3. Within(owed', owed)
    BY <1>0, <2>2, WithinTail
  <2>. QED  BY <2>1, <2>3, ResultMoves
<1>3. CASE CarrierLine
  BY <1>3, ResultMoves, WithinSame DEF CarrierLine
<1>4. CASE InfoLine
  <2>1. \E line : ml_parse(line)
    BY <1>4, Zenon DEF InfoLine
  <2>2. UNCHANGED <<busy, owed, ended, early, stray>>
    BY <1>4 DEF InfoLine
  <2>. QED  BY <2>1, <2>2, ParseMoves
<1>5. CASE UrcLine
  <2>1. \E line : ml_parse(line)
    BY <1>5, Zenon DEF UrcLine
  <2>2. UNCHANGED <<busy, owed, ended, early, stray>>
    BY <1>5 DEF UrcLine
  <2>. QED  BY <2>1, <2>2, ParseMoves
<1>6. CASE Prompt
  <2>1. /\ UNCHANGED <<busy, pending, n, ended, early>> /\ Shortened(owed', owed)
        /\ ~Head(owed).last /\ (stray => stray')
    BY <1>6 DEF Prompt, Shortened
  <2>2. Stays
    BY <1>0, <2>1, SameStays, WithinTail
  <2>3. \E i \in 1..Len(owed) : ~owed[i].last
    <3>1. owed # <<>>
      BY <2>1 DEF Shortened
    <3>2. 1 \in 1..Len(owed) /\ Head(owed) = owed[1]
      BY <1>0, <3>1, SeqFacts
    <3>. QED  BY <2>1, <3>2
  <2>. QED  BY <2>1, <2>2, <2>3 DEF Moves, Remembers
<1>7. CASE ModemDrop
  <2>1. UNCHANGED <<busy, pending, n, ended, early, stray>> /\ Shortened(owed', owed)
    BY <1>7 DEF ModemDrop, engine, history, Shortened
  <2>2. Stays
    BY <1>0, <2>1, SameStays, WithinTail
  <2>. QED  BY <2>1, <2>2 DEF Moves, Remembers
<1>. QED  BY <1>1, <1>2, <1>3, <1>4, <1>5, <1>6, <1>7 DEF ModemStep

LEMMA MarkMoves ==
  ASSUME TypeOK, NEW i \in DOMAIN busy, NEW t, busy' = [busy EXCEPT ![i].tmr = t],
         UNCHANGED <<pending, n, ended, owed>>
  PROVE  Stays
<1>1. /\ busy \in Seq(Command) /\ Len(busy) \in Nat /\ DOMAIN busy = 1..Len(busy)
      /\ \A j \in 1..Len(busy) : busy[j] \in Command
  BY SeqFacts DEF TypeOK
<1>2. PICK d : d = [busy[i] EXCEPT !.tmr = t]
  OBVIOUS
<1>3. Like(busy[i], d)
  <2>1. busy[i] \in Command
    BY <1>1
  <2>2. d.id = busy[i].id /\ d.kind = busy[i].kind /\ d.cb = busy[i].cb /\ d.left = busy[i].left
    BY <1>2, <2>1 DEF Command
  <2>3. busy[i].left <= busy[i].left
    BY <2>1 DEF Command
  <2>. QED  BY <2>2, <2>3 DEF Like
<1>4. busy' = [busy EXCEPT ![i] = d]
  BY <1>2
<1>5. Len(busy') = Len(busy) /\ busy'[i] = d /\ \A j \in 1..Len(busy) \ {i} : busy'[j] = busy[j]
  BY <1>1, <1>4
<1>6. Alike(busy, busy)
  BY <1>1, AlikeSame
<1>7. ASSUME NEW j \in 1..Len(busy) PROVE Like(busy[j], busy'[j])
  BY <1>3, <1>5, <1>6, <1>7 DEF Alike
<1>8. Alike(busy, busy')
  BY <1>5, <1>7 DEF Alike
<1>9. Alike(pending, pending')
  BY AlikeSame DEF TypeOK
<1>. QED  BY <1>8, <1>9, WithinSame DEF Stays

LEMMA TimerMoves ==
  ASSUME TypeOK, TimerStep
  PROVE  Moves /\ Remembers
<1>1. CASE AliveInterval
  <2>1. "alive" \in Origin
    BY <1>1 DEF Origin, AliveInterval
  <2>2. <<"alive">> \in Seq(Origin)
    BY <2>1
  <2>3. atcmd_submit(<<"alive">>, Daemon) /\ UNCHANGED <<busy, ended, owed, early, stray>>
    BY <1>1 DEF AliveInterval
  <2>4. Adds
    BY <2>2, <2>3, SubmitMoves
  <2>. QED  BY <2>3, <2>4 DEF Moves, Remembers
<1>2. ASSUME NEW i \in DOMAIN busy, discard_timeout(i) \/ wakeup_timeout(i)
      PROVE  Moves /\ Remembers
  <2>0. owed' = owed
    BY <1>2 DEF discard_timeout, wakeup_timeout
  <2>1. CASE NotHead(i)
    <3>1. busy' = [busy EXCEPT ![i].tmr = "dead"] /\ UNCHANGED <<pending, n, ended, early, stray>>
      BY <2>1 DEF NotHead, history
    <3>2. Stays
      BY <2>0, <3>1, MarkMoves
    <3>. QED  BY <3>1, <3>2 DEF Moves, Remembers
  <2>2. CASE EndCommand(n, pending, <<>>, "timeout", TRUE, NoMessage)
    <3>1. busy # <<>> /\ n \in Nat /\ Within(owed', owed)
      BY <2>0, WithinSame DEF TypeOK
    <3>2. /\ Ends /\ (early => early') /\ stray' = stray
          /\ \E s \in Seq(NewCommand) : Numbered(s, n, n') /\ Joined(pending', pending, s)
      BY <2>2, <3>1, EndMoves
    <3>. QED  BY <3>2 DEF Moves, Remembers, Finishes
  <2>. QED  BY <1>2, <2>1, <2>2 DEF discard_timeout, wakeup_timeout
<1>3. ASSUME NEW i \in DOMAIN busy, alive_tmr_cb(i) \/ poweroff_timeout(i)
      PROVE  Moves /\ Remembers
  <2>0. UNCHANGED <<n, ended, owed, early, stray>>
    BY <1>3 DEF alive_tmr_cb, poweroff_timeout, history
  <2>1. CASE UNCHANGED engine
    <3>1. Stays
      BY <2>0, <2>1, SameStays, WithinSame DEF engine
    <3>. QED  BY <2>0, <3>1 DEF Moves, Remembers
  <2>2. CASE busy' = [busy EXCEPT ![i].tmr = "freed"] /\ pending' = pending
    <3>1. Stays
      BY <2>0, <2>2, MarkMoves
    <3>. QED  BY <2>0, <3>1 DEF Moves, Remembers
  <2>. QED  BY <1>3, <2>1, <2>2 DEF alive_tmr_cb, poweroff_timeout
<1>. QED  BY <1>1, <1>2, <1>3 DEF TimerStep

LEMMA StepMoves ==
  ASSUME TypeOK, [Next]_vars
  PROVE  Moves /\ Remembers
<1>1. CASE UNCHANGED vars
  <2>1. UNCHANGED <<busy, pending, n, ended, owed, early, stray>>
    BY <1>1 DEF vars, engine, history
  <2>2. Stays
    BY <2>1, SameStays, WithinSame
  <2>. QED  BY <2>1, <2>2 DEF Moves, Remembers
<1>. QED  BY <1>1, UartMoves, ClientMoves, ModemMoves, TimerMoves DEF Next

-----------------------------------------------------------------------------
(* Order and identity of the queued commands. *)

Ahead(c, d) == c.id # d.id /\ (c.id < d.id \/ c.kind = "hangup")

Sorted(s) == \A i, j \in 1..Len(s) : i < j => Ahead(s[i], s[j])
Before(s, t) == \A i \in 1..Len(s), j \in 1..Len(t) : Ahead(s[i], t[j])

\* The commands s have numbers up to m; those with a callback are not in E.
Open(s, m, E) == \A i \in 1..Len(s) : s[i].id <= m /\ (s[i].cb => s[i].id \notin E)

\* Executing commands b, waiting commands p, m commands submitted, those in E
\* told their end: the order of the two queues, one after the other.
Order(b, p, m, E) ==
  /\ Sorted(b) /\ Sorted(p) /\ Before(b, p)
  /\ Open(b, m, E) /\ Open(p, m, E)
  /\ E \subseteq 1..m

LEMMA IdNat ==
  ASSUME NEW s \in Seq(Command)
  PROVE  Len(s) \in Nat /\ \A i \in 1..Len(s) : s[i].id \in Nat /\ s[i].id > 0
<1>1. Len(s) \in Nat /\ \A i \in 1..Len(s) : s[i] \in Command
  BY SeqFacts
<1>. QED  BY <1>1 DEF Command, Ids

LEMMA OrderAlike ==
  ASSUME NEW b, NEW p, NEW m, NEW E, NEW bb, NEW pp,
         Order(b, p, m, E), Alike(b, bb), Alike(p, pp)
  PROVE  Order(bb, pp, m, E)
<1>1. Sorted(bb)
  BY DEF Order, Sorted, Alike, Like, Ahead
<1>2. Sorted(pp)
  BY DEF Order, Sorted, Alike, Like, Ahead
<1>3. Before(bb, pp)
  BY DEF Order, Before, Alike, Like, Ahead
<1>4. Open(bb, m, E) /\ Open(pp, m, E)
  BY DEF Order, Open, Alike, Like
<1>. QED  BY <1>1, <1>2, <1>3, <1>4 DEF Order

\* New commands at the end of pending.
LEMMA OrderJoined ==
  ASSUME NEW b \in Seq(Command), NEW p \in Seq(Command), NEW m \in Nat, NEW E, Order(b, p, m, E),
         NEW s \in Seq(NewCommand), NEW mm, Numbered(s, m, mm), NEW pp, Joined(pp, p, s)
  PROVE  Order(b, pp, mm, E) /\ mm \in Nat /\ pp \in Seq(Command)
<1>1. s \in Seq(Command)
  <2>1. NewCommand \subseteq Command
    BY DEF NewCommand
  <2>. QED  BY <2>1
<1>2. /\ pp \in Seq(Command) /\ Len(p) \in Nat /\ Len(s) \in Nat /\ Len(pp) = Len(p) + Len(s)
      /\ \A i \in 1..Len(p) : pp[i] = p[i]
      /\ \A i \in 1..Len(pp) : i \notin 1..Len(p) => i - Len(p) \in 1..Len(s) /\ pp[i] = s[i - Len(p)]
  BY <1>1, JoinedFacts
<1>3. mm \in Nat /\ mm >= m
  BY <1>2 DEF Numbered
<1>4. /\ \A i \in 1..Len(b) : b[i].id \in Nat
      /\ \A i \in 1..Len(p) : p[i].id \in Nat
  BY IdNat
<1>5. ASSUME NEW i \in 1..Len(pp), i \notin 1..Len(p)
      PROVE  pp[i].id = m + (i - Len(p)) /\ i - Len(p) \in 1..Len(s)
  BY <1>2, <1>5 DEF Numbered
<1>6. ASSUME NEW i \in 1..Len(pp), i \notin 1..Len(p)
      PROVE  pp[i].id \in Nat /\ pp[i].id > m /\ pp[i].id <= mm
  <2>1. mm = m + Len(s)
    BY DEF Numbered
  <2>. QED  BY <1>2, <1>5, <1>6, <2>1
<1>7. ASSUME NEW i \in 1..Len(pp), NEW j \in 1..Len(pp), i < j PROVE Ahead(pp[i], pp[j])
  <2>1. CASE j \in 1..Len(p)
    <3>1. i \in 1..Len(p)
      BY <1>2, <1>7, <2>1
    <3>2. pp[i] = p[i] /\ pp[j] = p[j]
      BY <1>2, <2>1, <3>1
    <3>. QED  BY <1>7, <2>1, <3>1, <3>2 DEF Order, Sorted
  <2>2. CASE i \in 1..Len(p) /\ j \notin 1..Len(p)
    <3>1. pp[i] = p[i]
      BY <1>2, <2>2
    <3>2. p[i].id <= m /\ p[i].id \in Nat
      BY <1>4, <2>2 DEF Order, Open
    <3>3. pp[j].id \in Nat /\ pp[j].id > m
      BY <1>6, <2>2
    <3>. QED  BY <3>1, <3>2, <3>3 DEF Ahead
  <2>3. CASE i \notin 1..Len(p) /\ j \notin 1..Len(p)
    <3>1. pp[i].id = m + (i - Len(p)) /\ pp[j].id = m + (j - Len(p))
      BY <1>5, <2>3
    <3>. QED  BY <1>2, <1>7, <3>1 DEF Ahead
  <2>. QED  BY <2>1, <2>2, <2>3
<1>8. ASSUME NEW i \in 1..Len(b), NEW j \in 1..Len(pp) PROVE Ahead(b[i], pp[j])
  <2>1. CASE j \in 1..Len(p)
    BY <1>2, <2>1 DEF Order, Before
  <2>2. CASE j \notin 1..Len(p)
    <3>1. b[i].id <= m /\ b[i].id \in Nat
      BY <1>4 DEF Order, Open
    <3>2. pp[j].id \in Nat /\ pp[j].id > m
      BY <1>6, <2>2
    <3>. QED  BY <3>1, <3>2 DEF Ahead
  <2>. QED  BY <2>1, <2>2
<1>9. Open(b, mm, E)
  BY <1>3, <1>4 DEF Order, Open
<1>10. ASSUME NEW i \in 1..Len(pp) PROVE pp[i].id <= mm /\ (pp[i].cb => pp[i].id \notin E)
  <2>1. CASE i \in 1..Len(p)
    <3>1. pp[i] = p[i] /\ p[i].id <= m /\ p[i].id \in Nat /\ (p[i].cb => p[i].id \notin E)
      BY <1>2, <1>4, <2>1 DEF Order, Open
    <3>. QED  BY <1>3, <3>1
  <2>2. CASE i \notin 1..Len(p)
    <3>1. pp[i].id > m /\ pp[i].id <= mm
      BY <1>6, <2>2
    <3>2. \A x \in E : x <= m
      BY DEF Order
    <3>. QED  BY <1>6, <2>2, <3>1, <3>2
  <2>. QED  BY <2>1, <2>2
<1>11. E \subseteq 1..mm
  BY <1>3 DEF Order
<1>12. Sorted(b)
  BY DEF Order
<1>13. Sorted(pp)
  BY <1>7 DEF Sorted
<1>14. Before(b, pp)
  BY <1>8 DEF Before
<1>15. Open(pp, mm, E)
  BY <1>10 DEF Open
<1>. QED  BY <1>2, <1>3, <1>9, <1>11, <1>12, <1>13, <1>14, <1>15 DEF Order

\* The head of busy is told its end and leaves.
LEMMA OrderShortened ==
  ASSUME NEW b \in Seq(Command), NEW p, NEW m \in Nat, NEW E, Order(b, p, m, E),
         NEW bb, Shortened(bb, b)
  PROVE  Order(bb, p, m, E \cup {b[1].id}) /\ bb \in Seq(Command)
<1>1. /\ bb \in Seq(Command) /\ Len(b) \in Nat /\ Len(bb) \in Nat /\ Len(b) = Len(bb) + 1
      /\ \A i \in 1..Len(bb) : i + 1 \in 1..Len(b) /\ bb[i] = b[i + 1]
  BY ShortenedFacts
<1>2. 1 \in 1..Len(b)
  BY <1>1
<1>3. ASSUME NEW i \in 1..Len(bb), NEW j \in 1..Len(bb), i < j PROVE Ahead(bb[i], bb[j])
  <2>1. i + 1 < j + 1 /\ i + 1 \in 1..Len(b) /\ j + 1 \in 1..Len(b)
    BY <1>1, <1>3
  <2>. QED  BY <1>1, <2>1 DEF Order, Sorted
<1>4. Before(bb, p)
  BY <1>1 DEF Order, Before
<1>5. ASSUME NEW i \in 1..Len(bb)
      PROVE  bb[i].id <= m /\ (bb[i].cb => bb[i].id \notin E \cup {b[1].id})
  <2>1. i + 1 \in 1..Len(b) /\ 1 < i + 1 /\ bb[i] = b[i + 1]
    BY <1>1
  <2>2. b[1].id # b[i + 1].id
    BY <1>2, <2>1 DEF Order, Sorted, Ahead
  <2>. QED  BY <2>1, <2>2 DEF Order, Open
<1>6. ASSUME NEW i \in 1..Len(p)
      PROVE  p[i].id <= m /\ (p[i].cb => p[i].id \notin E \cup {b[1].id})
  <2>1. b[1].id # p[i].id
    BY <1>2 DEF Order, Before, Ahead
  <2>. QED  BY <2>1 DEF Order, Open
<1>7. b[1].id \in 1..m
  <2>1. b[1].id \in Nat /\ b[1].id > 0
    BY <1>2, IdNat
  <2>2. b[1].id <= m
    BY <1>2 DEF Order, Open
  <2>. QED  BY <2>1, <2>2
<1>8. Sorted(bb) /\ Sorted(p)
  BY <1>3 DEF Order, Sorted
<1>9. Open(bb, m, E \cup {b[1].id})
  BY <1>5 DEF Open
<1>10. Open(p, m, E \cup {b[1].id})
  BY <1>6 DEF Open
<1>. QED  BY <1>1, <1>4, <1>7, <1>8, <1>9, <1>10 DEF Order

\* A hang-up goes to the front of pending.
LEMMA UrgentFacts ==
  ASSUME NEW p \in Seq(Command), NEW h \in Command, NEW pp, Joined(pp, <<h>>, p)
  PROVE  /\ Len(p) \in Nat /\ Len(pp) = 1 + Len(p) /\ pp[1] = h
         /\ \A i \in 1..Len(pp) : i # 1 => i - 1 \in 1..Len(p) /\ pp[i] = p[i - 1]
<1>1. PICK o : o = <<h>>
  OBVIOUS
<1>2. o \in Seq(Command) /\ Len(o) = 1 /\ o[1] = h
  BY <1>1
<1>3. Joined(pp, o, p)
  BY <1>1
<1>4. /\ Len(p) \in Nat /\ Len(pp) = Len(o) + Len(p)
      /\ \A i \in 1..Len(o) : pp[i] = o[i]
      /\ \A i \in 1..Len(pp) : i \notin 1..Len(o) => i - Len(o) \in 1..Len(p) /\ pp[i] = p[i - Len(o)]
  <2>1. o \in Seq(Command)
    BY <1>2
  <2>. QED  BY <1>3, <2>1, JoinedFacts
<1>5. 1 \in 1..1 /\ \A i \in Nat : i # 1 => i \notin 1..1
  OBVIOUS
<1>. QED  BY <1>2, <1>4, <1>5

LEMMA OrderUrgent ==
  ASSUME NEW b \in Seq(Command), NEW p \in Seq(Command), NEW m \in Nat, NEW E, Order(b, p, m, E),
         NEW h \in Command, h.id = m + 1, h.kind = "hangup", NEW pp, Joined(pp, <<h>>, p)
  PROVE  Order(b, pp, m + 1, E)
<1>3. /\ Len(p) \in Nat /\ Len(pp) = 1 + Len(p) /\ pp[1] = h
      /\ \A i \in 1..Len(pp) : i # 1 => i - 1 \in 1..Len(p) /\ pp[i] = p[i - 1]
  BY UrgentFacts
<1>4. /\ \A i \in 1..Len(b) : b[i].id \in Nat
      /\ \A i \in 1..Len(p) : p[i].id \in Nat
  BY IdNat
<1>5. ASSUME NEW i \in 1..Len(pp), NEW j \in 1..Len(pp), i < j PROVE Ahead(pp[i], pp[j])
  <2>0. j # 1 /\ j - 1 \in 1..Len(p) /\ pp[j] = p[j - 1]
    BY <1>3, <1>5
  <2>1. CASE i = 1
    <3>1. p[j - 1].id <= m /\ p[j - 1].id \in Nat
      BY <1>4, <2>0 DEF Order, Open
    <3>. QED  BY <1>3, <2>0, <2>1, <3>1 DEF Ahead
  <2>2. CASE i # 1
    <3>1. i - 1 \in 1..Len(p) /\ pp[i] = p[i - 1] /\ i - 1 < j - 1
      BY <1>3, <1>5, <2>2
    <3>. QED  BY <2>0, <3>1 DEF Order, Sorted
  <2>. QED  BY <2>1, <2>2
<1>6. ASSUME NEW i \in 1..Len(b), NEW j \in 1..Len(pp) PROVE Ahead(b[i], pp[j])
  <2>1. CASE j = 1
    <3>1. b[i].id <= m /\ b[i].id \in Nat
      BY <1>4 DEF Order, Open
    <3>. QED  BY <1>3, <2>1, <3>1 DEF Ahead
  <2>2. CASE j # 1
    BY <1>3, <2>2 DEF Order, Before
  <2>. QED  BY <2>1, <2>2
<1>7. Open(b, m + 1, E)
  BY <1>4 DEF Order, Open
<1>8. ASSUME NEW i \in 1..Len(pp) PROVE pp[i].id <= m + 1 /\ (pp[i].cb => pp[i].id \notin E)
  <2>1. CASE i = 1
    <3>1. \A x \in E : x <= m
      BY DEF Order
    <3>. QED  BY <1>3, <2>1, <3>1
  <2>2. CASE i # 1
    <3>1. i - 1 \in 1..Len(p) /\ pp[i] = p[i - 1]
      BY <1>3, <2>2
    <3>2. p[i - 1].id <= m /\ p[i - 1].id \in Nat /\ (p[i - 1].cb => p[i - 1].id \notin E)
      BY <1>4, <3>1 DEF Order, Open
    <3>. QED  BY <3>1, <3>2
  <2>. QED  BY <2>1, <2>2
<1>9. E \subseteq 1..(m + 1)
  BY DEF Order
<1>10. Sorted(b)
  BY DEF Order
<1>11. Sorted(pp)
  BY <1>5 DEF Sorted
<1>12. Before(b, pp)
  BY <1>6 DEF Before
<1>13. Open(pp, m + 1, E)
  BY <1>8 DEF Open
<1>. QED  BY <1>7, <1>9, <1>10, <1>11, <1>12, <1>13 DEF Order

\* The head of pending goes to the end of busy.
LEMMA OrderSent ==
  ASSUME NEW b \in Seq(Command), NEW p \in Seq(Command), NEW m \in Nat, NEW E, Order(b, p, m, E),
         NEW pp, Shortened(pp, p), NEW c \in Command, Like(p[1], c), NEW bb, Added(bb, b, c)
  PROVE  Order(bb, pp, m, E)
<1>1. /\ Len(p) \in Nat /\ Len(pp) \in Nat /\ Len(p) = Len(pp) + 1
      /\ \A i \in 1..Len(pp) : i + 1 \in 1..Len(p) /\ pp[i] = p[i + 1]
  BY ShortenedFacts
<1>2. /\ Len(b) \in Nat /\ Len(bb) = Len(b) + 1 /\ bb[Len(b) + 1] = c
      /\ \A i \in 1..Len(b) : bb[i] = b[i]
  BY AddedFacts
<1>3. 1 \in 1..Len(p)
  BY <1>1
<1>4. \A i \in 1..Len(bb) : i \notin 1..Len(b) => i = Len(b) + 1
  BY <1>2
<1>5. c.id = p[1].id /\ c.kind = p[1].kind /\ (c.cb => p[1].cb)
  BY DEF Like
<1>6. ASSUME NEW i \in 1..Len(bb), NEW j \in 1..Len(bb), i < j PROVE Ahead(bb[i], bb[j])
  <2>0. i \in 1..Len(b)
    BY <1>2, <1>6
  <2>1. CASE j \in 1..Len(b)
    BY <1>2, <1>6, <2>0, <2>1 DEF Order, Sorted
  <2>2. CASE j \notin 1..Len(b)
    <3>1. Ahead(b[i], p[1])
      BY <1>3, <2>0 DEF Order, Before
    <3>2. bb[j] = c /\ bb[i] = b[i]
      BY <1>2, <1>4, <2>0, <2>2
    <3>. QED  BY <1>5, <3>1, <3>2 DEF Ahead
  <2>. QED  BY <2>1, <2>2
<1>7. ASSUME NEW i \in 1..Len(pp), NEW j \in 1..Len(pp), i < j PROVE Ahead(pp[i], pp[j])
  <2>1. i + 1 < j + 1 /\ i + 1 \in 1..Len(p) /\ j + 1 \in 1..Len(p)
    BY <1>1, <1>7
  <2>. QED  BY <1>1, <2>1 DEF Order, Sorted
<1>8. ASSUME NEW i \in 1..Len(bb), NEW j \in 1..Len(pp) PROVE Ahead(bb[i], pp[j])
  <2>0. j + 1 \in 1..Len(p) /\ pp[j] = p[j + 1] /\ 1 < j + 1
    BY <1>1
  <2>1. CASE i \in 1..Len(b)
    BY <1>2, <2>0, <2>1 DEF Order, Before
  <2>2. CASE i \notin 1..Len(b)
    <3>1. Ahead(p[1], p[j + 1])
      BY <1>3, <2>0 DEF Order, Sorted
    <3>2. bb[i] = c
      BY <1>2, <1>4, <2>2
    <3>. QED  BY <1>5, <2>0, <3>1, <3>2 DEF Ahead
  <2>. QED  BY <2>1, <2>2
<1>9. ASSUME NEW i \in 1..Len(bb) PROVE bb[i].id <= m /\ (bb[i].cb => bb[i].id \notin E)
  <2>1. CASE i \in 1..Len(b)
    BY <1>2, <2>1 DEF Order, Open
  <2>2. CASE i \notin 1..Len(b)
    <3>1. bb[i] = c
      BY <1>2, <1>4, <2>2
    <3>2. p[1].id <= m /\ (p[1].cb => p[1].id \notin E)
      BY <1>3 DEF Order, Open
    <3>. QED  BY <1>5, <3>1, <3>2
  <2>. QED  BY <2>1, <2>2
<1>10. Open(pp, m, E)
  BY <1>1 DEF Order, Open
<1>11. Sorted(bb)
  BY <1>6 DEF Sorted
<1>12. Sorted(pp)
  BY <1>7 DEF Sorted
<1>13. Before(bb, pp)
  BY <1>8 DEF Before
<1>14. Open(bb, m, E)
  BY <1>9 DEF Open
<1>. QED  BY <1>10, <1>11, <1>12, <1>13, <1>14 DEF Order

\* The elements of r stood at the places at of q, which are all of K.
Places(at, r, q, K) ==
  /\ at \in [1..Len(r) -> K]
  /\ \A i \in 1..Len(r) : r[i] = q[at[i]]
  /\ \A i, j \in 1..Len(r) : i < j => at[i] < at[j]
  /\ \A k \in K : \E i \in 1..Len(r) : at[i] = k

LEMMA ThinnedFacts ==
  ASSUME NEW S, NEW q \in Seq(S), NEW r, NEW K, K \subseteq 1..Len(q), Thinned(r, q, K)
  PROVE  /\ r \in Seq(S) /\ Len(r) = Cardinality(K) /\ Len(r) \in Nat
         /\ \E at : Places(at, r, q, K)
<1>0. Len(q) \in Nat /\ \A i \in 1..Len(q) : q[i] \in S
  BY SeqFacts
<1>1. IsFiniteSet(1..Len(q))
  BY <1>0, FS_Interval
<1>2. IsFiniteSet(K)
  BY <1>1, FS_Subset
<1>3. PICK c : c = Cardinality(K)
  OBVIOUS
<1>4. c \in Nat
  BY <1>2, <1>3, FS_CardinalityType
<1>5. PICK at \in [1..c -> K] :
        /\ \A i, j \in 1..c : i < j => at[i] < at[j]
        /\ \A k \in K : \E i \in 1..c : at[i] = k
        /\ r = [i \in 1..c |-> q[at[i]]]
  BY <1>3 DEF Thinned
<1>6. \A i \in 1..c : q[at[i]] \in S
  <2>1. \A i \in 1..c : at[i] \in 1..Len(q)
    BY <1>5
  <2>. QED  BY <1>0, <2>1
<1>7. r \in Seq(S) /\ Len(r) = c
  BY <1>4, <1>5, <1>6
<1>8. \A i \in 1..c : r[i] = q[at[i]]
  BY <1>5
<1>9. /\ \A i, j \in 1..c : i < j => at[i] < at[j]
      /\ \A k \in K : \E i \in 1..c : at[i] = k
  BY <1>5
<1>10. at \in [1..c -> K] /\ Len(r) = c
  BY <1>5, <1>7
<1>11. Places(at, r, q, K)
  BY <1>8, <1>9, <1>10 DEF Places
<1>. QED  BY <1>3, <1>4, <1>7, <1>11

\* A client leaves: its commands are told their end.
LEMMA OrderLeft ==
  ASSUME NEW b \in Seq(Command), NEW p \in Seq(Command), NEW m \in Nat, NEW E, Order(b, p, m, E),
         NEW u, NEW bb, Alike(b, bb), \A i \in 1..Len(b) : bb[i].cb => b[i].ctx # u,
         NEW pp, Thinned(pp, p, Others(p, u)), NEW EE,
         EE = E \cup {c.id : c \in Mine(b, u) \cup Mine(p, u)}
  PROVE  Order(bb, pp, m, EE)
<1>1. /\ pp \in Seq(Command) /\ Len(pp) \in Nat
      /\ \E at : Places(at, pp, p, Others(p, u))
  <2>1. Others(p, u) \subseteq 1..Len(p)
    BY DEF Others
  <2>. QED  BY <2>1, ThinnedFacts
<1>0. PICK at : Places(at, pp, p, Others(p, u))
  BY <1>1
<1>2. /\ at \in [1..Len(pp) -> Others(p, u)]
      /\ \A i \in 1..Len(pp) : pp[i] = p[at[i]]
      /\ \A i, j \in 1..Len(pp) : i < j => at[i] < at[j]
  BY <1>0 DEF Places
<1>3. \A i \in 1..Len(pp) : at[i] \in 1..Len(p) /\ p[at[i]].ctx # u
  BY <1>2 DEF Others
<1>4. /\ Len(b) \in Nat /\ Len(p) \in Nat /\ DOMAIN b = 1..Len(b) /\ DOMAIN p = 1..Len(p)
      /\ \A i \in 1..Len(b) : b[i].id \in Nat /\ b[i].id > 0
      /\ \A i \in 1..Len(p) : p[i].id \in Nat /\ p[i].id > 0
  BY IdNat, SeqFacts
<1>5. ASSUME NEW x \in EE
      PROVE  \/ x \in E
             \/ \E i \in 1..Len(b) : x = b[i].id /\ b[i].ctx = u
             \/ \E i \in 1..Len(p) : x = p[i].id /\ p[i].ctx = u
  BY <1>4, Zenon DEF Mine
<1>6. EE \subseteq 1..m
  <2>1. SUFFICES ASSUME NEW x \in EE PROVE x \in 1..m
    OBVIOUS
  <2>2. CASE x \in E
    BY <2>2 DEF Order
  <2>3. CASE \E i \in 1..Len(b) : x = b[i].id /\ b[i].ctx = u
    BY <1>4, <2>3 DEF Order, Open
  <2>4. CASE \E i \in 1..Len(p) : x = p[i].id /\ p[i].ctx = u
    BY <1>4, <2>4 DEF Order, Open
  <2>. QED  BY <1>5, <2>2, <2>3, <2>4
\* Two different commands have two different numbers.
<1>7. \A i \in 1..Len(b), j \in 1..Len(p) : b[i].id # p[j].id
  BY DEF Order, Before, Ahead
<1>8. \A i, j \in 1..Len(b) : i # j => b[i].id # b[j].id
  <2>1. SUFFICES ASSUME NEW i \in 1..Len(b), NEW j \in 1..Len(b), i # j PROVE b[i].id # b[j].id
    OBVIOUS
  <2>2. i < j \/ j < i
    BY <1>4, <2>1
  <2>. QED  BY <2>2 DEF Order, Sorted, Ahead
<1>9. \A i, j \in 1..Len(p) : i # j => p[i].id # p[j].id
  <2>1. SUFFICES ASSUME NEW i \in 1..Len(p), NEW j \in 1..Len(p), i # j PROVE p[i].id # p[j].id
    OBVIOUS
  <2>2. i < j \/ j < i
    BY <1>4, <2>1
  <2>. QED  BY <2>2 DEF Order, Sorted, Ahead
<1>10. ASSUME NEW i \in 1..Len(bb), bb[i].cb PROVE bb[i].id \notin EE
  <2>1. i \in 1..Len(b) /\ bb[i].id = b[i].id /\ b[i].cb /\ b[i].ctx # u
    BY <1>10 DEF Alike, Like
  <2>2. b[i].id \notin E
    BY <2>1 DEF Order, Open
  <2>3. \A j \in 1..Len(b) : b[j].ctx = u => b[i].id # b[j].id
    BY <1>8, <2>1
  <2>. QED  BY <1>5, <1>7, <2>1, <2>2, <2>3
<1>11. ASSUME NEW i \in 1..Len(pp), pp[i].cb PROVE pp[i].id \notin EE
  <2>1. at[i] \in 1..Len(p) /\ pp[i] = p[at[i]] /\ p[at[i]].ctx # u
    BY <1>2, <1>3
  <2>2. p[at[i]].id \notin E
    BY <1>11, <2>1 DEF Order, Open
  <2>3. \A j \in 1..Len(p) : p[j].ctx = u => p[at[i]].id # p[j].id
    BY <1>9, <2>1
  <2>. QED  BY <1>5, <1>7, <2>1, <2>2, <2>3
<1>12. Open(bb, m, EE)
  BY <1>10 DEF Order, Open, Alike, Like
<1>13. Open(pp, m, EE)
  BY <1>2, <1>3, <1>11 DEF Order, Open
<1>14. Sorted(bb)
  BY DEF Order, Sorted, Alike, Like, Ahead
<1>15. Sorted(pp)
  BY <1>2, <1>3 DEF Order, Sorted
<1>16. Before(bb, pp)
  BY <1>2, <1>3 DEF Order, Before, Alike, Like, Ahead
<1>. QED  BY <1>6, <1>12, <1>13, <1>14, <1>15, <1>16 DEF Order

\* The queues stay in order.
Ordered == Order(busy, pending, n, ended)

LEMMA OrderedInit == Init => Ordered
<1>1. SUFFICES ASSUME Init PROVE Ordered
  OBVIOUS
<1>2. PICK s : s = Submitted(0, <<"first">>, Daemon)
  OBVIOUS
<1>3. <<"first">> \in Seq(Origin)
  <2>1. "first" \in Origin
    BY DEF Origin
  <2>. QED  BY <2>1
<1>4. s \in Seq(NewCommand) /\ Numbered(s, 0, 0 + Len(s))
  BY <1>2, <1>3, SubmittedNew
<1>5. PICK e : e = <<>>
  OBVIOUS
<1>6. e \in Seq(Command) /\ e \in Seq(NewCommand) /\ Len(e) = 0
  BY <1>5
<1>7. Order(e, e, 0, {})
  BY <1>6 DEF Order, Sorted, Before, Open
<1>8. CASE ReadyAtStart
  <2>1. pending = s /\ n = Len(s) /\ busy = e /\ ended = {}
    BY <1>1, <1>2, <1>5, <1>8 DEF Init
  <2>2. Numbered(s, 0, Len(s)) /\ 0 \in Nat
    <3>1. Len(s) \in Nat
      BY <1>4, SeqFacts
    <3>2. 0 + Len(s) = Len(s)
      BY <3>1
    <3>. QED  BY <1>4, <3>2
  <2>3. Joined(s, e, s)
    BY <1>4, <1>5 DEF Joined
  <2>4. Order(e, s, Len(s), {})
    <3>1. s \in Seq(NewCommand) /\ e \in Seq(Command)
      BY <1>4, <1>6
    <3>. QED  BY <1>7, <2>2, <2>3, <3>1, OrderJoined
  <2>. QED  BY <2>1, <2>4 DEF Ordered
<1>9. CASE ~ReadyAtStart
  <2>1. pending = e /\ n = 0 /\ busy = e /\ ended = {}
    BY <1>1, <1>5, <1>6, <1>9 DEF Init
  <2>. QED  BY <1>7, <2>1 DEF Ordered
<1>. QED  BY <1>8, <1>9

LEMMA OrderedStep ==
  ASSUME TypeOK, Ordered, Moves
  PROVE  Ordered'
<1>0. busy \in Seq(Command) /\ pending \in Seq(Command) /\ n \in Nat /\ Order(busy, pending, n, ended)
  BY DEF TypeOK, Ordered
<1>1. CASE Stays
  BY <1>0, <1>1, OrderAlike DEF Stays, Ordered
<1>2. CASE Halves
  <2>1. Alike(busy, busy') /\ Alike(pending, pending')
    BY <1>0, <1>2, AlikeSame DEF Halves
  <2>. QED  BY <1>0, <1>2, <2>1, OrderAlike DEF Halves, Ordered
<1>3. CASE Sends
  <2>1. PICK c \in Command : Like(pending[1], c) /\ Added(busy', busy, c)
    BY <1>3 DEF Sends
  <2>2. Shortened(pending', pending) /\ n' = n /\ ended' = ended
    BY <1>3 DEF Sends
  <2>3. Order(busy', pending', n, ended)
    BY <1>0, <2>1, <2>2, OrderSent
  <2>. QED  BY <2>2, <2>3 DEF Ordered
<1>4. CASE Adds
  <2>1. PICK s \in Seq(NewCommand) : Numbered(s, n, n') /\ Joined(pending', pending, s)
    BY <1>4 DEF Adds
  <2>2. Order(busy, pending', n', ended)
    BY <1>0, <2>1, OrderJoined
  <2>. QED  BY <1>4, <2>2 DEF Adds, Ordered
<1>5. ASSUME Ends
      PROVE  Order(busy', pending, n, ended') /\ busy' \in Seq(Command)
  <2>1. Shortened(busy', busy) /\ ended' = ended \cup {busy[1].id}
    BY <1>5 DEF Ends
  <2>2. PICK bb : bb = busy'
    OBVIOUS
  <2>3. Order(bb, pending, n, ended \cup {busy[1].id}) /\ bb \in Seq(Command)
    BY <1>0, <2>1, <2>2, OrderShortened
  <2>. QED  BY <2>1, <2>2, <2>3
<1>6. CASE Finishes
  <2>1. PICK s \in Seq(NewCommand) : Numbered(s, n, n') /\ Joined(pending', pending, s)
    BY <1>6 DEF Finishes
  <2>2. Order(busy', pending, n, ended') /\ busy' \in Seq(Command)
    BY <1>5, <1>6 DEF Finishes
  <2>3. Order(busy', pending', n', ended')
    BY <1>0, <2>1, <2>2, OrderJoined
  <2>. QED  BY <2>3 DEF Ordered
<1>7. CASE Preempts
  <2>1. PICK h \in NewCommand, q \in Seq(Command), s \in Seq(NewCommand) :
          Urgent(h, q) /\ Numbered(s, n + 1, n') /\ Joined(pending', q, s)
    BY <1>7 DEF Preempts
  <2>2. Order(busy', pending, n, ended') /\ busy' \in Seq(Command)
    BY <1>5, <1>7 DEF Preempts
  <2>3. h \in Command /\ h.id = n + 1 /\ h.kind = "hangup" /\ Joined(q, <<h>>, pending)
    BY <2>1 DEF Urgent, NewCommand
  <2>4. Order(busy', q, n + 1, ended')
    BY <1>0, <2>2, <2>3, OrderUrgent
  <2>5. n + 1 \in Nat
    BY <1>0
  <2>6. Order(busy', pending', n', ended')
    BY <2>1, <2>2, <2>4, <2>5, OrderJoined
  <2>. QED  BY <2>6 DEF Ordered
<1>8. CASE \E u \in Users : Leaves(u)
  <2>1. PICK u \in Users : Leaves(u)
    BY <1>8
  <2>2. Order(busy', pending', n, ended')
    BY <1>0, <2>1, OrderLeft DEF Leaves
  <2>. QED  BY <2>1, <2>2 DEF Leaves, Ordered
<1>. QED  BY <1>1, <1>2, <1>3, <1>4, <1>6, <1>7, <1>8 DEF Moves

-----------------------------------------------------------------------------
(* Answers and the commands they answer. *)

\* Whatever the modem still owes is for the executing command or, if there is
\* none, a prompt for the command at the head of pending.
Matched(b, p, ow) ==
  \A i \in 1..Len(ow) :
    /\ b # <<>> => ow[i].id = b[1].id
    /\ b = <<>> => p # <<>> /\ ow[i].id = p[1].id /\ ~ow[i].last

Answers == ~early /\ ~stray => Matched(busy, pending, owed)

\* Without two-line messages there are no prompts.
NoPrompts ==
  Kinds \cap TwoLine = {} =>
    /\ ~stray
    /\ \A i \in 1..Len(pending) : pending[i].left <= 1
    /\ \A i \in 1..Len(owed) : owed[i].last

LEMMA AlikeEmpty ==
  ASSUME NEW s \in Seq(Command), NEW t \in Seq(Command), Alike(s, t)
  PROVE  (t = <<>> <=> s = <<>>) /\ (s # <<>> => t[1].id = s[1].id)
<1>1. (s = <<>> <=> Len(s) = 0) /\ (t = <<>> <=> Len(t) = 0) /\ (s # <<>> => 1 \in 1..Len(s))
  BY SeqFacts
<1>. QED  BY <1>1 DEF Alike, Like

LEMMA JoinedHead ==
  ASSUME NEW p \in Seq(Command), p # <<>>, NEW s \in Seq(NewCommand), NEW pp, Joined(pp, p, s)
  PROVE  pp # <<>> /\ pp[1] = p[1]
<1>1. s \in Seq(Command)
  <2>1. NewCommand \subseteq Command
    BY DEF NewCommand
  <2>. QED  BY <2>1
<1>2. 1 \in 1..Len(p) /\ Len(p) \in Nat
  BY SeqFacts
<1>3. /\ pp \in Seq(Command) /\ Len(s) \in Nat /\ Len(pp) = Len(p) + Len(s)
      /\ \A i \in 1..Len(p) : pp[i] = p[i]
  BY <1>1, JoinedFacts
<1>4. Len(pp) # 0
  BY <1>2, <1>3
<1>5. pp # <<>>
  BY <1>3, <1>4, SeqFacts
<1>. QED  BY <1>2, <1>3, <1>5

\* The first place of what is left, if it stays, is the first.
LEMMA ThinnedHead ==
  ASSUME NEW p \in Seq(Command), NEW K, K \subseteq 1..Len(p), 1 \in K, NEW pp, Thinned(pp, p, K)
  PROVE  pp # <<>> /\ pp[1] = p[1]
<1>1. /\ pp \in Seq(Command) /\ Len(pp) \in Nat
      /\ \E at : Places(at, pp, p, K)
  BY ThinnedFacts
<1>0. PICK at : Places(at, pp, p, K)
  BY <1>1
<1>2. /\ at \in [1..Len(pp) -> K]
      /\ \A i \in 1..Len(pp) : pp[i] = p[at[i]]
      /\ \A i, j \in 1..Len(pp) : i < j => at[i] < at[j]
      /\ \A k \in K : \E i \in 1..Len(pp) : at[i] = k
  BY <1>0 DEF Places
<1>3. PICK i \in 1..Len(pp) : at[i] = 1
  BY <1>2
<1>4. 1 \in 1..Len(pp) /\ at[1] \in K
  BY <1>1, <1>2, <1>3
<1>5. at[1] \in Nat /\ at[1] >= 1
  <2>1. at[1] \in 1..Len(p) /\ Len(p) \in Nat
    BY <1>4, SeqFacts
  <2>. QED  BY <2>1
<1>6. i = 1
  <2>1. SUFFICES ASSUME i # 1 PROVE FALSE
    OBVIOUS
  <2>2. 1 < i
    BY <1>1, <2>1
  <2>3. at[1] < at[i]
    BY <1>2, <1>4, <2>2
  <2>. QED  BY <1>3, <1>5, <2>3
<1>7. pp # <<>>
  <2>1. Len(pp) # 0
    BY <1>1, <1>4
  <2>. QED  BY <1>1, <2>1, SeqFacts
<1>. QED  BY <1>2, <1>3, <1>6, <1>7

LEMMA AnswersStep ==
  ASSUME IInv, TypeOK', Answers, Moves, Remembers
  PROVE  Answers'
<1>0. SUFFICES ASSUME ~early', ~stray' PROVE Matched(busy', pending', owed')
  BY DEF Answers
<1>1. ~early /\ ~stray
  BY <1>0 DEF Remembers
<1>2. \A i \in 1..Len(owed) :
        /\ busy # <<>> => owed[i].id = busy[1].id
        /\ busy = <<>> => pending # <<>> /\ owed[i].id = pending[1].id /\ ~owed[i].last
  BY <1>1 DEF Answers, Matched
<1>3. /\ busy \in Seq(Command) /\ pending \in Seq(Command) /\ owed \in Seq(Owed)
      /\ busy' \in Seq(Command) /\ pending' \in Seq(Command) /\ owed' \in Seq(Owed)
  BY DEF IInv, TypeOK
<1>4. want => busy = <<>>
  BY <1>1 DEF IInv, Engine, Flight
<1>5. ASSUME Within(owed', owed), NEW i \in 1..Len(owed')
      PROVE  /\ busy # <<>> => owed'[i].id = busy[1].id
             /\ busy = <<>> => pending # <<>> /\ owed'[i].id = pending[1].id /\ ~owed'[i].last
  BY <1>2, <1>5 DEF Within
<1>6. CASE Stays
  <2>1. /\ busy' = <<>> <=> busy = <<>>
        /\ busy # <<>> => busy'[1].id = busy[1].id
    BY <1>3, <1>6, AlikeEmpty DEF Stays
  <2>2. /\ pending' = <<>> <=> pending = <<>>
        /\ pending # <<>> => pending'[1].id = pending[1].id
    BY <1>3, <1>6, AlikeEmpty DEF Stays
  <2>3. Within(owed', owed)
    BY <1>6 DEF Stays
  <2>. QED  BY <1>5, <2>1, <2>2, <2>3 DEF Matched
<1>7. ASSUME Halves \/ Sends, NEW i \in 1..Len(owed')
      PROVE  owed'[i].id = pending[1].id /\ (~owed'[i].last \/ pending[1].left = 1)
  <2>1. busy = <<>> /\ Added(owed', owed, Answer(pending[1]))
    BY <1>4, <1>7 DEF Halves, Sends
  <2>2. pending # <<>>
    BY <1>7 DEF Halves, Sends, Shortened
  <2>3. pending[1] \in Command
    BY <1>3, <2>2, SeqFacts
  <2>4. Answer(pending[1]) \in Owed
    <3>1. pending[1].id \in Ids
      BY <2>3 DEF Command
    <3>. QED  BY <3>1 DEF Answer, Owed
  <2>5. Answer(pending[1]).id = pending[1].id /\ Answer(pending[1]).last = (pending[1].left = 1)
    BY DEF Answer
  <2>6. PICK a : a = Answer(pending[1])
    OBVIOUS
  <2>7. PICK ow : ow = owed'
    OBVIOUS
  <2>8. a \in Owed /\ Added(ow, owed, a)
    BY <2>1, <2>4, <2>6, <2>7
  <2>9. /\ Len(owed) \in Nat /\ Len(ow) = Len(owed) + 1 /\ ow[Len(owed) + 1] = a
        /\ \A k \in 1..Len(owed) : ow[k] = owed[k]
    BY <1>3, <2>8, AddedFacts
  <2>10. CASE i \in 1..Len(owed)
    BY <1>2, <2>1, <2>7, <2>9, <2>10
  <2>11. CASE i \notin 1..Len(owed)
    <3>1. i = Len(owed) + 1
      BY <1>7, <2>7, <2>9, <2>11
    <3>2. owed'[i] = a
      BY <2>7, <2>9, <3>1
    <3>. QED  BY <2>5, <2>6, <3>2
  <2>. QED  BY <2>10, <2>11
<1>8. CASE Halves
  <2>1. busy = <<>> /\ busy' = busy /\ pending # <<>> /\ Alike(pending, pending')
    BY <1>4, <1>8 DEF Halves
  <2>2. pending' # <<>> /\ pending'[1].id = pending[1].id
    BY <1>3, <2>1, AlikeEmpty
  <2>3. pending[1].left # 1
    <3>1. pending[1].left > 1
      BY <1>8 DEF Halves
    <3>2. pending[1] \in Command
      BY <1>3, <2>1, SeqFacts
    <3>3. pending[1].left \in 0..2
      BY <3>2 DEF Command
    <3>. QED  BY <3>1, <3>3
  <2>. QED  BY <1>7, <1>8, <2>1, <2>2, <2>3 DEF Matched
<1>9. CASE Sends
  <2>1. PICK c \in Command : Like(pending[1], c) /\ Added(busy', busy, c)
    BY <1>9 DEF Sends
  <2>2. busy = <<>>
    BY <1>4, <1>9 DEF Sends
  <2>3. PICK bb : bb = busy'
    OBVIOUS
  <2>4. Len(bb) = 1 /\ bb[1] = c
    <3>1. Added(bb, busy, c)
      BY <2>1, <2>3
    <3>2. Len(bb) = Len(busy) + 1 /\ bb[Len(busy) + 1] = c
      BY <1>3, <3>1, AddedFacts
    <3>3. Len(busy) = 0
      BY <2>2
    <3>. QED  BY <3>2, <3>3
  <2>5. busy' # <<>> /\ busy'[1].id = pending[1].id
    <3>1. bb # <<>>
      <4>1. bb \in Seq(Command)
        BY <1>3, <2>3
      <4>2. bb = <<>> <=> Len(bb) = 0
        BY <4>1, SeqFacts
      <4>. QED  BY <2>4, <4>2
    <3>. QED  BY <2>1, <2>3, <2>4, <3>1 DEF Like
  <2>. QED  BY <1>7, <1>9, <2>5 DEF Matched
<1>10. CASE Adds
  <2>1. PICK s \in Seq(NewCommand) : Joined(pending', pending, s)
    BY <1>10 DEF Adds
  <2>2. busy' = busy /\ Within(owed', owed)
    BY <1>10 DEF Adds
  <2>3. pending # <<>> => pending' # <<>> /\ pending'[1] = pending[1]
    BY <1>3, <2>1, JoinedHead
  <2>. QED  BY <1>5, <2>2, <2>3 DEF Matched
<1>11. CASE Ends
  <2>1. busy # <<>> /\ Within(owed', owed) /\ busy[1].id \notin OwedIds(owed')
    BY <1>0, <1>11 DEF Ends, Shortened
  <2>2. DOMAIN owed' = 1..Len(owed')
    BY <1>3, SeqFacts
  <2>3. ASSUME NEW i \in 1..Len(owed') PROVE FALSE
    <3>1. owed'[i].id = busy[1].id
      BY <1>5, <2>1
    <3>2. owed'[i].id \in OwedIds(owed')
      BY <2>2, Zenon DEF OwedIds
    <3>. QED  BY <2>1, <3>1, <3>2
  <2>. QED  BY <2>3 DEF Matched
<1>12. CASE \E u \in Users : Leaves(u)
  <2>1. PICK u \in Users : Leaves(u)
    BY <1>12
  <2>2. Alike(busy, busy') /\ owed' = owed /\ Thinned(pending', pending, Others(pending, u))
    BY <2>1 DEF Leaves
  <2>3. /\ busy' = <<>> <=> busy = <<>>
        /\ busy # <<>> => busy'[1].id = busy[1].id
    BY <1>3, <2>2, AlikeEmpty
  <2>4. ASSUME busy = <<>>, NEW i \in 1..Len(owed)
        PROVE  pending' # <<>> /\ pending'[1] = pending[1]
    <3>1. pending # <<>> /\ owed[i].id = pending[1].id
      BY <1>2, <2>4
    <3>2. 1 \in 1..Len(pending) /\ DOMAIN pending = 1..Len(pending) /\ DOMAIN owed = 1..Len(owed)
      BY <1>3, <3>1, SeqFacts
    <3>3. pending[1].id \in OwedIds(owed)
      BY <3>1, <3>2, Zenon DEF OwedIds
    <3>4. pending[1].ctx # u
      <4>1. pending[1].ctx = u => pending[1] \in Mine(pending, u)
        BY <3>2, Zenon DEF Mine
      <4>2. \A c \in Mine(pending, u) : c.id \notin OwedIds(owed)
        BY <1>0, <2>1 DEF Leaves
      <4>. QED  BY <3>3, <4>1, <4>2
    <3>5. 1 \in Others(pending, u) /\ Others(pending, u) \subseteq 1..Len(pending)
      BY <3>2, <3>4 DEF Others
    <3>. QED  BY <1>3, <2>2, <3>5, ThinnedHead
  <2>. QED  BY <1>2, <2>2, <2>3, <2>4 DEF Matched
<1>. QED  BY <1>6, <1>8, <1>9, <1>10, <1>11, <1>12 DEF Moves, Finishes, Preempts

LEMMA NewSingle ==
  ASSUME Kinds \cap TwoLine = {}, NEW c \in NewCommand
  PROVE  c \in Command /\ c.left <= 1
<1>1. c \in Command /\ ~(c.left > 1)
  BY DEF NewCommand
<1>2. c.left \in 0..2
  BY <1>1 DEF Command
<1>. QED  BY <1>1, <1>2

LEMMA JoinedSingle ==
  ASSUME Kinds \cap TwoLine = {}, NEW p \in Seq(Command), \A i \in 1..Len(p) : p[i].left <= 1,
         NEW s \in Seq(NewCommand), NEW pp, Joined(pp, p, s)
  PROVE  pp \in Seq(Command) /\ \A i \in 1..Len(pp) : pp[i].left <= 1
<1>1. s \in Seq(Command)
  <2>1. NewCommand \subseteq Command
    BY DEF NewCommand
  <2>. QED  BY <2>1
<1>2. /\ pp \in Seq(Command)
      /\ \A i \in 1..Len(p) : pp[i] = p[i]
      /\ \A i \in 1..Len(pp) : i \notin 1..Len(p) => i - Len(p) \in 1..Len(s) /\ pp[i] = s[i - Len(p)]
  BY <1>1, JoinedFacts
<1>3. \A i \in 1..Len(s) : s[i].left <= 1
  BY SeqFacts, NewSingle
<1>. QED  BY <1>2, <1>3

LEMMA NoPromptsStep ==
  ASSUME TypeOK, TypeOK', NoPrompts, Moves, Remembers
  PROVE  NoPrompts'
<1>0. SUFFICES ASSUME Kinds \cap TwoLine = {}
               PROVE  /\ ~stray'
                      /\ \A i \in 1..Len(pending') : pending'[i].left <= 1
                      /\ \A i \in 1..Len(owed') : owed'[i].last
  BY DEF NoPrompts
<1>1. /\ ~stray /\ \A i \in 1..Len(owed) : owed[i].last
      /\ \A i \in 1..Len(pending) : pending[i].left <= 1
  BY <1>0 DEF NoPrompts
<1>2. ~stray'
  BY <1>1 DEF Remembers
<1>3. /\ pending \in Seq(Command) /\ owed \in Seq(Owed)
      /\ pending' \in Seq(Command) /\ owed' \in Seq(Owed)
  BY DEF TypeOK
<1>4. Within(owed', owed) => \A i \in 1..Len(owed') : owed'[i].last
  BY <1>1 DEF Within
<1>5. ASSUME Alike(pending, pending'), NEW i \in 1..Len(pending') PROVE pending'[i].left <= 1
  <2>1. i \in 1..Len(pending) /\ pending'[i].left <= pending[i].left
    BY <1>5 DEF Alike, Like
  <2>2. pending[i] \in Command /\ pending'[i] \in Command
    BY <1>3, <1>5, <2>1, SeqFacts
  <2>3. pending[i].left \in 0..2 /\ pending'[i].left \in 0..2
    BY <2>2 DEF Command
  <2>. QED  BY <1>1, <2>1, <2>3
<1>6. CASE Stays
  BY <1>2, <1>4, <1>5, <1>6 DEF Stays
<1>7. CASE Halves
  <2>1. pending # <<>> /\ pending[1].left > 1
    BY <1>7 DEF Halves
  <2>2. 1 \in 1..Len(pending) /\ pending[1] \in Command
    BY <1>3, <2>1, SeqFacts
  <2>3. pending[1].left \in 0..2 /\ pending[1].left <= 1
    BY <1>1, <2>2 DEF Command
  <2>. QED  BY <2>1, <2>3
<1>8. CASE Sends
  <2>1. Shortened(pending', pending) /\ pending[1].left = 1 /\ Added(owed', owed, Answer(pending[1]))
    BY <1>8 DEF Sends
  <2>2. PICK p : p = pending'
    OBVIOUS
  <2>3. \A i \in 1..Len(p) : i + 1 \in 1..Len(pending) /\ p[i] = pending[i + 1]
    BY <1>3, <2>1, <2>2, ShortenedFacts
  <2>4. PICK a : a = Answer(pending[1])
    OBVIOUS
  <2>5. pending[1] \in Command
    BY <1>3, <2>1, SeqFacts DEF Shortened
  <2>6. a \in Owed /\ a.last
    <3>1. pending[1].id \in Ids
      BY <2>5 DEF Command
    <3>. QED  BY <2>1, <2>4, <3>1 DEF Answer, Owed
  <2>7. PICK ow : ow = owed'
    OBVIOUS
  <2>8. Added(ow, owed, a)
    BY <2>1, <2>4, <2>7
  <2>9. /\ Len(owed) \in Nat /\ Len(ow) = Len(owed) + 1 /\ ow[Len(owed) + 1] = a
        /\ \A k \in 1..Len(owed) : ow[k] = owed[k]
    BY <1>3, <2>6, <2>8, AddedFacts
  <2>10. ASSUME NEW i \in 1..Len(ow) PROVE ow[i].last
    <3>1. CASE i \in 1..Len(owed)
      BY <1>1, <2>9, <3>1
    <3>2. CASE i \notin 1..Len(owed)
      <4>1. i = Len(owed) + 1
        BY <2>9, <3>2
      <4>. QED  BY <2>6, <2>9, <4>1
    <3>. QED  BY <3>1, <3>2
  <2>. QED  BY <1>1, <1>2, <2>2, <2>3, <2>7, <2>10
<1>9. CASE Adds \/ Finishes
  <2>1. PICK s \in Seq(NewCommand) : Joined(pending', pending, s)
    BY <1>9 DEF Adds, Finishes
  <2>2. \A i \in 1..Len(pending') : pending'[i].left <= 1
    BY <1>0, <1>1, <1>3, <2>1, JoinedSingle
  <2>3. Within(owed', owed)
    BY <1>9 DEF Adds, Finishes, Ends
  <2>. QED  BY <1>2, <1>4, <2>2, <2>3
<1>10. CASE Preempts
  <2>1. PICK h \in NewCommand, q \in Seq(Command), s \in Seq(NewCommand) :
          Urgent(h, q) /\ Joined(pending', q, s)
    BY <1>10 DEF Preempts
  <2>3. h \in Command /\ h.left <= 1
    BY <1>0, NewSingle
  <2>5. Joined(q, <<h>>, pending)
    BY <2>1 DEF Urgent
  <2>6. q[1] = h /\ \A i \in 1..Len(q) : i # 1 => i - 1 \in 1..Len(pending) /\ q[i] = pending[i - 1]
    BY <1>3, <2>3, <2>5, UrgentFacts
  <2>7. \A i \in 1..Len(q) : q[i].left <= 1
    BY <1>1, <2>3, <2>6
  <2>8. \A i \in 1..Len(pending') : pending'[i].left <= 1
    <3>1. Joined(pending', q, s) /\ q \in Seq(Command)
      BY <2>1
    <3>. QED  BY <1>0, <2>7, <3>1, JoinedSingle
  <2>9. Within(owed', owed)
    BY <1>10 DEF Preempts, Ends
  <2>. QED  BY <1>2, <1>4, <2>8, <2>9
<1>11. CASE \E u \in Users : Leaves(u)
  <2>1. PICK u \in Users : Leaves(u)
    BY <1>11
  <2>2. owed' = owed /\ Thinned(pending', pending, Others(pending, u))
    BY <2>1 DEF Leaves
  <2>3. Others(pending, u) \subseteq 1..Len(pending)
    BY DEF Others
  <2>4. \E at : Places(at, pending', pending, Others(pending, u))
    BY <1>3, <2>2, <2>3, ThinnedFacts
  <2>5. ASSUME NEW i \in 1..Len(pending') PROVE pending'[i].left <= 1
    BY <1>1, <2>3, <2>4 DEF Places
  <2>. QED  BY <1>1, <1>2, <2>2, <2>5
<1>. QED  BY <1>6, <1>7, <1>8, <1>9, <1>10, <1>11 DEF Moves

\* The inductive invariant of the order.
OInv == IInv /\ Ordered /\ Answers /\ NoPrompts

\* The queues are in order, and what the modem owes is for the executing command.
THEOREM OrderInductive == Spec => []OInv
<1>1. Init => OInv
  <2>1. SUFFICES ASSUME Init PROVE OInv
    OBVIOUS
  <2>2. IInv /\ Ordered
    BY <2>1, SafeInit, OrderedInit
  <2>3. owed = <<>> /\ ~stray
    BY <2>1 DEF Init
  <2>4. Len(owed) = 0
    BY <2>3
  <2>5. Answers
    BY <2>4 DEF Answers, Matched
  <2>6. ASSUME Kinds \cap TwoLine = {}, NEW i \in 1..Len(pending) PROVE pending[i].left <= 1
    <3>1. PICK s : s = Submitted(0, <<"first">>, Daemon)
      OBVIOUS
    <3>2. <<"first">> \in Seq(Origin)
      <4>1. "first" \in Origin
        BY DEF Origin
      <4>. QED  BY <4>1
    <3>3. s \in Seq(NewCommand)
      BY <3>1, <3>2, SubmittedNew
    <3>4. CASE ReadyAtStart
      <4>1. pending = s
        BY <2>1, <3>1, <3>4 DEF Init
      <4>2. pending[i] \in NewCommand
        BY <2>6, <3>3, <4>1, SeqFacts
      <4>. QED  BY <2>6, <4>2, NewSingle
    <3>5. CASE ~ReadyAtStart
      BY <2>1, <2>6, <3>5 DEF Init
    <3>. QED  BY <3>4, <3>5
  <2>7. NoPrompts
    BY <2>3, <2>4, <2>6 DEF NoPrompts
  <2>. QED  BY <2>2, <2>5, <2>7 DEF OInv
<1>2. OInv /\ IInv' /\ [Next]_vars => OInv'
  <2>1. SUFFICES ASSUME OInv, IInv', [Next]_vars PROVE OInv'
    OBVIOUS
  <2>2. TypeOK /\ TypeOK' /\ IInv
    BY <2>1 DEF OInv, IInv
  <2>3. Moves /\ Remembers
    BY <2>1, <2>2, StepMoves
  <2>4. Ordered'
    BY <2>1, <2>2, <2>3, OrderedStep DEF OInv
  <2>5. Answers'
    BY <2>1, <2>2, <2>3, AnswersStep DEF OInv
  <2>6. NoPrompts'
    BY <2>1, <2>2, <2>3, NoPromptsStep DEF OInv
  <2>. QED  BY <2>1, <2>4, <2>5, <2>6 DEF OInv
<1>. QED  BY <1>1, <1>2, Inductive, PTL DEF Spec

LEMMA QueueFacts ==
  ASSUME OInv, NEW q, q = busy \o pending
  PROVE  /\ DOMAIN q = 1..Len(q) /\ Len(q) \in Nat
         /\ \A i \in 1..Len(q) : q[i].cb => q[i].id \notin ended
         /\ \A i, j \in 1..Len(q) : i < j => Ahead(q[i], q[j])
<1>1. busy \in Seq(Command) /\ pending \in Seq(Command) /\ Order(busy, pending, n, ended)
  BY DEF OInv, IInv, TypeOK, Ordered
<1>2. Joined(q, busy, pending)
  BY DEF Joined
<1> DEFINE k == Len(busy)
<1>3. /\ q \in Seq(Command) /\ k \in Nat /\ Len(pending) \in Nat /\ Len(q) = k + Len(pending)
      /\ \A i \in 1..k : q[i] = busy[i]
      /\ \A i \in 1..Len(q) : i \notin 1..k => i - k \in 1..Len(pending) /\ q[i] = pending[i - k]
  BY <1>1, <1>2, JoinedFacts
<1>4. DOMAIN q = 1..Len(q) /\ Len(q) \in Nat
  BY <1>3, SeqFacts
<1>5. \A i \in 1..Len(q) : q[i].cb => q[i].id \notin ended
  BY <1>1, <1>3 DEF Order, Open
<1>6. ASSUME NEW i \in 1..Len(q), NEW j \in 1..Len(q), i < j PROVE Ahead(q[i], q[j])
  <2>1. CASE j \in 1..k
    <3>1. i \in 1..k
      BY <1>3, <1>6, <2>1
    <3>. QED  BY <1>1, <1>3, <1>6, <2>1, <3>1 DEF Order, Sorted
  <2>2. CASE i \in 1..k /\ j \notin 1..k
    BY <1>1, <1>3, <2>2 DEF Order, Before
  <2>3. CASE i \notin 1..k /\ j \notin 1..k
    <3>1. i - k < j - k
      BY <1>3, <1>6
    <3>2. i - k \in 1..Len(pending) /\ q[i] = pending[i - k]
      BY <1>3, <2>3
    <3>3. j - k \in 1..Len(pending) /\ q[j] = pending[j - k]
      BY <1>3, <2>3
    <3>. QED  BY <1>1, <3>1, <3>2, <3>3 DEF Order, Sorted
  <2>. QED  BY <2>1, <2>2, <2>3
<1>. QED  BY <1>4, <1>5, <1>6

\* Commands are sent in the order of their submission, but for hang-ups, for any
\* number of clients and commands (atcmd_submit, cancel_atcmd).
THEOREM CommandsInOrder == Spec => []Fifo
<1>1. OInv => Fifo
  <2>1. SUFFICES ASSUME OInv PROVE Fifo
    OBVIOUS
  <2>2. PICK q : q = busy \o pending
    OBVIOUS
  <2>3. DOMAIN q = 1..Len(q) /\ \A i, j \in 1..Len(q) : i < j => Ahead(q[i], q[j])
    BY <2>1, <2>2, QueueFacts
  <2>4. \A i, j \in DOMAIN q : i < j => q[i].id < q[j].id \/ q[i].kind = "hangup"
    BY <2>3 DEF Ahead
  <2>. QED  BY <2>2, <2>4 DEF Fifo
<1>. QED  BY <1>1, OrderInductive, PTL

\* The callback of a command is told the end once (atcmd_done, discard_timeout,
\* atcmd_terminate_matching), and no two queued commands are the same.
THEOREM ToldAtMostOnce == Spec => []ToldOnce
<1>1. OInv => ToldOnce
  <2>1. SUFFICES ASSUME OInv PROVE ToldOnce
    OBVIOUS
  <2>2. PICK q : q = busy \o pending
    OBVIOUS
  <2>3. /\ DOMAIN q = 1..Len(q) /\ Len(q) \in Nat
        /\ \A i \in 1..Len(q) : q[i].cb => q[i].id \notin ended
        /\ \A i, j \in 1..Len(q) : i < j => Ahead(q[i], q[j])
    BY <2>1, <2>2, QueueFacts
  <2>4. ASSUME NEW i \in DOMAIN q, NEW j \in DOMAIN q, i # j PROVE q[i].id # q[j].id
    <3>1. i < j \/ j < i
      BY <2>3, <2>4
    <3>. QED  BY <2>3, <3>1 DEF Ahead
  <2>5. \A i \in DOMAIN q : q[i].cb => q[i].id \notin ended
    BY <2>3
  <2>. QED  BY <2>2, <2>4, <2>5 DEF ToldOnce
<1>. QED  BY <1>1, OrderInductive, PTL

\* A response belongs to the command that ml_parse gives it to, as long as no
\* command ended with an answer outstanding and no stray prompt came.
THEOREM AnswersMatch == Spec => []AnswersInOrder
<1>1. OInv => AnswersInOrder
  <2>1. SUFFICES ASSUME OInv, ~early, ~stray, owed # <<>>, busy # <<>>
                 PROVE  Head(owed).id = Head(busy).id
    BY DEF AnswersInOrder
  <2>2. owed \in Seq(Owed) /\ busy \in Seq(Command)
    BY <2>1 DEF OInv, IInv, TypeOK
  <2>3. 1 \in 1..Len(owed) /\ Head(owed) = owed[1]
    BY <2>1, <2>2, SeqFacts
  <2>4. Head(busy) = busy[1]
    BY <2>1, <2>2, SeqFacts
  <2>. QED  BY <2>1, <2>3, <2>4 DEF OInv, Answers, Matched
<1>. QED  BY <1>1, OrderInductive, PTL

-----------------------------------------------------------------------------
(* Refinement.  First what the moves do to the numbers in a queue. *)

IdSet(q) == {q[i].id : i \in 1..Len(q)}

\* The commands the service counts as gone.
Gone(b, p, m) == (1..m) \ (IdSet(b) \cup IdSet(p))

LEMMA IdsFacts ==
  ASSUME NEW q \in Seq(Command)
  PROVE  /\ QueueIds(q) \in Seq(Nat) /\ Len(QueueIds(q)) = Len(q) /\ Len(q) \in Nat
         /\ DOMAIN QueueIds(q) = 1..Len(q) /\ DOMAIN q = 1..Len(q)
         /\ \A i \in 1..Len(q) : QueueIds(q)[i] = q[i].id /\ q[i].id \in Nat
<1>1. Len(q) \in Nat /\ DOMAIN q = 1..Len(q)
  BY SeqFacts
<1>2. \A i \in 1..Len(q) : q[i].id \in Nat
  BY IdNat
<1>3. QueueIds(q) = [i \in 1..Len(q) |-> q[i].id]
  BY <1>1 DEF QueueIds
<1>4. QueueIds(q) \in Seq(Nat) /\ Len(QueueIds(q)) = Len(q)
  BY <1>1, <1>2, <1>3
<1>5. DOMAIN QueueIds(q) = 1..Len(q) /\ \A i \in 1..Len(q) : QueueIds(q)[i] = q[i].id
  BY <1>3
<1>. QED  BY <1>1, <1>2, <1>4, <1>5

LEMMA IdsEqual ==
  ASSUME NEW q \in Seq(Command), NEW r \in Seq(Nat), Len(r) = Len(q),
         \A i \in 1..Len(q) : q[i].id = r[i]
  PROVE  QueueIds(q) = r
<1>1. PICK s : s = QueueIds(q)
  OBVIOUS
<1>2. s \in Seq(Nat) /\ Len(s) = Len(r) /\ \A i \in 1..Len(s) : s[i] = r[i]
  BY <1>1, IdsFacts
<1>3. s = r
  BY <1>2, SeqEqual
<1>. QED  BY <1>1, <1>3

LEMMA AlikeIds ==
  ASSUME NEW s \in Seq(Command), NEW t \in Seq(Command), Alike(s, t)
  PROVE  QueueIds(t) = QueueIds(s) /\ IdSet(t) = IdSet(s)
<1>1. Len(t) = Len(s) /\ \A i \in 1..Len(s) : t[i].id = s[i].id
  BY DEF Alike, Like
<1>2. IdSet(t) = IdSet(s)
  BY <1>1 DEF IdSet
<1>3. PICK r : r = QueueIds(s)
  OBVIOUS
<1>4. r \in Seq(Nat) /\ Len(r) = Len(t) /\ \A i \in 1..Len(t) : t[i].id = r[i]
  BY <1>1, <1>3, IdsFacts
<1>5. QueueIds(t) = r
  BY <1>4, IdsEqual
<1>. QED  BY <1>2, <1>3, <1>5

LEMMA FreshFacts ==
  ASSUME NEW a \in Nat, NEW b \in Nat, b >= a
  PROVE  /\ Service!Fresh(a, b) \in Seq(Nat) /\ Len(Service!Fresh(a, b)) = b - a
         /\ \A i \in 1..(b - a) : Service!Fresh(a, b)[i] = a + i
<1>1. b - a \in Nat /\ \A i \in 1..(b - a) : a + i \in Nat
  OBVIOUS
<1>2. PICK f : f = [i \in 1..(b - a) |-> a + i]
  OBVIOUS
<1>3. f \in Seq(Nat) /\ Len(f) = b - a
  BY <1>1, <1>2
<1>4. \A i \in 1..(b - a) : f[i] = a + i
  BY <1>2
<1>. QED  BY <1>2, <1>3, <1>4 DEF Service!Fresh

LEMMA JoinedNew ==
  ASSUME NEW p \in Seq(Command), NEW s \in Seq(NewCommand), NEW pp, Joined(pp, p, s)
  PROVE  /\ pp \in Seq(Command) /\ Len(p) \in Nat /\ Len(s) \in Nat /\ Len(pp) = Len(p) + Len(s)
         /\ \A i \in 1..Len(p) : pp[i] = p[i]
         /\ \A i \in 1..Len(pp) : i \notin 1..Len(p) => i - Len(p) \in 1..Len(s) /\ pp[i] = s[i - Len(p)]
<1>1. s \in Seq(Command)
  <2>1. NewCommand \subseteq Command
    BY DEF NewCommand
  <2>. QED  BY <2>1
<1>. QED  BY <1>1, JoinedFacts

LEMMA JoinedNats ==
  ASSUME NEW p \in Seq(Nat), NEW s \in Seq(Nat), NEW pp, Joined(pp, p, s)
  PROVE  /\ pp \in Seq(Nat) /\ Len(p) \in Nat /\ Len(s) \in Nat /\ Len(pp) = Len(p) + Len(s)
         /\ \A i \in 1..Len(p) : pp[i] = p[i]
         /\ \A i \in 1..Len(pp) : i \notin 1..Len(p) => i - Len(p) \in 1..Len(s) /\ pp[i] = s[i - Len(p)]
  BY JoinedFacts

\* Commands numbered from a go to the end of p.
LEMMA JoinedIds ==
  ASSUME NEW p \in Seq(Command), NEW s \in Seq(NewCommand), NEW pp, Joined(pp, p, s),
         NEW a \in Nat, NEW b, Numbered(s, a, b)
  PROVE  /\ b \in Nat /\ b >= a /\ pp \in Seq(Command)
         /\ Joined(QueueIds(pp), QueueIds(p), Service!Fresh(a, b))
         /\ IdSet(pp) = IdSet(p) \cup ((a + 1)..b)
         /\ b = a => QueueIds(pp) = QueueIds(p)
<1>2. /\ pp \in Seq(Command) /\ Len(p) \in Nat /\ Len(s) \in Nat /\ Len(pp) = Len(p) + Len(s)
      /\ \A i \in 1..Len(p) : pp[i] = p[i]
      /\ \A i \in 1..Len(pp) : i \notin 1..Len(p) => i - Len(p) \in 1..Len(s) /\ pp[i] = s[i - Len(p)]
  BY JoinedNew
<1>3. b \in Nat /\ b >= a /\ b - a = Len(s) /\ \A i \in 1..Len(s) : s[i].id = a + i
  BY <1>2 DEF Numbered
<1>4. PICK l, f : l = QueueIds(p) /\ f = Service!Fresh(a, b)
  OBVIOUS
<1>5. l \in Seq(Nat) /\ Len(l) = Len(p) /\ \A i \in 1..Len(p) : l[i] = p[i].id
  BY <1>4, IdsFacts
<1>6. f \in Seq(Nat) /\ Len(f) = Len(s) /\ \A i \in 1..Len(s) : f[i] = a + i
  BY <1>3, <1>4, FreshFacts
<1>7. PICK r : Joined(r, l, f)
  BY DEF Joined
<1>8. /\ r \in Seq(Nat) /\ Len(r) = Len(l) + Len(f)
      /\ \A i \in 1..Len(l) : r[i] = l[i]
      /\ \A i \in 1..Len(r) : i \notin 1..Len(l) => i - Len(l) \in 1..Len(f) /\ r[i] = f[i - Len(l)]
  <2>1. l \in Seq(Nat) /\ f \in Seq(Nat)
    BY <1>5, <1>6
  <2>. QED  BY <1>7, <2>1, JoinedNats
<1>9. Len(r) = Len(pp)
  BY <1>2, <1>5, <1>6, <1>8
<1>10. ASSUME NEW i \in 1..Len(pp) PROVE pp[i].id = r[i]
  <2>1. CASE i \in 1..Len(p)
    BY <1>2, <1>5, <1>8, <2>1
  <2>2. CASE i \notin 1..Len(p)
    <3>1. i - Len(p) \in 1..Len(s) /\ pp[i] = s[i - Len(p)] /\ r[i] = f[i - Len(p)]
      BY <1>2, <1>5, <1>8, <1>9, <2>2
    <3>. QED  BY <1>3, <1>6, <3>1
  <2>. QED  BY <2>1, <2>2
<1>11. QueueIds(pp) = r
  BY <1>2, <1>8, <1>9, <1>10, IdsEqual
<1>12. IdSet(pp) \subseteq IdSet(p) \cup ((a + 1)..b)
  <2>1. ASSUME NEW i \in 1..Len(pp) PROVE pp[i].id \in IdSet(p) \cup ((a + 1)..b)
    <3>1. CASE i \in 1..Len(p)
      BY <1>2, <3>1 DEF IdSet
    <3>2. CASE i \notin 1..Len(p)
      <4>1. i - Len(p) \in 1..Len(s) /\ pp[i].id = a + (i - Len(p))
        BY <1>2, <1>3, <3>2
      <4>. QED  BY <1>2, <1>3, <4>1
    <3>. QED  BY <3>1, <3>2
  <2>. QED  BY <2>1 DEF IdSet
<1>13. IdSet(p) \subseteq IdSet(pp)
  <2>1. \A i \in 1..Len(p) : i \in 1..Len(pp) /\ pp[i].id = p[i].id
    BY <1>2
  <2>. QED  BY <2>1 DEF IdSet
<1>14. (a + 1)..b \subseteq IdSet(pp)
  <2>1. ASSUME NEW x \in (a + 1)..b PROVE \E i \in 1..Len(pp) : pp[i].id = x
    <3>1. PICK i : i = Len(p) + (x - a)
      OBVIOUS
    <3>2. i \in 1..Len(pp) /\ i \notin 1..Len(p) /\ i - Len(p) = x - a /\ x - a \in 1..Len(s)
      BY <1>2, <1>3, <3>1
    <3>3. pp[i].id = a + (x - a)
      BY <1>2, <1>3, <3>2
    <3>. QED  BY <3>2, <3>3
  <2>. QED  BY <2>1 DEF IdSet
<1>15. ASSUME b = a PROVE QueueIds(pp) = QueueIds(p)
  <2>1. Len(l) = Len(pp) /\ \A i \in 1..Len(pp) : pp[i].id = l[i]
    BY <1>2, <1>3, <1>5, <1>15
  <2>2. QueueIds(pp) = l
    BY <1>2, <1>5, <2>1, IdsEqual
  <2>. QED  BY <1>4, <2>2
<1>. QED  BY <1>2, <1>3, <1>4, <1>7, <1>11, <1>12, <1>13, <1>14, <1>15

LEMMA EmptyIds ==
  ASSUME NEW q \in Seq(Command)
  PROVE  /\ QueueIds(q) = <<>> <=> q = <<>>
         /\ q = <<>> => IdSet(q) = {}
         /\ q # <<>> => Head(QueueIds(q)) = q[1].id
<1>1. PICK l : l = QueueIds(q)
  OBVIOUS
<1>2. l \in Seq(Nat) /\ Len(l) = Len(q) /\ \A i \in 1..Len(q) : l[i] = q[i].id
  BY <1>1, IdsFacts
<1>3. (l = <<>> <=> Len(l) = 0) /\ (l # <<>> => 1 \in 1..Len(l) /\ Head(l) = l[1])
  BY <1>2, SeqFacts
<1>4. q = <<>> <=> Len(q) = 0
  BY SeqFacts
<1>5. q = <<>> => IdSet(q) = {}
  BY <1>4 DEF IdSet
<1>6. l = <<>> <=> q = <<>>
  BY <1>2, <1>3, <1>4
<1>7. q # <<>> => Head(l) = q[1].id
  BY <1>2, <1>3, <1>6
<1>. QED  BY <1>1, <1>5, <1>6, <1>7

LEMMA ShortenedIds ==
  ASSUME NEW p \in Seq(Command), NEW pp, Shortened(pp, p)
  PROVE  /\ pp \in Seq(Command) /\ p # <<>>
         /\ Shortened(QueueIds(pp), QueueIds(p))
         /\ IdSet(p) = {p[1].id} \cup IdSet(pp)
<1>1. /\ pp \in Seq(Command) /\ Len(p) \in Nat /\ Len(pp) \in Nat /\ Len(p) = Len(pp) + 1
      /\ \A i \in 1..Len(pp) : i + 1 \in 1..Len(p) /\ pp[i] = p[i + 1]
  BY ShortenedFacts
<1>2. p # <<>>
  BY DEF Shortened
<1>3. PICK l : l = QueueIds(p)
  OBVIOUS
<1>4. l \in Seq(Nat) /\ Len(l) = Len(p) /\ l # <<>> /\ \A i \in 1..Len(p) : l[i] = p[i].id
  BY <1>2, <1>3, IdsFacts, EmptyIds
<1>5. PICK r : Shortened(r, l)
  BY <1>4 DEF Shortened
<1>6. /\ r \in Seq(Nat) /\ Len(r) \in Nat /\ Len(l) = Len(r) + 1
      /\ \A i \in 1..Len(r) : i + 1 \in 1..Len(l) /\ r[i] = l[i + 1]
  <2>1. l \in Seq(Nat)
    BY <1>4
  <2>. QED  BY <1>5, <2>1, ShortenedFacts
<1>7. Len(r) = Len(pp) /\ \A i \in 1..Len(pp) : pp[i].id = r[i]
  BY <1>1, <1>4, <1>6
<1>8. QueueIds(pp) = r
  BY <1>1, <1>6, <1>7, IdsEqual
<1>9. IdSet(pp) \subseteq IdSet(p)
  BY <1>1 DEF IdSet
<1>10. 1 \in 1..Len(p)
  BY <1>1
<1>11. ASSUME NEW i \in 1..Len(p) PROVE p[i].id \in {p[1].id} \cup IdSet(pp)
  <2>1. CASE i = 1
    BY <2>1
  <2>2. CASE i # 1
    <3>1. i - 1 \in 1..Len(pp) /\ (i - 1) + 1 = i
      BY <1>1, <2>2
    <3>2. pp[i - 1] = p[i]
      BY <1>1, <3>1
    <3>. QED  BY <3>1, <3>2 DEF IdSet
  <2>. QED  BY <2>1, <2>2
<1>12. IdSet(p) = {p[1].id} \cup IdSet(pp)
  <2>1. IdSet(p) \subseteq {p[1].id} \cup IdSet(pp)
    BY <1>11 DEF IdSet
  <2>2. p[1].id \in IdSet(p)
    BY <1>10 DEF IdSet
  <2>. QED  BY <1>9, <2>1, <2>2
<1>. QED  BY <1>1, <1>2, <1>3, <1>5, <1>8, <1>12

\* The first command of an idle engine goes out.
LEMMA SentIds ==
  ASSUME NEW b \in Seq(Command), Len(b) < 1, NEW c \in Command, NEW bb, Added(bb, b, c)
  PROVE  bb \in Seq(Command) /\ QueueIds(bb) = <<c.id>> /\ IdSet(bb) = {c.id}
<1>3. bb \in Seq(Command) /\ Len(bb) = 1 /\ bb[1] = c
  <2>1. /\ bb \in Seq(Command) /\ Len(b) \in Nat /\ Len(bb) = Len(b) + 1 /\ bb[Len(b) + 1] = c
        /\ \A i \in 1..Len(b) : bb[i] = b[i]
    BY AddedFacts
  <2>2. Len(b) = 0
    BY <2>1
  <2>. QED  BY <2>1, <2>2
<1>4. PICK r : r = <<c.id>>
  OBVIOUS
<1>5. c.id \in Nat
  BY DEF Command, Ids
<1>6. r \in Seq(Nat) /\ Len(r) = 1 /\ r[1] = c.id
  BY <1>4, <1>5
<1>7. \A i \in 1..Len(bb) : i = 1
  BY <1>3
<1>8. QueueIds(bb) = r
  <2>1. Len(r) = Len(bb) /\ \A i \in 1..Len(bb) : bb[i].id = r[i]
    BY <1>3, <1>6, <1>7
  <2>. QED  BY <1>3, <1>6, <2>1, IdsEqual
<1>9. IdSet(bb) = {c.id}
  <2>1. 1 \in 1..Len(bb)
    BY <1>3
  <2>. QED  BY <1>3, <1>7, <2>1 DEF IdSet
<1>. QED  BY <1>3, <1>4, <1>8, <1>9

\* A hang-up goes to the front.
LEMMA UrgentIds ==
  ASSUME NEW p \in Seq(Command), NEW h \in Command, NEW q \in Seq(Command), Joined(q, <<h>>, p)
  PROVE  Joined(QueueIds(q), <<h.id>>, QueueIds(p)) /\ IdSet(q) = {h.id} \cup IdSet(p)
<1>1. /\ Len(p) \in Nat /\ Len(q) = 1 + Len(p) /\ q[1] = h
      /\ \A i \in 1..Len(q) : i # 1 => i - 1 \in 1..Len(p) /\ q[i] = p[i - 1]
  BY UrgentFacts
<1>2. PICK l, o : l = QueueIds(p) /\ o = <<h.id>>
  OBVIOUS
<1>3. l \in Seq(Nat) /\ Len(l) = Len(p) /\ \A i \in 1..Len(p) : l[i] = p[i].id
  BY <1>2, IdsFacts
<1>4. h.id \in Nat
  BY DEF Command, Ids
<1>5. o \in Seq(Nat) /\ Len(o) = 1 /\ o[1] = h.id
  BY <1>2, <1>4
<1>6. PICK r : Joined(r, o, l)
  BY DEF Joined
<1>7. /\ r \in Seq(Nat) /\ Len(r) = Len(o) + Len(l)
      /\ \A i \in 1..Len(o) : r[i] = o[i]
      /\ \A i \in 1..Len(r) : i \notin 1..Len(o) => i - Len(o) \in 1..Len(l) /\ r[i] = l[i - Len(o)]
  <2>1. l \in Seq(Nat) /\ o \in Seq(Nat)
    BY <1>3, <1>5
  <2>. QED  BY <1>6, <2>1, JoinedNats
<1>8. Len(r) = Len(q)
  BY <1>1, <1>3, <1>5, <1>7
<1>9. ASSUME NEW i \in 1..Len(q) PROVE q[i].id = r[i]
  <2>1. CASE i = 1
    BY <1>1, <1>5, <1>7, <2>1
  <2>2. CASE i # 1
    <3>1. i \notin 1..Len(o) /\ i - 1 \in 1..Len(p) /\ q[i] = p[i - 1]
      BY <1>1, <1>5, <2>2
    <3>2. r[i] = l[i - 1]
      BY <1>5, <1>7, <1>8, <3>1
    <3>. QED  BY <1>3, <3>1, <3>2
  <2>. QED  BY <2>1, <2>2
<1>10. QueueIds(q) = r
  BY <1>7, <1>8, <1>9, IdsEqual
<1>11. IdSet(q) \subseteq {h.id} \cup IdSet(p)
  BY <1>1 DEF IdSet
<1>12. {h.id} \cup IdSet(p) \subseteq IdSet(q)
  <2>1. 1 \in 1..Len(q) /\ q[1].id = h.id
    BY <1>1
  <2>2. ASSUME NEW i \in 1..Len(p) PROVE i + 1 \in 1..Len(q) /\ q[i + 1] = p[i]
    <3>1. i + 1 \in 1..Len(q) /\ i + 1 # 1 /\ (i + 1) - 1 = i
      BY <1>1
    <3>. QED  BY <1>1, <3>1
  <2>. QED  BY <2>1, <2>2 DEF IdSet
<1>. QED  BY <1>2, <1>6, <1>10, <1>11, <1>12

\* What Withdraw does to the line l and to the commands g that are gone.
Withdrawn(r, l, gg, g) ==
  \E k \in 0..Len(l) : \E at \in [1..k -> DOMAIN l] :
    /\ \A i, j \in 1..k : i < j => at[i] < at[j]
    /\ r = [i \in 1..k |-> l[at[i]]]
    /\ gg = g \cup {l[i] : i \in DOMAIN l \ {at[j] : j \in 1..k}}

LEMMA FewerPlaces ==
  ASSUME NEW N \in Nat, NEW K, K \subseteq 1..N
  PROVE  Cardinality(K) <= N
<1>1. IsFiniteSet(1..N) /\ Cardinality(1..N) = N
  BY FS_Interval
<1>2. Cardinality(K) <= Cardinality(1..N)
  BY <1>1, FS_Subset
<1>. QED  BY <1>1, <1>2

\* The commands at K stay: the others are gone.
LEMMA LeftIds ==
  ASSUME NEW b \in Seq(Command), NEW p \in Seq(Command), NEW m \in Nat, NEW E, Order(b, p, m, E),
         NEW K, K \subseteq 1..Len(p), NEW pp, Thinned(pp, p, K)
  PROVE  Withdrawn(QueueIds(pp), QueueIds(p), Gone(b, pp, m), Gone(b, p, m))
<1>1. /\ pp \in Seq(Command) /\ Len(pp) = Cardinality(K) /\ Len(pp) \in Nat
      /\ \E at : Places(at, pp, p, K)
  BY ThinnedFacts
<1>2. PICK at : Places(at, pp, p, K)
  BY <1>1
<1>3. /\ at \in [1..Len(pp) -> K] /\ DOMAIN at = 1..Len(pp)
      /\ \A i \in 1..Len(pp) : pp[i] = p[at[i]] /\ at[i] \in K
      /\ \A i, j \in 1..Len(pp) : i < j => at[i] < at[j]
      /\ \A k \in K : \E i \in 1..Len(pp) : at[i] = k
  BY <1>2 DEF Places
<1>4. PICK l : l = QueueIds(p)
  OBVIOUS
<1>5. DOMAIN l = 1..Len(p) /\ Len(p) \in Nat /\ \A i \in 1..Len(p) : l[i] = p[i].id /\ p[i].id \in Nat
  BY <1>4, IdsFacts
<1>6. QueueIds(pp) = [i \in DOMAIN at |-> l[at[i]]]
  <2>1. DOMAIN pp = 1..Len(pp)
    BY <1>1, SeqFacts
  <2>2. \A i \in 1..Len(pp) : pp[i].id = l[at[i]]
    BY <1>3, <1>5
  <2>. QED  BY <1>3, <2>1, <2>2 DEF QueueIds
<1>7. IdSet(pp) = {p[k].id : k \in K}
  <2>0. \A i \in 1..Len(pp) : pp[i].id \in {p[k].id : k \in K}
    BY <1>3
  <2>1. IdSet(pp) \subseteq {p[k].id : k \in K}
    BY <2>0 DEF IdSet
  <2>2. {p[k].id : k \in K} \subseteq IdSet(pp)
    BY <1>3 DEF IdSet
  <2>. QED  BY <2>1, <2>2
<1>8. ASSUME NEW i \in 1..Len(p), i \notin K
      PROVE  p[i].id \in 1..m /\ p[i].id \notin IdSet(b) /\ p[i].id \notin IdSet(pp)
  <2>1. p[i].id <= m /\ p[i].id \in Nat /\ p[i].id > 0
    <3>1. p[i] \in Command
      BY SeqFacts
    <3>. QED  BY <3>1 DEF Order, Open, Command, Ids
  <2>2. p[i].id \notin IdSet(b)
    BY DEF Order, Before, Ahead, IdSet
  <2>3. ASSUME NEW k \in K PROVE p[k].id # p[i].id
    <3>1. k < i \/ i < k
      BY <1>5, <1>8
    <3>2. k \in 1..Len(p)
      OBVIOUS
    <3>. QED  BY <3>1, <3>2 DEF Order, Sorted, Ahead
  <2>. QED  BY <1>7, <2>1, <2>2, <2>3
<1>9. IdSet(p) = IdSet(pp) \cup {l[i] : i \in (1..Len(p)) \ K}
  BY <1>5, <1>7 DEF IdSet
<1>10. Gone(b, pp, m) = Gone(b, p, m) \cup {l[i] : i \in (1..Len(p)) \ K}
  <2>1. PICK G : G = {l[i] : i \in (1..Len(p)) \ K}
    OBVIOUS
  <2>2. \A x \in G : x \in 1..m /\ x \notin IdSet(b) /\ x \notin IdSet(pp)
    BY <1>5, <1>8, <2>1
  <2>3. IdSet(p) = IdSet(pp) \cup G
    BY <1>9, <2>1
  <2>4. Gone(b, pp, m) = Gone(b, p, m) \cup G
    BY <2>2, <2>3 DEF Gone
  <2>. QED  BY <2>1, <2>4
<1>11. Len(pp) \in 0..Len(p)
  <2>1. Len(p) \in Nat
    BY <1>5
  <2>2. Cardinality(K) <= Len(p)
    BY <2>1, FewerPlaces
  <2>. QED  BY <1>1, <2>1, <2>2
<1>12. K = {at[j] : j \in 1..Len(pp)}
  BY <1>3
<1>13. at \in [1..Len(pp) -> DOMAIN l] /\ Len(l) = Len(p)
  BY <1>3, <1>4, <1>5, IdsFacts
<1>14. Withdrawn(QueueIds(pp), l, Gone(b, pp, m), Gone(b, p, m))
  <2>1. Gone(b, pp, m) =
          Gone(b, p, m) \cup {l[i] : i \in DOMAIN l \ {at[j] : j \in 1..Len(pp)}}
    BY <1>5, <1>10, <1>12
  <2>2. QueueIds(pp) = [i \in 1..Len(pp) |-> l[at[i]]]
    BY <1>3, <1>6
  <2>3. Len(pp) \in 0..Len(l)
    BY <1>11, <1>13
  <2>. QED  BY <1>3, <1>13, <2>1, <2>2, <2>3 DEF Withdrawn
<1>. QED  BY <1>4, <1>14

\* Every move of the queues is a step of the service or leaves it alone.
LEMMA ServiceStep ==
  ASSUME TypeOK, TypeOK', Flight, Ordered, Moves, ~stray
  PROVE  [Service!Next]_(Service!service)
<1>1. /\ pending \in Seq(Command) /\ busy \in Seq(Command) /\ n \in Nat
      /\ pending' \in Seq(Command) /\ busy' \in Seq(Command) /\ n' \in Nat
  BY DEF TypeOK
<1>2. {c \in 1..n : ~Queued(c)} = Gone(busy, pending, n)
  <2>1. DOMAIN busy = 1..Len(busy) /\ DOMAIN pending = 1..Len(pending)
    BY <1>1, SeqFacts
  <2>2. \A c : Queued(c) <=> c \in IdSet(busy) \cup IdSet(pending)
    BY <2>1 DEF Queued, IdSet
  <2>. QED  BY <2>2 DEF Gone
<1>3. {c \in 1..n' : ~Queued(c)'} = Gone(busy', pending', n')
  <2>1. DOMAIN busy' = 1..Len(busy') /\ DOMAIN pending' = 1..Len(pending')
    BY <1>1, SeqFacts
  <2>2. \A c : Queued(c)' <=> c \in IdSet(busy') \cup IdSet(pending')
    BY <2>1 DEF Queued, IdSet
  <2>. QED  BY <2>2 DEF Gone
<1>4. Len(busy) <= 1 /\ (want => busy = <<>>)
  BY DEF Flight
<1>5. Order(busy, pending, n, ended)
  BY DEF Ordered
<1>6. ASSUME QueueIds(pending') = QueueIds(pending), QueueIds(busy') = QueueIds(busy), n' = n,
             Gone(busy', pending', n') = Gone(busy, pending, n)
      PROVE  UNCHANGED Service!service
  BY <1>2, <1>3, <1>6 DEF Service!service, QueueIds
<1>7. CASE Stays \/ Halves
  <2>1. Alike(busy, busy') /\ Alike(pending, pending') /\ n' = n
    BY <1>1, <1>7, AlikeSame DEF Stays, Halves
  <2>. QED  BY <1>1, <1>6, <2>1, AlikeIds DEF Gone
<1>8. CASE Sends
  <2>1. Shortened(pending', pending) /\ n' = n /\ want
    BY <1>8 DEF Sends
  <2>2. PICK c \in Command : c.id = pending[1].id /\ Added(busy', busy, c)
    BY <1>8 DEF Sends, Like
  <2>3. busy = <<>>
    BY <1>4, <2>1
  <2>4. Len(busy) < 1
    BY <1>1, <2>3, EmptySeq
  <2>5. QueueIds(busy') = <<c.id>> /\ IdSet(busy') = {c.id}
    <3>1. PICK bb : bb = busy'
      OBVIOUS
    <3>2. QueueIds(bb) = <<c.id>> /\ IdSet(bb) = {c.id}
      BY <1>1, <2>2, <2>4, <3>1, SentIds
    <3>. QED  BY <3>1, <3>2
  <2>6. QueueIds(busy) = <<>> /\ IdSet(busy) = {}
    BY <1>1, <2>3, EmptyIds
  <2>7. /\ Shortened(QueueIds(pending'), QueueIds(pending)) /\ pending # <<>>
        /\ IdSet(pending) = {pending[1].id} \cup IdSet(pending')
    BY <1>1, <2>1, ShortenedIds
  <2>8. Head(QueueIds(pending)) = pending[1].id
    BY <1>1, <2>7, EmptyIds
  <2>9. Gone(busy', pending', n') = Gone(busy, pending, n)
    BY <2>1, <2>2, <2>5, <2>6, <2>7 DEF Gone
  <2>10. Service!Serve
    <3>1. /\ QueueIds(busy) = <<>> /\ QueueIds(pending) # <<>>
          /\ QueueIds(busy') = <<Head(QueueIds(pending))>>
          /\ QueueIds(pending') = Tail(QueueIds(pending))
      BY <2>2, <2>5, <2>6, <2>7, <2>8 DEF Shortened
    <3>. QED  BY <1>2, <1>3, <2>1, <2>9, <3>1 DEF Service!Serve
  <2>. QED  BY <2>10 DEF Service!Next
<1>9. CASE Adds
  <2>1. PICK s \in Seq(NewCommand) : Numbered(s, n, n') /\ Joined(pending', pending, s)
    BY <1>9 DEF Adds
  <2>2. /\ n' >= n /\ Joined(QueueIds(pending'), QueueIds(pending), Service!Fresh(n, n'))
        /\ IdSet(pending') = IdSet(pending) \cup ((n + 1)..n')
        /\ n' = n => QueueIds(pending') = QueueIds(pending)
    BY <1>1, <2>1, JoinedIds
  <2>3. busy' = busy
    BY <1>9 DEF Adds
  <2>4. Gone(busy', pending', n') = Gone(busy, pending, n)
    <3>1. (1..n') \ ((n + 1)..n') = 1..n
      BY <1>1, <2>2
    <3>. QED  BY <2>2, <2>3, <3>1 DEF Gone
  <2>5. CASE n' = n
    BY <1>6, <2>2, <2>3, <2>4, <2>5
  <2>6. CASE n' # n
    <3>1. n' > n
      BY <1>1, <2>2, <2>6
    <3>2. QueueIds(pending') = QueueIds(pending) \o Service!Fresh(n, n')
      BY <2>2 DEF Joined
    <3>3. Service!Arrive
      BY <1>2, <1>3, <2>3, <2>4, <3>1, <3>2 DEF Service!Arrive
    <3>. QED  BY <3>3 DEF Service!Next
  <2>. QED  BY <2>5, <2>6
<1>10. ASSUME Ends
       PROVE  /\ QueueIds(busy) # <<>> /\ QueueIds(busy') = <<>>
              /\ Head(QueueIds(busy)) = busy[1].id
              /\ IdSet(busy') = {} /\ IdSet(busy) = {busy[1].id}
              /\ busy[1].id \in 1..n /\ busy[1].id \notin IdSet(pending)
  <2>1. Shortened(busy', busy)
    BY <1>10 DEF Ends
  <2>2. busy # <<>> /\ IdSet(busy) = {busy[1].id} \cup IdSet(busy')
    BY <1>1, <2>1, ShortenedIds
  <2>3. busy' = <<>>
    <3>1. PICK bb : bb = busy'
      OBVIOUS
    <3>2. Len(bb) \in Nat /\ Len(busy) = Len(bb) + 1
      BY <1>1, <2>1, <3>1, ShortenedFacts
    <3>3. Len(bb) = 0
      BY <1>4, <3>2
    <3>4. bb \in Seq(Command)
      BY <1>1, <3>1
    <3>. QED  BY <3>1, <3>3, <3>4, EmptySeq
  <2>4. QueueIds(busy') = <<>> /\ IdSet(busy') = {}
    BY <1>1, <2>3, EmptyIds
  <2>5. QueueIds(busy) # <<>> /\ Head(QueueIds(busy)) = busy[1].id
    BY <1>1, <2>2, EmptyIds
  <2>6. 1 \in 1..Len(busy) /\ busy[1] \in Command
    BY <1>1, <2>2, SeqFacts
  <2>7. busy[1].id \in Nat /\ busy[1].id > 0 /\ busy[1].id <= n
    BY <1>5, <2>6 DEF Order, Open, Command, Ids
  <2>8. busy[1].id \notin IdSet(pending)
    BY <1>5, <2>6 DEF Order, Before, Ahead, IdSet
  <2>. QED  BY <1>1, <2>2, <2>4, <2>5, <2>7, <2>8
<1>11. CASE Finishes
  <2>0. Ends
    BY <1>11 DEF Finishes
  <2>1. PICK s \in Seq(NewCommand) : Numbered(s, n, n') /\ Joined(pending', pending, s)
    BY <1>11 DEF Finishes
  <2>2. /\ n' >= n /\ Joined(QueueIds(pending'), QueueIds(pending), Service!Fresh(n, n'))
        /\ IdSet(pending') = IdSet(pending) \cup ((n + 1)..n')
    BY <1>1, <2>1, JoinedIds
  <2>3. Gone(busy', pending', n') = Gone(busy, pending, n) \cup {busy[1].id}
    <3>1. (1..n') \ ((n + 1)..n') = 1..n
      BY <1>1, <2>2
    <3>. QED  BY <1>10, <2>0, <2>2, <3>1 DEF Gone
  <2>4. QueueIds(pending') = QueueIds(pending) \o Service!Fresh(n, n')
    BY <2>2 DEF Joined
  <2>5. Service!Finish
    BY <1>2, <1>3, <1>10, <2>0, <2>2, <2>3, <2>4 DEF Service!Finish, Service!Leave
  <2>. QED  BY <2>5 DEF Service!Next
<1>12. CASE Preempts
  <2>0. Ends
    BY <1>12 DEF Preempts
  <2>1. PICK h \in NewCommand, q \in Seq(Command), s \in Seq(NewCommand) :
          Urgent(h, q) /\ Numbered(s, n + 1, n') /\ Joined(pending', q, s)
    BY <1>12 DEF Preempts
  <2>2. h \in Command /\ h.id = n + 1 /\ Joined(q, <<h>>, pending)
    BY <2>1 DEF Urgent, NewCommand
  <2>3. /\ Joined(QueueIds(q), <<n + 1>>, QueueIds(pending))
        /\ IdSet(q) = {n + 1} \cup IdSet(pending)
    <3>1. /\ Joined(QueueIds(q), <<h.id>>, QueueIds(pending))
          /\ IdSet(q) = {h.id} \cup IdSet(pending)
      BY <1>1, <2>2, UrgentIds
    <3>. QED  BY <2>2, <3>1
  <2>4. /\ n' >= n + 1 /\ Joined(QueueIds(pending'), QueueIds(q), Service!Fresh(n + 1, n'))
        /\ IdSet(pending') = IdSet(q) \cup ((n + 2)..n')
    <3>1. PICK a \in Nat : a = n + 1
      BY <1>1
    <3>2. /\ n' >= a /\ Joined(QueueIds(pending'), QueueIds(q), Service!Fresh(a, n'))
          /\ IdSet(pending') = IdSet(q) \cup ((a + 1)..n')
      BY <2>1, <3>1, JoinedIds
    <3>3. a + 1 = n + 2
      BY <1>1, <3>1
    <3>. QED  BY <3>1, <3>2, <3>3
  <2>5. Gone(busy', pending', n') = Gone(busy, pending, n) \cup {busy[1].id}
    <3>1. (1..n') \ ({n + 1} \cup ((n + 2)..n')) = 1..n
      BY <1>1, <2>4
    <3>. QED  BY <1>10, <2>0, <2>3, <2>4, <3>1 DEF Gone
  <2>6. QueueIds(pending') = <<n + 1>> \o QueueIds(pending) \o Service!Fresh(n + 1, n')
    BY <2>3, <2>4 DEF Joined
  <2>7. n' > n
    BY <1>1, <2>4
  <2>8. Service!Preempt
    BY <1>2, <1>3, <1>10, <2>0, <2>5, <2>6, <2>7 DEF Service!Preempt, Service!Leave
  <2>. QED  BY <2>8 DEF Service!Next
<1>13. CASE \E u \in Users : Leaves(u)
  <2>1. PICK u \in Users : Leaves(u)
    BY <1>13
  <2>2. PICK K : K = Others(pending, u)
    OBVIOUS
  <2>3. /\ Alike(busy, busy') /\ n' = n
        /\ K \subseteq 1..Len(pending) /\ Thinned(pending', pending, K)
    BY <2>1, <2>2 DEF Leaves, Others
  <2>4. QueueIds(busy') = QueueIds(busy) /\ IdSet(busy') = IdSet(busy)
    BY <1>1, <2>3, AlikeIds
  <2>5. Withdrawn(QueueIds(pending'), QueueIds(pending), Gone(busy, pending', n), Gone(busy, pending, n))
    <3>1. PICK pp : pp = pending'
      OBVIOUS
    <3>2. pending \in Seq(Command) /\ busy \in Seq(Command) /\ n \in Nat
      BY <1>1
    <3>3. K \subseteq 1..Len(pending) /\ Thinned(pp, pending, K)
      BY <2>3, <3>1
    <3>4. Withdrawn(QueueIds(pp), QueueIds(pending), Gone(busy, pp, n), Gone(busy, pending, n))
      BY <1>5, <3>2, <3>3, LeftIds
    <3>. QED  BY <3>1, <3>4
  <2>7. Gone(busy', pending', n') = Gone(busy, pending', n)
    BY <2>3, <2>4 DEF Gone
  <2>8. Service!Withdraw
    BY <1>2, <1>3, <2>3, <2>4, <2>5, <2>7 DEF Service!Withdraw, Withdrawn
  <2>. QED  BY <2>8 DEF Service!Next
<1>. QED  BY <1>7, <1>8, <1>9, <1>11, <1>12, <1>13 DEF Moves


LEMMA ServiceInit == Init => Service!Init
<1>1. SUFFICES ASSUME Init PROVE Service!Init
  OBVIOUS
<1>2. pending \in Seq(NewCommand) /\ Numbered(pending, 0, n)
  <2>1. CASE ReadyAtStart
    <3>1. <<"first">> \in Seq(Origin) /\ Daemon \in Users \cup {Daemon}
      BY DEF Origin
    <3>2. PICK s : s = Submitted(0, <<"first">>, Daemon)
      OBVIOUS
    <3>3. s \in Seq(NewCommand) /\ Numbered(s, 0, 0 + Len(s))
      BY <3>1, <3>2, SubmittedNew
    <3>4. pending = s /\ n = Len(s)
      BY <1>1, <2>1, <3>2 DEF Init
    <3>5. 0 + Len(s) = Len(s)
      BY <3>3, LenProperties
    <3>. QED  BY <3>3, <3>4, <3>5
  <2>2. CASE ~ReadyAtStart
    BY <1>1, <2>2 DEF Init, Numbered
  <2>. QED  BY <2>1, <2>2
<1>3. pending \in Seq(Command) /\ n \in Nat /\ n = Len(pending) /\ \A i \in 1..Len(pending) : pending[i].id = i
  <2>1. NewCommand \subseteq Command
    BY DEF NewCommand
  <2>2. pending \in Seq(Command)
    BY <1>2, <2>1
  <2>3. Len(pending) \in Nat
    BY <2>2, SeqFacts
  <2>. QED  BY <1>2, <2>2, <2>3 DEF Numbered
<1>4. busy = <<>> /\ busy \in Seq(Command)
  BY <1>1 DEF Init
<1>5. QueueIds(pending) = Service!Fresh(0, n)
  <2>1. PICK f : f = Service!Fresh(0, n)
    OBVIOUS
  <2>2. f \in Seq(Nat) /\ Len(f) = n /\ \A i \in 1..n : f[i] = i
    <3>1. PICK z \in Nat : z = 0
      OBVIOUS
    <3>2. n \in Nat /\ n >= z /\ f = Service!Fresh(z, n)
      BY <1>3, <2>1, <3>1
    <3>3. f \in Seq(Nat) /\ Len(f) = n - z /\ \A i \in 1..(n - z) : f[i] = z + i
      BY <3>2, FreshFacts
    <3>4. n - z = n /\ \A i \in 1..n : z + i = i
      BY <3>1, <3>2
    <3>. QED  BY <3>3, <3>4
  <2>3. QueueIds(pending) = f
    BY <1>3, <2>2, IdsEqual
  <2>. QED  BY <2>1, <2>3
<1>6. QueueIds(busy) = <<>>
  BY <1>4, EmptyIds
<1>7. \A c \in 1..n : Queued(c)
  <2>1. DOMAIN pending = 1..Len(pending)
    BY <1>3, SeqFacts
  <2>. QED  BY <1>3, <2>1 DEF Queued
<1>. QED  BY <1>3, <1>5, <1>6, <1>7 DEF Service!Init

\* The command engine implements the service of CommandService as long as no
\* prompt arrives that no half-sent command waits for: every handler of the
\* daemon is one step of the service or none, for any number of clients.
THEOREM EngineImplements == Spec /\ []~stray => ImplementsService
<1>1. ASSUME OInv, OInv', ~stray, [Next]_vars PROVE [Service!Next]_(Service!service)
  <2>1. TypeOK /\ TypeOK' /\ Flight /\ Ordered
    BY <1>1 DEF OInv, IInv, Engine
  <2>2. Moves
    BY <1>1, <2>1, StepMoves
  <2>. QED  BY <1>1, <2>1, <2>2, ServiceStep
<1>2. Service!Spec <=> ImplementsService
  BY DEF ImplementsService
<1>. QED  BY <1>1, <1>2, ServiceInit, OrderInductive, PTL DEF Spec, Service!Spec

\* Without two-line messages no prompt is ever stray, so the engine implements the
\* service whatever clients, modem and timers do.
COROLLARY PlainEngineImplements ==
  ASSUME Kinds \cap TwoLine = {}
  PROVE  Spec => ImplementsService
<1>1. OInv => ~stray
  BY DEF OInv, NoPrompts
<1>. QED  BY <1>1, OrderInductive, EngineImplements, PTL

-----------------------------------------------------------------------------
(* The lines of a reply.  First the kinds of the queued commands. *)

Known(q) == \A i \in 1..Len(q) : q[i].kind \in Origin

KindsKnown == Known(busy) /\ Known(pending)

LEMMA KnownAlike ==
  ASSUME NEW s, NEW t, Alike(s, t), Known(s)
  PROVE  Known(t)
  BY DEF Known, Alike, Like

LEMMA KnownJoined ==
  ASSUME NEW p \in Seq(Command), Known(p), NEW s \in Seq(NewCommand), NEW pp, Joined(pp, p, s)
  PROVE  Known(pp)
<1>1. /\ \A i \in 1..Len(p) : pp[i] = p[i]
      /\ \A i \in 1..Len(pp) : i \notin 1..Len(p) => i - Len(p) \in 1..Len(s) /\ pp[i] = s[i - Len(p)]
  BY JoinedNew
<1>2. \A i \in 1..Len(s) : s[i].kind \in Origin
  <2>1. \A i \in 1..Len(s) : s[i] \in NewCommand
    BY SeqFacts
  <2>. QED  BY <2>1 DEF NewCommand
<1>. QED  BY <1>1, <1>2 DEF Known

LEMMA KnownShortened ==
  ASSUME NEW p \in Seq(Command), Known(p), NEW pp, Shortened(pp, p)
  PROVE  Known(pp) /\ p[1].kind \in Origin
<1>1. \A i \in 1..Len(pp) : i + 1 \in 1..Len(p) /\ pp[i] = p[i + 1]
  BY ShortenedFacts
<1>2. p # <<>>
  BY DEF Shortened
<1>3. 1 \in 1..Len(p)
  BY <1>2, SeqFacts
<1>. QED  BY <1>1, <1>3 DEF Known

LEMMA KnownAdded ==
  ASSUME NEW b \in Seq(Command), Known(b), NEW c \in Command, c.kind \in Origin,
         NEW bb, Added(bb, b, c)
  PROVE  Known(bb)
<1>1. /\ bb \in Seq(Command) /\ Len(b) \in Nat /\ Len(bb) = Len(b) + 1 /\ bb[Len(b) + 1] = c
      /\ \A i \in 1..Len(b) : bb[i] = b[i]
  BY AddedFacts
<1>2. ASSUME NEW i \in 1..Len(bb) PROVE bb[i].kind \in Origin
  <2>1. CASE i \in 1..Len(b)
    BY <1>1, <2>1 DEF Known
  <2>2. CASE i \notin 1..Len(b)
    <3>1. i = Len(b) + 1
      BY <1>1, <2>2
    <3>. QED  BY <1>1, <3>1
  <2>. QED  BY <2>1, <2>2
<1>. QED  BY <1>2 DEF Known

LEMMA KnownUrgent ==
  ASSUME NEW p \in Seq(Command), Known(p), NEW h \in NewCommand, NEW q, Joined(q, <<h>>, p)
  PROVE  Known(q)
<1>1. h \in Command /\ h.kind \in Origin
  BY DEF NewCommand
<1>2. q[1] = h /\ \A i \in 1..Len(q) : i # 1 => i - 1 \in 1..Len(p) /\ q[i] = p[i - 1]
  BY <1>1, UrgentFacts
<1>. QED  BY <1>1, <1>2 DEF Known

LEMMA KnownThinned ==
  ASSUME NEW p \in Seq(Command), Known(p), NEW K, K \subseteq 1..Len(p), NEW pp, Thinned(pp, p, K)
  PROVE  Known(pp)
<1>1. \E at : Places(at, pp, p, K)
  BY ThinnedFacts
<1>. QED  BY <1>1 DEF Places, Known

LEMMA KnownStep ==
  ASSUME TypeOK, TypeOK', KindsKnown, Moves
  PROVE  KindsKnown'
<1>1. /\ pending \in Seq(Command) /\ busy \in Seq(Command) /\ Known(busy) /\ Known(pending)
      /\ pending' \in Seq(Command) /\ busy' \in Seq(Command)
  BY DEF TypeOK, KindsKnown
<1>2. SUFFICES Known(busy') /\ Known(pending')
  BY DEF KindsKnown, Known
<1>3. CASE Stays \/ Halves
  <2>1. Alike(busy, busy') /\ Alike(pending, pending')
    BY <1>1, <1>3, AlikeSame DEF Stays, Halves
  <2>. QED  BY <1>1, <2>1, KnownAlike
<1>4. CASE Sends
  <2>1. Shortened(pending', pending)
    BY <1>4 DEF Sends
  <2>2. PICK c \in Command : c.kind = pending[1].kind /\ Added(busy', busy, c)
    BY <1>4 DEF Sends, Like
  <2>3. Known(pending') /\ pending[1].kind \in Origin
    BY <1>1, <2>1, KnownShortened
  <2>4. Known(busy')
    BY <1>1, <2>2, <2>3, KnownAdded
  <2>. QED  BY <2>3, <2>4
<1>5. CASE Adds
  <2>1. PICK s \in Seq(NewCommand) : Joined(pending', pending, s)
    BY <1>5 DEF Adds
  <2>2. busy' = busy
    BY <1>5 DEF Adds
  <2>. QED  BY <1>1, <2>1, <2>2, KnownJoined
<1>6. ASSUME Ends PROVE Known(busy')
  <2>1. Shortened(busy', busy)
    BY <1>6 DEF Ends
  <2>. QED  BY <1>1, <2>1, KnownShortened
<1>7. CASE Finishes
  <2>1. PICK s \in Seq(NewCommand) : Joined(pending', pending, s)
    BY <1>7 DEF Finishes
  <2>2. Known(pending')
    BY <1>1, <2>1, KnownJoined
  <2>. QED  BY <1>6, <1>7, <2>2 DEF Finishes
<1>8. CASE Preempts
  <2>1. PICK h \in NewCommand, q \in Seq(Command), s \in Seq(NewCommand) :
          Urgent(h, q) /\ Joined(pending', q, s)
    BY <1>8 DEF Preempts
  <2>2. Joined(q, <<h>>, pending)
    BY <2>1 DEF Urgent
  <2>3. Known(q)
    BY <1>1, <2>2, KnownUrgent
  <2>4. Known(pending')
    BY <2>1, <2>3, KnownJoined
  <2>. QED  BY <1>6, <1>8, <2>4 DEF Preempts
<1>9. CASE \E u \in Users : Leaves(u)
  <2>1. PICK u \in Users : Leaves(u)
    BY <1>9
  <2>2. Alike(busy, busy') /\ Thinned(pending', pending, Others(pending, u))
    BY <2>1 DEF Leaves
  <2>3. Others(pending, u) \subseteq 1..Len(pending)
    BY DEF Others
  <2>4. Known(pending')
    BY <1>1, <2>2, <2>3, KnownThinned
  <2>. QED  BY <1>1, <2>2, <2>4, KnownAlike
<1>. QED  BY <1>3, <1>4, <1>5, <1>7, <1>8, <1>9 DEF Moves

-----------------------------------------------------------------------------
(* The messages to the clients. *)

OwnMessage == {m \in Message : m.own}
OwnBoxes   == [Users -> Seq(OwnMessage)]

LEMMA OwnEvents == usock_evt_send \in OwnBoxes /\ NoMessage \in OwnBoxes
<1>1. Event \in OwnMessage
  BY DEF Event, Message, OwnMessage
<1>2. <<Event>> \in Seq(OwnMessage) /\ <<>> \in Seq(OwnMessage)
  BY <1>1
<1>. QED  BY <1>2, Zenon DEF usock_evt_send, NoMessage, OwnBoxes

LEMMA OwnBoth ==
  ASSUME NEW m1 \in OwnBoxes, NEW m2 \in OwnBoxes
  PROVE  Both(m1, m2) \in OwnBoxes
  BY DEF Both, OwnBoxes

LEMMA OwnReply ==
  ASSUME NEW c \in Command, NEW lines, NEW code, NEW own, own = TRUE
  PROVE  Reply(c, lines, code, own) \in OwnBoxes
<1> DEFINE r == [id |-> IF c.kind \in KeepsId THEN c.id ELSE 0, req |-> c.id, own |-> own]
<1>1. r \in OwnMessage
  BY DEF Command, Ids, Message, OwnMessage
<1> HIDE DEF r
<1>2. <<r>> \in Seq(OwnMessage) /\ <<>> \in Seq(OwnMessage)
  BY <1>1
<1>3. Reply(c, lines, code, own) =
        [u \in Users |-> IF c.cb /\ c.ctx = u /\ Replies(c.kind, lines # <<>>, code)
                         THEN <<r>> ELSE <<>>]
  BY DEF Reply, r
<1>. QED  BY <1>2, <1>3 DEF OwnBoxes

LEMMA OwnEnqueue ==
  ASSUME out \in OwnBoxes, NEW msgs \in OwnBoxes, usock_cmd_enqueue(msgs)
  PROVE  out' \in OwnBoxes
  BY DEF usock_cmd_enqueue, OwnBoxes

LEMMA OwnNotForeign ==
  ASSUME out \in OwnBoxes
  PROVE  ~Foreign
<1>1. ASSUME NEW u \in Users, NEW i \in DOMAIN out[u] PROVE out[u][i].own
  <2>1. out[u] \in Seq(OwnMessage)
    BY DEF OwnBoxes
  <2>2. out[u][i] \in OwnMessage
    BY <2>1
  <2>. QED  BY <2>2 DEF OwnMessage
<1>. QED  BY <1>1 DEF Foreign

-----------------------------------------------------------------------------
(* The lines in mlbuf are those of the executing command. *)

Quiet == QuietModem /\ ~early /\ ~orphan /\ ~stray

Tidy(b, ml) == ml = <<>> \/ (b # <<>> /\ \A i \in 1..Len(ml) : ml[i].of = b[1].id)

Lines == Quiet => ~mlunsol /\ Tidy(busy, mlbuf) /\ out \in OwnBoxes

\* The inductive invariant of the replies.
LInv == OInv /\ KindsKnown /\ Lines

LEMMA TidyAlike ==
  ASSUME NEW b \in Seq(Command), NEW bb \in Seq(Command), Alike(b, bb), NEW ml, Tidy(b, ml)
  PROVE  Tidy(bb, ml)
<1>1. (bb = <<>> <=> b = <<>>) /\ (b # <<>> => bb[1].id = b[1].id)
  BY AlikeEmpty
<1>. QED  BY <1>1 DEF Tidy

LEMMA LinesSame ==
  ASSUME TypeOK, TypeOK', Lines, Quiet' => Quiet, UNCHANGED <<mlbuf, mlunsol>>,
         Alike(busy, busy'), out \in OwnBoxes => out' \in OwnBoxes
  PROVE  Lines'
<1>1. SUFFICES ASSUME Quiet' PROVE ~mlunsol' /\ Tidy(busy', mlbuf') /\ out' \in OwnBoxes
  BY DEF Lines, Tidy, OwnBoxes, OwnMessage, Message
<1>2. ~mlunsol /\ Tidy(busy, mlbuf) /\ out \in OwnBoxes
  BY <1>1 DEF Lines
<1>3. Tidy(busy', mlbuf)
  BY <1>2, TidyAlike DEF TypeOK
<1>. QED  BY <1>2, <1>3

\* Nothing but busy and pending may change, and busy only by timers marked.
LEMMA LinesApart ==
  ASSUME TypeOK, TypeOK', Lines, Quiet' => Quiet, UNCHANGED <<busy, mlbuf, mlunsol, out>>
  PROVE  Lines'
<1>1. Alike(busy, busy')
  BY AlikeSame DEF TypeOK
<1>. QED  BY <1>1, LinesSame

\* The executing command ends and takes its lines with it.
LEMMA LinesEnd ==
  ASSUME LInv, TypeOK', Quiet' => Quiet, busy # <<>>,
         NEW base, NEW q, NEW lines, NEW code, NEW own, NEW events \in OwnBoxes,
         EndCommand(base, q, lines, code, own, events),
         Quiet' => own = TRUE /\ mlbuf' = <<>>
  PROVE  Lines'
<1>1. SUFFICES ASSUME Quiet' PROVE ~mlunsol' /\ Tidy(busy', mlbuf') /\ out' \in OwnBoxes
  BY DEF Lines, Tidy, OwnBoxes, OwnMessage, Message
<1>2. ~mlunsol /\ out \in OwnBoxes
  BY <1>1 DEF LInv, Lines
<1>3. mlunsol' = mlunsol /\ usock_cmd_enqueue(Both(events, Reply(Head(busy), lines, code, own)))
  BY DEF EndCommand
<1>4. Head(busy) \in Command
  BY DEF LInv, OInv, IInv, TypeOK
<1>5. Both(events, Reply(Head(busy), lines, code, own)) \in OwnBoxes
  BY <1>1, <1>4, OwnReply, OwnBoth
<1>6. out' \in OwnBoxes
  BY <1>2, <1>3, <1>5, OwnEnqueue
<1>. QED  BY <1>1, <1>2, <1>3, <1>6 DEF Tidy

\* A line left behind by a command without callback is not forgotten.
LEMMA OrphanKept ==
  ASSUME [Next]_vars
  PROVE  orphan => orphan'
<1>1. ASSUME NEW base, NEW q, NEW lines, NEW code, NEW own, NEW ev,
             EndCommand(base, q, lines, code, own, ev)
      PROVE  orphan => orphan'
  BY <1>1 DEF EndCommand
<1>2. ASSUME NEW base, NEW q, NEW lines, NEW code, NEW own, NEW ev,
             atcmd_done(base, q, lines, code, own, ev)
      PROVE  orphan => orphan'
  BY <1>1, <1>2, Zenon DEF atcmd_done, Crash, history
<1>3. CASE UNCHANGED vars
  BY <1>3 DEF vars, history
<1>4. CASE UartWrite
  BY <1>4 DEF UartWrite
<1>5. CASE ClientStep
  <2>1. PICK u \in Users :
          \/ Connect(u) \/ Hangup(u) \/ PowerOff(u) \/ UserWrite(u) \/ Disconnect(u)
          \/ \E ks \in pcmd_type_handlers : Request(u, ks)
    BY <1>5 DEF ClientStep
  <2>2. CASE Connect(u) \/ PowerOff(u) \/ UserWrite(u)
    BY <2>2 DEF Connect, PowerOff, UserWrite, history
  <2>3. CASE Hangup(u)
    BY <1>2, <2>3, Zenon DEF Hangup
  <2>4. CASE Disconnect(u)
    BY <2>4 DEF Disconnect, atcmd_terminate_matching, Crash, history
  <2>5. CASE \E ks \in pcmd_type_handlers : Request(u, ks)
    BY <2>5 DEF Request
  <2>. QED  BY <2>1, <2>2, <2>3, <2>4, <2>5
<1>6. CASE ModemStep
  <2>1. CASE ReadyLine \/ InfoLine \/ UrcLine \/ Prompt \/ ModemDrop
    BY <2>1, Zenon DEF ReadyLine, InfoLine, UrcLine, Prompt, ModemDrop, history
  <2>2. ASSUME NEW code, NEW of, FinalResult(code, of) PROVE orphan => orphan'
    BY <1>2, <2>2, Zenon DEF FinalResult, history
  <2>3. CASE FinalLine \/ CarrierLine
    BY <2>2, <2>3, Zenon DEF FinalLine, CarrierLine
  <2>. QED  BY <1>6, <2>1, <2>3 DEF ModemStep
<1>7. CASE TimerStep
  <2>1. CASE AliveInterval
    BY <2>1 DEF AliveInterval
  <2>2. ASSUME NEW i \in DOMAIN busy, discard_timeout(i) \/ wakeup_timeout(i)
        PROVE  orphan => orphan'
    BY <1>1, <2>2, Zenon DEF discard_timeout, wakeup_timeout, NotHead, history
  <2>3. ASSUME NEW i \in DOMAIN busy, alive_tmr_cb(i) \/ poweroff_timeout(i)
        PROVE  orphan => orphan'
    BY <2>3, Zenon DEF alive_tmr_cb, poweroff_timeout, history
  <2>. QED  BY <1>7, <2>1, <2>2, <2>3 DEF TimerStep
<1>. QED  BY <1>3, <1>4, <1>5, <1>6, <1>7 DEF Next

LEMMA LinesUart ==
  ASSUME LInv, TypeOK', Quiet' => Quiet, UartWrite
  PROVE  Lines'
<1>1. SUFFICES ASSUME Quiet' PROVE ~mlunsol' /\ Tidy(busy', mlbuf') /\ out' \in OwnBoxes
  BY DEF Lines, Tidy, OwnBoxes, OwnMessage, Message
<1>2. ~mlunsol /\ Tidy(busy, mlbuf) /\ out \in OwnBoxes
  BY <1>1 DEF LInv, Lines
<1>3. busy = <<>>
  <2>1. want /\ ~stray /\ Flight
    BY <1>1 DEF UartWrite, Quiet, LInv, OInv, IInv, Engine
  <2>. QED  BY <2>1 DEF Flight
<1>4. mlbuf = <<>>
  BY <1>2, <1>3 DEF Tidy
<1>5. UNCHANGED <<mlbuf, mlunsol, out>>
  BY DEF UartWrite, clients
<1>. QED  BY <1>2, <1>4, <1>5 DEF Tidy

\* remove_timer crashes, or the command ends.
LEMMA LinesDone ==
  ASSUME LInv, TypeOK', Quiet' => Quiet, busy # <<>>,
         NEW base, NEW q, NEW buf, NEW code, NEW own, NEW events \in OwnBoxes,
         atcmd_done(base, q, buf, code, own, events),
         Quiet' /\ buf = <<>> => own = TRUE,
         Quiet' /\ buf # <<>> => Own(Head(busy), buf)
  PROVE  Lines'
<1>0. TypeOK /\ Lines
  BY DEF LInv, OInv, IInv
<1>1. CASE Crash
  <2>1. UNCHANGED <<busy, mlbuf, mlunsol, out>>
    BY <1>1 DEF Crash, engine, clients
  <2>. QED  BY <1>0, <2>1, LinesApart
<1>2. CASE ~Crash
  <2>1. PICK o : o = IF buf = <<>> THEN own ELSE Own(Head(busy), buf)
    OBVIOUS
  <2>2. /\ EndCommand(base, q, buf, code, o, events)
        /\ mlbuf' = IF Head(busy).cb THEN <<>> ELSE buf
    BY <1>2, <2>1, Zenon DEF atcmd_done
  <2>3. Own(Head(busy), buf) \in BOOLEAN
    BY Zenon DEF Own
  <2>4. Quiet' => o = TRUE
    BY <2>1, <2>3
  <2>5. Quiet' => mlbuf' = <<>>
    <3>1. orphan' = (orphan \/ (~Head(busy).cb /\ buf # <<>>))
      BY <2>2 DEF EndCommand
    <3>2. Quiet' => ~orphan'
      BY DEF Quiet
    <3>. QED  BY <2>2, <3>1, <3>2, Zenon
  <2>6. Quiet' => o = TRUE /\ mlbuf' = <<>>
    BY <2>4, <2>5
  <2>. QED  BY <2>2, <2>6, LinesEnd
<1>. QED  BY <1>1, <1>2

LEMMA LinesHangup ==
  ASSUME LInv, TypeOK', Quiet' => Quiet, NEW u \in Users, Hangup(u)
  PROVE  Lines'
<1>0. TypeOK /\ Lines
  BY DEF LInv, OInv, IInv
<1>1. CASE UNCHANGED <<busy, mlbuf, mlunsol, clients>>
  BY <1>0, <1>1, LinesApart DEF clients
<1>2. CASE /\ busy # <<>>
           /\ atcmd_done(n + 1, <<atcmd_fill("hangup", u, n + 1)>> \o pending,
                         <<>>, "cancel", TRUE, NoMessage)
  <2>1. PICK q : q = <<atcmd_fill("hangup", u, n + 1)>> \o pending
    OBVIOUS
  <2>2. PICK none : none = <<>>
    OBVIOUS
  <2>3. PICK yes : yes = TRUE
    OBVIOUS
  <2>4. atcmd_done(n + 1, q, none, "cancel", yes, NoMessage)
    BY <1>2, <2>1, <2>2, <2>3
  <2>. QED  BY <1>2, <2>2, <2>3, <2>4, OwnEvents, LinesDone
<1>. QED  BY <1>1, <1>2, Zenon DEF Hangup

LEMMA LinesDisconnect ==
  ASSUME LInv, TypeOK', Quiet' => Quiet, NEW u \in Users, Disconnect(u)
  PROVE  Lines'
<1>0. TypeOK /\ Lines
  BY DEF LInv, OInv, IInv
<1>1. CASE Crash
  <2>1. UNCHANGED <<busy, mlbuf, mlunsol, out>>
    BY <1>1 DEF Crash, engine, clients
  <2>. QED  BY <1>0, <2>1, LinesApart
<1>2. CASE ~Crash
  <2>1. UNCHANGED <<mlbuf, mlunsol>> /\ out' = [out EXCEPT ![u] = <<>>]
    BY <1>2 DEF Disconnect, atcmd_terminate_matching
  <2>2. Alike(busy, busy')
    BY <1>0, DisconnectMoves DEF Stays, Leaves
  <2>3. out \in OwnBoxes => out' \in OwnBoxes
    BY <2>1 DEF OwnBoxes
  <2>. QED  BY <1>0, <2>1, <2>2, <2>3, LinesSame
<1>. QED  BY <1>1, <1>2

LEMMA LinesClient ==
  ASSUME LInv, TypeOK', Quiet' => Quiet, ClientStep
  PROVE  Lines'
<1>0. TypeOK /\ Lines
  BY DEF LInv, OInv, IInv
<1>1. PICK u \in Users :
        \/ Connect(u) \/ Hangup(u) \/ PowerOff(u) \/ UserWrite(u) \/ Disconnect(u)
        \/ \E ks \in pcmd_type_handlers : Request(u, ks)
  BY DEF ClientStep
<1>2. CASE Connect(u)
  <2>1. UNCHANGED <<busy, mlbuf, mlunsol>> /\ out' = [out EXCEPT ![u] = <<>>]
    BY <1>2 DEF Connect, engine
  <2>2. out \in OwnBoxes => out' \in OwnBoxes
    BY <2>1 DEF OwnBoxes
  <2>3. Alike(busy, busy')
    BY <1>0, <2>1, AlikeSame DEF TypeOK
  <2>. QED  BY <1>0, <2>1, <2>2, <2>3, LinesSame
<1>3. CASE UserWrite(u)
  <2>1. UNCHANGED <<busy, mlbuf, mlunsol>>
    BY <1>3 DEF UserWrite, engine
  <2>2. PICK k \in 0..Len(out[u]) : out' = [out EXCEPT ![u] = SubSeq(out[u], k + 1, Len(out[u]))]
    BY <1>3 DEF UserWrite
  <2>3. ASSUME out \in OwnBoxes PROVE out' \in OwnBoxes
    <3>1. out[u] \in Seq(OwnMessage)
      BY <2>3 DEF OwnBoxes
    <3>2. SubSeq(out[u], k + 1, Len(out[u])) \in Seq(OwnMessage)
      BY <3>1
    <3>. QED  BY <2>2, <2>3, <3>2 DEF OwnBoxes
  <2>4. Alike(busy, busy')
    BY <1>0, <2>1, AlikeSame DEF TypeOK
  <2>. QED  BY <1>0, <2>1, <2>3, <2>4, LinesSame
<1>4. CASE PowerOff(u) \/ \E ks \in pcmd_type_handlers : Request(u, ks)
  <2>1. UNCHANGED <<busy, mlbuf, mlunsol, out>>
    BY <1>4 DEF PowerOff, Request, clients
  <2>. QED  BY <1>0, <2>1, LinesApart
<1>. QED  BY <1>1, <1>2, <1>3, <1>4, LinesHangup, LinesDisconnect

LEMMA LinesTimer ==
  ASSUME LInv, TypeOK', Quiet' => Quiet, TimerStep
  PROVE  Lines'
<1>0. TypeOK /\ Lines
  BY DEF LInv, OInv, IInv
<1>1. CASE AliveInterval
  BY <1>0, <1>1, LinesApart DEF AliveInterval, clients
<1>2. ASSUME NEW i \in DOMAIN busy, NEW t, busy' = [busy EXCEPT ![i].tmr = t],
             UNCHANGED <<mlbuf, mlunsol, out, pending, n, ended, owed>>
      PROVE  Lines'
  <2>1. Alike(busy, busy')
    BY <1>0, <1>2, MarkMoves DEF Stays
  <2>. QED  BY <1>0, <1>2, <2>1, LinesSame
<1>3. ASSUME NEW i \in DOMAIN busy, discard_timeout(i) \/ wakeup_timeout(i)
      PROVE  Lines'
  <2>0. owed' = owed
    BY <1>3 DEF discard_timeout, wakeup_timeout
  <2>1. CASE NotHead(i)
    <3>1. /\ busy' = [busy EXCEPT ![i].tmr = "dead"]
          /\ UNCHANGED <<mlbuf, mlunsol, out, pending, n, ended>>
      BY <2>1 DEF NotHead, clients, history
    <3>. QED  BY <1>2, <2>0, <3>1
  <2>2. CASE EndCommand(n, pending, <<>>, "timeout", TRUE, NoMessage) /\ UNCHANGED mlbuf
    <3>1. busy # <<>>
      BY <1>0
    <3>2. PICK yes : yes = TRUE
      OBVIOUS
    <3>3. EndCommand(n, pending, <<>>, "timeout", yes, NoMessage)
      BY <2>2, <3>2
    <3>4. ~early' => mlbuf = <<>>
      <4>1. early' = \/ early \/ Head(busy).id \in OwedIds(owed')
                     \/ "timeout" \in {"timeout", "cancel", "none"} /\ mlbuf # <<>>
        BY <2>2 DEF EndCommand
      <4>2. "timeout" \in {"timeout", "cancel", "none"}
        OBVIOUS
      <4>. QED  BY <4>1, <4>2, Zenon
    <3>5. Quiet' => ~early'
      BY DEF Quiet
    <3>6. Quiet' => yes = TRUE /\ mlbuf' = <<>>
      BY <2>2, <3>2, <3>4, <3>5
    <3>. QED  BY <3>1, <3>3, <3>6, OwnEvents, LinesEnd
  <2>. QED  BY <1>3, <2>1, <2>2 DEF discard_timeout, wakeup_timeout
<1>4. ASSUME NEW i \in DOMAIN busy, alive_tmr_cb(i) \/ poweroff_timeout(i)
      PROVE  Lines'
  <2>0. UNCHANGED <<out, n, ended, owed>>
    BY <1>4 DEF alive_tmr_cb, poweroff_timeout, clients, history
  <2>1. CASE UNCHANGED engine
    BY <1>0, <2>0, <2>1, LinesApart DEF engine
  <2>2. CASE busy' = [busy EXCEPT ![i].tmr = "freed"] /\ UNCHANGED <<pending, mlbuf, mlunsol>>
    BY <1>2, <2>0, <2>2
  <2>. QED  BY <1>4, <2>1, <2>2 DEF alive_tmr_cb, poweroff_timeout
<1>. QED  BY <1>1, <1>3, <1>4 DEF TimerStep

\* The result code of the executing command: by Answers it is its own.
LEMMA LinesFinal ==
  ASSUME LInv, TypeOK', Quiet' => Quiet, FinalLine
  PROVE  Lines'
<1>0. TypeOK /\ Lines /\ owed # <<>> /\ owed \in Seq(Owed) /\ busy \in Seq(Command)
  BY DEF LInv, OInv, IInv, FinalLine, TypeOK
<1>1. PICK code : FinalResult(code, Head(owed).id)
  BY Zenon DEF FinalLine
<1>2. CASE UNCHANGED <<up, engine, clients, history>>
  BY <1>0, <1>2, LinesApart DEF engine, clients
<1>3. CASE /\ busy # <<>>
           /\ \E ev \in ErrorEvents(code) :
                atcmd_done(n, pending, mlbuf, code, Head(owed).id = Head(busy).id, ev)
  <2>1. PICK ev \in ErrorEvents(code) :
          atcmd_done(n, pending, mlbuf, code, Head(owed).id = Head(busy).id, ev)
    BY <1>3
  <2>2. PICK own : own = (Head(owed).id = Head(busy).id)
    OBVIOUS
  <2>3. atcmd_done(n, pending, mlbuf, code, own, ev)
    BY <2>1, <2>2
  <2>4. ev \in OwnBoxes
    BY <2>1, OwnEvents DEF ErrorEvents
  <2>5. Head(busy) = busy[1] /\ Head(owed) = owed[1] /\ 1 \in 1..Len(owed)
    BY <1>0, <1>3, SeqFacts
  <2>6. ASSUME Quiet' PROVE own = TRUE
    <3>1. Quiet
      BY <2>6
    <3>2. Matched(busy, pending, owed)
      BY <3>1 DEF Quiet, LInv, OInv, Answers
    <3>3. owed[1].id = busy[1].id
      BY <1>3, <2>5, <3>2 DEF Matched
    <3>. QED  BY <2>2, <2>5, <3>3
  <2>7. ASSUME Quiet', mlbuf # <<>> PROVE Own(Head(busy), mlbuf)
    <3>1. Tidy(busy, mlbuf)
      BY <1>0, <2>7 DEF Lines
    <3>2. DOMAIN mlbuf = 1..Len(mlbuf)
      BY <1>0, SeqFacts DEF TypeOK
    <3>. QED  BY <2>5, <2>7, <3>1, <3>2 DEF Own, Tidy
  <2>8. (Quiet' /\ mlbuf = <<>> => own = TRUE) /\ (Quiet' /\ mlbuf # <<>> => Own(Head(busy), mlbuf))
    BY <2>6, <2>7
  <2>. QED  BY <1>3, <2>3, <2>4, <2>8, LinesDone
<1>. QED  BY <1>1, <1>2, <1>3 DEF FinalResult

\* A registration line that is an event.
LEMMA LinesEvent ==
  ASSUME LInv, TypeOK', Quiet' => Quiet, unsolicited_parse("reg", NoMessage),
         UNCHANGED <<busy, mlbuf, mlunsol>>
  PROVE  Lines'
<1>0. TypeOK /\ Lines
  BY DEF LInv, OInv, IInv
<1>1. PICK ev \in {usock_evt_send, NoMessage} : usock_cmd_enqueue(Both(NoMessage, ev))
  BY DEF unsolicited_parse
<1>2. Both(NoMessage, ev) \in OwnBoxes
  BY <1>1, OwnEvents, OwnBoth
<1>3. out \in OwnBoxes => out' \in OwnBoxes
  BY <1>1, <1>2, OwnEnqueue
<1>4. Alike(busy, busy')
  BY <1>0, AlikeSame DEF TypeOK
<1>. QED  BY <1>0, <1>3, <1>4, LinesSame

\* A line of the executing command goes to the end of what is left of mlbuf.
LEMMA LinesAppend ==
  ASSUME LInv, TypeOK', Quiet, Quiet', busy # <<>>, busy' = busy,
         NEW rest \in Seq(Line), Tidy(busy, rest), NEW line \in Line, line.of = busy[1].id,
         NEW msgs \in OwnBoxes, AppendLine(rest, line, msgs)
  PROVE  Lines'
<1>1. ~mlunsol /\ out \in OwnBoxes
  BY DEF LInv, Lines
<1>2. Added(mlbuf', rest, line) /\ usock_cmd_enqueue(msgs) /\ mlunsol' = mlunsol
  BY <1>1 DEF AppendLine, Added
<1>3. out' \in OwnBoxes
  BY <1>1, <1>2, OwnEnqueue
<1>4. PICK ml : ml = mlbuf'
  OBVIOUS
<1>5. /\ ml \in Seq(Line) /\ Len(rest) \in Nat /\ Len(ml) = Len(rest) + 1 /\ ml[Len(rest) + 1] = line
      /\ \A i \in 1..Len(rest) : ml[i] = rest[i]
  BY <1>2, <1>4, AddedFacts
<1>6. \A i \in 1..Len(rest) : rest[i].of = busy[1].id
  <2>1. rest = <<>> <=> Len(rest) = 0
    BY SeqFacts
  <2>. QED  BY <2>1 DEF Tidy
<1>7. ASSUME NEW i \in 1..Len(ml) PROVE ml[i].of = busy[1].id
  <2>1. CASE i \in 1..Len(rest)
    BY <1>5, <1>6, <2>1
  <2>2. CASE i \notin 1..Len(rest)
    <3>1. i = Len(rest) + 1
      BY <1>5, <2>2
    <3>. QED  BY <1>5, <3>1
  <2>. QED  BY <2>1, <2>2
<1>8. Tidy(busy', mlbuf')
  BY <1>4, <1>7 DEF Tidy
<1>. QED  BY <1>1, <1>2, <1>3, <1>8 DEF Lines

\* An information line: by Answers the command it answers is executing.
LEMMA LinesInfo ==
  ASSUME LInv, TypeOK', Quiet' => Quiet, InfoLine
  PROVE  Lines'
<1>0. /\ TypeOK /\ Lines /\ owed # <<>> /\ owed \in Seq(Owed) /\ busy \in Seq(Command)
      /\ mlbuf \in Seq(Line) /\ busy' = busy
  BY DEF LInv, OInv, IInv, InfoLine, TypeOK
<1>1. SUFFICES ASSUME Quiet' PROVE Lines'
  BY DEF Lines, Tidy, OwnBoxes, OwnMessage, Message
<1>2. Quiet
  BY <1>1
<1>3. ~mlunsol /\ Tidy(busy, mlbuf) /\ out \in OwnBoxes /\ Matched(busy, pending, owed)
  BY <1>2 DEF LInv, OInv, Lines, Answers, Quiet
<1>4. Head(owed) = owed[1] /\ 1 \in 1..Len(owed) /\ owed[1] \in Owed
  BY <1>0, SeqFacts
<1>5. busy # <<>> /\ owed[1].id = busy[1].id
  <2>1. owed[1].last
    BY <1>4 DEF InfoLine
  <2>. QED  BY <1>3, <1>4, <2>1 DEF Matched
<1>6. Head(busy) = busy[1] /\ busy[1] \in Command
  BY <1>0, <1>5, SeqFacts
<1>7. PICK p \in {Head(owed).pfx, "text"} \ {"none"} : ml_parse([of |-> Head(owed).id, pfx |-> p])
  BY Zenon DEF InfoLine
<1>8. p \in {"reg", "other", "text"}
  BY <1>4, <1>7 DEF Owed
<1>9. PICK line : line = [of |-> Head(owed).id, pfx |-> p]
  OBVIOUS
<1>10. line \in Line /\ line.of = busy[1].id /\ line.pfx = p /\ ml_parse(line)
  <2>1. owed[1].id \in Nat
    BY <1>4 DEF Owed, Ids
  <2>. QED  BY <1>4, <1>5, <1>7, <1>8, <1>9, <2>1 DEF Line
<1>11. CASE unsolicited_parse("reg", NoMessage) /\ UNCHANGED <<mlbuf, mlunsol>>
  BY <1>0, <1>11, LinesEvent
<1>12. CASE UNCHANGED <<mlbuf, mlunsol, pending, want, registered, out, uwant, n>>
  BY <1>0, <1>12, LinesApart
<1>13. CASE AppendLine(mlbuf, line, NoMessage)
  BY <1>0, <1>1, <1>2, <1>3, <1>5, <1>10, <1>13, OwnEvents, LinesAppend
<1>14. CASE AppendLine(<<>>, line, IF mlbuf = <<>> THEN NoMessage
                                   ELSE Reply(Head(busy), mlbuf, "none", Own(Head(busy), mlbuf)))
  <2>1. PICK msgs : msgs = IF mlbuf = <<>> THEN NoMessage
                           ELSE Reply(Head(busy), mlbuf, "none", Own(Head(busy), mlbuf))
    OBVIOUS
  <2>2. PICK none : none = <<>>
    OBVIOUS
  <2>3. AppendLine(none, line, msgs)
    BY <1>14, <2>1, <2>2
  <2>4. none \in Seq(Line) /\ Tidy(busy, none)
    BY <2>2 DEF Tidy
  <2>5. msgs \in OwnBoxes
    <3>1. CASE mlbuf = <<>>
      BY <2>1, <3>1, OwnEvents
    <3>2. CASE mlbuf # <<>>
      <4>1. DOMAIN mlbuf = 1..Len(mlbuf)
        BY <1>0, SeqFacts
      <4>2. Own(Head(busy), mlbuf) = TRUE
        BY <1>3, <1>6, <3>2, <4>1 DEF Own, Tidy
      <4>3. Reply(Head(busy), mlbuf, "none", Own(Head(busy), mlbuf)) \in OwnBoxes
        BY <1>6, <4>2, OwnReply
      <4>. QED  BY <2>1, <3>2, <4>3
    <3>. QED  BY <3>1, <3>2
  <2>. QED  BY <1>0, <1>1, <1>2, <1>5, <1>10, <2>3, <2>4, <2>5, LinesAppend
<1>15. line.pfx # "mt"
  BY <1>8, <1>10
<1>. QED  BY <1>5, <1>10, <1>11, <1>12, <1>13, <1>14, <1>15, Zenon DEF ml_parse

\* With a quiet modem the only line of its own is a registration, and no executing
\* command asked for one.
LEMMA LinesUrc ==
  ASSUME LInv, TypeOK', Quiet' => Quiet, UrcLine
  PROVE  Lines'
<1>0. TypeOK /\ busy' = busy /\ busy \in Seq(Command) /\ KindsKnown
  BY DEF LInv, OInv, IInv, UrcLine, TypeOK
<1>1. SUFFICES ASSUME Quiet' PROVE Lines'
  BY DEF Lines, Tidy, OwnBoxes, OwnMessage, Message
<1>2. QuietModem
  BY <1>1 DEF Quiet
<1>3. PICK p \in Urc \cap {"reg", "mt", "other", "text"} : ml_parse([of |-> 0, pfx |-> p])
  BY Zenon DEF UrcLine
<1>4. p = "reg"
  BY <1>2, <1>3 DEF QuietModem
<1>5. PICK line : line = [of |-> 0, pfx |-> p]
  OBVIOUS
<1>6. ml_parse(line) /\ line.pfx = "reg"
  BY <1>3, <1>4, <1>5
<1>7. ~Solicited("reg")
  <2>1. SUFFICES ASSUME busy # <<>>, Head(busy).kind \in RegKinds PROVE FALSE
    BY DEF Solicited
  <2>2. 1 \in 1..Len(busy) /\ Head(busy) = busy[1]
    BY <1>0, <2>1, SeqFacts
  <2>3. Head(busy).kind \in Origin
    BY <1>0, <2>2 DEF KindsKnown, Known
  <2>. QED  BY <1>2, <2>1, <2>3 DEF Origin, QuietModem, RegKinds
<1>8. unsolicited_parse("reg", NoMessage) /\ UNCHANGED <<mlbuf, mlunsol>>
  BY <1>6, <1>7 DEF ml_parse
<1>. QED  BY <1>0, <1>8, LinesEvent

LEMMA LinesModem ==
  ASSUME LInv, TypeOK', Quiet' => Quiet, ModemStep
  PROVE  Lines'
<1>0. TypeOK /\ Lines
  BY DEF LInv, OInv, IInv
<1>1. CASE ReadyLine \/ Prompt \/ ModemDrop
  <2>1. UNCHANGED <<busy, mlbuf, mlunsol, out>>
    BY <1>1 DEF ReadyLine, Prompt, ModemDrop, engine, clients
  <2>. QED  BY <1>0, <2>1, LinesApart
<1>2. CASE CarrierLine
  <2>1. ~QuietModem
    BY <1>2 DEF CarrierLine, QuietModem
  <2>. QED  BY <2>1 DEF Lines, Quiet
<1>. QED  BY <1>1, <1>2, LinesFinal, LinesInfo, LinesUrc DEF ModemStep

LEMMA LinesInit == Init => KindsKnown /\ Lines
<1>1. SUFFICES ASSUME Init PROVE KindsKnown /\ Lines
  OBVIOUS
<1>2. busy = <<>> /\ mlbuf = <<>> /\ ~mlunsol /\ out = NoMessage
  BY <1>1 DEF Init
<1>3. Lines
  BY <1>2, OwnEvents DEF Lines, Tidy
<1>4. Known(pending)
  <2>1. CASE ReadyAtStart
    <3>1. "first" \in Origin
      BY DEF Origin
    <3>2. <<"first">> \in Seq(Origin)
      BY <3>1
    <3>3. PICK s : s = Submitted(0, <<"first">>, Daemon)
      OBVIOUS
    <3>4. s \in Seq(NewCommand)
      BY <3>2, <3>3, SubmittedNew
    <3>5. \A i \in 1..Len(s) : s[i] \in NewCommand
      BY <3>4, SeqFacts
    <3>6. pending = s
      BY <1>1, <2>1, <3>3 DEF Init
    <3>. QED  BY <3>5, <3>6 DEF Known, NewCommand
  <2>2. CASE ~ReadyAtStart
    BY <1>1, <2>2 DEF Init, Known
  <2>. QED  BY <2>1, <2>2
<1>5. Known(busy)
  BY <1>2 DEF Known
<1>. QED  BY <1>3, <1>4, <1>5 DEF KindsKnown

\* With a quiet modem mlbuf holds lines of the executing command only.
THEOREM LinesInductive == Spec => []LInv
<1>1. Init => KindsKnown /\ Lines
  BY LinesInit
<1>2. LInv /\ OInv' /\ [Next]_vars => (KindsKnown /\ Lines)'
  <2>1. SUFFICES ASSUME LInv, OInv', [Next]_vars PROVE KindsKnown' /\ Lines'
    OBVIOUS
  <2>2. TypeOK /\ TypeOK' /\ KindsKnown /\ Lines
    BY <2>1 DEF LInv, OInv, IInv
  <2>3. Moves /\ Remembers
    BY <2>1, <2>2, StepMoves
  <2>4. KindsKnown'
    BY <2>2, <2>3, KnownStep
  <2>5. Quiet' => Quiet
    BY <2>1, <2>3, OrphanKept DEF Quiet, Remembers, QuietModem
  <2>6. CASE UNCHANGED vars
    <3>1. UNCHANGED <<busy, mlbuf, mlunsol, out>>
      BY <2>6 DEF vars, engine, clients
    <3>. QED  BY <2>2, <2>4, <2>5, <3>1, LinesApart
  <2>7. CASE Next
    BY <2>1, <2>2, <2>4, <2>5, <2>7, LinesUart, LinesClient, LinesModem, LinesTimer DEF Next
  <2>. QED  BY <2>1, <2>6, <2>7
<1>3. OInv /\ KindsKnown /\ Lines <=> LInv
  BY DEF LInv
<1>. QED  BY <1>1, <1>2, <1>3, OrderInductive, PTL DEF Spec

\* When the modem sends nothing of its own that looks like information, a reply is
\* made of the lines of its own command, unless a command was given up before its
\* answer, one without callback left lines in mlbuf, or a stray prompt came.
THEOREM RepliesNotMixed == Spec => []NoCrossTalk
<1>1. LInv => NoCrossTalk
  <2>1. SUFFICES ASSUME LInv, QuietModem, ~(early \/ orphan \/ stray) PROVE ~Foreign
    BY DEF NoCrossTalk
  <2>2. out \in OwnBoxes
    BY <2>1 DEF LInv, Lines, Quiet
  <2>. QED  BY <2>2, OwnNotForeign
<1>. QED  BY <1>1, LinesInductive, PTL

=============================================================================
