----------------------------- MODULE TimerProofs -----------------------------
(***************************************************************************)
(* Proofs about gsmd's timers (Timer), for every interval, every length of *)
(* a second and every interleaving of the signal handler with the program. *)
(***************************************************************************)
EXTENDS Timer, SequenceTheorems, FiniteSetTheorems, TLAPS

-----------------------------------------------------------------------------
(* Times. *)

Timeval == [sec : Nat, usec : Nat]

LEMMA Times == \A a, b \in Nat : a * Sec \in Nat /\ (a > b => a * Sec >= b * Sec + Sec)
<1>1. Sec \in Nat \ {0}
  BY TimerAssumption
<1>. QED  BY <1>1

LEMMA TicksNat == ASSUME NEW tv \in Timeval PROVE Ticks(tv) \in Nat
<1>1. tv.sec * Sec \in Nat /\ tv.usec \in Nat
  BY Times DEF Timeval
<1>. QED  BY <1>1 DEF Ticks

(* The clock read by gettimeofday is the clock, and its fields are normal. *)
LEMMA Clock ==
  ASSUME NEW n \in Nat
  PROVE  /\ n \div Sec \in Nat /\ n % Sec \in Nat /\ n % Sec < Sec
         /\ (n \div Sec) * Sec + (n % Sec) = n
<1>1. Sec \in Nat \ {0}
  BY TimerAssumption
<1>. QED  BY <1>1

(* A time that tv_later finds later is later, but for the excess of the other  *)
(* one's microseconds over a second.                                           *)
LEMMA LaterTicks ==
  ASSUME NEW e \in Timeval, NEW x \in Timeval, NEW k \in Nat, x.usec < Sec + k, tv_later(e, x)
  PROVE  Ticks(e) + k >= Ticks(x)
<1>1. Sec \in Nat \ {0} /\ e.sec \in Nat /\ e.usec \in Nat /\ x.sec \in Nat /\ x.usec \in Nat
  BY TimerAssumption DEF Timeval
<1>2. CASE e.sec > x.sec
  <2>1. e.sec * Sec >= x.sec * Sec + Sec /\ e.sec * Sec \in Nat /\ x.sec * Sec \in Nat
    BY <1>1, <1>2, Times
  <2>. QED  BY <1>1, <2>1 DEF Ticks
<1>3. CASE e.sec = x.sec /\ e.usec >= x.usec
  BY <1>1, <1>3, Times DEF Ticks
<1>. QED  BY <1>2, <1>3 DEF tv_later

(* For normal times tv_later is the order of time. *)
LEMMA LaterIff ==
  ASSUME NEW e \in Timeval, NEW x \in Timeval, e.usec < Sec, x.usec < Sec
  PROVE  tv_later(e, x) <=> Ticks(e) >= Ticks(x)
<1>1. Sec \in Nat \ {0} /\ e.sec \in Nat /\ e.usec \in Nat /\ x.sec \in Nat /\ x.usec \in Nat
  BY TimerAssumption DEF Timeval
<1>2. e.sec * Sec \in Nat /\ x.sec * Sec \in Nat
  BY <1>1, Times
<1>3. CASE e.sec > x.sec
  <2>1. e.sec * Sec >= x.sec * Sec + Sec
    BY <1>1, <1>3, Times
  <2>. QED  BY <1>1, <1>2, <1>3, <2>1 DEF Ticks, tv_later
<1>4. CASE e.sec = x.sec
  BY <1>1, <1>2, <1>4 DEF Ticks, tv_later
<1>5. CASE e.sec < x.sec
  <2>1. x.sec * Sec >= e.sec * Sec + Sec
    BY <1>1, <1>5, Times
  <2>. QED  BY <1>1, <1>2, <1>5, <2>1 DEF Ticks, tv_later
<1>. QED  BY <1>1, <1>3, <1>4, <1>5

Difference == [sec : Int, usec : Nat]

(* tv_sub of a normal time gives the difference, with no negative microseconds. *)
LEMMA SubTicks ==
  ASSUME NEW x \in Timeval, NEW n \in Timeval, n.usec < Sec, NEW d, d = tv_sub(x, n)
  PROVE  /\ d \in Difference /\ Ticks(d) = Ticks(x) - Ticks(n)
         /\ x.usec < Sec => d.usec < Sec
<1>1. Sec \in Nat \ {0} /\ n.sec \in Nat /\ n.usec \in Nat /\ x.sec \in Nat /\ x.usec \in Nat
  BY TimerAssumption DEF Timeval
<1>2. n.sec * Sec \in Nat /\ x.sec * Sec \in Nat
  BY <1>1, Times
<1>3. CASE x.usec >= n.usec
  <2>1. d = Tv(x.sec - n.sec, x.usec - n.usec)
    BY <1>3 DEF tv_sub
  <2>2. d.sec = x.sec - n.sec /\ d.usec = x.usec - n.usec /\ d \in Difference
    BY <1>1, <1>3, <2>1 DEF Tv, Difference
  <2>3. d.sec * Sec = x.sec * Sec - n.sec * Sec
    BY <1>1, <2>2
  <2>. QED  BY <1>1, <1>2, <2>2, <2>3 DEF Ticks
<1>4. CASE ~(x.usec >= n.usec)
  <2>1. d = Tv(x.sec - n.sec - 1, x.usec - n.usec + Sec)
    BY <1>4 DEF tv_sub
  <2>2. d.sec = x.sec - n.sec - 1 /\ d.usec = x.usec - n.usec + Sec /\ d \in Difference
    BY <1>1, <1>4, <2>1 DEF Tv, Difference
  <2>3. d.sec * Sec = x.sec * Sec - n.sec * Sec - Sec
    BY <1>1, <2>2
  <2>. QED  BY <1>1, <1>2, <1>4, <2>2, <2>3 DEF Ticks
<1>. QED  BY <1>3, <1>4

-----------------------------------------------------------------------------
(* The list of timers. *)

Entry == [tmr : Timers, expires : Timeval, due : Nat]
Holds(list, t) == \E i \in 1..Len(list) : list[i].tmr = t
Distinct(list) == \A i, j \in 1..Len(list) : list[i].tmr = list[j].tmr => i = j

LEMMA RemoveFacts ==
  ASSUME NEW list \in Seq(Entry), Distinct(list), NEW m \in 1..Len(list), NEW r, r = RemoveAt(list, m)
  PROVE  /\ r \in Seq(Entry) /\ Distinct(r)
         /\ \A j \in 1..Len(r) : r[j].tmr # list[m].tmr /\ \E k \in 1..Len(list) : r[j] = list[k]
         /\ \A k \in 1..Len(list) : k # m => \E j \in 1..Len(r) : r[j] = list[k]
<1>. DEFINE n == Len(list)
            a == SubSeq(list, 1, m - 1)
            b == SubSeq(list, m + 1, n)
<1>1. n \in Nat /\ \A i \in 1..n : list[i] \in Entry
  BY LenProperties, ElementOfSeq
<1>2. a \in Seq(Entry) /\ Len(a) = m - 1 /\ \A i \in 1..m - 1 : a[i] = list[i]
  <2>1. \A i \in 1..m - 1 : list[i] \in Entry
    BY <1>1
  <2>. QED  BY <1>1, <2>1, SubSeqProperties
<1>3. b \in Seq(Entry) /\ Len(b) = n - m /\ \A i \in 1..n - m : b[i] = list[m + i]
  <2>1. \A i \in m + 1..n : list[i] \in Entry
    BY <1>1
  <2>2. b \in Seq(Entry) /\ Len(b) = n - m /\ \A i \in 1..n - (m + 1) + 1 : b[i] = list[(m + 1) + i - 1]
    BY <1>1, <2>1, SubSeqProperties
  <2>. QED  BY <1>1, <2>2
<1>4. r = a \o b
  BY DEF RemoveAt
<1>. HIDE DEF a, b, n
<1>5. r \in Seq(Entry) /\ Len(r) = n - 1
  BY <1>1, <1>2, <1>3, <1>4, ConcatProperties DEF n
<1>6. \A j \in 1..n - 1 : r[j] = IF j <= m - 1 THEN a[j] ELSE b[j - (m - 1)]
  BY <1>1, <1>2, <1>3, <1>4, ConcatProperties DEF n
<1>7. \A j \in 1..n - 1 : r[j] = list[IF j < m THEN j ELSE j + 1]
  <2>. SUFFICES ASSUME NEW j \in 1..n - 1 PROVE r[j] = list[IF j < m THEN j ELSE j + 1]
    OBVIOUS
  <2>1. m \in 1..n
    BY DEF n
  <2>2. CASE j < m
    BY <1>1, <1>2, <1>6, <2>1, <2>2
  <2>3. CASE ~(j < m)
    <3>1. j - (m - 1) \in 1..n - m /\ m + (j - (m - 1)) = j + 1 /\ ~(j <= m - 1)
      BY <1>1, <2>1, <2>3
    <3>. QED  BY <1>3, <1>6, <2>3, <3>1
  <2>. QED  BY <2>2, <2>3
<1>8. \A j \in 1..n - 1 : (IF j < m THEN j ELSE j + 1) \in 1..n /\ (IF j < m THEN j ELSE j + 1) # m
  BY <1>1 DEF n
<1>9. ASSUME NEW i \in 1..Len(r), NEW j \in 1..Len(r), r[i].tmr = r[j].tmr PROVE i = j
  <2>. DEFINE ii == IF i < m THEN i ELSE i + 1
              jj == IF j < m THEN j ELSE j + 1
  <2>1. ii \in 1..n /\ jj \in 1..n /\ r[i] = list[ii] /\ r[j] = list[jj]
    BY <1>5, <1>7, <1>8
  <2>2. ii = jj
    BY <1>9, <2>1 DEF Distinct, n
  <2>. QED  BY <1>1, <1>5, <2>2
<1>10. ASSUME NEW j \in 1..Len(r)
       PROVE  r[j].tmr # list[m].tmr /\ \E k \in 1..Len(list) : r[j] = list[k]
  <2>. DEFINE jj == IF j < m THEN j ELSE j + 1
  <2>1. jj \in 1..n /\ jj # m /\ r[j] = list[jj]
    BY <1>5, <1>7, <1>8
  <2>. HIDE DEF jj
  <2>. QED  BY <2>1 DEF Distinct, n
<1>11. ASSUME NEW k \in 1..Len(list), k # m PROVE \E j \in 1..Len(r) : r[j] = list[k]
  <2>. DEFINE j == IF k < m THEN k ELSE k - 1
  <2>1. j \in 1..n - 1 /\ (IF j < m THEN j ELSE j + 1) = k
    BY <1>1, <1>11 DEF n
  <2>2. r[j] = list[k]
    BY <1>7, <2>1
  <2>. QED  BY <1>5, <2>1, <2>2
<1>. QED  BY <1>5, <1>9, <1>10, <1>11 DEF Distinct

LEMMA WithoutFacts ==
  ASSUME NEW list \in Seq(Entry), Distinct(list), NEW t, NEW r, r = Without(list, t)
  PROVE  /\ r \in Seq(Entry) /\ Distinct(r)
         /\ \A j \in 1..Len(r) : r[j].tmr # t /\ \E k \in 1..Len(list) : r[j] = list[k]
         /\ \A k \in 1..Len(list) : list[k].tmr # t => \E j \in 1..Len(r) : r[j] = list[k]
<1>1. CASE ~Holds(list, t)
  <2>1. r = list
    BY <1>1 DEF Without, RemoveFirstMatch, Holds
  <2>. QED  BY <1>1, <2>1 DEF Holds
<1>2. CASE Holds(list, t)
  <2>1. PICK m \in 1..Len(list) : list[m].tmr = t
    BY <1>2 DEF Holds
  <2>. DEFINE I == {i \in 1..Len(list) : list[i].tmr = t}
  <2>2. I = {m}
    BY <2>1 DEF Distinct
  <2>3. SelectInSeq(list, LAMBDA x : x.tmr = t) = IF I # {} THEN Min(I) ELSE 0
    BY DEF SelectInSeq
  <2>4. Min({m}) = m
    <3>1. m \in {m} /\ \A y \in {m} : m <= y
      OBVIOUS
    <3>2. Min({m}) \in {m}
      BY <3>1, Zenon DEF Min
    <3>. QED  BY <3>2
  <2>5. r = RemoveAt(list, SelectInSeq(list, LAMBDA x : x.tmr = t))
    BY <2>1 DEF Without, RemoveFirstMatch
  <2>6. r = RemoveAt(list, m)
    BY <2>2, <2>3, <2>4, <2>5
  <2>7. \A k \in 1..Len(list) : list[k].tmr # t => k # m
    BY <2>1
  <2>8. /\ r \in Seq(Entry) /\ Distinct(r)
        /\ \A j \in 1..Len(r) : r[j].tmr # list[m].tmr /\ \E k \in 1..Len(list) : r[j] = list[k]
        /\ \A k \in 1..Len(list) : k # m => \E j \in 1..Len(r) : r[j] = list[k]
    BY <2>6, RemoveFacts
  <2>. QED  BY <2>1, <2>7, <2>8, Zenon
<1>. QED  BY <1>1, <1>2

Appended(r, list, e) == r = Append(list, e)

LEMMA AppendFacts ==
  ASSUME NEW list \in Seq(Entry), Distinct(list), NEW e \in Entry, ~Holds(list, e.tmr),
         NEW r, Appended(r, list, e)
  PROVE  /\ r \in Seq(Entry) /\ Distinct(r)
         /\ \A j \in 1..Len(r) : r[j] = e \/ \E k \in 1..Len(list) : r[j] = list[k]
         /\ \E j \in 1..Len(r) : r[j] = e
         /\ \A k \in 1..Len(list) : \E j \in 1..Len(r) : r[j] = list[k]
<1>1. /\ r \in Seq(Entry) /\ Len(r) = Len(list) + 1 /\ r[Len(list) + 1] = e
      /\ \A i \in 1..Len(list) : r[i] = list[i]
  BY AppendProperties DEF Appended
<1>2. Len(list) \in Nat
  BY LenProperties
<1>3. Distinct(r)
  BY <1>1, <1>2 DEF Distinct, Holds
<1>4. ASSUME NEW j \in 1..Len(r) PROVE r[j] = e \/ \E k \in 1..Len(list) : r[j] = list[k]
  BY <1>1, <1>2
<1>5. Len(list) + 1 \in 1..Len(r)
  BY <1>1, <1>2
<1>6. ASSUME NEW k \in 1..Len(list) PROVE k \in 1..Len(r) /\ r[k] = list[k]
  BY <1>1, <1>2
<1>. QED  BY <1>1, <1>3, <1>4, <1>5, <1>6

(* An entry that expires no later than entry x and than every entry of timer t. *)
LEMMA Lower ==
  ASSUME NEW list \in Seq(Entry), Distinct(list), NEW t, NEW x \in 1..Len(list)
  PROVE  \E y \in 1..Len(list) :
            /\ tv_later(list[x].expires, list[y].expires)
            /\ \A j \in 1..Len(list) : list[j].tmr = t => tv_later(list[j].expires, list[y].expires)
<1>0. \A i \in 1..Len(list) : list[i] \in Entry
  BY ElementOfSeq
<1>1. \A i \in 1..Len(list) : list[i].expires.sec \in Nat /\ list[i].expires.usec \in Nat
  BY <1>0 DEF Entry, Timeval
<1>2. \A i \in 1..Len(list) : tv_later(list[i].expires, list[i].expires)
  BY <1>1 DEF tv_later
<1>3. CASE ~Holds(list, t)
  BY <1>2, <1>3 DEF Holds
<1>4. CASE Holds(list, t)
  <2>1. PICK m \in 1..Len(list) : list[m].tmr = t
    BY <1>4 DEF Holds
  <2>2. \A j \in 1..Len(list) : list[j].tmr = t => j = m
    BY <2>1 DEF Distinct
  <2>3. tv_later(list[x].expires, list[m].expires) \/ tv_later(list[m].expires, list[x].expires)
    BY <1>1 DEF tv_later
  <2>. QED  BY <1>2, <2>2, <2>3
<1>. QED  BY <1>3, <1>4

(* The minimum that calc_next_expiration computes is that of an entry. *)
LEMMA MinFacts ==
  ASSUME NEW list \in Seq(Entry), Distinct(list), list # <<>>
  PROVE  /\ \E i \in 1..Len(list) : min(list) = list[i].expires
         /\ \A j \in 1..Len(list) : tv_later(list[j].expires, min(list))
<1>1. \A i \in 1..Len(list) : list[i] \in Entry
  BY ElementOfSeq
<1>2. \A i \in 1..Len(list) : list[i].expires.sec \in Nat /\ list[i].expires.usec \in Nat
  BY <1>1 DEF Entry, Timeval
<1>3. \A i, j, k \in 1..Len(list) :
         tv_later(list[i].expires, list[j].expires) /\ tv_later(list[j].expires, list[k].expires)
         => tv_later(list[i].expires, list[k].expires)
  BY <1>2 DEF tv_later
<1>4. \A i \in 1..Len(list) : list[i].tmr \in {"cmd", "ring", "alive"}
  BY <1>1 DEF Entry, Timers
<1>5. 1 \in 1..Len(list)
  BY EmptySeq, LenProperties
<1>6. PICK a \in 1..Len(list) : \A j \in 1..Len(list) : list[j].tmr = "cmd" => tv_later(list[j].expires, list[a].expires)
  BY <1>5, Lower
<1>7. PICK b \in 1..Len(list) :
         /\ tv_later(list[a].expires, list[b].expires)
         /\ \A j \in 1..Len(list) : list[j].tmr = "ring" => tv_later(list[j].expires, list[b].expires)
  BY Lower
<1>8. PICK c \in 1..Len(list) :
         /\ tv_later(list[b].expires, list[c].expires)
         /\ \A j \in 1..Len(list) : list[j].tmr = "alive" => tv_later(list[j].expires, list[c].expires)
  BY Lower
<1>9. tv_later(list[a].expires, list[c].expires)
  BY <1>3, <1>7, <1>8
<1>10. ASSUME NEW j \in 1..Len(list) PROVE tv_later(list[j].expires, list[c].expires)
  <2>1. CASE list[j].tmr = "cmd"
    BY <1>3, <1>6, <1>9, <2>1
  <2>2. CASE list[j].tmr = "ring"
    BY <1>3, <1>7, <1>8, <2>2
  <2>3. CASE list[j].tmr = "alive"
    BY <1>8, <2>3
  <2>. QED  BY <1>4, <2>1, <2>2, <2>3
<1>11. DOMAIN list = 1..Len(list)
  BY LenProperties
<1>12. \A x : x \in Range(list) <=> \E i \in 1..Len(list) : x = list[i]
  BY <1>11 DEF Range
<1>. DEFINE L(x) == \A y \in Range(list) : tv_later(y.expires, x.expires)
<1>13. list[c] \in Range(list) /\ L(list[c])
  BY <1>10, <1>12
<1>14. PICK m \in Range(list) : L(m) /\ min(list) = m.expires
  <2>. DEFINE m == CHOOSE x \in Range(list) : L(x)
  <2>1. m \in Range(list) /\ L(m)
    <3>. HIDE DEF L
    <3>. QED  BY <1>13, Zenon
  <2>2. min(list) = m.expires
    BY DEF min
  <2>. HIDE DEF m, L
  <2>. QED  BY <2>1, <2>2
<1>. QED  BY <1>12, <1>14

-----------------------------------------------------------------------------
(* What is left of the main program's operation. *)

Steps == [do : {"add", "del", "calc", "set", "free", "store"}, tmr : Timers]
Ends(st) == st.do \in {"add", "free"}

WellFormed(q) ==
  /\ \A i \in 1..Len(q) : q[i].tmr = q[1].tmr
  /\ \A i \in 1..Len(q) : q[i].do = "del" => i = 1 /\ \E j \in 1..Len(q) : Ends(q[j])
  /\ \A i, j \in 1..Len(q) : Ends(q[i]) /\ Ends(q[j]) => i = j
  /\ \A i \in 1..Len(q) : q[i].do \in {"add", "del"} => i < Len(q) /\ q[i + 1].do = "calc"
  /\ \A i \in 1..Len(q) : q[i].do = "calc" => i < Len(q) /\ q[i + 1].do = "set"
  /\ \A i \in 1..Len(q) : i < Len(q) /\ q[i + 1].do = "set" => q[i].do = "calc"
  /\ \A i \in 1..Len(q) : q[i].do = "store" => i = Len(q) /\ q[i].tmr # "alive"
  /\ \A i, j \in 1..Len(q) : q[i].do = "store" => q[j].do # "free"

(* The timer that is allocated but not on the list, for the operation has yet  *)
(* to add it or to free it.                                                    *)
Out(q) == IF q # <<>> /\ q[1].do # "del" /\ \E i \in 1..Len(q) : Ends(q[i]) THEN {q[1].tmr} ELSE {}

(* The timer whose pointer the operation has yet to store. *)
Unst(q) == {q[i].tmr : i \in {j \in 1..Len(q) : q[j].do = "store"}}

LEMMA UnstFacts ==
  ASSUME NEW q, WellFormed(q)
  PROVE  /\ \A x : x \in Unst(q) <=> \E i \in 1..Len(q) : q[i].do = "store" /\ x = q[i].tmr
         /\ "alive" \notin Unst(q)
BY DEF Unst, WellFormed

LEMMA TailFacts ==
  ASSUME NEW q \in Seq(Steps), q # <<>>, WellFormed(q), NEW r, r = Tail(q)
  PROVE  /\ Head(q) = q[1] /\ q[1] \in Steps /\ r \in Seq(Steps) /\ WellFormed(r)
         /\ q[1].do = "del" => Out(q) = {} /\ Out(r) = {q[1].tmr}
         /\ q[1].do \in {"calc", "set"} => Out(r) = Out(q)
         /\ Ends(q[1]) => Out(q) = {q[1].tmr} /\ Out(r) = {}
         /\ r # <<>> => r[1].do # "del"
         /\ q[1].do \in {"add", "del"} => r # <<>> /\ r[1].do = "calc"
         /\ q[1].do = "calc" => r # <<>> /\ r[1].do = "set"
         /\ r # <<>> /\ r[1].do = "set" => q[1].do = "calc"
         /\ q[1].do # "store" => Unst(r) = Unst(q)
         /\ q[1].do = "store" => Unst(q) = {q[1].tmr} /\ Unst(r) = {} /\ Out(q) = {} /\ Out(r) = {}
         /\ q[1].do = "free" => Unst(q) = {}
         /\ q[1].tmr = "alive" => Unst(q) = {}
<1>1. Len(q) \in Nat /\ Len(q) >= 1 /\ Head(q) = q[1]
  BY EmptySeq
<1>a. \A i \in 1..Len(q) : q[i].do = "del" => i = 1
  BY DEF WellFormed
<1>b. \A i, j \in 1..Len(q) : q[i].tmr = q[j].tmr
  <2>1. \A i \in 1..Len(q) : q[i].tmr = q[1].tmr
    BY DEF WellFormed
  <2>. QED  BY <2>1
<1>2. q[1] \in Steps
  BY <1>1, ElementOfSeq
<1>3. /\ r \in Seq(Steps) /\ Len(r) = Len(q) - 1
      /\ \A i \in 1..Len(r) : r[i] = q[i + 1]
  BY HeadTailProperties
<1>4. r # <<>> <=> Len(q) >= 2
  <2>1. r = <<>> <=> Len(r) = 0
    BY <1>3, EmptySeq
  <2>2. Len(r) = 0 <=> ~(Len(q) >= 2)
    BY <1>1, <1>3
  <2>. QED  BY <2>1, <2>2, Zenon
<1>5. \A i \in 1..Len(r) : i + 1 \in 1..Len(q) /\ q[i + 1].do # "del"
  <2>. SUFFICES ASSUME NEW i \in 1..Len(r) PROVE i + 1 \in 1..Len(q) /\ q[i + 1].do # "del"
    OBVIOUS
  <2>1. i + 1 \in 1..Len(q) /\ i + 1 # 1
    BY <1>1, <1>3
  <2>. QED  BY <1>a, <2>1
<1>6. WellFormed(r)
  <2>1. \A i \in 1..Len(r) : r[i].tmr = r[1].tmr
    <3>. SUFFICES ASSUME NEW i \in 1..Len(r) PROVE r[i].tmr = r[1].tmr
      OBVIOUS
    <3>1. 1 \in 1..Len(r) /\ i + 1 \in 1..Len(q) /\ 1 + 1 \in 1..Len(q)
      BY <1>1, <1>3
    <3>2. r[i] = q[i + 1] /\ r[1] = q[1 + 1]
      BY <1>3, <3>1
    <3>. QED  BY <1>b, <3>1, <3>2
  <2>2. \A i \in 1..Len(r) : r[i].do # "del"
    BY <1>3, <1>5
  <2>3. ASSUME NEW i \in 1..Len(r), NEW j \in 1..Len(r), Ends(r[i]), Ends(r[j]) PROVE i = j
    <3>1. i + 1 \in 1..Len(q) /\ j + 1 \in 1..Len(q) /\ Ends(q[i + 1]) /\ Ends(q[j + 1])
      BY <1>1, <1>3, <2>3
    <3>2. i + 1 = j + 1
      BY <3>1 DEF WellFormed
    <3>. QED  BY <1>1, <1>3, <3>2
  <2>4. ASSUME NEW i \in 1..Len(r)
        PROVE  /\ r[i].do \in {"add", "del"} => i < Len(r) /\ r[i + 1].do = "calc"
               /\ r[i].do = "calc" => i < Len(r) /\ r[i + 1].do = "set"
               /\ i < Len(r) /\ r[i + 1].do = "set" => r[i].do = "calc"
               /\ r[i].do = "store" => i = Len(r) /\ r[i].tmr # "alive"
    <3>1. i + 1 \in 1..Len(q) /\ r[i] = q[i + 1] /\ i \in Nat /\ (i < Len(r) => i + 1 < Len(q))
      BY <1>1, <1>3
    <3>2. i + 1 < Len(q) => i < Len(r) /\ i + 1 \in 1..Len(r) /\ r[i + 1] = q[(i + 1) + 1]
      BY <1>1, <1>3, <3>1
    <3>3. i + 1 = Len(q) => i = Len(r)
      <4>1. PICK n : n = Len(q)
        OBVIOUS
      <4>2. n \in Nat /\ Len(r) = n - 1 /\ i \in Nat
        BY <1>1, <1>3, <3>1, <4>1
      <4>3. i + 1 = n => i = n - 1
        BY <4>2
      <4>. QED  BY <4>1, <4>2, <4>3
    <3>. QED  BY <3>1, <3>2, <3>3 DEF WellFormed
  <2>5. ASSUME NEW i \in 1..Len(r), NEW j \in 1..Len(r), r[i].do = "store" PROVE r[j].do # "free"
    <3>1. i + 1 \in 1..Len(q) /\ j + 1 \in 1..Len(q) /\ r[i] = q[i + 1] /\ r[j] = q[j + 1]
      BY <1>3, <1>5
    <3>. QED  BY <2>5, <3>1 DEF WellFormed
  <2>. QED  BY <2>1, <2>2, <2>3, <2>4, <2>5 DEF WellFormed
<1>7. r # <<>> => r[1] = q[2] /\ r[1].tmr = q[1].tmr /\ r[1].do # "del"
  <2>. SUFFICES ASSUME r # <<>> PROVE r[1] = q[2] /\ r[1].tmr = q[1].tmr /\ r[1].do # "del"
    OBVIOUS
  <2>1. 1 \in 1..Len(r) /\ 2 \in 1..Len(q) /\ 1 + 1 = 2
    BY <1>1, <1>3, <1>4
  <2>2. r[1] = q[2] /\ r[1].do # "del"
    BY <1>3, <1>5, <2>1
  <2>3. 1 \in 1..Len(q)
    BY <1>1
  <2>4. q[2].tmr = q[1].tmr
    BY <1>b, <2>1, <2>3
  <2>. QED  BY <2>2, <2>4
<1>8. ASSUME ~Ends(q[1]) PROVE (\E i \in 1..Len(q) : Ends(q[i])) <=> (\E i \in 1..Len(r) : Ends(r[i]))
  <2>1. ASSUME NEW i \in 1..Len(q), Ends(q[i]) PROVE i - 1 \in 1..Len(r) /\ Ends(r[i - 1])
    <3>1. i - 1 \in 1..Len(r) /\ (i - 1) + 1 = i
      BY <1>1, <1>3, <1>8, <2>1
    <3>. QED  BY <1>3, <2>1, <3>1
  <2>2. ASSUME NEW i \in 1..Len(r), Ends(r[i]) PROVE i + 1 \in 1..Len(q) /\ Ends(q[i + 1])
    BY <1>3, <1>5, <2>2
  <2>. QED  BY <2>1, <2>2
<1>9. (\E i \in 1..Len(r) : Ends(r[i])) => r # <<>>
  BY <1>1, <1>3, <1>4
<1>10. ASSUME q[1].do = "del" PROVE Out(q) = {} /\ Out(r) = {q[1].tmr}
  <2>1. \E j \in 1..Len(q) : Ends(q[j])
    BY <1>1, <1>10 DEF WellFormed
  <2>2. ~Ends(q[1])
    BY <1>10 DEF Ends
  <2>. QED  BY <1>7, <1>8, <1>9, <1>10, <2>1, <2>2 DEF Out
<1>11. ASSUME q[1].do \in {"calc", "set"} PROVE Out(r) = Out(q)
  <2>1. ~Ends(q[1]) /\ q[1].do # "del"
    BY <1>11 DEF Ends
  <2>. QED  BY <1>7, <1>8, <1>9, <2>1 DEF Out
<1>12. ASSUME Ends(q[1]) PROVE Out(q) = {q[1].tmr} /\ Out(r) = {}
  <2>1. 1 \in 1..Len(q) /\ q[1].do # "del"
    BY <1>1, <1>12 DEF Ends
  <2>2. ASSUME NEW i \in 1..Len(r) PROVE ~Ends(r[i])
    <3>1. i + 1 \in 1..Len(q) /\ i + 1 # 1
      BY <1>1, <1>3
    <3>. QED  BY <1>3, <1>12, <2>1, <3>1 DEF WellFormed
  <2>. QED  BY <1>12, <2>1, <2>2 DEF Out
<1>13. q[1].do \in {"add", "del"} => r # <<>> /\ r[1].do = "calc"
  <2>1. 1 \in 1..Len(q) /\ 1 + 1 = 2
    BY <1>1
  <2>2. q[1].do \in {"add", "del"} => 1 < Len(q) /\ q[2].do = "calc"
    BY <2>1 DEF WellFormed
  <2>. QED  BY <1>1, <1>4, <1>7, <2>2
<1>14. q[1].do = "calc" => r # <<>> /\ r[1].do = "set"
  <2>1. 1 \in 1..Len(q) /\ 1 + 1 = 2
    BY <1>1
  <2>2. q[1].do = "calc" => 1 < Len(q) /\ q[2].do = "set"
    BY <2>1 DEF WellFormed
  <2>. QED  BY <1>1, <1>4, <1>7, <2>2
<1>15. r # <<>> /\ r[1].do = "set" => q[1].do = "calc"
  <2>1. 1 \in 1..Len(q) /\ 1 + 1 = 2 /\ (r # <<>> => 1 < Len(q))
    BY <1>1, <1>4
  <2>. QED  BY <1>7, <2>1 DEF WellFormed
<1>16. ASSUME q[1].do # "store" PROVE Unst(r) = Unst(q)
  <2>1. ASSUME NEW i \in 1..Len(q), q[i].do = "store" PROVE i - 1 \in 1..Len(r) /\ r[i - 1] = q[i]
    <3>1. i - 1 \in 1..Len(r) /\ (i - 1) + 1 = i
      BY <1>1, <1>3, <1>16, <2>1
    <3>. QED  BY <1>3, <3>1
  <2>2. ASSUME NEW i \in 1..Len(r) PROVE i + 1 \in 1..Len(q) /\ r[i] = q[i + 1]
    BY <1>3, <1>5
  <2>3. ASSUME NEW x PROVE x \in Unst(r) <=> x \in Unst(q)
    <3>1. x \in Unst(r) => x \in Unst(q)
      BY <2>2 DEF Unst
    <3>2. ASSUME x \in Unst(q) PROVE x \in Unst(r)
      <4>1. PICK i \in 1..Len(q) : q[i].do = "store" /\ x = q[i].tmr
        BY <3>2 DEF Unst
      <4>2. i - 1 \in 1..Len(r) /\ r[i - 1] = q[i]
        BY <2>1, <4>1
      <4>. QED  BY <4>1, <4>2 DEF Unst
    <3>. QED  BY <3>1, <3>2
  <2>. QED  BY <2>3
<1>17. ASSUME q[1].do = "store" PROVE Unst(q) = {q[1].tmr} /\ Unst(r) = {} /\ Out(q) = {} /\ Out(r) = {}
  <2>1. 1 \in 1..Len(q)
    BY <1>1
  <2>2. Len(q) = 1
    BY <1>17, <2>1 DEF WellFormed
  <2>3. 1..Len(q) = {1} /\ 1..Len(r) = {}
    BY <1>3, <2>2
  <2>4. ~Ends(q[1])
    BY <1>17 DEF Ends
  <2>. QED  BY <1>17, <2>3, <2>4 DEF Unst, Out
<1>18. q[1].do = "free" => Unst(q) = {}
  <2>1. 1 \in 1..Len(q)
    BY <1>1
  <2>. QED  BY <2>1 DEF WellFormed, Unst
<1>19. q[1].tmr = "alive" => Unst(q) = {}
  BY DEF WellFormed, Unst
<1>. QED  BY <1>1, <1>2, <1>3, <1>6, <1>7, <1>10, <1>11, <1>12, <1>13, <1>14, <1>15, <1>16, <1>17, <1>18, <1>19

(* The operations of the main program. *)
LEMMA AppendStep ==
  ASSUME NEW u \in Seq(Steps), NEW x \in Steps, NEW q, Appended(q, u, x)
  PROVE  /\ q \in Seq(Steps) /\ Len(q) = Len(u) + 1 /\ q[Len(u) + 1] = x
         /\ \A i \in 1..Len(u) : q[i] = u[i]
BY AppendProperties DEF Appended

LEMMA ConcatSteps ==
  ASSUME NEW u \in Seq(Steps), NEW v \in Seq(Steps), Len(u) = 3, Len(v) = 3, NEW q, q = u \o v
  PROVE  q \in Seq(Steps) /\ Len(q) = 6 /\ \A i \in 1..6 : q[i] = IF i <= 3 THEN u[i] ELSE v[i - 3]
<1>1. /\ q \in Seq(Steps) /\ Len(q) = Len(u) + Len(v)
      /\ \A i \in 1..Len(u) + Len(v) : q[i] = IF i <= Len(u) THEN u[i] ELSE v[i - Len(u)]
  BY ConcatProperties
<1>2. Len(u) + Len(v) = 6
  OBVIOUS
<1>. QED  BY <1>1, <1>2

LEMMA RegisteringFacts ==
  ASSUME NEW t \in Timers, NEW q, q = Registering(t)
  PROVE  /\ q \in Seq(Steps) /\ q # <<>> /\ WellFormed(q) /\ Out(q) = {t} /\ Unst(q) = {}
         /\ Len(q) = 3 /\ q[1] = Step("add", t) /\ q[2] = Step("calc", t) /\ q[3] = Step("set", t)
<1>1. q = <<Step("add", t), Step("calc", t), Step("set", t)>>
  BY DEF Registering
<1>2. Step("add", t) \in Steps /\ Step("calc", t) \in Steps /\ Step("set", t) \in Steps
  BY DEF Step, Steps
<1>3. q \in Seq(Steps) /\ Len(q) = 3 /\ q[1] = Step("add", t) /\ q[2] = Step("calc", t) /\ q[3] = Step("set", t)
  BY <1>1, <1>2
<1>4. q # <<>>
  BY <1>3, EmptySeq
<1>5. \A i \in 1..3 : i = 1 \/ i = 2 \/ i = 3
  OBVIOUS
<1>6. q[1].do = "add" /\ q[2].do = "calc" /\ q[3].do = "set" /\ q[1].tmr = t /\ q[2].tmr = t /\ q[3].tmr = t
  BY <1>3 DEF Step
<1>7. WellFormed(q)
  BY <1>3, <1>5, <1>6 DEF WellFormed, Ends
<1>8. Out(q) = {t}
  <2>1. 1 \in 1..Len(q) /\ Ends(q[1])
    BY <1>3, <1>6 DEF Ends
  <2>. QED  BY <1>4, <1>6, <2>1 DEF Out
<1>9. Unst(q) = {}
  BY <1>3, <1>5, <1>6 DEF Unst
<1>. QED  BY <1>3, <1>4, <1>7, <1>8, <1>9

LEMMA CreateFacts ==
  ASSUME NEW t \in Timers, t # "alive", NEW q, Appended(q, Registering(t), Step("store", t))
  PROVE  /\ q \in Seq(Steps) /\ q # <<>> /\ WellFormed(q) /\ Out(q) = {t} /\ Unst(q) = {t}
         /\ q[1] = Step("add", t)
<1>. DEFINE u == <<Step("add", t), Step("calc", t), Step("set", t)>>
<1>1. Appended(q, u, Step("store", t))
  BY DEF Registering
<1>2. Step("add", t) \in Steps /\ Step("calc", t) \in Steps /\ Step("set", t) \in Steps /\ Step("store", t) \in Steps
  BY DEF Step, Steps
<1>3. u \in Seq(Steps) /\ Len(u) = 3 /\ u[1] = Step("add", t) /\ u[2] = Step("calc", t) /\ u[3] = Step("set", t)
  BY <1>2
<1>. HIDE DEF u
<1>4. q \in Seq(Steps) /\ Len(q) = 4 /\ q[4] = Step("store", t) /\ \A i \in 1..3 : q[i] = u[i]
  <2>1. u \in Seq(Steps) /\ Step("store", t) \in Steps /\ Appended(q, u, Step("store", t))
    BY <1>1, <1>2, <1>3
  <2>2. /\ q \in Seq(Steps) /\ Len(q) = Len(u) + 1 /\ q[Len(u) + 1] = Step("store", t)
        /\ \A i \in 1..Len(u) : q[i] = u[i]
    BY <2>1, AppendStep
  <2>. QED  BY <1>3, <2>2
<1>5. /\ q[1].do = "add" /\ q[2].do = "calc" /\ q[3].do = "set" /\ q[4].do = "store"
      /\ q[1].tmr = t /\ q[2].tmr = t /\ q[3].tmr = t /\ q[4].tmr = t
  BY <1>3, <1>4 DEF Step
<1>6. \A i \in 1..4 : i = 1 \/ i = 2 \/ i = 3 \/ i = 4
  OBVIOUS
<1>7. WellFormed(q)
  BY <1>4, <1>5, <1>6 DEF WellFormed, Ends
<1>8. q # <<>>
  BY <1>4, EmptySeq
<1>9. Out(q) = {t}
  <2>1. 1 \in 1..Len(q) /\ Ends(q[1])
    BY <1>4, <1>5 DEF Ends
  <2>. QED  BY <1>5, <1>8, <2>1 DEF Out
<1>10. Unst(q) = {t}
  <2>1. 4 \in 1..Len(q)
    BY <1>4
  <2>. QED  BY <1>4, <1>5, <1>6, <2>1 DEF Unst
<1>. QED  BY <1>3, <1>4, <1>7, <1>8, <1>9, <1>10

LEMMA DoneFacts ==
  ASSUME NEW t \in Timers, NEW q, Appended(q, Unregistering(t), Step("free", t))
  PROVE  /\ q \in Seq(Steps) /\ q # <<>> /\ WellFormed(q) /\ Out(q) = {} /\ Unst(q) = {}
         /\ q[1] = Step("del", t)
<1>. DEFINE u == <<Step("del", t), Step("calc", t), Step("set", t)>>
<1>1. Appended(q, u, Step("free", t))
  BY DEF Unregistering
<1>2. Step("del", t) \in Steps /\ Step("calc", t) \in Steps /\ Step("set", t) \in Steps /\ Step("free", t) \in Steps
  BY DEF Step, Steps
<1>3. u \in Seq(Steps) /\ Len(u) = 3 /\ u[1] = Step("del", t) /\ u[2] = Step("calc", t) /\ u[3] = Step("set", t)
  BY <1>2
<1>. HIDE DEF u
<1>4. q \in Seq(Steps) /\ Len(q) = 4 /\ q[4] = Step("free", t) /\ \A i \in 1..3 : q[i] = u[i]
  <2>1. u \in Seq(Steps) /\ Step("free", t) \in Steps /\ Appended(q, u, Step("free", t))
    BY <1>1, <1>2, <1>3
  <2>2. /\ q \in Seq(Steps) /\ Len(q) = Len(u) + 1 /\ q[Len(u) + 1] = Step("free", t)
        /\ \A i \in 1..Len(u) : q[i] = u[i]
    BY <2>1, AppendStep
  <2>. QED  BY <1>3, <2>2
<1>5. /\ q[1].do = "del" /\ q[2].do = "calc" /\ q[3].do = "set" /\ q[4].do = "free"
      /\ q[1].tmr = t /\ q[2].tmr = t /\ q[3].tmr = t /\ q[4].tmr = t
  BY <1>3, <1>4 DEF Step
<1>6. \A i \in 1..4 : i = 1 \/ i = 2 \/ i = 3 \/ i = 4
  OBVIOUS
<1>7. WellFormed(q)
  BY <1>4, <1>5, <1>6 DEF WellFormed, Ends
<1>8. q # <<>>
  BY <1>4, EmptySeq
<1>9. Unst(q) = {}
  BY <1>4, <1>5, <1>6 DEF Unst
<1>. QED  BY <1>3, <1>4, <1>5, <1>7, <1>8, <1>9 DEF Out

LEMMA UpdateFacts ==
  ASSUME NEW t \in Timers, NEW q, q = Unregistering(t) \o Registering(t)
  PROVE  /\ q \in Seq(Steps) /\ q # <<>> /\ WellFormed(q) /\ Out(q) = {} /\ Unst(q) = {}
         /\ q[1] = Step("del", t)
<1>. DEFINE u == <<Step("del", t), Step("calc", t), Step("set", t)>>
            v == Registering(t)
<1>1. q = u \o v
  BY DEF Unregistering
<1>2. Step("del", t) \in Steps /\ Step("calc", t) \in Steps /\ Step("set", t) \in Steps
  BY DEF Step, Steps
<1>3. u \in Seq(Steps) /\ Len(u) = 3 /\ u[1] = Step("del", t) /\ u[2] = Step("calc", t) /\ u[3] = Step("set", t)
  BY <1>2
<1>4. v \in Seq(Steps) /\ Len(v) = 3 /\ v[1] = Step("add", t) /\ v[2] = Step("calc", t) /\ v[3] = Step("set", t)
  BY RegisteringFacts
<1>. HIDE DEF u, v
<1>5. /\ q \in Seq(Steps) /\ Len(q) = 6
      /\ \A i \in 1..6 : q[i] = IF i <= 3 THEN u[i] ELSE v[i - 3]
  BY <1>1, <1>3, <1>4, ConcatSteps
<1>6. /\ q[1] = u[1] /\ q[2] = u[2] /\ q[3] = u[3]
      /\ q[4] = v[1] /\ q[5] = v[2] /\ q[6] = v[3]
  BY <1>5
<1>7. /\ q[1].do = "del" /\ q[2].do = "calc" /\ q[3].do = "set"
      /\ q[4].do = "add" /\ q[5].do = "calc" /\ q[6].do = "set"
  BY <1>3, <1>4, <1>6 DEF Step
<1>8. q[1].tmr = t /\ q[2].tmr = t /\ q[3].tmr = t /\ q[4].tmr = t /\ q[5].tmr = t /\ q[6].tmr = t
  BY <1>3, <1>4, <1>6 DEF Step
<1>9. \A i \in 1..6 : i = 1 \/ i = 2 \/ i = 3 \/ i = 4 \/ i = 5 \/ i = 6
  OBVIOUS
<1>10. WellFormed(q)
  <2>1. ASSUME NEW i \in 1..Len(q) PROVE q[i].tmr = q[1].tmr /\ (q[i].do = "del" => i = 1)
    BY <1>5, <1>7, <1>8, <1>9
  <2>2. ASSUME NEW i \in 1..Len(q) PROVE Ends(q[i]) <=> i = 4
    BY <1>5, <1>7, <1>9 DEF Ends
  <2>3. ASSUME NEW i \in 1..Len(q)
        PROVE  /\ q[i].do \in {"add", "del"} => i < Len(q) /\ q[i + 1].do = "calc"
               /\ q[i].do = "calc" => i < Len(q) /\ q[i + 1].do = "set"
               /\ i < Len(q) /\ q[i + 1].do = "set" => q[i].do = "calc"
    <3>1. Len(q) = 6
      BY <1>5
    <3>2. CASE i = 1
      BY <1>7, <3>1, <3>2
    <3>3. CASE i = 2
      BY <1>7, <3>1, <3>3
    <3>4. CASE i = 3
      BY <1>7, <3>1, <3>4
    <3>5. CASE i = 4
      BY <1>7, <3>1, <3>5
    <3>6. CASE i = 5
      BY <1>7, <3>1, <3>6
    <3>7. CASE i = 6
      BY <1>7, <3>1, <3>7
    <3>. QED  BY <1>9, <3>1, <3>2, <3>3, <3>4, <3>5, <3>6, <3>7
  <2>4. 4 \in 1..Len(q)
    BY <1>5
  <2>5. ASSUME NEW i \in 1..Len(q) PROVE q[i].do # "store"
    BY <1>5, <1>7, <1>9
  <2>. QED  BY <2>1, <2>2, <2>3, <2>4, <2>5 DEF WellFormed
<1>11. q # <<>>
  BY <1>5, EmptySeq
<1>12. Unst(q) = {}
  BY <1>5, <1>7, <1>9 DEF Unst
<1>. QED  BY <1>3, <1>5, <1>6, <1>7, <1>10, <1>11, <1>12 DEF Out

-----------------------------------------------------------------------------
(* The inductive invariant.  It holds whatever the handler interrupts. *)

Armable == now \in Nat /\ now <= MaxTime /\ (itimer = Off \/ (itimer \in Nat /\ itimer > now))

Signals == {"off", "ALRM", "USR1"}
Entries == Timers \cup {None}
Outer == [pc : Signals, now : Timeval, found : Entries, next : Entries]

Types ==
  /\ Armable /\ alarm \in BOOLEAN
  /\ timers \in Seq(Entry) /\ live \subseteq Timers /\ ptr \subseteq {"cmd", "ring"}
  /\ todo \in Seq(Steps) /\ diff \in Difference
  /\ hpc \in Signals /\ hnow \in Timeval /\ hnow.usec < Sec
  /\ found \in Entries /\ outer \in Outer /\ outer.now.usec < Sec
  /\ hist \subseteq Mishaps /\ uaf \in BOOLEAN

(* The expiration of a registered timer is when it is due, in fields of which  *)
(* the second may be too large by less than the interval's fraction.           *)
Exact(x) == x.due = Ticks(x.expires) /\ x.expires.usec < Sec + Interval[x.tmr].usec

Lists == Distinct(timers) /\ \A i \in 1..Len(timers) : Exact(timers[i])

HandlerTime == Ticks(hnow) <= now /\ Ticks(outer.now) <= now

(* Handlers nest in one way only: the other signal's inside this one's. *)
Frames ==
  /\ hpc = "off" => found = None /\ outer = NoFrame
  /\ outer.pc = "off" => outer = NoFrame
  /\ outer.pc # "off" => outer.pc # hpc /\ "nested" \in hist

(* The list holds the allocated timers but the one main is about to add or has *)
(* taken off to free, and the pointers are to the allocated timers but the one *)
(* whose pointer main is about to store, as long as no timer ran before that.  *)
Owned ==
  /\ \A i \in 1..Len(timers) : timers[i].tmr \in live \ Out(todo)
  /\ live \subseteq ptr \cup Unst(todo) \cup {"alive"}
  /\ ~uaf => Out(todo) \subseteq live
  /\ ~uaf /\ "unstored" \notin hist =>
        /\ \A t \in live \ Out(todo) : Holds(timers, t)
        /\ ptr = live \ ({"alive"} \cup Unst(todo))
        /\ Unst(todo) \subseteq live

(* Only a handler that came before gsmd_timer_unregister, or before the        *)
(* pointer was stored, takes a timer away from main.                           *)
Races ==
  /\ uaf => hist \cap {"raced", "nested", "unstored"} # {}
  /\ todo # <<>> /\ todo[1].do = "del"
     => Holds(timers, todo[1].tmr) \/ hist \cap {"raced", "unstored"} # {}
  /\ hpc # "off" /\ todo # <<>> /\ todo[1].do \in {"del", "set"} => "raced" \in hist
  /\ "unstored" \in hist => "slip" \in hist

(* A timer that a loop has found expired is on the list and due. *)
Ready(t, tv) ==
  \E i \in 1..Len(timers) :
     /\ timers[i].tmr = t
     /\ (t = "alive" /\ "nested" \in hist) \/ Ticks(tv) + Interval[t].usec >= timers[i].due

Runs ==
  ~uaf => /\ found # None => Ready(found, hnow)
          /\ outer.found # None => Ready(outer.found, outer.now)

(* A timer whose pointer is not stored yet has just been registered. *)
Fresh ==
  "slip" \notin hist =>
     \A i \in 1..Len(timers) :
        timers[i].tmr \in Unst(todo) => timers[i].due > now + Interval[timers[i].tmr].usec

SInv == Types /\ WellFormed(todo) /\ Lists /\ HandlerTime /\ Frames /\ Owned /\ Races /\ Runs /\ Fresh

-----------------------------------------------------------------------------
(* What the shared parts of the actions do. *)

LEMMA GettimeofdayFacts ==
  ASSUME now \in Nat
  PROVE  gettimeofday \in Timeval /\ gettimeofday.usec < Sec /\ Ticks(gettimeofday) = now
<1>1. /\ now \div Sec \in Nat /\ now % Sec \in Nat /\ now % Sec < Sec
      /\ (now \div Sec) * Sec + (now % Sec) = now
  BY Clock
<1>. DEFINE s == now \div Sec
            u == now % Sec
<1>2. gettimeofday = Tv(s, u)
  BY DEF gettimeofday
<1>. HIDE DEF s, u
<1>3. gettimeofday \in Timeval /\ gettimeofday.sec = s /\ gettimeofday.usec = u
  BY <1>1, <1>2 DEF Tv, Timeval, s, u
<1>. QED  BY <1>1, <1>3 DEF Ticks, s, u

LEMMA IntervalFacts ==
  ASSUME NEW t \in Timers
  PROVE  /\ Interval[t] \in Timeval /\ Interval[t].usec < Sec
         /\ Ticks(Interval[t]) \in Nat /\ Ticks(Interval[t]) >= 1 /\ Ticks(Interval[t]) > Interval[t].usec
<1>1. /\ Sec \in Nat \ {0} /\ CmdTimeout \in Nat \ {0} /\ AliveEvery \in Nat \ {0}
      /\ Jitter \in Nat /\ Jitter < Sec
  BY TimerAssumption
<1>2. PICK s \in Nat \ {0}, u \in Nat : Interval[t] = Tv(s, u) /\ u < Sec
  <2>1. CASE t = "cmd"
    BY <1>1, <2>1 DEF Interval, Timers
  <2>2. CASE t = "ring"
    BY <1>1, <2>2 DEF Interval, Timers
  <2>3. CASE t = "alive"
    BY <1>1, <2>3 DEF Interval, Timers
  <2>. QED  BY <2>1, <2>2, <2>3 DEF Timers
<1>3. Interval[t] \in Timeval /\ Interval[t].sec = s /\ Interval[t].usec = u
  BY <1>2 DEF Tv, Timeval
<1>4. s * Sec \in Nat /\ s * Sec >= 1
  BY <1>1
<1>. QED  BY <1>2, <1>3, <1>4 DEF Ticks

(* gsmd_timer_register adds an entry that is due later than now. *)
LEMMA RegisterFacts ==
  ASSUME now \in Nat, NEW t \in Timers, NEW list \in Seq(Entry), Distinct(list),
         ~Holds(list, t), \A i \in 1..Len(list) : Exact(list[i]), register(t, list)
  PROVE  \E e \in Entry :
         /\ e.tmr = t /\ Exact(e) /\ e.due > now /\ e.due > now + Interval[t].usec
         /\ hist' = {} => e.expires.usec < Sec
         /\ timers' \in Seq(Entry) /\ Distinct(timers')
         /\ \A i \in 1..Len(timers') : timers'[i] = e \/ \E k \in 1..Len(list) : timers'[i] = list[k]
         /\ \E j \in 1..Len(timers') : timers'[j] = e
         /\ \A k \in 1..Len(list) : \E j \in 1..Len(timers') : timers'[j] = list[k]
         /\ \A i \in 1..Len(timers') : Exact(timers'[i])
<1>. DEFINE iv == Interval[t]
            n == gettimeofday
            x == Tv(iv.sec + n.sec, iv.usec + n.usec)
            e == [tmr |-> t, expires |-> x, due |-> now + Ticks(iv)]
<1>1. iv \in Timeval /\ iv.usec < Sec /\ Ticks(iv) \in Nat /\ Ticks(iv) >= 1 /\ Ticks(iv) > iv.usec
  BY IntervalFacts
<1>2. n \in Timeval /\ n.usec < Sec /\ Ticks(n) = now
  BY GettimeofdayFacts
<1>3. timers' = Append(list, e) /\ (hist' = {} => ~(iv.usec + n.usec >= Sec))
  BY DEF register
<1>. HIDE DEF iv, n
<1>4. Sec \in Nat \ {0}
  BY TimerAssumption
<1>5. iv.sec \in Nat /\ iv.usec \in Nat /\ n.sec \in Nat /\ n.usec \in Nat
  BY <1>1, <1>2 DEF Timeval
<1>6. x \in Timeval /\ x.sec = iv.sec + n.sec /\ x.usec = iv.usec + n.usec
  BY <1>5 DEF Tv, Timeval
<1>7. Ticks(x) = Ticks(n) + Ticks(iv)
  <2>1. (iv.sec + n.sec) * Sec = iv.sec * Sec + n.sec * Sec /\ iv.sec * Sec \in Nat /\ n.sec * Sec \in Nat
    BY <1>4, <1>5
  <2>. QED  BY <1>5, <1>6, <2>1 DEF Ticks
<1>. HIDE DEF x
<1>8. e \in Entry /\ e.tmr = t /\ e.expires = x /\ e.due = now + Ticks(iv)
  BY <1>1, <1>6 DEF Entry
<1>. HIDE DEF e
<1>9. Exact(e) /\ e.due > now /\ e.due > now + iv.usec
  BY <1>1, <1>2, <1>4, <1>5, <1>6, <1>7, <1>8 DEF Exact, iv
<1>10. hist' = {} => e.expires.usec < Sec
  BY <1>3, <1>4, <1>5, <1>6, <1>8
<1>11. /\ timers' \in Seq(Entry) /\ Distinct(timers')
       /\ \A i \in 1..Len(timers') : timers'[i] = e \/ \E k \in 1..Len(list) : timers'[i] = list[k]
       /\ \E j \in 1..Len(timers') : timers'[j] = e
       /\ \A k \in 1..Len(list) : \E j \in 1..Len(timers') : timers'[j] = list[k]
  <2>1. PICK f \in Entry : f = e /\ f.tmr = t
    BY <1>8
  <2>2. PICK r : r = timers'
    OBVIOUS
  <2>3. Appended(r, list, f) /\ ~Holds(list, f.tmr)
    BY <1>3, <2>1, <2>2 DEF Appended
  <2>4. /\ r \in Seq(Entry) /\ Distinct(r)
        /\ \A j \in 1..Len(r) : r[j] = f \/ \E k \in 1..Len(list) : r[j] = list[k]
        /\ \E j \in 1..Len(r) : r[j] = f
        /\ \A k \in 1..Len(list) : \E j \in 1..Len(r) : r[j] = list[k]
    BY <2>3, AppendFacts
  <2>. QED  BY <2>1, <2>2, <2>4, Zenon
<1>12. \A i \in 1..Len(timers') : Exact(timers'[i])
  BY <1>9, <1>11
<1>. QED  BY <1>3, <1>8, <1>9, <1>10, <1>11, <1>12 DEF iv

(* setitimer never sets the kernel's timer for the past. *)
LEMMA SetitimerFacts ==
  ASSUME now \in Nat, itimer = Off \/ (itimer \in Nat /\ itimer > now),
         NEW d \in Difference, setitimer(d)
  PROVE  itimer' = Off \/ (itimer' \in Nat /\ itimer' > now)
<1>1. CASE d.sec < 0 \/ d.usec >= Sec
  BY <1>1 DEF setitimer
<1>2. CASE ~(d.sec < 0 \/ d.usec >= Sec)
  <2>1. Sec \in Nat /\ d.sec \in Nat /\ d.usec \in Nat
    BY <1>2, TimerAssumption DEF Difference
  <2>2. d.sec * Sec \in Nat
    BY <2>1
  <2>3. Ticks(d) \in Nat
    BY <2>1, <2>2 DEF Ticks
  <2>4. itimer' = IF Ticks(d) = 0 THEN Off ELSE now + Ticks(d)
    BY <1>2 DEF setitimer
  <2>. QED  BY <2>3, <2>4
<1>. QED  BY <1>1, <1>2

(* The time that calc_next_expiration computes. *)
LEMMA NextFacts ==
  ASSUME now \in Nat, NEW list \in Seq(Entry), Distinct(list), list # <<>>,
         NEW d, d = tv_sub(min(list), gettimeofday)
  PROVE  /\ d \in Difference /\ Ticks(d) = Ticks(min(list)) - now
         /\ min(list).usec < Sec => d.usec < Sec
         /\ min(list) \in Timeval
         /\ \E i \in 1..Len(list) : min(list) = list[i].expires
         /\ \A j \in 1..Len(list) : tv_later(list[j].expires, min(list))
<1>1. PICK i \in 1..Len(list) : min(list) = list[i].expires
  BY MinFacts
<1>2. list[i] \in Entry
  BY ElementOfSeq
<1>3. min(list) \in Timeval
  BY <1>1, <1>2 DEF Entry
<1>4. gettimeofday \in Timeval /\ gettimeofday.usec < Sec /\ Ticks(gettimeofday) = now
  BY GettimeofdayFacts
<1>5. \A j \in 1..Len(list) : tv_later(list[j].expires, min(list))
  BY MinFacts
<1>6. d \in Difference /\ Ticks(d) = Ticks(min(list)) - Ticks(gettimeofday) /\ (min(list).usec < Sec => d.usec < Sec)
  BY <1>3, <1>4, SubTicks
<1>. QED  BY <1>1, <1>3, <1>4, <1>5, <1>6

LEMMA CalcFacts ==
  ASSUME now \in Nat, itimer = Off \/ (itimer \in Nat /\ itimer > now),
         NEW list \in Seq(Entry), Distinct(list), calc_next_expiration(list)
  PROVE  itimer' = Off \/ (itimer' \in Nat /\ itimer' > now)
<1>1. CASE list = <<>>
  BY <1>1 DEF calc_next_expiration
<1>2. CASE list # <<>>
  <2>. DEFINE d == tv_sub(min(list), gettimeofday)
  <2>1. setitimer(d)
    BY <1>2 DEF calc_next_expiration
  <2>2. d \in Difference
    BY <1>2, NextFacts
  <2>. HIDE DEF d
  <2>. QED  BY <2>1, <2>2, SetitimerFacts
<1>. QED  BY <1>1, <1>2

-----------------------------------------------------------------------------
(* SInv is preserved by every action. *)

LEMMA NoFrameFacts ==
  /\ NoFrame \in Outer /\ NoFrame.pc = "off" /\ NoFrame.now = Tv(0, 0) /\ NoFrame.found = None
  /\ NoFrame.now.usec < Sec /\ Tv(0, 0) \in Timeval /\ Tv(0, 0) \in Difference /\ Tv(0, 0).usec < Sec
  /\ Ticks(Tv(0, 0)) = 0 /\ None \notin Timers /\ NoFrame.next = None
<1>1. Sec \in Nat \ {0}
  BY TimerAssumption
<1>2. Tv(0, 0) \in Timeval /\ Tv(0, 0) \in Difference /\ Tv(0, 0).usec = 0 /\ Tv(0, 0).sec = 0
  BY DEF Tv, Timeval, Difference
<1>3. Ticks(Tv(0, 0)) = 0
  BY <1>1, <1>2 DEF Ticks
<1>4. NoFrame \in Outer /\ NoFrame.pc = "off" /\ NoFrame.now = Tv(0, 0) /\ NoFrame.found = None /\ NoFrame.next = None
  BY <1>2 DEF NoFrame, Frame, Outer, Signals, Entries, NoTv
<1>. QED  BY <1>1, <1>2, <1>3, <1>4 DEF None, Timers

LEMMA InitSInv == Init => SInv
<1>. SUFFICES ASSUME Init PROVE SInv
  OBVIOUS
<1>1. Sec \in Nat \ {0} /\ MaxTime \in Nat
  BY TimerAssumption
<1>2. /\ now \in Nat /\ itimer = Off /\ alarm = FALSE /\ timers = <<>> /\ live = {} /\ todo = <<>>
      /\ diff = Tv(0, 0) /\ hpc = "off" /\ hnow = Tv(0, 0) /\ hist = {} /\ uaf = FALSE
      /\ ptr = {} /\ found = None /\ outer = NoFrame
  BY <1>1 DEF Init, NoTv
<1>4. Len(timers) = 0 /\ Len(todo) = 0 /\ timers \in Seq(Entry) /\ todo \in Seq(Steps)
  BY <1>2
<1>5. now <= MaxTime
  BY <1>1, TimerAssumption DEF Init
<1>6. Types
  BY <1>2, <1>4, <1>5, NoFrameFacts DEF Types, Armable, Signals, Entries
<1>7. WellFormed(todo) /\ Lists
  BY <1>4 DEF WellFormed, Lists, Distinct
<1>8. HandlerTime /\ Frames
  BY <1>2, NoFrameFacts DEF HandlerTime, Frames
<1>9. Out(todo) = {} /\ Unst(todo) = {}
  BY <1>2, <1>4 DEF Out, Unst
<1>10. Owned /\ Races
  BY <1>2, <1>4, <1>9 DEF Owned, Races
<1>11. Runs /\ Fresh
  BY <1>2, <1>4, NoFrameFacts DEF Runs, Fresh
<1>. QED  BY <1>6, <1>7, <1>8, <1>10, <1>11 DEF SInv

LEMMA TickSInv == ASSUME SInv, Tick PROVE SInv'
<1>1. /\ timers' = timers /\ live' = live /\ ptr' = ptr /\ todo' = todo /\ diff' = diff /\ hpc' = hpc
      /\ hnow' = hnow /\ found' = found /\ outer' = outer
      /\ uaf' = uaf /\ now' = now + 1 /\ hist \subseteq hist' /\ hist' \subseteq hist \cup {"slip"}
  BY DEF Tick, program, main, handler
<1>2. hist' \subseteq Mishaps
  BY <1>1 DEF SInv, Types, Mishaps
<1>3. Armable'
  <2>1. now \in Nat /\ MaxTime \in Nat /\ now < MaxTime /\ (itimer = Off \/ (itimer \in Nat /\ itimer > now))
    BY TimerAssumption DEF SInv, Types, Armable, Tick
  <2>2. itimer' = Off \/ (itimer' \in Nat /\ itimer' > now')
    BY <1>1, <2>1 DEF Tick
  <2>. QED  BY <1>1, <2>1, <2>2 DEF Armable
<1>4. alarm' \in BOOLEAN
  BY DEF Tick
<1>5. Types'
  BY <1>1, <1>2, <1>3, <1>4 DEF SInv, Types
<1>6. WellFormed(todo)' /\ Lists'
  BY <1>1 DEF SInv, Lists, WellFormed, Ends, Exact, Distinct, Ticks
<1>7. HandlerTime'
  <2>1. Ticks(hnow) \in Nat /\ Ticks(outer.now) \in Nat /\ now \in Nat
    BY TicksNat DEF SInv, Types, Armable, Outer
  <2>. QED  BY <1>1, <2>1 DEF SInv, HandlerTime, Ticks
<1>8. Out(todo') = Out(todo) /\ Unst(todo') = Unst(todo)
  BY <1>1
<1>9. Owned'
  BY <1>1, <1>8 DEF SInv, Owned, Holds
<1>10. Races' /\ Frames'
  BY <1>1 DEF SInv, Races, Frames, Holds
<1>11. Runs'
  BY <1>1 DEF SInv, Runs, Ready, Ticks
<1>12. Fresh'
  <2>. SUFFICES ASSUME "slip" \notin hist' PROVE Unst(todo') = {}
    BY DEF Fresh
  <2>1. todo = <<>>
    BY DEF Tick
  <2>2. 1..Len(todo) = {}
    BY <2>1
  <2>3. Unst(todo) = {}
    BY <2>2 DEF Unst
  <2>. QED  BY <1>8, <2>3
<1>. QED  BY <1>5, <1>6, <1>7, <1>9, <1>10, <1>11, <1>12 DEF SInv

(* An operation of main begins. *)
LEMMA BeginSInv ==
  ASSUME SInv, NEW q \in Seq(Steps), q # <<>>, WellFormed(q), Begin(q),
         live' \subseteq Timers, live' \ Out(q) = live, Out(q) \subseteq live',
         Unst(q) \subseteq Out(q), Out(q) \subseteq Unst(q) \cup {"alive"},
         q[1].do = "del" => q[1].tmr \in ptr
  PROVE  SInv'
<1>1. /\ todo = <<>> /\ todo' = q /\ timers' = timers /\ hpc = "off" /\ hpc' = hpc /\ now' = now
      /\ itimer' = itimer /\ alarm' = alarm /\ hnow' = hnow /\ hist' = hist /\ uaf' = uaf /\ diff' = diff
      /\ ptr' = ptr /\ found' = found /\ outer' = outer /\ ~uaf
  BY DEF Begin, handler, kernel
<1>2. Types'
  BY <1>1 DEF SInv, Types, Armable
<1>3. Out(todo) = {} /\ Unst(todo) = {} /\ Out(todo') = Out(q) /\ Unst(todo') = Unst(q) /\ WellFormed(todo')
  <2>1. Len(todo) = 0
    BY <1>1
  <2>. QED  BY <1>1, <2>1 DEF Out, Unst
<1>4. Owned'
  <2>1. \A i \in 1..Len(timers') : timers'[i].tmr \in live' \ Out(todo')
    BY <1>1, <1>3 DEF SInv, Owned
  <2>2. live' \subseteq ptr' \cup Unst(todo') \cup {"alive"}
    BY <1>1, <1>3 DEF SInv, Owned
  <2>3. ASSUME "unstored" \notin hist'
        PROVE  /\ \A t \in live' \ Out(todo') : Holds(timers', t)
               /\ ptr' = live' \ ({"alive"} \cup Unst(todo'))
               /\ Unst(todo') \subseteq live'
    <3>1. (\A t \in live : Holds(timers, t)) /\ ptr = live \ {"alive"}
      BY <1>1, <1>3, <2>3 DEF SInv, Owned
    <3>. QED  BY <1>1, <1>3, <3>1
  <2>. QED  BY <1>3, <2>1, <2>2, <2>3 DEF Owned
<1>5. Lists' /\ HandlerTime' /\ Frames'
  BY <1>1 DEF SInv, Lists, HandlerTime, Exact, Distinct, Ticks, Frames
<1>6. Races'
  <2>1. ASSUME q[1].do = "del", "unstored" \notin hist PROVE Holds(timers, q[1].tmr)
    BY <1>1, <1>3, <2>1 DEF SInv, Owned
  <2>. QED  BY <1>1, <2>1 DEF SInv, Races
<1>7. Runs'
  BY <1>1 DEF SInv, Runs, Ready, Ticks
<1>8. Fresh'
  BY <1>1, <1>3 DEF SInv, Fresh, Owned
<1>. QED  BY <1>2, <1>3, <1>4, <1>5, <1>6, <1>7, <1>8 DEF SInv

(* The steps of main. *)
LEMMA MainFrame ==
  ASSUME SInv, MainStep
  PROVE  /\ todo # <<>> /\ todo[1] \in Steps /\ todo' = Tail(todo) /\ todo' \in Seq(Steps) /\ WellFormed(todo')
         /\ hpc = "off" /\ hpc' = hpc /\ hnow' = hnow /\ now' = now /\ alarm' = alarm
         /\ found' = None /\ outer' = NoFrame /\ ~uaf
         /\ found' \in Entries /\ outer' \in Outer /\ outer'.now.usec < Sec
         /\ Runs' /\ HandlerTime' /\ (hist \subseteq hist' => Frames')
         /\ todo' # <<>> => todo'[1].do # "del"
         /\ \/ todo[1].do = "add" /\ Add(todo[1].tmr)
            \/ todo[1].do = "del" /\ Del(todo[1].tmr)
            \/ todo[1].do = "calc" /\ Calc
            \/ todo[1].do = "set" /\ Set
            \/ todo[1].do = "free" /\ Free(todo[1].tmr)
            \/ todo[1].do = "store" /\ Store(todo[1].tmr)
<1>1. todo # <<>> /\ todo \in Seq(Steps) /\ WellFormed(todo) /\ todo' = Tail(todo)
  BY DEF SInv, Types, MainStep
<1>2. Head(todo) = todo[1] /\ todo[1] \in Steps
  BY <1>1, TailFacts
<1>3. todo' \in Seq(Steps) /\ WellFormed(todo') /\ (todo' # <<>> => todo'[1].do # "del")
  BY <1>1, TailFacts
<1>4. /\ hpc = "off" /\ hpc' = hpc /\ hnow' = hnow /\ now' = now /\ alarm' = alarm
      /\ found' = None /\ outer' = NoFrame /\ outer = NoFrame /\ ~uaf
  BY DEF MainStep, handler, SInv, Frames
<1>5. Runs'
  BY <1>4, NoFrameFacts DEF Runs
<1>6. HandlerTime'
  BY <1>4 DEF SInv, HandlerTime
<1>7. hist \subseteq hist' => Frames'
  BY <1>4, NoFrameFacts DEF SInv, Frames
<1>8. found' \in Entries /\ outer' \in Outer /\ outer'.now.usec < Sec
  BY <1>4, NoFrameFacts DEF Entries
<1>. QED  BY <1>1, <1>2, <1>3, <1>4, <1>5, <1>6, <1>7, <1>8 DEF MainStep

(* What is Out of the list and not stored after a step. *)
LEMMA MainOut ==
  ASSUME SInv, MainStep
  PROVE  /\ todo[1].do = "del" => Out(todo) = {} /\ Out(todo') = {todo[1].tmr}
         /\ todo[1].do \in {"calc", "set"} => Out(todo') = Out(todo)
         /\ todo[1].do \in {"add", "free"} => Out(todo) = {todo[1].tmr} /\ Out(todo') = {}
         /\ todo[1].do # "store" => Unst(todo') = Unst(todo)
         /\ todo[1].do = "store" => Unst(todo) = {todo[1].tmr} /\ Unst(todo') = {} /\ Out(todo) = {} /\ Out(todo') = {}
         /\ todo[1].do = "free" => Unst(todo) = {}
         /\ todo[1].tmr = "alive" => Unst(todo) = {}
<1>1. todo # <<>> /\ todo \in Seq(Steps) /\ WellFormed(todo) /\ todo' = Tail(todo)
  BY DEF SInv, Types, MainStep
<1>. QED  BY <1>1, TailFacts DEF Ends

LEMMA AddSInv == ASSUME SInv, MainStep, todo[1].do = "add", Add(todo[1].tmr) PROVE SInv'
<1>. DEFINE t == todo[1].tmr
<1>1. t \in Timers /\ ~uaf /\ uaf' = uaf /\ live' = live /\ ptr' = ptr /\ diff' = diff /\ itimer' = itimer
  BY MainFrame DEF Steps, Add, MainStep
<1>2. Out(todo) = {t} /\ Out(todo') = {} /\ Unst(todo') = Unst(todo)
  BY MainOut
<1>3. timers \in Seq(Entry) /\ Distinct(timers) /\ now \in Nat /\ \A i \in 1..Len(timers) : Exact(timers[i])
  BY DEF SInv, Types, Lists, Armable
<1>4. ~Holds(timers, t) /\ t \in live
  BY <1>1, <1>2 DEF SInv, Owned, Holds
<1>5. register(t, timers)
  BY DEF Add
<1>. HIDE DEF t
<1>6. PICK e \in Entry :
         /\ e.tmr = t /\ timers' \in Seq(Entry) /\ Distinct(timers')
         /\ e.due > now + Interval[t].usec
         /\ \A i \in 1..Len(timers') : timers'[i] = e \/ \E k \in 1..Len(timers) : timers'[i] = timers[k]
         /\ \E j \in 1..Len(timers') : timers'[j] = e
         /\ \A k \in 1..Len(timers) : \E j \in 1..Len(timers') : timers'[j] = timers[k]
         /\ \A i \in 1..Len(timers') : Exact(timers'[i])
  BY <1>1, <1>3, <1>4, <1>5, RegisterFacts
<1>7. hist' \subseteq Mishaps /\ hist \subseteq hist' /\ hist' \subseteq hist \cup {"denormal"}
  BY <1>5 DEF SInv, Types, register, Mishaps
<1>8. Types'
  BY <1>1, <1>6, <1>7, MainFrame DEF SInv, Types, Armable
<1>9. Lists'
  BY <1>6 DEF Lists
<1>10. Races'
  BY <1>1, <1>2, <1>7, MainFrame DEF SInv, Races
<1>11. Owned'
  <2>1. ASSUME NEW i \in 1..Len(timers') PROVE timers'[i].tmr \in live' \ Out(todo')
    BY <1>1, <1>2, <1>4, <1>6 DEF SInv, Owned
  <2>2. ASSUME NEW u \in live' \ Out(todo'), "unstored" \notin hist' PROVE Holds(timers', u)
    <3>1. CASE u = t
      BY <1>6, <3>1 DEF Holds
    <3>2. CASE u # t
      <4>1. PICK k \in 1..Len(timers) : timers[k].tmr = u
        BY <1>1, <1>2, <1>7, <2>2, <3>2 DEF SInv, Owned, Holds
      <4>. QED  BY <1>6, <4>1 DEF Holds
    <3>. QED  BY <3>1, <3>2
  <2>3. /\ live' \subseteq ptr' \cup Unst(todo') \cup {"alive"}
        /\ Out(todo') \subseteq live'
        /\ "unstored" \notin hist' => ptr' = live' \ ({"alive"} \cup Unst(todo')) /\ Unst(todo') \subseteq live'
    BY <1>1, <1>2, <1>7 DEF SInv, Owned
  <2>. QED  BY <2>1, <2>2, <2>3 DEF Owned
<1>12. Fresh'
  BY <1>2, <1>6, <1>7, MainFrame DEF SInv, Fresh
<1>. QED  BY <1>7, <1>8, <1>9, <1>10, <1>11, <1>12, MainFrame DEF SInv

(* A timer leaves the list. *)
LEMMA DropFacts ==
  ASSUME SInv, NEW t, timers' = Without(timers, t)
  PROVE  /\ timers' \in Seq(Entry) /\ Lists'
         /\ \A i \in 1..Len(timers') : timers'[i].tmr # t /\ \E k \in 1..Len(timers) : timers'[i] = timers[k]
         /\ \A k \in 1..Len(timers) : timers[k].tmr # t => \E j \in 1..Len(timers') : timers'[j] = timers[k]
<1>1. timers \in Seq(Entry) /\ Distinct(timers) /\ \A i \in 1..Len(timers) : Exact(timers[i])
  BY DEF SInv, Types, Lists
<1>2. /\ timers' \in Seq(Entry) /\ Distinct(timers')
      /\ \A i \in 1..Len(timers') : timers'[i].tmr # t /\ \E k \in 1..Len(timers) : timers'[i] = timers[k]
      /\ \A k \in 1..Len(timers) : timers[k].tmr # t => \E j \in 1..Len(timers') : timers'[j] = timers[k]
  BY <1>1, WithoutFacts
<1>3. Lists'
  BY <1>1, <1>2 DEF Lists, Exact
<1>. QED  BY <1>2, <1>3

LEMMA RangeFacts ==
  ASSUME SInv
  PROVE  /\ \A x : x \in Range(timers) <=> \E i \in 1..Len(timers) : x = timers[i]
         /\ \A t : t \in Registered <=> Holds(timers, t)
<1>1. DOMAIN timers = 1..Len(timers)
  BY LenProperties DEF SInv, Types
<1>2. \A x : x \in Range(timers) <=> \E i \in 1..Len(timers) : x = timers[i]
  BY <1>1 DEF Range
<1>. QED  BY <1>2 DEF Registered, Holds

LEMMA DelSInv == ASSUME SInv, MainStep, todo[1].do = "del", Del(todo[1].tmr) PROVE SInv'
<1>. DEFINE t == todo[1].tmr
<1>1. /\ t \in Timers /\ ~uaf /\ uaf' = (t \notin Registered) /\ live' = live /\ ptr' = ptr
      /\ diff' = diff /\ itimer' = itimer /\ hist' = hist
  BY MainFrame DEF Steps, Del, MainStep
<1>2. Out(todo) = {} /\ Out(todo') = {t} /\ Unst(todo') = Unst(todo)
  BY MainOut
<1>3. timers' = Without(timers, t)
  BY DEF Del
<1>4. Holds(timers, t) \/ hist \cap {"raced", "unstored"} # {}
  BY MainFrame DEF SInv, Races
<1>. HIDE DEF t
<1>5. /\ timers' \in Seq(Entry) /\ Lists'
      /\ \A i \in 1..Len(timers') : timers'[i].tmr # t /\ \E k \in 1..Len(timers) : timers'[i] = timers[k]
      /\ \A k \in 1..Len(timers) : timers[k].tmr # t => \E j \in 1..Len(timers') : timers'[j] = timers[k]
  BY <1>3, DropFacts
<1>6. uaf' \in BOOLEAN /\ (uaf' <=> ~Holds(timers, t))
  BY <1>1, RangeFacts
<1>7. Types'
  BY <1>1, <1>5, <1>6, MainFrame DEF SInv, Types, Armable
<1>8. Races'
  BY <1>1, <1>4, <1>6, MainFrame DEF SInv, Races
<1>9. Owned'
  <2>1. ASSUME NEW i \in 1..Len(timers') PROVE timers'[i].tmr \in live' \ Out(todo')
    BY <1>1, <1>2, <1>5 DEF SInv, Owned
  <2>2. ASSUME NEW u \in live' \ Out(todo'), "unstored" \notin hist' PROVE Holds(timers', u)
    <3>1. PICK k \in 1..Len(timers) : timers[k].tmr = u
      BY <1>1, <1>2, <2>2 DEF SInv, Owned, Holds
    <3>. QED  BY <1>2, <1>5, <3>1 DEF Holds
  <2>3. ~uaf' => t \in live
    BY <1>6 DEF SInv, Owned, Holds
  <2>4. /\ live' \subseteq ptr' \cup Unst(todo') \cup {"alive"}
        /\ "unstored" \notin hist' => ptr' = live' \ ({"alive"} \cup Unst(todo')) /\ Unst(todo') \subseteq live'
    BY <1>1, <1>2 DEF SInv, Owned
  <2>. QED  BY <1>1, <1>2, <2>1, <2>2, <2>3, <2>4 DEF Owned
<1>10. Fresh'
  BY <1>1, <1>2, <1>5, MainFrame DEF SInv, Fresh
<1>. QED  BY <1>1, <1>5, <1>7, <1>8, <1>9, <1>10, MainFrame DEF SInv

(* A step of main that leaves the list and the pointers alone. *)
LEMMA QuietSInv ==
  ASSUME SInv, MainStep, todo[1].do \in {"calc", "set"}, uaf' = uaf, live' = live, ptr' = ptr, timers' = timers,
         hist' = hist, Armable', diff' \in Difference
  PROVE  SInv'
<1>1. Out(todo') = Out(todo) /\ Unst(todo') = Unst(todo)
  BY MainOut
<1>2. Types'
  BY MainFrame DEF SInv, Types
<1>3. Lists'
  BY DEF SInv, Lists, Distinct, Exact
<1>4. Owned'
  BY <1>1 DEF SInv, Owned, Holds
<1>5. Races'
  BY MainFrame DEF SInv, Races
<1>6. Fresh'
  BY <1>1, MainFrame DEF SInv, Fresh
<1>. QED  BY <1>2, <1>3, <1>4, <1>5, <1>6, MainFrame DEF SInv

LEMMA CalcSInv == ASSUME SInv, MainStep, todo[1].do = "calc", Calc PROVE SInv'
<1>1. uaf' = uaf /\ live' = live /\ ptr' = ptr /\ timers' = timers /\ itimer' = itimer /\ hist' = hist
  BY DEF Calc, program
<1>2. Armable'
  BY <1>1, MainFrame DEF SInv, Types, Armable
<1>3. diff' \in Difference
  <2>1. CASE timers = <<>>
    BY <2>1 DEF Calc, Tv, Difference
  <2>2. CASE timers # <<>>
    <3>1. diff' = tv_sub(min(timers), gettimeofday)
      BY <2>2 DEF Calc
    <3>2. timers \in Seq(Entry) /\ Distinct(timers) /\ now \in Nat
      BY DEF SInv, Types, Lists, Armable
    <3>. QED  BY <2>2, <3>1, <3>2, NextFacts
  <2>. QED  BY <2>1, <2>2
<1>. QED  BY <1>1, <1>2, <1>3, QuietSInv

LEMMA SetSInv == ASSUME SInv, MainStep, todo[1].do = "set", Set PROVE SInv'
<1>1. uaf' = uaf /\ live' = live /\ ptr' = ptr /\ timers' = timers /\ diff' = Tv(0, 0) /\ hist' = hist
  BY DEF Set, program, NoTv
<1>2. diff' \in Difference
  BY <1>1, NoFrameFacts
<1>3. Armable'
  BY MainFrame, SetitimerFacts DEF SInv, Types, Armable, Set
<1>. QED  BY <1>1, <1>2, <1>3, QuietSInv

LEMMA FreeSInv == ASSUME SInv, MainStep, todo[1].do = "free", Free(todo[1].tmr) PROVE SInv'
<1>. DEFINE t == todo[1].tmr
<1>1. /\ ~uaf /\ uaf' = uaf /\ live' = live \ {t} /\ ptr' = ptr \ {t} /\ timers' = timers
      /\ itimer' = itimer /\ diff' = diff /\ hist' = hist
  BY DEF Free, MainStep
<1>2. Out(todo) = {t} /\ Out(todo') = {} /\ Unst(todo') = {} /\ Unst(todo) = {}
  BY MainOut
<1>. HIDE DEF t
<1>3. Types'
  BY <1>1, MainFrame DEF SInv, Types, Armable
<1>4. Lists'
  BY <1>1 DEF SInv, Lists, Distinct, Exact
<1>5. Owned'
  BY <1>1, <1>2 DEF SInv, Owned, Holds
<1>6. Races'
  BY <1>1, MainFrame DEF SInv, Races
<1>7. Fresh'
  BY <1>2 DEF Fresh
<1>. QED  BY <1>1, <1>3, <1>4, <1>5, <1>6, <1>7, MainFrame DEF SInv

LEMMA StoreSInv == ASSUME SInv, MainStep, todo[1].do = "store", Store(todo[1].tmr) PROVE SInv'
<1>. DEFINE t == todo[1].tmr
<1>1. /\ ~uaf /\ uaf' = uaf /\ live' = live /\ ptr' = ptr \cup {t} /\ timers' = timers
      /\ itimer' = itimer /\ diff' = diff /\ hist' = hist
  BY DEF Store, MainStep
<1>2. Out(todo) = {} /\ Out(todo') = {} /\ Unst(todo') = {} /\ Unst(todo) = {t}
  BY MainOut
<1>3. t \in {"cmd", "ring"}
  <2>1. t \in Timers
    BY MainFrame DEF Steps
  <2>2. t # "alive"
    BY <1>2, MainOut
  <2>. QED  BY <2>1, <2>2 DEF Timers
<1>. HIDE DEF t
<1>4. Types'
  BY <1>1, <1>3, MainFrame DEF SInv, Types, Armable
<1>5. Lists'
  BY <1>1 DEF SInv, Lists, Distinct, Exact
<1>6. Owned'
  <2>1. /\ \A i \in 1..Len(timers') : timers'[i].tmr \in live' \ Out(todo')
        /\ live' \subseteq ptr' \cup Unst(todo') \cup {"alive"} /\ Out(todo') \subseteq live'
    BY <1>1, <1>2 DEF SInv, Owned
  <2>2. ASSUME "unstored" \notin hist'
        PROVE  /\ \A u \in live' \ Out(todo') : Holds(timers', u)
               /\ ptr' = live' \ ({"alive"} \cup Unst(todo')) /\ Unst(todo') \subseteq live'
    <3>1. ptr = live \ {"alive", t} /\ t \in live /\ \A u \in live : Holds(timers, u)
      BY <1>1, <1>2, <2>2 DEF SInv, Owned
    <3>2. ptr' = live' \ {"alive"}
      BY <1>1, <1>3, <3>1
    <3>. QED  BY <1>1, <1>2, <3>1, <3>2
  <2>. QED  BY <2>1, <2>2 DEF Owned
<1>7. Races'
  BY <1>1, MainFrame DEF SInv, Races
<1>8. Fresh'
  BY <1>2 DEF Fresh
<1>. QED  BY <1>1, <1>4, <1>5, <1>6, <1>7, <1>8, MainFrame DEF SInv

(* The steps of the signal handler. *)
LEMMA HandlerSInv == ASSUME SInv, NEW signal \in {"ALRM", "USR1"}, sig_handler(signal) PROVE SInv'
<1>1. /\ signal # hpc /\ hpc' = signal /\ hnow' = gettimeofday /\ now' = now /\ itimer' = itimer /\ found' = None
      /\ timers' = timers /\ live' = live /\ ptr' = ptr /\ todo' = todo /\ diff' = diff /\ uaf' = uaf
      /\ ~uaf /\ outer = NoFrame /\ alarm' \in BOOLEAN
  BY DEF sig_handler, program, main
<1>2. /\ hist' \subseteq Mishaps /\ hist \subseteq hist' /\ hist' \subseteq hist \cup {"raced", "nested"}
      /\ hpc # "off" => "nested" \in hist'
  BY DEF SInv, Types, sig_handler, Mishaps
<1>3. now \in Nat
  BY DEF SInv, Types, Armable
<1>4. gettimeofday \in Timeval /\ gettimeofday.usec < Sec /\ Ticks(gettimeofday) = now
  BY <1>3, GettimeofdayFacts
<1>5. \/ hpc = "off" /\ outer' = NoFrame
      \/ hpc # "off" /\ \E nxt \in Registered \cup {None} : outer' = Frame(hpc, hnow, found, nxt)
  BY <1>1 DEF sig_handler
<1>6. /\ outer' \in Outer /\ outer'.now.usec < Sec /\ Ticks(outer'.now) <= now
      /\ outer'.pc = "off" => outer' = NoFrame
      /\ outer'.pc # "off" => outer'.pc # hpc' /\ "nested" \in hist'
      /\ outer'.found # None => outer'.found = found /\ outer'.now = hnow
  <2>1. CASE hpc = "off" /\ outer' = NoFrame
    BY <1>3, <2>1, NoFrameFacts
  <2>2. CASE hpc # "off" /\ \E nxt \in Registered \cup {None} : outer' = Frame(hpc, hnow, found, nxt)
    <3>1. PICK nxt \in Registered \cup {None} : outer' = Frame(hpc, hnow, found, nxt)
      BY <2>2
    <3>2. nxt \in Entries
      <4>1. \A u : Holds(timers, u) => u \in Timers
        BY DEF SInv, Owned, Types, Holds
      <4>. QED  BY <4>1, RangeFacts DEF Entries
    <3>3. hpc \in Signals /\ hnow \in Timeval /\ found \in Entries /\ hnow.usec < Sec /\ Ticks(hnow) <= now
      BY DEF SInv, Types, HandlerTime
    <3>4. outer' \in Outer /\ outer'.pc = hpc /\ outer'.now = hnow /\ outer'.found = found
      BY <3>1, <3>2, <3>3 DEF Frame, Outer
    <3>. QED  BY <1>1, <1>2, <2>2, <3>3, <3>4
  <2>. QED  BY <1>5, <2>1, <2>2
<1>7. Types'
  BY <1>1, <1>2, <1>4, <1>6 DEF SInv, Types, Armable, Signals, Entries
<1>8. HandlerTime'
  BY <1>1, <1>3, <1>4, <1>6 DEF HandlerTime
<1>9. Frames'
  BY <1>1, <1>6 DEF Frames
<1>10. Lists' /\ WellFormed(todo)'
  BY <1>1 DEF SInv, Lists, WellFormed, Distinct, Exact, Ends
<1>11. Out(todo') = Out(todo) /\ Unst(todo') = Unst(todo)
  BY <1>1
<1>12. Owned' /\ Fresh'
  BY <1>1, <1>2, <1>11 DEF SInv, Owned, Holds, Fresh
<1>13. todo # <<>> /\ todo[1].do \in {"del", "set"} => "raced" \in hist'
  <2>1. todo # <<>> => Head(todo) = todo[1]
    BY TailFacts DEF SInv, Types
  <2>. QED  BY <2>1 DEF sig_handler, AboutTo
<1>14. Races'
  BY <1>1, <1>2, <1>13 DEF SInv, Races
<1>15. Runs'
  <2>1. ASSUME outer'.found # None PROVE Ready(outer.found, outer.now)'
    <3>1. Ready(found, hnow) /\ outer'.found = found /\ outer'.now = hnow
      BY <1>1, <1>6, <2>1 DEF SInv, Runs
    <3>. QED  BY <1>1, <1>2, <3>1 DEF Ready
  <2>. QED  BY <1>1, <2>1 DEF Runs
<1>. QED  BY <1>7, <1>8, <1>9, <1>10, <1>12, <1>14, <1>15 DEF SInv

LEMMA FindSInv == ASSUME SInv, NEW i, Find(i) PROVE SInv'
<1>1. /\ i \in 1..Len(timers) /\ tv_later(hnow, timers[i].expires) /\ found' = timers[i].tmr /\ hpc # "off"
      /\ timers' = timers /\ live' = live /\ ptr' = ptr /\ todo' = todo /\ diff' = diff /\ uaf' = uaf
      /\ hpc' = hpc /\ hnow' = hnow /\ outer' = outer /\ hist' = hist /\ now' = now /\ itimer' = itimer
      /\ alarm' = alarm
  BY DEF Find, Expired, kernel, program, main
<1>2. timers[i] \in Entry
  BY <1>1, ElementOfSeq DEF SInv, Types
<1>. DEFINE x == timers[i].expires
            k == Interval[timers[i].tmr].usec
<1>3. x \in Timeval /\ timers[i].tmr \in Timers
  BY <1>2 DEF Entry
<1>4. k \in Nat
  BY <1>3, IntervalFacts DEF Timeval
<1>5. timers[i].due = Ticks(x) /\ x.usec < Sec + k
  BY <1>1 DEF SInv, Lists, Exact
<1>6. Ticks(hnow) + k >= timers[i].due
  <2>. HIDE DEF x, k
  <2>1. tv_later(hnow, x) /\ hnow \in Timeval
    BY <1>1 DEF SInv, Types, x
  <2>. QED  BY <1>3, <1>4, <1>5, <2>1, LaterTicks
<1>7. Runs'
  <2>1. Ready(found, hnow)'
    BY <1>1, <1>6 DEF Ready
  <2>2. ~uaf /\ outer.found # None => Ready(outer.found, outer.now)'
    BY <1>1 DEF SInv, Runs, Ready
  <2>. QED  BY <1>1, <2>1, <2>2 DEF Runs
<1>8. Types'
  BY <1>1, <1>3 DEF SInv, Types, Armable, Entries
<1>9. Lists' /\ WellFormed(todo)' /\ HandlerTime' /\ Frames'
  BY <1>1 DEF SInv, Lists, WellFormed, Distinct, Exact, Ends, HandlerTime, Frames
<1>10. Out(todo') = Out(todo) /\ Unst(todo') = Unst(todo)
  BY <1>1
<1>11. Owned' /\ Fresh' /\ Races'
  BY <1>1, <1>10 DEF SInv, Owned, Holds, Fresh, Races
<1>. QED  BY <1>7, <1>8, <1>9, <1>11 DEF SInv

(* A callback: the timer is freed or left behind, or registered again. *)
LEMMA FireFrame ==
  ASSUME SInv, Fire
  PROVE  /\ hpc # "off" /\ hpc' = hpc /\ hnow' = hnow /\ now' = now /\ alarm' = alarm /\ found' = None
         /\ todo' = todo /\ diff' = diff /\ outer' = outer /\ ~uaf /\ uaf' \in BOOLEAN
         /\ uaf' = (found # "alive" /\ found \in {outer.found, outer.next})
         /\ found \in Timers /\ found' \in Entries
         /\ Out(todo') = Out(todo) /\ Unst(todo') = Unst(todo) /\ WellFormed(todo)' /\ HandlerTime'
         /\ (hist \subseteq hist' => Frames')
         /\ found \in live \ Out(todo) /\ "alive" \notin Unst(todo)
         /\ \E i \in 1..Len(timers) :
               /\ timers[i].tmr = found /\ timers[i] \in Entry
               /\ ~(found = "alive" /\ "nested" \in hist) => now + Interval[found].usec >= timers[i].due
<1>1. /\ hpc' = hpc /\ hnow' = hnow /\ now' = now /\ alarm' = alarm /\ found' = None /\ found # None
      /\ todo' = todo /\ diff' = diff /\ outer' = outer /\ ~uaf
      /\ uaf' = (found # "alive" /\ found \in {outer.found, outer.next})
  BY DEF Fire, main
<1>2. hpc # "off" /\ found \in Timers /\ found' \in Entries /\ uaf' \in BOOLEAN
  BY <1>1 DEF SInv, Frames, Types, Entries
<1>3. Out(todo') = Out(todo) /\ Unst(todo') = Unst(todo) /\ WellFormed(todo)' /\ HandlerTime'
  <2>1. WellFormed(todo)' /\ HandlerTime'
    BY <1>1 DEF SInv, WellFormed, Ends, HandlerTime
  <2>. QED  BY <1>1, <2>1
<1>4. hist \subseteq hist' => Frames'
  BY <1>1, <1>2 DEF SInv, Frames
<1>5. Ready(found, hnow)
  BY <1>1 DEF SInv, Runs
<1>6. PICK i \in 1..Len(timers) : timers[i].tmr = found /\ ((found = "alive" /\ "nested" \in hist) \/ Ticks(hnow) + Interval[found].usec >= timers[i].due)
  BY <1>5 DEF Ready
<1>7. timers[i] \in Entry
  BY ElementOfSeq DEF SInv, Types
<1>8. Ticks(hnow) \in Nat /\ Ticks(hnow) <= now /\ now \in Nat /\ timers[i].due \in Nat /\ Interval[found].usec \in Nat
  BY <1>2, <1>7, TicksNat, IntervalFacts DEF SInv, Types, HandlerTime, Armable, Entry, Timeval
<1>9. ~(found = "alive" /\ "nested" \in hist) => now + Interval[found].usec >= timers[i].due
  BY <1>6, <1>8
<1>10. found \in live \ Out(todo)
  BY <1>6 DEF SInv, Owned
<1>11. "alive" \notin Unst(todo)
  BY UnstFacts DEF SInv
<1>. QED  BY <1>1, <1>2, <1>3, <1>4, <1>6, <1>7, <1>9, <1>10, <1>11

LEMMA FreedSInv ==
  ASSUME SInv, Fire, found # "alive", timers' = Without(timers, found), itimer' = itimer,
         live' = IF found = "cmd" /\ found \notin ptr THEN live ELSE live \ {found},
         ptr' = ptr \ {found}, hist' = IF found \in ptr THEN hist ELSE hist \cup {"unstored"}
  PROVE  SInv'
<1>1. PICK t : t = found
  OBVIOUS
<1>2. /\ timers' = Without(timers, t) /\ live \ {t} \subseteq live' /\ live' \subseteq live
      /\ ptr' = ptr \ {t} /\ t # "alive" /\ t \in live \ Out(todo)
      /\ t \in ptr => hist' = hist /\ live' = live \ {t}
      /\ t \notin ptr => hist' = hist \cup {"unstored"}
  BY <1>1, FireFrame
<1>3. /\ timers' \in Seq(Entry) /\ Lists'
      /\ \A j \in 1..Len(timers') : timers'[j].tmr # t /\ \E k \in 1..Len(timers) : timers'[j] = timers[k]
      /\ \A k \in 1..Len(timers) : timers[k].tmr # t => \E j \in 1..Len(timers') : timers'[j] = timers[k]
  BY <1>2, DropFacts
<1>4. hist \subseteq hist' /\ hist' \subseteq hist \cup {"unstored"} /\ hist' \subseteq Mishaps
  BY <1>2 DEF SInv, Types, Mishaps
<1>5. Out(todo') = Out(todo) /\ Unst(todo') = Unst(todo) /\ "alive" \notin Unst(todo)
  BY FireFrame
<1>6. Types'
  BY <1>2, <1>3, <1>4, FireFrame DEF SInv, Types, Armable
<1>7. t \notin ptr => t \in Unst(todo)
  BY <1>2 DEF SInv, Owned
<1>8. Owned'
  <2>1. ASSUME NEW j \in 1..Len(timers') PROVE timers'[j].tmr \in live' \ Out(todo')
    <3>1. PICK k \in 1..Len(timers) : timers'[j] = timers[k] /\ timers'[j].tmr # t
      BY <1>3
    <3>2. timers[k].tmr \in live \ Out(todo)
      BY DEF SInv, Owned
    <3>. QED  BY <1>2, <1>5, <3>1, <3>2
  <2>2. live' \subseteq ptr' \cup Unst(todo') \cup {"alive"}
    <3>1. live \subseteq ptr \cup Unst(todo) \cup {"alive"}
      BY DEF SInv, Owned
    <3>. QED  BY <1>2, <1>5, <1>7, <3>1
  <2>3. Out(todo') \subseteq live'
    <3>1. Out(todo) \subseteq live
      BY FireFrame DEF SInv, Owned
    <3>. QED  BY <1>2, <1>5, <3>1
  <2>4. ASSUME "unstored" \notin hist'
        PROVE  /\ \A u \in live' \ Out(todo') : Holds(timers', u)
               /\ ptr' = live' \ ({"alive"} \cup Unst(todo')) /\ Unst(todo') \subseteq live'
    <3>1. t \in ptr /\ live' = live \ {t} /\ "unstored" \notin hist
      BY <1>2, <2>4
    <3>2. /\ \A u \in live \ Out(todo) : Holds(timers, u)
          /\ ptr = live \ ({"alive"} \cup Unst(todo)) /\ Unst(todo) \subseteq live
      BY <3>1, FireFrame DEF SInv, Owned
    <3>3. ASSUME NEW u \in live' \ Out(todo') PROVE Holds(timers', u)
      <4>1. u \in live \ Out(todo) /\ u # t
        BY <1>5, <3>1
      <4>2. PICK k \in 1..Len(timers) : timers[k].tmr = u
        BY <3>2, <4>1 DEF Holds
      <4>. QED  BY <1>3, <4>1, <4>2 DEF Holds
    <3>4. ptr' = live' \ ({"alive"} \cup Unst(todo')) /\ Unst(todo') \subseteq live'
      BY <1>2, <1>5, <3>1, <3>2
    <3>. QED  BY <3>3, <3>4
  <2>. QED  BY <2>1, <2>2, <2>3, <2>4 DEF Owned
<1>9. Races'
  <2>1. ASSUME uaf' PROVE "nested" \in hist'
    <3>1. found \in {outer.found, outer.next} /\ found # None
      BY <2>1, FireFrame, NoFrameFacts
    <3>2. outer.pc # "off"
      BY <3>1, NoFrameFacts DEF SInv, Frames
    <3>. QED  BY <1>4, <3>2 DEF SInv, Frames
  <2>2. todo' # <<>> /\ todo'[1].do \in {"del", "set"} => "raced" \in hist'
    BY <1>4, FireFrame DEF SInv, Races
  <2>3. ASSUME "unstored" \in hist' PROVE "slip" \in hist'
    <3>1. CASE t \in ptr
      BY <1>2, <2>3, <3>1 DEF SInv, Races
    <3>2. CASE t \notin ptr
      <4>. SUFFICES ASSUME "slip" \notin hist PROVE FALSE
        BY <1>4
      <4>1. PICK i \in 1..Len(timers) : timers[i].tmr = t /\ timers[i] \in Entry /\ now + Interval[t].usec >= timers[i].due
        BY <1>1, <1>2, FireFrame
      <4>2. timers[i].due > now + Interval[t].usec
        BY <1>7, <3>2, <4>1 DEF SInv, Fresh
      <4>3. timers[i].due \in Nat /\ now \in Nat /\ Interval[t].usec \in Nat
        BY <1>1, <4>1, FireFrame, IntervalFacts DEF SInv, Types, Armable, Entry, Timeval
      <4>. QED  BY <4>1, <4>2, <4>3
    <3>. QED  BY <3>1, <3>2
  <2>. QED  BY <2>1, <2>2, <2>3 DEF Races
<1>10. Runs'
  <2>1. ASSUME ~uaf', outer'.found # None PROVE Ready(outer.found, outer.now)'
    <3>1. Ready(outer.found, outer.now) /\ outer' = outer /\ outer.found # t
      BY <1>1, <1>2, <2>1, FireFrame DEF SInv, Runs
    <3>2. PICK u, tv : u = outer.found /\ tv = outer.now
      OBVIOUS
    <3>3. PICK k \in 1..Len(timers) :
             /\ timers[k].tmr = u /\ u # t
             /\ (u = "alive" /\ "nested" \in hist) \/ Ticks(tv) + Interval[u].usec >= timers[k].due
      BY <3>1, <3>2 DEF Ready
    <3>4. PICK j \in 1..Len(timers') : timers'[j] = timers[k]
      BY <1>3, <3>3
    <3>. QED  BY <1>4, <3>1, <3>2, <3>3, <3>4 DEF Ready
  <2>. QED  BY <2>1, FireFrame DEF Runs
<1>11. Fresh'
  BY <1>3, <1>4, <1>5, FireFrame DEF SInv, Fresh
<1>. QED  BY <1>3, <1>4, <1>6, <1>8, <1>9, <1>10, <1>11, FireFrame DEF SInv

LEMMA AgainSInv ==
  ASSUME SInv, Fire, found = "alive", register(found, Without(timers, found)),
         calc_next_expiration(timers'), live' = live, ptr' = ptr
  PROVE  SInv'
<1>. DEFINE t == "alive"
<1>1. timers \in Seq(Entry) /\ Distinct(timers) /\ now \in Nat /\ t \in Timers
  BY DEF SInv, Types, Lists, Armable, Timers
<1>2. t \in live \ Out(todo)
  BY FireFrame
<1>3. PICK w : w = Without(timers, t)
  OBVIOUS
<1>4. /\ w \in Seq(Entry) /\ Distinct(w)
      /\ \A j \in 1..Len(w) : w[j].tmr # t /\ \E k \in 1..Len(timers) : w[j] = timers[k]
      /\ \A k \in 1..Len(timers) : timers[k].tmr # t => \E j \in 1..Len(w) : w[j] = timers[k]
  BY <1>1, <1>3, WithoutFacts
<1>5. register(t, w) /\ ~Holds(w, t) /\ \A j \in 1..Len(w) : Exact(w[j])
  BY <1>3, <1>4 DEF Holds, SInv, Lists
<1>. HIDE DEF t
<1>6. PICK e \in Entry :
         /\ e.tmr = t /\ timers' \in Seq(Entry) /\ Distinct(timers')
         /\ \A j \in 1..Len(timers') : timers'[j] = e \/ \E k \in 1..Len(w) : timers'[j] = w[k]
         /\ \E j \in 1..Len(timers') : timers'[j] = e
         /\ \A k \in 1..Len(w) : \E j \in 1..Len(timers') : timers'[j] = w[k]
         /\ \A j \in 1..Len(timers') : Exact(timers'[j])
  BY <1>1, <1>4, <1>5, RegisterFacts
<1>7. hist' \subseteq Mishaps /\ hist \subseteq hist' /\ hist' \subseteq hist \cup {"denormal"}
  BY <1>5 DEF SInv, Types, register, Mishaps
<1>8. Out(todo') = Out(todo) /\ Unst(todo') = Unst(todo) /\ ~uaf' /\ t \notin Unst(todo)
  BY FireFrame DEF t
<1>9. Armable'
  BY <1>6, FireFrame, CalcFacts DEF SInv, Types, Armable
<1>10. Types'
  BY <1>6, <1>7, <1>9, FireFrame DEF SInv, Types
<1>11. Lists'
  BY <1>6 DEF Lists
<1>12. ASSUME NEW u, NEW k \in 1..Len(timers), timers[k].tmr = u, u # t PROVE \E j \in 1..Len(timers') : timers'[j] = timers[k]
  <2>1. PICK l \in 1..Len(w) : w[l] = timers[k]
    BY <1>4, <1>12
  <2>. QED  BY <1>6, <2>1
<1>13. Owned'
  <2>1. ASSUME NEW j \in 1..Len(timers') PROVE timers'[j].tmr \in live' \ Out(todo')
    <3>1. CASE timers'[j] = e
      BY <1>2, <1>6, <1>8, <3>1
    <3>2. CASE \E k \in 1..Len(w) : timers'[j] = w[k]
      BY <1>4, <1>8, <3>2 DEF SInv, Owned
    <3>. QED  BY <1>6, <3>1, <3>2
  <2>2. ASSUME NEW u \in live' \ Out(todo'), "unstored" \notin hist' PROVE Holds(timers', u)
    <3>1. CASE u = t
      BY <1>6, <3>1 DEF Holds
    <3>2. CASE u # t
      <4>1. PICK k \in 1..Len(timers) : timers[k].tmr = u
        BY <1>7, <1>8, <2>2, FireFrame DEF SInv, Owned, Holds
      <4>. QED  BY <1>12, <3>2, <4>1 DEF Holds
    <3>. QED  BY <3>1, <3>2
  <2>3. /\ live' \subseteq ptr' \cup Unst(todo') \cup {"alive"}
        /\ Out(todo') \subseteq live'
        /\ "unstored" \notin hist' => ptr' = live' \ ({"alive"} \cup Unst(todo')) /\ Unst(todo') \subseteq live'
    BY <1>7, <1>8, FireFrame DEF SInv, Owned
  <2>. QED  BY <2>1, <2>2, <2>3 DEF Owned
<1>14. Races'
  <2>1. todo' # <<>> /\ todo'[1].do \in {"del", "set"} => "raced" \in hist'
    BY <1>7, FireFrame DEF SInv, Races
  <2>2. "unstored" \in hist' => "slip" \in hist'
    BY <1>7 DEF SInv, Races
  <2>. QED  BY <1>8, <2>1, <2>2 DEF Races
<1>15. Runs'
  <2>1. ASSUME outer'.found # None PROVE Ready(outer.found, outer.now)'
    <3>1. Ready(outer.found, outer.now) /\ outer' = outer /\ outer.found # None
      BY <2>1, FireFrame DEF SInv, Runs
    <3>2. "nested" \in hist
      BY <3>1, NoFrameFacts DEF SInv, Frames
    <3>3. PICK u, tv : u = outer.found /\ tv = outer.now
      OBVIOUS
    <3>4. PICK k \in 1..Len(timers) :
             /\ timers[k].tmr = u
             /\ (u = "alive" /\ "nested" \in hist) \/ Ticks(tv) + Interval[u].usec >= timers[k].due
      BY <3>1, <3>3 DEF Ready
    <3>5. CASE u = t
      <4>1. PICK j \in 1..Len(timers') : timers'[j] = e
        BY <1>6
      <4>. QED  BY <1>6, <1>7, <3>1, <3>2, <3>3, <3>5, <4>1 DEF Ready, t
    <3>6. CASE u # t
      <4>1. PICK j \in 1..Len(timers') : timers'[j] = timers[k]
        BY <1>12, <3>4, <3>6
      <4>. QED  BY <1>7, <3>1, <3>3, <3>4, <4>1 DEF Ready
    <3>. QED  BY <3>5, <3>6
  <2>. QED  BY <2>1, FireFrame DEF Runs
<1>16. Fresh'
  <2>. SUFFICES ASSUME "slip" \notin hist', NEW j \in 1..Len(timers'), timers'[j].tmr \in Unst(todo')
                PROVE  timers'[j].due > now' + Interval[timers'[j].tmr].usec
    BY DEF Fresh
  <2>1. timers'[j] # e
    BY <1>6, <1>8
  <2>2. PICK k \in 1..Len(timers) : timers'[j] = timers[k]
    BY <1>4, <1>6, <2>1
  <2>3. now' = now
    BY FireFrame
  <2>. QED  BY <1>7, <1>8, <2>2, <2>3 DEF SInv, Fresh
<1>. QED  BY <1>7, <1>10, <1>11, <1>13, <1>14, <1>15, <1>16, FireFrame DEF SInv

LEMMA RearmSInv == ASSUME SInv, Rearm PROVE SInv'
<1>1. /\ hpc # "off" /\ hpc' = outer.pc /\ hnow' = outer.now /\ found' = outer.found /\ outer' = NoFrame
      /\ now' = now /\ alarm' = alarm /\ timers' = timers
      /\ live' = live /\ ptr' = ptr /\ todo' = todo /\ diff' = diff /\ hist' = hist /\ uaf' = uaf
  BY DEF Rearm, program, main
<1>2. Armable'
  BY <1>1, CalcFacts DEF SInv, Types, Armable, Lists, Rearm
<1>3. outer.pc \in Signals /\ outer.now \in Timeval /\ outer.found \in Entries
  BY DEF SInv, Types, Outer
<1>4. Types'
  BY <1>1, <1>2, <1>3, NoFrameFacts DEF SInv, Types
<1>5. Lists' /\ WellFormed(todo)'
  BY <1>1 DEF SInv, Lists, WellFormed, Distinct, Exact, Ends
<1>6. HandlerTime'
  BY <1>1, NoFrameFacts DEF SInv, HandlerTime, Types, Armable
<1>7. Frames'
  BY <1>1, NoFrameFacts DEF SInv, Frames
<1>8. Out(todo') = Out(todo) /\ Unst(todo') = Unst(todo)
  BY <1>1
<1>9. Owned' /\ Fresh'
  BY <1>1, <1>8 DEF SInv, Owned, Holds, Fresh
<1>10. Races'
  BY <1>1 DEF SInv, Races, Holds
<1>11. Runs'
  BY <1>1, NoFrameFacts DEF SInv, Runs, Ready
<1>. QED  BY <1>4, <1>5, <1>6, <1>7, <1>9, <1>10, <1>11 DEF SInv

LEMMA NextSInv == SInv /\ [Next]_vars => SInv'
<1>. SUFFICES ASSUME SInv, [Next]_vars PROVE SInv'
  OBVIOUS
<1>1. live \subseteq Timers /\ {"alive", "cmd", "ring"} \subseteq Timers
  BY DEF SInv, Types, Timers
<1>2. CASE Tick
  BY <1>2, TickSInv
<1>3. ASSUME NEW t \in Timers, t # "alive", t \notin ptr, gsmd_timer_create(t) PROVE SInv'
  <2>1. PICK q : q = Append(Registering(t), Step("store", t))
    OBVIOUS
  <2>2. Appended(q, Registering(t), Step("store", t)) /\ Begin(q) /\ live' = live \cup {t}
    BY <1>3, <2>1 DEF gsmd_timer_create, Appended
  <2>3. q \in Seq(Steps) /\ q # <<>> /\ WellFormed(q) /\ Out(q) = {t} /\ Unst(q) = {t} /\ q[1] = Step("add", t)
    BY <1>3, <2>2, CreateFacts
  <2>4. q[1].do # "del"
    BY <2>3 DEF Step
  <2>5. t \notin live
    <3>1. Len(todo) = 0
      BY <2>2 DEF Begin
    <3>2. Unst(todo) = {}
      BY <3>1 DEF Unst
    <3>. QED  BY <1>3, <3>2 DEF SInv, Owned
  <2>6. live' \subseteq Timers /\ live' \ Out(q) = live /\ Out(q) \subseteq live'
    BY <1>1, <2>2, <2>3, <2>5
  <2>7. Unst(q) \subseteq Out(q) /\ Out(q) \subseteq Unst(q) \cup {"alive"}
    BY <2>3
  <2>. QED  BY <2>2, <2>3, <2>4, <2>6, <2>7, BeginSInv
<1>4. CASE gsmd_alive_start
  <2>1. PICK q : q = Registering("alive")
    OBVIOUS
  <2>2. "alive" \notin live /\ Begin(q) /\ live' = live \cup {"alive"}
    BY <1>4, <2>1 DEF gsmd_alive_start
  <2>3. q \in Seq(Steps) /\ q # <<>> /\ WellFormed(q) /\ Out(q) = {"alive"} /\ Unst(q) = {} /\ q[1] = Step("add", "alive")
    BY <1>1, <2>1, RegisteringFacts
  <2>4. q[1].do # "del"
    BY <2>3 DEF Step
  <2>5. live' \subseteq Timers /\ live' \ Out(q) = live /\ Out(q) \subseteq live'
    BY <1>1, <2>2, <2>3
  <2>6. Unst(q) \subseteq Out(q) /\ Out(q) \subseteq Unst(q) \cup {"alive"}
    BY <2>3
  <2>. QED  BY <2>2, <2>3, <2>4, <2>5, <2>6, BeginSInv
<1>5. CASE discard_timer
  BY <1>1, <1>3, <1>5 DEF discard_timer
<1>6. CASE atcmd_done
  <2>1. PICK q : q = Append(Unregistering("cmd"), Step("free", "cmd"))
    OBVIOUS
  <2>2. Appended(q, Unregistering("cmd"), Step("free", "cmd")) /\ Begin(q) /\ live' = live /\ "cmd" \in ptr
    BY <1>6, <2>1 DEF atcmd_done, Appended
  <2>3. q \in Seq(Steps) /\ q # <<>> /\ WellFormed(q) /\ Out(q) = {} /\ Unst(q) = {} /\ q[1] = Step("del", "cmd")
    BY <1>1, <2>2, DoneFacts
  <2>4. q[1].tmr = "cmd"
    BY <2>3 DEF Step
  <2>5. live' \subseteq Timers /\ live' \ Out(q) = live /\ Out(q) \subseteq live'
    BY <1>1, <2>2, <2>3
  <2>6. Unst(q) \subseteq Out(q) /\ Out(q) \subseteq Unst(q) \cup {"alive"}
    BY <2>3
  <2>. QED  BY <2>2, <2>3, <2>4, <2>5, <2>6, BeginSInv
<1>7. CASE state_ringing_update
  <2>1. CASE "ring" \in ptr
    <3>1. PICK q : q = Unregistering("ring") \o Registering("ring")
      OBVIOUS
    <3>2. Begin(q) /\ live' = live
      BY <1>7, <2>1, <3>1 DEF state_ringing_update
    <3>3. q \in Seq(Steps) /\ q # <<>> /\ WellFormed(q) /\ Out(q) = {} /\ Unst(q) = {} /\ q[1] = Step("del", "ring")
      BY <1>1, <3>1, UpdateFacts
    <3>4. q[1].tmr = "ring"
      BY <3>3 DEF Step
    <3>5. live' \subseteq Timers /\ live' \ Out(q) = live /\ Out(q) \subseteq live'
      BY <1>1, <3>2, <3>3
    <3>6. Unst(q) \subseteq Out(q) /\ Out(q) \subseteq Unst(q) \cup {"alive"}
      BY <3>3
    <3>. QED  BY <2>1, <3>2, <3>3, <3>4, <3>5, <3>6, BeginSInv
  <2>2. CASE "ring" \notin ptr
    BY <1>1, <1>3, <1>7, <2>2 DEF state_ringing_update
  <2>. QED  BY <2>1, <2>2
<1>8. CASE MainStep
  BY <1>8, MainFrame, AddSInv, DelSInv, CalcSInv, SetSInv, FreeSInv, StoreSInv
<1>9. ASSUME NEW s \in {"ALRM", "USR1"}, sig_handler(s) PROVE SInv'
  BY <1>9, HandlerSInv
<1>10. ASSUME NEW i \in Expired, Find(i) PROVE SInv'
  BY <1>10, FindSInv
<1>11. CASE Fire
  <2>1. cb(found)
    BY <1>11 DEF Fire
  <2>2. CASE found = "alive"
    <3>1. register(found, Without(timers, found)) /\ calc_next_expiration(timers') /\ live' = live /\ ptr' = ptr
      BY <2>1, <2>2 DEF cb
    <3>. QED  BY <1>11, <2>2, <3>1, AgainSInv
  <2>3. CASE found # "alive"
    <3>1. /\ timers' = Without(timers, found) /\ itimer' = itimer
          /\ live' = IF found = "cmd" /\ found \notin ptr THEN live ELSE live \ {found}
          /\ ptr' = ptr \ {found} /\ hist' = IF found \in ptr THEN hist ELSE hist \cup {"unstored"}
      BY <2>1, <2>3 DEF cb
    <3>. QED  BY <1>11, <2>3, <3>1, FreedSInv
  <2>. QED  BY <2>2, <2>3
<1>12. CASE Rearm
  BY <1>12, RearmSInv
<1>13. CASE UNCHANGED vars
  <2>1. /\ now' = now /\ itimer' = itimer /\ alarm' = alarm /\ timers' = timers /\ live' = live /\ ptr' = ptr
        /\ todo' = todo /\ diff' = diff /\ hpc' = hpc /\ hnow' = hnow /\ found' = found /\ outer' = outer
        /\ hist' = hist /\ uaf' = uaf
    BY <1>13 DEF vars
  <2>2. Out(todo') = Out(todo) /\ Unst(todo') = Unst(todo)
    BY <2>1
  <2>3. Types' /\ Lists' /\ WellFormed(todo)' /\ HandlerTime' /\ Frames'
    BY <2>1 DEF SInv, Types, Armable, WellFormed, Ends, Lists, Distinct, Exact, Ticks, HandlerTime, Frames
  <2>4. Owned' /\ Races' /\ Fresh'
    BY <2>1, <2>2 DEF SInv, Owned, Holds, Races, Fresh
  <2>5. Runs'
    BY <2>1 DEF SInv, Runs, Ready
  <2>. QED  BY <2>3, <2>4, <2>5 DEF SInv
<1>. QED  BY <1>2, <1>4, <1>5, <1>6, <1>7, <1>8, <1>9, <1>10, <1>11, <1>12, <1>13 DEF Next

(* The list, the pointers to its timers and what is left of main's operation   *)
(* agree at every step of the handler and of the program.                      *)
THEOREM TimersInductive == Spec => []SInv
BY InitSInv, NextSInv, PTL DEF Spec

(* Type correctness of the timer model: TypeOK holds in every reachable state. *)
THEOREM TimersTyped == Spec => []TypeOK
<1>1. SInv => TypeOK
  <2>. SUFFICES ASSUME SInv PROVE TypeOK
    OBVIOUS
  <2>1. now \in 0..MaxTime /\ (itimer = Off \/ (itimer \in Nat /\ itimer > now))
    BY TimerAssumption DEF SInv, Types, Armable
  <2>2. Registered \subseteq live
    BY RangeFacts DEF SInv, Owned, Holds
  <2>3. outer.pc \in {"off", "ALRM", "USR1"} \ ({hpc} \ {"off"})
    BY DEF SInv, Types, Outer, Signals, Frames
  <2>. QED  BY <2>1, <2>2, <2>3 DEF SInv, Types, TypeOK, Signals
<1>. QED  BY <1>1, TimersInductive, PTL

(* gsmd_timer_check_n_run calls no callback before its time: NotEarly, for     *)
(* every interval and every interleaving.                                      *)
THEOREM CallbacksNotEarly == Spec => NotEarly
<1>1. SInv => [\A i \in 1..Len(timers) :
                  (Fire /\ timers[i].tmr = found /\ ~(found = "alive" /\ "nested" \in hist))
                  => now + Interval[found].usec >= timers[i].due]_vars
  <2>. SUFFICES ASSUME SInv, NEW i \in 1..Len(timers), Fire, timers[i].tmr = found,
                       ~(found = "alive" /\ "nested" \in hist)
                PROVE  now + Interval[found].usec >= timers[i].due
    OBVIOUS
  <2>1. PICK k \in 1..Len(timers) : timers[k].tmr = found /\ now + Interval[found].usec >= timers[k].due
    BY FireFrame
  <2>2. i = k
    BY <2>1 DEF SInv, Lists, Distinct
  <2>. QED  BY <2>1, <2>2
<1>. QED  BY <1>1, TimersInductive, PTL DEF NotEarly

(* No pointer to a freed or unlinked timer is left, none is missing and no     *)
(* timer is on the list twice, for any interleaving of the program and of two  *)
(* nested handlers: NoStaleTimer.                                              *)
THEOREM NoStale == Spec => []NoStaleTimer
<1>1. SInv => NoStaleTimer
  <2>. SUFFICES ASSUME SInv PROVE NoStaleTimer
    OBVIOUS
  <2>1. (uaf => hist \cap {"raced", "nested", "unstored"} # {}) /\ ("unstored" \in hist => "slip" \in hist)
    BY DEF SInv, Races
  <2>2. ASSUME AtRest, ~uaf, "unstored" \notin hist
        PROVE  Registered = live /\ ptr = live \ {"alive"} /\ Len(timers) = Cardinality(live)
    <3>1. Out(todo) = {} /\ Unst(todo) = {}
      <4>1. todo = <<>> /\ Len(todo) = 0
        BY <2>2 DEF AtRest
      <4>. QED  BY <4>1 DEF Out, Unst
    <3>2. (\A t \in live : Holds(timers, t)) /\ ptr = live \ {"alive"}
      BY <2>2, <3>1 DEF SInv, Owned
    <3>3. Registered = live
      <4>1. ASSUME NEW t PROVE t \in Registered <=> t \in live
        BY <3>1, <3>2, RangeFacts DEF SInv, Owned, Holds
      <4>. QED  BY <4>1
    <3>. DEFINE f == [i \in 1..Len(timers) |-> timers[i].tmr]
    <3>4. \A i \in 1..Len(timers) : timers[i].tmr \in live
      BY DEF SInv, Owned
    <3>5. f \in Bijection(1..Len(timers), live)
      <4>1. f \in [1..Len(timers) -> live]
        BY <3>4
      <4>2. \A i, j \in 1..Len(timers) : f[i] = f[j] => i = j
        BY DEF SInv, Lists, Distinct
      <4>3. \A t \in live : \E i \in 1..Len(timers) : f[i] = t
        BY <3>2 DEF Holds
      <4>. HIDE DEF f
      <4>. QED  BY <4>1, <4>2, <4>3 DEF Bijection, Injection, Surjection, IsInjective
    <3>6. Len(timers) \in Nat
      BY LenProperties DEF SInv, Types
    <3>7. IsFiniteSet(1..Len(timers)) /\ Cardinality(1..Len(timers)) = Len(timers)
      BY <3>6, FS_Interval
    <3>8. ExistsBijection(1..Len(timers), live)
      BY <3>5 DEF ExistsBijection
    <3>9. Cardinality(live) = Len(timers)
      BY <3>7, <3>8, FS_Bijection
    <3>. QED  BY <3>2, <3>3, <3>9
  <2>. QED  BY <2>1, <2>2 DEF NoStaleTimer
<1>. QED  BY <1>1, TimersInductive, PTL

-----------------------------------------------------------------------------
(* As long as nothing happens that the timer code is not made for, the kernel's *)
(* timer is set for the first expiration whenever main is not between its       *)
(* change of the list and its setitimer.                                        *)

Normal == \A i \in 1..Len(timers) : timers[i].expires.usec < Sec
Future == alarm \/ \A i \in 1..Len(timers) : timers[i].due > now
Covered == alarm \/ \A i \in 1..Len(timers) : itimer # Off /\ itimer <= timers[i].due
Doing(do) == todo # <<>> /\ todo[1].do = do
NextExpiration == IF timers = <<>> THEN Tv(-1, 0) ELSE tv_sub(min(timers), gettimeofday)

PInv ==
  /\ Normal
  /\ hpc # "off" => hnow = gettimeofday
  /\ hpc = "off" => Future
  /\ hpc = "off" /\ ~Doing("calc") /\ ~Doing("set") => Covered
  /\ hpc = "off" /\ Doing("set") => diff = NextExpiration

Prompt == hist = {} => PInv

LEMMA PositiveSeconds ==
  ASSUME NEW d \in Difference, d.usec < Sec, Ticks(d) > 0 PROVE d.sec >= 0
<1>1. Sec \in Nat \ {0} /\ d.sec \in Int /\ d.usec \in Nat
  BY TimerAssumption DEF Difference
<1>2. ASSUME d.sec <= -1 PROVE FALSE
  <2>1. d.sec * Sec <= -Sec /\ d.sec * Sec \in Int
    BY <1>1, <1>2
  <2>. QED  BY <1>1, <2>1 DEF Ticks
<1>. QED  BY <1>1, <1>2

(* Set by calc_next_expiration, the kernel's timer goes off when the first of  *)
(* the timers is due.                                                          *)
LEMMA SetCovers ==
  ASSUME Armable, NEW list \in Seq(Entry), Distinct(list), list # <<>>,
         \A i \in 1..Len(list) : Exact(list[i]),
         \A i \in 1..Len(list) : list[i].expires.usec < Sec,
         \A i \in 1..Len(list) : list[i].due > now,
         setitimer(tv_sub(min(list), gettimeofday))
  PROVE  \A i \in 1..Len(list) : itimer' # Off /\ itimer' <= list[i].due
<1>. DEFINE d == tv_sub(min(list), gettimeofday)
<1>1. now \in Nat /\ Sec \in Nat
  BY TimerAssumption DEF Armable
<1>2. /\ d \in Difference /\ Ticks(d) = Ticks(min(list)) - now
      /\ min(list).usec < Sec => d.usec < Sec
      /\ min(list) \in Timeval
      /\ \E i \in 1..Len(list) : min(list) = list[i].expires
      /\ \A j \in 1..Len(list) : tv_later(list[j].expires, min(list))
  BY <1>1, NextFacts
<1>3. setitimer(d)
  OBVIOUS
<1>. HIDE DEF d
<1>4. PICK m \in 1..Len(list) : min(list) = list[m].expires
  BY <1>2
<1>5. list[m] \in Entry /\ list[m].due \in Nat
  <2>1. list[m] \in Entry
    BY ElementOfSeq
  <2>. QED  BY <2>1 DEF Entry
<1>6. min(list).usec < Sec /\ Ticks(min(list)) = list[m].due /\ list[m].due > now
  BY <1>4 DEF Exact
<1>7. Ticks(d) > 0 /\ Ticks(d) \in Int /\ d.usec < Sec
  BY <1>1, <1>2, <1>5, <1>6
<1>8. d.sec >= 0
  BY <1>2, <1>7, PositiveSeconds
<1>9. d.sec \in Int /\ d.usec \in Nat
  BY <1>2 DEF Difference
<1>10. itimer' = now + Ticks(d)
  BY <1>1, <1>3, <1>7, <1>8, <1>9 DEF setitimer
<1>11. itimer' = list[m].due
  BY <1>1, <1>2, <1>5, <1>6, <1>10
<1>12. ASSUME NEW j \in 1..Len(list) PROVE itimer' # Off /\ itimer' <= list[j].due
  <2>1. list[j] \in Entry
    BY ElementOfSeq
  <2>2. list[j].expires \in Timeval /\ list[j].expires.usec < Sec /\ list[j].due = Ticks(list[j].expires)
    BY <2>1 DEF Entry, Exact
  <2>3. Ticks(list[j].expires) >= Ticks(min(list))
    BY <1>2, <1>6, <2>2, LaterIff
  <2>. QED  BY <1>5, <1>6, <1>11, <2>2, <2>3 DEF Off
<1>. QED  BY <1>12

LEMMA InitPrompt == Init => Prompt
<1>. SUFFICES ASSUME Init PROVE PInv
  BY DEF Prompt
<1>1. Len(timers) = 0 /\ todo = <<>> /\ hpc = "off"
  BY DEF Init
<1>. QED  BY <1>1 DEF PInv, Normal, Future, Covered, Doing

LEMMA TickPrompt == ASSUME SInv, Prompt, Tick, hist' = {} PROVE PInv'
<1>1. /\ timers' = timers /\ todo' = todo /\ hpc' = hpc /\ now' = now + 1
      /\ hpc = "off" /\ todo = <<>> /\ hist = {}
  BY DEF Tick, program, main, handler
<1>2. hpc = "off" /\ PInv
  BY <1>1 DEF SInv, Types, Prompt
<1>3. now \in Nat /\ \A i \in 1..Len(timers) : timers[i].due \in Nat
  <2>1. \A i \in 1..Len(timers) : timers[i] \in Entry
    BY ElementOfSeq DEF SInv, Types
  <2>. QED  BY <2>1 DEF SInv, Types, Armable, Entry
<1>4. Covered
  BY <1>1, <1>2 DEF PInv, Doing
<1>5. Normal'
  BY <1>1, <1>2 DEF PInv, Normal
<1>6. CASE alarm \/ now + 1 = itimer
  <2>1. alarm'
    BY <1>6 DEF Tick
  <2>. QED  BY <1>1, <1>2, <1>5, <2>1 DEF PInv, Future, Covered, Doing
<1>7. CASE ~alarm /\ now + 1 # itimer
  <2>1. itimer' = itimer
    BY <1>7 DEF Tick
  <2>2. ASSUME NEW i \in 1..Len(timers) PROVE itimer # Off /\ itimer <= timers[i].due /\ timers[i].due > now + 1
    <3>1. itimer # Off /\ itimer <= timers[i].due
      BY <1>4, <1>7 DEF Covered
    <3>2. itimer \in Nat /\ itimer > now
      BY <3>1 DEF SInv, Types, Armable
    <3>. QED  BY <1>3, <1>7, <3>1, <3>2
  <2>. QED  BY <1>1, <1>2, <1>5, <2>1, <2>2 DEF PInv, Future, Covered, Doing
<1>. QED  BY <1>6, <1>7

LEMMA BeginPrompt ==
  ASSUME SInv, Prompt, NEW q, Begin(q), q[1].do \notin {"calc", "set"}, hist' = {}
  PROVE  PInv'
<1>1. /\ todo = <<>> /\ todo' = q /\ timers' = timers /\ hpc = "off" /\ hpc' = hpc /\ now' = now
      /\ itimer' = itimer /\ alarm' = alarm /\ hist = {}
  BY DEF Begin, handler, kernel
<1>2. Future /\ Covered /\ Normal
  BY <1>1 DEF Prompt, PInv, Doing
<1>3. Future' /\ Covered' /\ Normal'
  BY <1>1, <1>2 DEF Future, Covered, Normal
<1>. QED  BY <1>1, <1>3 DEF PInv, Doing

(* Before a step of main. *)
LEMMA MainPrompt ==
  ASSUME SInv, Prompt, MainStep, hist = {}
  PROVE  /\ Normal /\ Future
         /\ todo[1].do \in {"add", "del", "free", "store"} => Covered
         /\ todo[1].do = "set" => diff = NextExpiration
<1>1. PInv /\ hpc = "off" /\ todo # <<>>
  BY MainFrame DEF Prompt
<1>. QED  BY <1>1 DEF PInv, Doing

(* After a step of main that changes no list and sets no timer. *)
LEMMA MainSucc ==
  ASSUME SInv, MainStep
  PROVE  /\ todo[1].do \in {"add", "del"} => Doing("calc")'
         /\ todo[1].do = "calc" => Doing("set")'
         /\ todo[1].do # "calc" => ~Doing("set")'
         /\ Doing("calc")' => ~Doing("set")'
<1>1. todo # <<>> /\ todo \in Seq(Steps) /\ WellFormed(todo) /\ todo' = Tail(todo)
  BY DEF SInv, Types, MainStep
<1>2. /\ todo[1].do \in {"add", "del"} => todo' # <<>> /\ todo'[1].do = "calc"
      /\ todo[1].do = "calc" => todo' # <<>> /\ todo'[1].do = "set"
      /\ todo' # <<>> /\ todo'[1].do = "set" => todo[1].do = "calc"
  BY <1>1, TailFacts
<1>. QED  BY <1>2 DEF Doing

LEMMA AddPrompt == ASSUME SInv, Prompt, MainStep, todo[1].do = "add", Add(todo[1].tmr), hist' = {} PROVE PInv'
<1>. DEFINE t == todo[1].tmr
<1>1. t \in Timers /\ register(t, timers) /\ hist = {}
  BY MainFrame DEF Steps, Add, register
<1>2. Normal /\ Future /\ Doing("calc")' /\ ~Doing("set")'
  BY <1>1, MainPrompt, MainSucc
<1>3. timers \in Seq(Entry) /\ Distinct(timers) /\ now \in Nat /\ \A i \in 1..Len(timers) : Exact(timers[i])
  BY DEF SInv, Types, Lists, Armable
<1>4. ~Holds(timers, t)
  BY MainOut DEF SInv, Owned, Holds
<1>. HIDE DEF t
<1>5. PICK e \in Entry :
         /\ e.due > now /\ e.expires.usec < Sec
         /\ \A i \in 1..Len(timers') : timers'[i] = e \/ \E k \in 1..Len(timers) : timers'[i] = timers[k]
  BY <1>1, <1>3, <1>4, RegisterFacts
<1>6. now' = now /\ alarm' = alarm /\ hpc' = "off"
  BY MainFrame
<1>7. Normal' /\ Future'
  BY <1>2, <1>5, <1>6 DEF Normal, Future
<1>. QED  BY <1>2, <1>6, <1>7 DEF PInv

LEMMA DelPrompt == ASSUME SInv, Prompt, MainStep, todo[1].do = "del", Del(todo[1].tmr), hist' = {} PROVE PInv'
<1>1. timers' = Without(timers, todo[1].tmr) /\ hist = {}
  BY DEF Del
<1>2. Normal /\ Future /\ Doing("calc")' /\ ~Doing("set")'
  BY <1>1, MainPrompt, MainSucc
<1>3. \A i \in 1..Len(timers') : \E k \in 1..Len(timers) : timers'[i] = timers[k]
  BY <1>1, DropFacts
<1>4. now' = now /\ alarm' = alarm /\ hpc' = "off"
  BY MainFrame
<1>5. Normal' /\ Future'
  BY <1>2, <1>3, <1>4 DEF Normal, Future
<1>. QED  BY <1>2, <1>4, <1>5 DEF PInv

LEMMA CalcPrompt == ASSUME SInv, Prompt, MainStep, todo[1].do = "calc", Calc, hist' = {} PROVE PInv'
<1>1. timers' = timers /\ hist = {} /\ now' = now /\ alarm' = alarm /\ hpc' = "off"
  BY MainFrame DEF Calc, program
<1>2. Normal /\ Future /\ Doing("set")'
  BY <1>1, MainPrompt, MainSucc
<1>3. Normal' /\ Future'
  BY <1>1, <1>2 DEF Normal, Future
<1>4. diff' = NextExpiration
  BY DEF Calc, NextExpiration
<1>5. NextExpiration' = NextExpiration
  BY <1>1 DEF NextExpiration, gettimeofday, min, tv_sub, tv_later, Tv
<1>. QED  BY <1>1, <1>2, <1>3, <1>4, <1>5 DEF PInv

LEMMA SetPrompt == ASSUME SInv, Prompt, MainStep, todo[1].do = "set", Set, hist' = {} PROVE PInv'
<1>1. timers' = timers /\ hist = {} /\ now' = now /\ alarm' = alarm /\ hpc' = "off"
  BY MainFrame DEF Set, program
<1>2. Normal /\ Future /\ ~Doing("set")' /\ diff = NextExpiration
  BY <1>1, MainPrompt, MainSucc
<1>3. Normal' /\ Future'
  BY <1>1, <1>2 DEF Normal, Future
<1>4. Covered'
  <2>1. CASE alarm \/ timers = <<>>
    BY <1>1, <2>1 DEF Covered
  <2>2. CASE ~alarm /\ timers # <<>>
    <3>1. setitimer(tv_sub(min(timers), gettimeofday))
      BY <1>2, <2>2 DEF Set, NextExpiration
    <3>2. /\ Armable /\ timers \in Seq(Entry) /\ Distinct(timers)
          /\ \A i \in 1..Len(timers) : Exact(timers[i])
      BY DEF SInv, Types, Lists
    <3>3. \A i \in 1..Len(timers) : timers[i].expires.usec < Sec
      BY <1>2 DEF Normal
    <3>4. \A i \in 1..Len(timers) : timers[i].due > now
      BY <1>2, <2>2 DEF Future
    <3>5. \A i \in 1..Len(timers) : itimer' # Off /\ itimer' <= timers[i].due
      BY <2>2, <3>1, <3>2, <3>3, <3>4, SetCovers
    <3>. QED  BY <1>1, <3>5 DEF Covered
  <2>. QED  BY <2>1, <2>2
<1>. QED  BY <1>1, <1>2, <1>3, <1>4 DEF PInv

LEMMA FreePrompt == ASSUME SInv, Prompt, MainStep, todo[1].do = "free", Free(todo[1].tmr), hist' = {} PROVE PInv'
<1>1. timers' = timers /\ itimer' = itimer /\ hist = {} /\ now' = now /\ alarm' = alarm /\ hpc' = "off"
  BY MainFrame DEF Free
<1>2. Normal /\ Future /\ Covered /\ ~Doing("set")'
  BY <1>1, MainPrompt, MainSucc
<1>3. Normal' /\ Future' /\ Covered'
  BY <1>1, <1>2 DEF Normal, Future, Covered
<1>. QED  BY <1>1, <1>2, <1>3 DEF PInv

LEMMA StorePrompt == ASSUME SInv, Prompt, MainStep, todo[1].do = "store", Store(todo[1].tmr), hist' = {} PROVE PInv'
<1>1. timers' = timers /\ itimer' = itimer /\ hist = {} /\ now' = now /\ alarm' = alarm /\ hpc' = "off"
  BY MainFrame DEF Store
<1>2. Normal /\ Future /\ Covered /\ ~Doing("set")'
  BY <1>1, MainPrompt, MainSucc
<1>3. Normal' /\ Future' /\ Covered'
  BY <1>1, <1>2 DEF Normal, Future, Covered
<1>. QED  BY <1>1, <1>2, <1>3 DEF PInv

LEMMA HandlerPrompt ==
  ASSUME SInv, Prompt, NEW signal \in {"ALRM", "USR1"}, sig_handler(signal), hist' = {} PROVE PInv'
<1>1. timers' = timers /\ now' = now /\ hpc' # "off" /\ hnow' = gettimeofday /\ hist = {}
  BY DEF sig_handler, program
<1>2. Normal'
  BY <1>1 DEF Prompt, PInv, Normal
<1>3. gettimeofday' = gettimeofday
  BY <1>1 DEF gettimeofday
<1>. QED  BY <1>1, <1>2, <1>3 DEF PInv

LEMMA FindPrompt == ASSUME SInv, Prompt, NEW i, Find(i), hist' = {} PROVE PInv'
<1>1. hpc # "off" /\ hpc' = hpc /\ hnow' = hnow /\ now' = now /\ timers' = timers /\ hist = {}
  BY DEF Find, kernel, program
<1>2. Normal' /\ hnow' = gettimeofday'
  BY <1>1 DEF Prompt, PInv, Normal, gettimeofday
<1>. QED  BY <1>1, <1>2 DEF PInv

LEMMA FirePrompt == ASSUME SInv, Prompt, Fire, hist' = {} PROVE PInv'
<1>. DEFINE t == found
<1>1. hpc # "off" /\ hpc' = hpc /\ hnow' = hnow /\ now' = now
  BY FireFrame
<1>2. cb(t)
  BY DEF Fire
<1>3. hist = {}
  BY <1>2 DEF cb, register
<1>4. Normal /\ hnow = gettimeofday
  BY <1>1, <1>3 DEF Prompt, PInv
<1>5. Normal'
  <2>1. CASE timers' = Without(timers, t)
    <3>1. \A j \in 1..Len(timers') : \E k \in 1..Len(timers) : timers'[j] = timers[k]
      BY <2>1, DropFacts
    <3>. QED  BY <1>4, <3>1 DEF Normal
  <2>2. CASE register(t, Without(timers, t))
    <3>1. timers \in Seq(Entry) /\ Distinct(timers) /\ now \in Nat /\ t \in Timers
      BY FireFrame DEF SInv, Types, Lists, Armable, Entry
    <3>2. PICK w : w = Without(timers, t)
      OBVIOUS
    <3>3. /\ w \in Seq(Entry) /\ Distinct(w)
          /\ \A j \in 1..Len(w) : w[j].tmr # t /\ \E k \in 1..Len(timers) : w[j] = timers[k]
      BY <3>1, <3>2, WithoutFacts
    <3>4. register(t, w) /\ ~Holds(w, t) /\ \A j \in 1..Len(w) : Exact(w[j])
      BY <2>2, <3>2, <3>3 DEF Holds, SInv, Lists
    <3>. HIDE DEF t
    <3>5. PICK e \in Entry :
             /\ e.expires.usec < Sec
             /\ \A j \in 1..Len(timers') : timers'[j] = e \/ \E k \in 1..Len(w) : timers'[j] = w[k]
      BY <3>1, <3>3, <3>4, RegisterFacts
    <3>6. \A k \in 1..Len(w) : \E m \in 1..Len(timers) : w[k] = timers[m]
      BY <3>3
    <3>7. ASSUME NEW j \in 1..Len(timers') PROVE timers'[j] = e \/ \E m \in 1..Len(timers) : timers'[j] = timers[m]
      BY <3>5, <3>6
    <3>8. \A m \in 1..Len(timers) : timers[m].expires.usec < Sec
      BY <1>4 DEF Normal
    <3>9. \A j \in 1..Len(timers') : timers'[j].expires.usec < Sec
      BY <3>5, <3>7, <3>8
    <3>. QED  BY <3>9 DEF Normal
  <2>3. timers' = Without(timers, t) \/ register(t, Without(timers, t))
    <3>. HIDE DEF t
    <3>. QED  BY <1>2 DEF cb
  <2>. QED  BY <2>1, <2>2, <2>3
<1>6. hnow' = gettimeofday'
  BY <1>1, <1>4 DEF gettimeofday
<1>. QED  BY <1>1, <1>5, <1>6 DEF PInv

LEMMA RearmPrompt == ASSUME SInv, Prompt, Rearm, hist' = {} PROVE PInv'
<1>1. hpc # "off" /\ timers' = timers /\ now' = now /\ alarm' = alarm /\ hist = {} /\ todo' = todo
  BY DEF Rearm, program, main
<1>0. hpc' = "off"
  BY <1>1 DEF Rearm, SInv, Frames
<1>2. Normal /\ hnow = gettimeofday
  BY <1>1 DEF Prompt, PInv
<1>3. /\ Armable /\ timers \in Seq(Entry) /\ Distinct(timers)
      /\ \A i \in 1..Len(timers) : Exact(timers[i])
  BY DEF SInv, Types, Lists
<1>4. now \in Nat
  BY <1>3 DEF Armable
<1>5. ASSUME NEW i \in 1..Len(timers) PROVE timers[i].due > now
  <2>1. timers[i] \in Entry
    BY <1>3, ElementOfSeq
  <2>2. timers[i].expires \in Timeval /\ timers[i].expires.usec < Sec /\ timers[i].due = Ticks(timers[i].expires)
        /\ timers[i].due \in Nat
    BY <1>2, <1>3, <2>1 DEF Entry, Exact, Normal
  <2>3. ~tv_later(hnow, timers[i].expires)
    BY DEF Rearm, Expired
  <2>4. gettimeofday \in Timeval /\ gettimeofday.usec < Sec /\ Ticks(gettimeofday) = now
    BY <1>4, GettimeofdayFacts
  <2>5. ~(now >= timers[i].due)
    BY <1>2, <2>2, <2>3, <2>4, LaterIff
  <2>. QED  BY <1>4, <2>2, <2>5
<1>6. Normal' /\ Future'
  BY <1>1, <1>2, <1>5 DEF Normal, Future
<1>7. Covered'
  <2>1. CASE timers = <<>>
    BY <1>1, <2>1 DEF Covered
  <2>2. CASE timers # <<>>
    <3>1. setitimer(tv_sub(min(timers), gettimeofday))
      BY <2>2 DEF Rearm, calc_next_expiration
    <3>2. \A i \in 1..Len(timers) : timers[i].expires.usec < Sec
      BY <1>2 DEF Normal
    <3>3. \A i \in 1..Len(timers) : itimer' # Off /\ itimer' <= timers[i].due
      BY <1>3, <1>5, <2>2, <3>1, <3>2, SetCovers
    <3>. QED  BY <1>1, <3>3 DEF Covered
  <2>. QED  BY <2>1, <2>2
<1>8. ~Doing("set")'
  BY <1>1 DEF SInv, Races, Doing
<1>. QED  BY <1>0, <1>6, <1>7, <1>8 DEF PInv

LEMMA NextPrompt == SInv /\ Prompt /\ [Next]_vars => Prompt'
<1>. SUFFICES ASSUME SInv, Prompt, [Next]_vars, hist' = {} PROVE PInv'
  BY DEF Prompt
<1>1. {"alive", "cmd", "ring"} \subseteq Timers
  BY DEF Timers
<1>2. CASE Tick
  BY <1>2, TickPrompt
<1>3. ASSUME NEW t \in Timers, t # "alive", gsmd_timer_create(t) PROVE PInv'
  <2>1. PICK q : q = Append(Registering(t), Step("store", t))
    OBVIOUS
  <2>2. Appended(q, Registering(t), Step("store", t)) /\ Begin(q)
    BY <1>3, <2>1 DEF gsmd_timer_create, Appended
  <2>3. q[1] = Step("add", t)
    BY <1>3, <2>2, CreateFacts
  <2>4. q[1].do \notin {"calc", "set"}
    BY <2>3 DEF Step
  <2>. QED  BY <2>2, <2>4, BeginPrompt
<1>4. CASE gsmd_alive_start \/ discard_timer
  <2>1. CASE gsmd_alive_start
    <3>1. PICK q : q = Registering("alive")
      OBVIOUS
    <3>2. q[1] = Step("add", "alive")
      BY <1>1, <3>1, RegisteringFacts
    <3>3. q[1].do \notin {"calc", "set"}
      BY <3>2 DEF Step
    <3>4. Begin(q)
      BY <2>1, <3>1 DEF gsmd_alive_start
    <3>. QED  BY <3>3, <3>4, BeginPrompt
  <2>2. CASE discard_timer
    BY <1>1, <1>3, <2>2 DEF discard_timer
  <2>. QED  BY <1>4, <2>1, <2>2
<1>5. CASE atcmd_done
  <2>1. PICK q : q = Append(Unregistering("cmd"), Step("free", "cmd"))
    OBVIOUS
  <2>2. Appended(q, Unregistering("cmd"), Step("free", "cmd")) /\ Begin(q)
    BY <1>5, <2>1 DEF atcmd_done, Appended
  <2>3. q[1] = Step("del", "cmd")
    BY <1>1, <2>2, DoneFacts
  <2>4. q[1].do \notin {"calc", "set"}
    BY <2>3 DEF Step
  <2>. QED  BY <2>2, <2>4, BeginPrompt
<1>6. CASE state_ringing_update
  <2>1. CASE "ring" \in ptr
    <3>1. PICK q : q = Unregistering("ring") \o Registering("ring")
      OBVIOUS
    <3>2. Begin(q)
      BY <1>6, <2>1, <3>1 DEF state_ringing_update
    <3>3. q[1] = Step("del", "ring")
      BY <1>1, <3>1, UpdateFacts
    <3>4. q[1].do \notin {"calc", "set"}
      BY <3>3 DEF Step
    <3>. QED  BY <3>2, <3>4, BeginPrompt
  <2>2. CASE "ring" \notin ptr
    BY <1>1, <1>3, <1>6, <2>2 DEF state_ringing_update
  <2>. QED  BY <2>1, <2>2
<1>7. CASE MainStep
  BY <1>7, MainFrame, AddPrompt, DelPrompt, CalcPrompt, SetPrompt, FreePrompt, StorePrompt
<1>8. ASSUME NEW s \in {"ALRM", "USR1"}, sig_handler(s) PROVE PInv'
  BY <1>8, HandlerPrompt
<1>9. ASSUME NEW i \in Expired, Find(i) PROVE PInv'
  BY <1>9, FindPrompt
<1>12. CASE Fire
  BY <1>12, FirePrompt
<1>10. CASE Rearm
  BY <1>10, RearmPrompt
<1>11. CASE UNCHANGED vars
  <2>1. PInv
    BY <1>11 DEF vars, Prompt
  <2>. QED  BY <1>11, <2>1 DEF vars, PInv, Normal, Future, Covered, Doing, NextExpiration, gettimeofday, min, tv_sub, tv_later, Tv
<1>. QED  BY <1>2, <1>4, <1>5, <1>6, <1>7, <1>8, <1>9, <1>10, <1>11, <1>12 DEF Next

(* No timer is forgotten: whenever the program is back in its select loop with *)
(* a timer registered, SIGALRM is pending or the kernel's timer goes off no    *)
(* later than the first timer is due (Armed), unless time slipped inside the   *)
(* timer code, the handler raced calc_next_expiration or came inside another   *)
(* handler, or a registered expiration was not normal.                         *)
THEOREM TimersArmed == Spec => []Armed
<1>1. SInv /\ Prompt => Armed
  <2>. SUFFICES ASSUME SInv, Prompt, AtRest, timers # <<>>, hist = {}, ~alarm
                PROVE  itimer # Off /\ \A x \in Range(timers) : itimer <= x.due
    BY DEF Armed
  <2>1. \A i \in 1..Len(timers) : itimer # Off /\ itimer <= timers[i].due
    BY DEF AtRest, Prompt, PInv, Covered, Doing
  <2>2. 1 \in 1..Len(timers)
    BY EmptySeq, LenProperties DEF SInv, Types
  <2>. QED  BY <2>1, <2>2, RangeFacts
<1>2. Spec => []Prompt
  BY InitPrompt, NextPrompt, TimersInductive, PTL DEF Spec
<1>. QED  BY <1>1, <1>2, TimersInductive, PTL

=============================================================================
