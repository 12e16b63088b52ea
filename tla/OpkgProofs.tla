----------------------------- MODULE OpkgProofs -----------------------------
(***************************************************************************)
(* Proofs about the package manager (Opkg), for every set of packages,     *)
(* every number of commands and every sequence of failures and crashes.    *)
(***************************************************************************)
EXTENDS Opkg, SequenceTheorems, WellFoundedInduction, TLAPS

-----------------------------------------------------------------------------
(* Least and greatest numbers of a set, from the well-foundedness of <. *)

LEMMA Least ==
  ASSUME NEW T, T \subseteq Nat, T # {}
  PROVE  \E x \in T : \A y \in T : x <= y
<1>1. PICK R : R = {ss \in Nat \X Nat : ss[1] < ss[2]}
  OBVIOUS
<1>2. IsWellFoundedOn(R, Nat)
  BY <1>1, NatLessThanWellFounded, Zenon DEF OpToRel
<1>3. PICK x \in T : \A y \in T : ~(<<y, x>> \in R)
  BY <1>2, WFMin
<1>4. ASSUME NEW y \in T PROVE x <= y
  <2>1. x \in Nat /\ y \in Nat /\ <<y, x>> \notin R
    BY <1>3
  <2>2. ~(y < x)
    BY <1>1, <2>1
  <2>. QED  BY <2>1, <2>2
<1>. QED  BY <1>4

LEMMA Greatest ==
  ASSUME NEW n \in Nat, NEW T, T \subseteq 1..n, T # {}
  PROVE  \E x \in T : \A y \in T : y <= x
<1>1. PICK D : D = {n - t : t \in T}
  OBVIOUS
<1>2. D \subseteq Nat /\ D # {}
  <2>1. \A t \in T : n - t \in Nat
    OBVIOUS
  <2>. QED  BY <1>1, <2>1
<1>3. PICK d \in D : \A e \in D : d <= e
  BY <1>2, Least
<1>4. PICK x \in T : d = n - x
  BY <1>1
<1>5. ASSUME NEW y \in T PROVE y <= x
  <2>1. n - y \in D /\ x \in Nat /\ y \in Nat
    BY <1>1
  <2>2. d <= n - y
    BY <1>3, <2>1
  <2>. QED  BY <1>4, <2>1, <2>2
<1>. QED  BY <1>5

-----------------------------------------------------------------------------
(* The constants. *)

LEMMA Constants ==
  /\ FirstFeed \subseteq Pkgs /\ NextFeed \subseteq Pkgs
  /\ \A p \in Pkgs : /\ Conf[p] \subseteq Files[p] /\ Deps[p] \subseteq Names /\ Version[p] \in Nat
                     /\ Name[p] \in Names /\ Files[p] \subseteq File /\ Conf[p] \subseteq ConfFile
  /\ \A p, q \in Pkgs : Name[q] \in Deps[p] => Deps[q] = {}
  /\ ConfFile \subseteq File /\ None \notin Pkgs /\ None \notin Edits /\ Edits \cap Pkgs = {}
  /\ MaxCmds \in Nat /\ MaxFaults \in Nat
<1>1. /\ FirstFeed \subseteq Pkgs /\ NextFeed \subseteq Pkgs
      /\ \A p \in Pkgs : Conf[p] \subseteq Files[p] /\ Deps[p] \subseteq Names /\ Version[p] \in Nat
      /\ \A p, q \in Pkgs : Name[q] \in Deps[p] => Deps[q] = {}
      /\ None \notin Pkgs /\ None \notin Edits /\ Edits \cap Pkgs = {}
      /\ MaxCmds \in Nat /\ MaxFaults \in Nat
  BY OpkgAssumption
<1>2. \A p \in Pkgs : Name[p] \in Names /\ Files[p] \subseteq File /\ Conf[p] \subseteq ConfFile
  BY DEF Names, File, ConfFile
<1>3. ConfFile \subseteq File
  BY <1>1 DEF ConfFile, File
<1>. QED  BY <1>1, <1>2, <1>3

(* The md5sum of a package's or a user's file is neither "" nor missing, and   *)
(* what one package calls a conffile is one in each package that has the file. *)
LEMMA ConfConstants ==
  /\ \A p \in Pkgs : p # "" /\ p # "null" /\ p # None /\ p \notin Edits
  /\ \A e \in Edits : e # "" /\ e # "null" /\ e # None
  /\ \A p \in Pkgs : ConfFile \cap Files[p] \subseteq Conf[p]
<1>1. {None, "", "null"} \cap (Pkgs \cup Edits) = {} /\ Edits \cap Pkgs = {}
      /\ \A p, q \in Pkgs : Conf[q] \cap Files[p] \subseteq Conf[p]
  BY OpkgAssumption
<1>2. \A p \in Pkgs : ConfFile \cap Files[p] \subseteq Conf[p]
  BY <1>1 DEF ConfFile
<1>3. \A x \in Pkgs \cup Edits : x # "" /\ x # "null" /\ x # None
  BY <1>1
<1>. QED  BY <1>1, <1>2, <1>3

LEMMA OrderFacts ==
  /\ Len(Order) \in Nat /\ \A i \in 1..Len(Order) : Order[i] \in Pkgs
  /\ \A p \in Pkgs : \E i \in 1..Len(Order) : Order[i] = p
<1>1. Order \in Seq(Pkgs) /\ Range(Order) = Pkgs
  BY OpkgAssumption
<1>2. Len(Order) \in Nat /\ DOMAIN Order = 1..Len(Order)
  BY <1>1, LenProperties
<1>3. \A i \in 1..Len(Order) : Order[i] \in Pkgs
  BY <1>1, ElementOfSeq
<1>4. \A p \in Pkgs : \E i \in 1..Len(Order) : Order[i] = p
  BY <1>1, <1>2 DEF Range
<1>. QED  BY <1>2, <1>3, <1>4

(* Every set of packages has one of the highest version: there are finitely    *)
(* many, and the least number of packages for which it failed would not fail.  *)
LEMMA Newest ==
  ASSUME NEW K, K \subseteq Pkgs, K # {}
  PROVE  \E p \in K : \A q \in K : Version[q] <= Version[p]
<1>. DEFINE Part(k) == {p \in K : \E i \in 1..k : Order[i] = p}
            Good(k) == Part(k) = {} \/ \E p \in Part(k) : \A q \in Part(k) : Version[q] <= Version[p]
            Bad == {k \in 0..Len(Order) : ~Good(k)}
<1>1. Len(Order) \in Nat /\ \A p \in K : \E i \in 1..Len(Order) : Order[i] = p
  BY OrderFacts
<1>2. Bad = {}
  <2>. SUFFICES ASSUME Bad # {} PROVE FALSE
    OBVIOUS
  <2>1. Bad \subseteq Nat
    BY <1>1
  <2>2. PICK k \in Bad : \A j \in Bad : k <= j
    <3>. HIDE DEF Bad
    <3>. QED  BY <2>1, Least
  <2>3. k \in 0..Len(Order) /\ ~Good(k) /\ k \in Nat
    BY <1>1
  <2>4. k # 0
    <3>1. Part(0) = {}
      OBVIOUS
    <3>. QED  BY <2>3, <3>1
  <2>5. Good(k - 1)
    <3>1. k - 1 \in 0..Len(Order) /\ ~(k <= k - 1)
      BY <1>1, <2>3, <2>4
    <3>. QED  BY <2>2, <3>1
  <2>6. PICK o : o = Order[k]
    OBVIOUS
  <2>7. ASSUME NEW p \in K PROVE p \in Part(k) <=> p \in Part(k - 1) \/ p = o
    <3>1. 1..k = 1..(k - 1) \cup {k}
      BY <2>3, <2>4
    <3>. QED  BY <2>6, <3>1
  <2>8. \A p \in K : Version[p] \in Nat
    BY Constants
  <2>9. Good(k)
    <3>1. Part(k - 1) \subseteq K /\ Part(k) \subseteq K
      OBVIOUS
    <3>. HIDE DEF Part
    <3>2. CASE o \notin K
      <4>1. Part(k) = Part(k - 1)
        BY <2>7, <3>1, <3>2
      <4>. QED  BY <2>5, <4>1
    <3>3. CASE o \in K /\ Part(k - 1) = {}
      <4>1. Part(k) = {o}
        BY <2>7, <3>1, <3>3
      <4>. QED  BY <2>8, <3>3, <4>1
    <3>4. CASE o \in K /\ \E p \in Part(k - 1) : \A q \in Part(k - 1) : Version[q] <= Version[p]
      <4>1. PICK p \in Part(k - 1) : \A q \in Part(k - 1) : Version[q] <= Version[p]
        BY <3>4
      <4>2. p \in Part(k) /\ o \in Part(k) /\ Version[p] \in Nat /\ Version[o] \in Nat
        BY <2>7, <2>8, <3>1, <3>4
      <4>3. CASE Version[o] <= Version[p]
        <5>1. \A q \in Part(k) : Version[q] <= Version[p]
          BY <2>7, <3>1, <4>1, <4>3
        <5>. QED  BY <4>2, <5>1
      <4>4. CASE ~(Version[o] <= Version[p])
        <5>1. ASSUME NEW q \in Part(k) PROVE Version[q] <= Version[o]
          <6>1. q = o \/ q \in Part(k - 1)
            BY <2>7, <3>1
          <6>2. Version[q] \in Nat
            BY <2>8, <3>1
          <6>. QED  BY <4>1, <4>2, <4>4, <6>1, <6>2
        <5>. QED  BY <4>2, <5>1
      <4>. QED  BY <4>3, <4>4
    <3>. QED  BY <2>5, <3>2, <3>3, <3>4
  <2>. QED  BY <2>3, <2>9
<1>3. Good(Len(Order))
  BY <1>1, <1>2
<1>4. Part(Len(Order)) = K
  BY <1>1
<1>. QED  BY <1>3, <1>4

-----------------------------------------------------------------------------
(* The stack.  The definitions keep \o out of the provers' sight. *)

Put(r, s, x) == r = <<x>> \o Tail(s)
Push(r, s, x) == r = <<x>> \o s

LEMMA OneFacts == ASSUME NEW S, NEW x \in S PROVE <<x>> \in Seq(S) /\ Len(<<x>>) = 1 /\ <<x>>[1] = x
OBVIOUS

LEMMA NonEmpty ==
  ASSUME NEW S, NEW s \in Seq(S)
  PROVE  /\ Len(s) \in Nat /\ (s = <<>> <=> Len(s) = 0)
         /\ s # <<>> => 1 \in 1..Len(s) /\ Len(s) >= 1 /\ Head(s) = s[1] /\ s[1] \in S
<1>1. Len(s) \in Nat
  BY LenProperties
<1>2. s = <<>> <=> Len(s) = 0
  BY EmptySeq
<1>3. ASSUME s # <<>> PROVE 1 \in 1..Len(s) /\ Len(s) >= 1 /\ Head(s) = s[1] /\ s[1] \in S
  <2>1. 1 \in 1..Len(s) /\ Len(s) >= 1
    BY <1>1, <1>2, <1>3
  <2>2. Head(s) = s[1]
    BY <1>3
  <2>. QED  BY <2>1, <2>2, ElementOfSeq
<1>. QED  BY <1>1, <1>2, <1>3

LEMMA TailFacts ==
  ASSUME NEW S, NEW s \in Seq(S), s # <<>>, NEW r, r = Tail(s)
  PROVE  /\ r \in Seq(S) /\ Len(s) \in Nat /\ Len(r) = Len(s) - 1 /\ Len(r) \in Nat
         /\ \A i \in 1..Len(r) : r[i] = s[i + 1]
<1>1. r \in Seq(S) /\ Len(r) = Len(s) - 1 /\ \A i \in 1..Len(r) : r[i] = s[i + 1]
  BY HeadTailProperties
<1>2. Len(s) \in Nat /\ Len(r) \in Nat
  BY <1>1, LenProperties
<1>. QED  BY <1>1, <1>2

LEMMA PushFacts ==
  ASSUME NEW S, NEW s \in Seq(S), NEW x \in S, NEW r, Push(r, s, x)
  PROVE  /\ r \in Seq(S) /\ Len(s) \in Nat /\ Len(r) = Len(s) + 1 /\ r[1] = x /\ r # <<>>
         /\ \A i \in 1..Len(s) : r[i + 1] = s[i]
<1>1. PICK o : o = <<x>>
  OBVIOUS
<1>2. o \in Seq(S) /\ Len(o) = 1 /\ o[1] = x
  BY <1>1, OneFacts
<1>3. Len(s) \in Nat
  BY LenProperties
<1>4. /\ r \in Seq(S) /\ Len(r) = Len(o) + Len(s)
      /\ \A i \in 1..Len(o) + Len(s) : r[i] = IF i <= Len(o) THEN o[i] ELSE s[i - Len(o)]
  BY <1>1, <1>2, ConcatProperties DEF Push
<1>5. Len(r) = Len(s) + 1 /\ \A i \in 1..(1 + Len(s)) : r[i] = IF i <= 1 THEN o[i] ELSE s[i - 1]
  BY <1>2, <1>3, <1>4
<1>6. r[1] = x
  BY <1>2, <1>3, <1>5
<1>7. ASSUME NEW i \in 1..Len(s) PROVE r[i + 1] = s[i]
  <2>1. i + 1 \in 1..(1 + Len(s)) /\ ~(i + 1 <= 1) /\ (i + 1) - 1 = i
    BY <1>3
  <2>. QED  BY <1>5, <2>1
<1>8. r # <<>>
  BY <1>3, <1>4, <1>5, NonEmpty
<1>. QED  BY <1>3, <1>4, <1>5, <1>6, <1>7, <1>8

LEMMA PutFacts ==
  ASSUME NEW S, NEW s \in Seq(S), s # <<>>, NEW x \in S, NEW r, Put(r, s, x)
  PROVE  /\ r \in Seq(S) /\ Len(s) \in Nat /\ Len(r) = Len(s) /\ r[1] = x /\ r # <<>>
         /\ \A i \in 2..Len(s) : r[i] = s[i]
<1>1. PICK t : t = Tail(s)
  OBVIOUS
<1>2. /\ t \in Seq(S) /\ Len(s) \in Nat /\ Len(t) = Len(s) - 1 /\ Len(t) \in Nat
      /\ \A i \in 1..Len(t) : t[i] = s[i + 1]
  BY <1>1, TailFacts
<1>3. Push(r, t, x)
  BY <1>1 DEF Put, Push
<1>4. /\ r \in Seq(S) /\ Len(r) = Len(t) + 1 /\ r[1] = x /\ r # <<>>
      /\ \A i \in 1..Len(t) : r[i + 1] = t[i]
  BY <1>2, <1>3, PushFacts
<1>5. ASSUME NEW i \in 2..Len(s) PROVE r[i] = s[i]
  <2>1. i - 1 \in 1..Len(t) /\ (i - 1) + 1 = i
    BY <1>2
  <2>. QED  BY <1>2, <1>4, <2>1
<1>6. Len(r) = Len(s)
  BY <1>2, <1>4
<1>. QED  BY <1>2, <1>4, <1>5, <1>6

-----------------------------------------------------------------------------
(* Types.  A call for a dependency is nested in the one that needs it, which   *)
(* waits in satisfy_dependencies_for; the files of a package that has been     *)
(* prepared have an owner.                                                     *)

InstallPcs == {"prepare", "deps", "preinst", "backup", "clashes", "erase", "unlist", "extract", "list",
               "resolve", "finish"}
RemovePcs == {"rm_files", "rm_list", "rm_done"}
CallRecord == [pkg : Pkgs, old : Pkgs \cup {None}, pc : InstallPcs \cup RemovePcs, marks : SUBSET Mishaps]
Call == {x \in CallRecord : x.pkg # x.old}

SumValue == Content \cup {"", "null"}
SumMap == UNION {[D -> SumValue] : D \in SUBSET ConfFile}
State == [Pkgs -> {"not", "unpacked", "installed"}]

DiskTypes ==
  /\ files \in [File -> Content] /\ backup \in [File -> Content] /\ list \in [Names -> SUBSET File]
  /\ edits \in [ConfFile -> Edits \cup {None}]
OwnerTypes ==
  /\ feed \in {FirstFeed, NextFeed} /\ owner \in [File -> Pkgs \cup {None}]
  /\ obs \subseteq File /\ changed \subseteq Pkgs /\ dirty \in BOOLEAN
CallTypes ==
  /\ pc \in {"idle", "pkg", "configure", "status", "lists"}
  /\ stack \in Seq(Call) /\ Len(stack) <= 2 /\ (pc = "pkg" <=> stack # <<>>)
HistTypes ==
  /\ cmds \in 0..MaxCmds /\ faults \in 0..MaxFaults
  /\ touched \subseteq Names /\ abandoned \subseteq Names /\ torn \subseteq ConfFile
  /\ spoiled \subseteq Names \X Mishaps /\ litter \subseteq File /\ tried \in Seq(Pkgs)

Nested ==
  Len(stack) = 2 => /\ stack[2].pc = "deps" /\ stack[1].pc \in InstallPcs
                    /\ Name[stack[1].pkg] \in Deps[stack[2].pkg]
Prepared ==
  \A i \in 1..Len(stack) : stack[i].pc \in InstallPcs \ {"prepare"} =>
     \A f \in Files[stack[i].pkg] : owner[f] \in Pkgs

Types == DiskTypes /\ OwnerTypes /\ CallTypes /\ HistTypes /\ mem \in Sums /\ db \in Sums
         /\ Nested /\ Prepared

LEMMA SumsFacts ==
  ASSUME NEW m \in Sums
  PROVE  /\ m.st \in State /\ m.auto \subseteq Pkgs /\ m.want \subseteq Pkgs /\ m.sum \in [Pkgs -> SumMap]
         /\ \A p \in Pkgs : DOMAIN m.sum[p] \subseteq ConfFile /\ \A f \in DOMAIN m.sum[p] : m.sum[p][f] \in SumValue
<1>1. m.st \in State /\ m.auto \subseteq Pkgs /\ m.want \subseteq Pkgs /\ m.sum \in [Pkgs -> SumMap]
  BY DEF Sums, State, SumMap, SumValue
<1>2. ASSUME NEW s \in SumMap PROVE DOMAIN s \subseteq ConfFile /\ \A f \in DOMAIN s : s[f] \in SumValue
  BY DEF SumMap
<1>. QED  BY <1>1, <1>2

LEMMA EmptyTypes == Empty \in Sums /\ NoSums \in SumMap
<1>1. NoSums \in SumMap
  <2>1. NoSums \in [{} -> SumValue] /\ {} \in SUBSET ConfFile
    BY DEF NoSums
  <2>. QED  BY <2>1 DEF SumMap
<1>. QED  BY <1>1 DEF Empty, Sums, SumMap, SumValue

LEMMA InitTypes == Init => Types
<1>. SUFFICES ASSUME Init PROVE Types
  OBVIOUS
<1>1. DiskTypes
  BY DEF Init, DiskTypes, Content
<1>2. OwnerTypes
  BY DEF Init, OwnerTypes
<1>3. \A S : <<>> \in Seq(S)
  BY EmptySeq
<1>4. Len(<<>>) = 0
  OBVIOUS
<1>5. CallTypes
  BY <1>3, <1>4 DEF Init, CallTypes
<1>6. HistTypes
  BY <1>3, Constants DEF Init, HistTypes
<1>. QED  BY <1>1, <1>2, <1>4, <1>5, <1>6, EmptyTypes DEF Init, Types, Nested, Prepared

LEMMA TopFacts ==
  ASSUME Types, pc = "pkg"
  PROVE  /\ stack # <<>> /\ stack \in Seq(Call) /\ Top = stack[1] /\ Top \in Call /\ Len(stack) \in {1, 2}
         /\ Top.pkg \in Pkgs /\ Top.old \in Pkgs \cup {None} /\ Top.pc \in InstallPcs \cup RemovePcs
         /\ Top.marks \subseteq Mishaps /\ Top.pkg # Top.old
<1>1. stack # <<>> /\ stack \in Seq(Call) /\ Len(stack) <= 2
  BY DEF Types, CallTypes
<1>2. Top = stack[1] /\ Top \in Call /\ Len(stack) >= 1 /\ Len(stack) \in Nat
  BY <1>1, NonEmpty DEF Top
<1>3. Len(stack) \in {1, 2}
  <2>1. PICK l \in Nat : l = Len(stack)
    BY <1>2
  <2>2. l <= 2 /\ l >= 1
    BY <1>1, <1>2, <2>1
  <2>3. l = 1 \/ l = 2
    BY <2>2
  <2>. QED  BY <2>1, <2>3
<1>4. Top.pkg \in Pkgs /\ Top.old \in Pkgs \cup {None} /\ Top.pc \in InstallPcs \cup RemovePcs
      /\ Top.marks \subseteq Mishaps /\ Top.pkg # Top.old
  BY <1>2 DEF Call, CallRecord
<1>. QED  BY <1>1, <1>2, <1>3, <1>4

(* The call at the top goes on, for the same package. *)
Moves(x) ==
  /\ pc = "pkg" /\ pc' = "pkg" /\ x \in Call /\ Put(stack', stack, x)
  /\ x.pkg = Top.pkg /\ x.old = Top.old /\ (x.pc \in InstallPcs <=> Top.pc \in InstallPcs)

LEMMA MoveFacts ==
  ASSUME Types, NEW x, Moves(x)
  PROVE  /\ Len(stack') = Len(stack) /\ stack'[1] = x /\ stack' # <<>> /\ stack' \in Seq(Call)
         /\ \A i \in 2..Len(stack) : stack'[i] = stack[i]
         /\ CallTypes' /\ Nested'
<1>1. stack # <<>> /\ stack \in Seq(Call) /\ Len(stack) \in {1, 2} /\ Top = stack[1]
  BY TopFacts DEF Moves
<1>2. /\ Len(stack') = Len(stack) /\ stack'[1] = x /\ stack' # <<>> /\ stack' \in Seq(Call)
      /\ \A i \in 2..Len(stack) : stack'[i] = stack[i]
  BY <1>1, PutFacts DEF Moves
<1>3. CallTypes'
  BY <1>1, <1>2 DEF CallTypes, Moves
<1>4. Nested'
  <2>. SUFFICES ASSUME Len(stack) = 2
                PROVE  /\ stack'[2].pc = "deps" /\ stack'[1].pc \in InstallPcs
                       /\ Name[stack'[1].pkg] \in Deps[stack'[2].pkg]
    BY <1>2 DEF Nested
  <2>1. stack'[2] = stack[2]
    BY <1>2
  <2>2. stack[2].pc = "deps" /\ stack[1].pc \in InstallPcs /\ Name[stack[1].pkg] \in Deps[stack[2].pkg]
    BY DEF Types, Nested
  <2>. QED  BY <1>1, <1>2, <2>1, <2>2 DEF Moves
<1>. QED  BY <1>2, <1>3, <1>4

LEMMA MovePrepared ==
  ASSUME Types, NEW x, Moves(x), owner' = owner, x.pc = "prepare" <=> Top.pc = "prepare"
  PROVE  Prepared'
<1>1. /\ Len(stack') = Len(stack) /\ stack'[1] = x
      /\ \A i \in 2..Len(stack) : stack'[i] = stack[i]
  BY MoveFacts
<1>2. Len(stack) \in {1, 2} /\ Top = stack[1]
  BY TopFacts DEF Moves
<1>3. ASSUME NEW i \in 1..Len(stack'), stack'[i].pc \in InstallPcs \ {"prepare"}, NEW f \in Files[stack'[i].pkg]
      PROVE  owner'[f] \in Pkgs
  <2>1. CASE i = 1
    <3>1. stack[1].pc \in InstallPcs \ {"prepare"} /\ f \in Files[stack[1].pkg] /\ 1 \in 1..Len(stack)
      BY <1>1, <1>2, <1>3, <2>1 DEF Moves
    <3>. QED  BY <3>1 DEF Types, Prepared
  <2>2. CASE i # 1
    <3>1. i \in 2..Len(stack) /\ i \in 1..Len(stack)
      BY <1>1, <1>2, <2>2
    <3>. QED  BY <1>1, <1>3, <3>1 DEF Types, Prepared
  <2>. QED  BY <2>1, <2>2
<1>. QED  BY <1>3 DEF Prepared

LEMMA GotoFacts ==
  ASSUME Types, pc = "pkg", pc' = pc, NEW w \in InstallPcs \cup RemovePcs, Goto(w),
         w \in InstallPcs <=> Top.pc \in InstallPcs
  PROVE  \E x : Moves(x) /\ x.pc = w /\ x.marks = Top.marks
<1>1. Top \in Call
  BY TopFacts
<1>2. PICK x : x = [Top EXCEPT !.pc = w]
  OBVIOUS
<1>3. x \in Call /\ x.pc = w /\ x.pkg = Top.pkg /\ x.old = Top.old /\ x.marks = Top.marks
  BY <1>1, <1>2 DEF Call, CallRecord
<1>4. Put(stack', stack, x)
  BY <1>2 DEF Goto, Put
<1>. QED  BY <1>3, <1>4 DEF Moves

(* The calls under way end. *)
LEMMA ClearFacts ==
  ASSUME stack' = <<>>, pc' \in {"idle", "configure", "status", "lists"}
  PROVE  CallTypes' /\ Nested' /\ Prepared'
<1>1. stack' \in Seq(Call) /\ Len(stack') = 0
  BY EmptySeq
<1>. QED  BY <1>1 DEF CallTypes, Nested, Prepared

LEMMA GivenUpFacts ==
  ASSUME Types PROVE GivenUp(Range(stack)) \subseteq Names
<1>1. ASSUME NEW fr \in Range(stack), fr.old # None PROVE Name[fr.old] \in Names
  <2>1. PICK i \in DOMAIN stack : fr = stack[i]
    BY DEF Range
  <2>2. stack \in Seq(Call)
    BY DEF Types, CallTypes
  <2>3. i \in 1..Len(stack)
    BY <2>1, <2>2, LenProperties
  <2>4. fr \in Call
    BY <2>1, <2>2, <2>3, ElementOfSeq
  <2>5. fr.old \in Pkgs
    BY <1>1, <2>4 DEF Call, CallRecord
  <2>. QED  BY <2>5, Constants
<1>. QED  BY <1>1 DEF GivenUp

LEMMA FailTypes ==
  ASSUME Types, Fail PROVE CallTypes' /\ Nested' /\ Prepared' /\ abandoned' \subseteq Names
<1>1. stack' = <<>> /\ pc' = "configure" /\ abandoned' = abandoned \cup GivenUp(Range(stack))
  BY DEF Fail
<1>. QED  BY <1>1, ClearFacts, GivenUpFacts DEF Types, HistTypes

LEMMA FetchFacts ==
  ASSUME NEW n, NEW p, p = fetch_installed_by_name(n)
  PROVE  /\ p \in Pkgs \cup {None}
         /\ p # None => p \in Pkgs /\ Name[p] = n /\ Installed(p, mem)
         /\ p = None => ~\E q \in Pkgs : Name[q] = n /\ Installed(q, mem)
<1>1. CASE \E q \in Pkgs : Name[q] = n /\ Installed(q, mem)
  <2>1. p = CHOOSE q \in Pkgs : Name[q] = n /\ Installed(q, mem)
    BY <1>1 DEF fetch_installed_by_name
  <2>2. p \in Pkgs /\ Name[p] = n /\ Installed(p, mem)
    BY <1>1, <2>1
  <2>. QED  BY <2>2, Constants
<1>2. CASE ~\E q \in Pkgs : Name[q] = n /\ Installed(q, mem)
  <2>1. p = None
    BY <1>2 DEF fetch_installed_by_name
  <2>. QED  BY <1>2, <2>1
<1>. QED  BY <1>1, <1>2

LEMMA BestFacts ==
  ASSUME NEW n, NEW p \in Known, Name[p] = n
  PROVE  best_candidate(n) \in Known /\ best_candidate(n) \in Pkgs /\ Name[best_candidate(n)] = n
<1>1. PICK K : K = {q \in Known : Name[q] = n}
  OBVIOUS
<1>2. K \subseteq Pkgs /\ K # {}
  BY <1>1 DEF Known
<1>3. PICK q \in K : \A r \in K : Version[r] <= Version[q]
  BY <1>2, Newest
<1>4. q \in Known /\ Name[q] = n /\ \A r \in Known : Name[r] = n => Version[r] <= Version[q]
  BY <1>1, <1>3
<1>5. best_candidate(n) \in Known /\ Name[best_candidate(n)] = n
  BY <1>4 DEF best_candidate
<1>. QED  BY <1>5 DEF Known

LEMMA FrameFacts ==
  ASSUME NEW p \in Pkgs, NEW x, x = Frame(p, "prepare"), p # fetch_installed_by_name(Name[p])
  PROVE  x \in Call /\ x.pkg = p /\ x.pc = "prepare" /\ x.old = fetch_installed_by_name(Name[p])
<1>1. fetch_installed_by_name(Name[p]) \in Pkgs \cup {None}
  BY FetchFacts
<1>. QED  BY <1>1 DEF Frame, Call, CallRecord, InstallPcs

(* What preinstall_check leaves in memory. *)
LEMMA CheckTypes ==
  ASSUME NEW d \in Sums, NEW l, preinstall_check(d, l)
  PROVE  mem' \in Sums /\ mem' = d /\ dirty' = FALSE /\ owner' \in [File -> Pkgs \cup {None}]
         /\ obs' \subseteq File /\ changed' \subseteq Pkgs
<1>. DEFINE Claims(f) == {i \in 1..Len(Order) : Installed(Order[i], d) /\ f \in l[Name[Order[i]]]}
<1>1. /\ mem' = d /\ obs' = {} /\ dirty' = FALSE
      /\ owner' = [f \in File |-> IF Claims(f) = {} THEN None
                                  ELSE Order[CHOOSE i \in Claims(f) : \A j \in Claims(f) : j <= i]]
      /\ changed' = {Order[i] : i \in UNION {Claims(f) : f \in {g \in File : Cardinality(Claims(g)) > 1}}}
  BY DEF preinstall_check
<1>2. \A f : Claims(f) \subseteq 1..Len(Order)
  OBVIOUS
<1>. HIDE DEF Claims
<1>3. ASSUME NEW f \in File, Claims(f) # {}
      PROVE  Order[CHOOSE i \in Claims(f) : \A j \in Claims(f) : j <= i] \in Pkgs
  <2>1. \E i \in Claims(f) : \A j \in Claims(f) : j <= i
    BY <1>2, <1>3, OrderFacts, Greatest
  <2>2. (CHOOSE i \in Claims(f) : \A j \in Claims(f) : j <= i) \in Claims(f)
    BY <2>1
  <2>. QED  BY <1>2, <2>2, OrderFacts
<1>4. owner' \in [File -> Pkgs \cup {None}]
  BY <1>1, <1>3
<1>5. changed' \subseteq Pkgs
  BY <1>1, <1>2, OrderFacts
<1>. QED  BY <1>1, <1>4, <1>5

-----------------------------------------------------------------------------
(* Each operation keeps the types. *)

LEMMA EditTypes ==
  ASSUME Types, NEW f \in ConfFile, NEW e \in Edits, Edit(f, e) PROVE Types'
<1>1. DiskTypes'
  BY DEF Types, DiskTypes, Edit, Content
<1>. QED  BY <1>1 DEF Types, OwnerTypes, CallTypes, HistTypes, Nested, Prepared, Edit, memory

LEMMA UpdateTypes == ASSUME Types, opkg_update PROVE Types'
BY DEF Types, DiskTypes, OwnerTypes, CallTypes, HistTypes, Nested, Prepared, opkg_update, disk, memory, history

(* The first call of a command. *)
LEMMA BeginFacts ==
  ASSUME NEW x \in Call, x.pc \in {"prepare"} \cup RemovePcs, stack' = <<x>>, pc' = "pkg"
  PROVE  CallTypes' /\ Nested' /\ Prepared' /\ Len(stack') = 1 /\ stack'[1] = x
<1>1. stack' \in Seq(Call) /\ Len(stack') = 1 /\ stack'[1] = x
  BY OneFacts
<1>2. stack' # <<>>
  BY <1>1, NonEmpty
<1>3. CallTypes'
  BY <1>1, <1>2 DEF CallTypes
<1>4. x.pc \notin InstallPcs \ {"prepare"}
  BY DEF InstallPcs, RemovePcs
<1>. QED  BY <1>1, <1>3, <1>4 DEF Nested, Prepared

LEMMA InstallTypes == ASSUME Types, NEW n \in Names, opkg_install_cmd(n) PROVE Types'
<1>1. /\ pc = "idle" /\ cmds < MaxCmds /\ cmds' = cmds + 1
      /\ UNCHANGED <<disk, db, feed, memory, edits, faults, touched, abandoned, torn, spoiled, litter, tried>>
  BY DEF opkg_install_cmd
<1>2. HistTypes'
  <2>1. cmds' \in 0..MaxCmds
    BY <1>1, Constants DEF Types, HistTypes
  <2>. QED  BY <1>1, <2>1 DEF Types, HistTypes
<1>3. DiskTypes' /\ OwnerTypes' /\ mem' \in Sums /\ db' \in Sums
  BY <1>1 DEF Types, DiskTypes, OwnerTypes, disk, memory
<1>4. CallTypes' /\ Nested' /\ Prepared'
  <2>1. CASE pc' = "configure" /\ UNCHANGED stack
    <3>1. stack' = <<>>
      BY <1>1, <2>1 DEF Types, CallTypes
    <3>. QED  BY <2>1, <3>1, ClearFacts
  <2>2. CASE pc' = "pkg" /\ stack' = <<Frame(best_candidate(n), "prepare")>>
    <3>1. best_candidate(n) \in Pkgs
      BY BestFacts DEF opkg_install_cmd
    <3>2. PICK x : x = Frame(best_candidate(n), "prepare")
      OBVIOUS
    <3>3. PICK old : old = fetch_installed_by_name(n)
      OBVIOUS
    <3>4. Name[best_candidate(n)] = n
      BY BestFacts DEF opkg_install_cmd
    <3>5. best_candidate(n) # old
      <4>1. ~(old # None /\ Version[old] >= Version[best_candidate(n)])
        BY <2>2, <3>3 DEF opkg_install_cmd
      <4>2. best_candidate(n) # None /\ Version[best_candidate(n)] \in Nat
        BY <3>1, Constants
      <4>. QED  BY <4>1, <4>2
    <3>6. x \in Call /\ x.pc = "prepare"
      BY <3>1, <3>2, <3>3, <3>4, <3>5, FrameFacts
    <3>. QED  BY <2>2, <3>2, <3>6, BeginFacts
  <2>. QED  BY <2>1, <2>2 DEF opkg_install_cmd
<1>. QED  BY <1>2, <1>3, <1>4 DEF Types

LEMMA OwnershipFacts ==
  ASSUME Types, NEW p \in Pkgs, NEW old \in Pkgs \cup {None}, update_file_ownership(p, old)
  PROVE  /\ owner' \in [File -> Pkgs \cup {None}] /\ changed' \subseteq Pkgs /\ obs' \subseteq File
         /\ \A f \in File : owner[f] \in Pkgs => owner'[f] \in Pkgs
         /\ \A f \in Files[p] : owner'[f] \in Pkgs
<1>. DEFINE moved == {f \in Files[p] : owner[f] \in {None, old}}
<1>1. /\ owner' = [f \in File |-> IF f \in moved THEN p ELSE owner[f]]
      /\ changed' = IF \E f \in moved : owner[f] # None THEN changed \cup {p, old} ELSE changed
      /\ obs' = IF old = None THEN obs ELSE obs \cup {f \in list[Name[old]] : owner'[f] = old}
  BY DEF update_file_ownership
<1>2. owner \in [File -> Pkgs \cup {None}] /\ changed \subseteq Pkgs /\ obs \subseteq File
      /\ list \in [Names -> SUBSET File]
  BY DEF Types, OwnerTypes, DiskTypes
<1>3. owner' \in [File -> Pkgs \cup {None}]
  BY <1>1, <1>2
<1>4. \A f \in File : owner[f] \in Pkgs => owner'[f] \in Pkgs
  BY <1>1, <1>2
<1>5. \A f \in Files[p] : owner'[f] \in Pkgs
  <2>1. Files[p] \subseteq File
    BY Constants
  <2>. QED  BY <1>1, <1>2, <2>1
<1>6. changed' \subseteq Pkgs
  <2>1. ASSUME NEW f \in moved, owner[f] # None PROVE old \in Pkgs
    <3>1. f \in File /\ owner[f] \in Pkgs \cup {None}
      BY <1>2, Constants
    <3>. QED  BY <2>1, <3>1
  <2>. QED  BY <1>1, <1>2, <2>1
<1>7. obs' \subseteq File
  <2>1. old # None => Name[old] \in Names
    BY Constants
  <2>2. old # None => list[Name[old]] \subseteq File
    BY <1>2, <2>1
  <2>. QED  BY <1>1, <1>2, <2>2
<1>. QED  BY <1>3, <1>4, <1>5, <1>6, <1>7

LEMMA SumMapOf == ASSUME NEW D, D \subseteq ConfFile, NEW s \in [D -> SumValue] PROVE s \in SumMap
BY DEF SumMap

LEMMA MakeSums ==
  ASSUME NEW m, NEW s \in State, NEW a, NEW w, NEW c \in [Pkgs -> SumMap], a \subseteq Pkgs, w \subseteq Pkgs,
         m = [st |-> s, sum |-> c, auto |-> a, want |-> w]
  PROVE  m \in Sums
BY DEF Sums, State, SumMap, SumValue

LEMMA SumsIs ==
  ASSUME NEW m \in Sums
  PROVE  m = [st |-> m.st, sum |-> m.sum, auto |-> m.auto, want |-> m.want]
BY DEF Sums

LEMMA PrepareMem ==
  ASSUME Types, Prepare
  PROVE  /\ mem' \in Sums /\ mem'.st = mem.st
         /\ mem'.sum = [p \in Pkgs |-> IF p = Top.pkg /\ mem.sum[p] = NoSums
                                       THEN [f \in Conf[p] |-> "null"] ELSE mem.sum[p]]
         /\ mem'.want = (mem.want \cup {Top.pkg}) \ {Top.old} /\ mem'.auto = mem.auto
<1>1. Top.pkg \in Pkgs /\ mem \in Sums /\ Top.old \in Pkgs \cup {None}
  BY TopFacts DEF Prepare, At, Types
<1>2. mem.st \in State /\ mem.auto \subseteq Pkgs /\ mem.want \subseteq Pkgs /\ mem.sum \in [Pkgs -> SumMap]
  BY <1>1, SumsFacts
<1>. DEFINE w == (mem.want \cup {Top.pkg}) \ {Top.old}
            v == IF mem.sum[Top.pkg] = NoSums THEN [f \in Conf[Top.pkg] |-> "null"] ELSE mem.sum[Top.pkg]
            c == [p \in Pkgs |-> IF p = Top.pkg THEN v ELSE mem.sum[p]]
<1>3. v \in SumMap
  <2>1. [f \in Conf[Top.pkg] |-> "null"] \in [Conf[Top.pkg] -> SumValue]
    BY DEF SumValue
  <2>2. Conf[Top.pkg] \subseteq ConfFile
    BY <1>1, Constants
  <2>3. [f \in Conf[Top.pkg] |-> "null"] \in SumMap
    BY <2>1, <2>2, SumMapOf
  <2>. QED  BY <1>1, <1>2, <2>3
<1>4. mem' = [mem EXCEPT !.want = w, !.sum[Top.pkg] = v]
  BY DEF Prepare
<1>5. mem' = [st |-> mem.st, sum |-> [mem.sum EXCEPT ![Top.pkg] = v], auto |-> mem.auto, want |-> w]
  <2>. HIDE DEF v, w
  <2>1. mem = [st |-> mem.st, sum |-> mem.sum, auto |-> mem.auto, want |-> mem.want]
    BY <1>1, SumsIs
  <2>. QED  BY <1>4, <2>1
<1>6. [mem.sum EXCEPT ![Top.pkg] = v] = c /\ c \in [Pkgs -> SumMap]
  <2>. HIDE DEF v
  <2>. QED  BY <1>1, <1>2, <1>3
<1>7. w \subseteq Pkgs
  BY <1>1, <1>2
<1>8. mem' \in Sums
  <2>. HIDE DEF w, c
  <2>. QED  BY <1>2, <1>5, <1>6, <1>7, MakeSums
<1>9. mem'.st = mem.st /\ mem'.sum = c /\ mem'.want = w /\ mem'.auto = mem.auto
  <2>. HIDE DEF w, c, v
  <2>. QED  BY <1>5, <1>6
<1>. QED  BY <1>8, <1>9

LEMMA PrepareTypes == ASSUME Types, Prepare PROVE Types'
<1>1. /\ pc = "pkg" /\ Top.pc = "prepare" /\ update_file_ownership(Top.pkg, Top.old) /\ Goto("deps")
      /\ UNCHANGED <<disk, db, feed, dirty, pc, history>>
  BY DEF Prepare, At
<1>2. Top.pkg \in Pkgs /\ Top.old \in Pkgs \cup {None} /\ Len(stack) \in {1, 2}
  BY <1>1, TopFacts
<1>3. /\ owner' \in [File -> Pkgs \cup {None}] /\ changed' \subseteq Pkgs /\ obs' \subseteq File
      /\ \A f \in File : owner[f] \in Pkgs => owner'[f] \in Pkgs
      /\ \A f \in Files[Top.pkg] : owner'[f] \in Pkgs
  BY <1>1, <1>2, OwnershipFacts
<1>4. PICK x : Moves(x) /\ x.pc = "deps"
  <2>1. "deps" \in InstallPcs /\ Top.pc \in InstallPcs
    BY <1>1 DEF InstallPcs
  <2>. QED  BY <1>1, <2>1, GotoFacts
<1>5. /\ Len(stack') = Len(stack) /\ stack'[1] = x
      /\ \A i \in 2..Len(stack) : stack'[i] = stack[i]
      /\ CallTypes' /\ Nested'
  BY <1>4, MoveFacts
<1>6. Prepared'
  <2>1. ASSUME NEW i \in 1..Len(stack'), stack'[i].pc \in InstallPcs \ {"prepare"}, NEW f \in Files[stack'[i].pkg]
        PROVE  owner'[f] \in Pkgs
    <3>1. CASE i = 1
      BY <1>3, <1>4, <1>5, <2>1, <3>1 DEF Moves
    <3>2. CASE i # 1
      <4>1. i \in 2..Len(stack) /\ i \in 1..Len(stack)
        BY <1>2, <1>5, <3>2
      <4>2. owner[f] \in Pkgs
        BY <1>5, <2>1, <4>1 DEF Types, Prepared
      <4>3. f \in File
        <5>1. stack[i] \in Call
          BY <4>1, ElementOfSeq DEF Types, CallTypes
        <5>2. stack[i].pkg \in Pkgs
          BY <5>1 DEF Call, CallRecord
        <5>3. f \in Files[stack[i].pkg]
          BY <1>5, <2>1, <4>1
        <5>. QED  BY <5>2, <5>3, Constants
      <4>. QED  BY <1>3, <4>2, <4>3
    <3>. QED  BY <3>1, <3>2
  <2>. QED  BY <2>1 DEF Prepared
<1>7. DiskTypes' /\ HistTypes' /\ db' \in Sums
  BY <1>1 DEF Types, DiskTypes, HistTypes, disk, history
<1>8. OwnerTypes'
  BY <1>1, <1>3 DEF Types, OwnerTypes
<1>. QED  BY <1>5, <1>6, <1>7, <1>8, PrepareMem DEF Types

(* The call at the top goes on to a later step that leaves the owners alone. *)
LEMMA GoesOn ==
  ASSUME Types, pc = "pkg", pc' = pc, owner' = owner, NEW w \in InstallPcs \cup RemovePcs, Goto(w),
         Top.pc # "prepare", w # "prepare", w \in InstallPcs <=> Top.pc \in InstallPcs
  PROVE  CallTypes' /\ Nested' /\ Prepared'
<1>1. PICK x : Moves(x) /\ x.pc = w
  BY GotoFacts
<1>2. CallTypes' /\ Nested'
  BY <1>1, MoveFacts
<1>3. Prepared'
  BY <1>1, MovePrepared
<1>. QED  BY <1>2, <1>3

(* The package database n has these four fields. *)
Has(n, s, c, a, w) == n = [st |-> s, sum |-> c, auto |-> a, want |-> w]

LEMMA HasFacts ==
  ASSUME NEW n, NEW s \in State, NEW c \in [Pkgs -> SumMap], NEW a, a \subseteq Pkgs, NEW w, w \subseteq Pkgs,
         Has(n, s, c, a, w)
  PROVE  n \in Sums /\ n.st = s /\ n.sum = c /\ n.auto = a /\ n.want = w
<1>1. n \in Sums
  BY MakeSums DEF Has
<1>2. n.st = s /\ n.sum = c /\ n.auto = a /\ n.want = w
  BY DEF Has
<1>. QED  BY <1>1, <1>2

LEMMA MemFacts ==
  ASSUME Types
  PROVE  /\ mem \in Sums /\ mem.st \in State /\ mem.sum \in [Pkgs -> SumMap]
         /\ mem.auto \subseteq Pkgs /\ mem.want \subseteq Pkgs
         /\ mem = [st |-> mem.st, sum |-> mem.sum, auto |-> mem.auto, want |-> mem.want]
<1>1. mem \in Sums
  BY DEF Types
<1>. QED  BY <1>1, SumsFacts, SumsIs

LEMMA PrepareFailsTypes == ASSUME Types, PrepareFails PROVE Types' /\ mem'.st = mem.st /\ mem'.sum = mem.sum
<1>1. /\ pc = "pkg" /\ Fail
      /\ UNCHANGED <<disk, db, feed, owner, obs, changed, dirty, edits, cmds, faults, touched, torn,
                     spoiled, litter, tried>>
  BY DEF PrepareFails, At
<1>2. CallTypes' /\ Nested' /\ Prepared' /\ abandoned' \subseteq Names
  BY <1>1, FailTypes
<1>3. mem' \in Sums /\ mem'.st = mem.st /\ mem'.sum = mem.sum
  <2>1. Top.pkg \in Pkgs
    BY <1>1, TopFacts
  <2>2. /\ mem.st \in State /\ mem.sum \in [Pkgs -> SumMap]
        /\ mem.auto \subseteq Pkgs /\ mem.want \subseteq Pkgs
        /\ mem = [st |-> mem.st, sum |-> mem.sum, auto |-> mem.auto, want |-> mem.want]
    BY MemFacts
  <2>3. PICK w, a : /\ w = (mem.want \cup {Top.pkg}) \ {Top.old}
                    /\ a = IF Len(stack) > 1 THEN mem.auto \cup {Top.pkg} ELSE mem.auto
    OBVIOUS
  <2>4. w \subseteq Pkgs /\ a \subseteq Pkgs
    BY <2>1, <2>2, <2>3
  <2>5. mem' = [mem EXCEPT !.want = w, !.auto = a]
    BY <2>3 DEF PrepareFails
  <2>6. Has(mem', mem.st, mem.sum, a, w)
    BY <2>2, <2>5 DEF Has
  <2>. QED  BY <2>2, <2>4, <2>6, HasFacts
<1>4. HistTypes'
  BY <1>1, <1>2 DEF Types, HistTypes
<1>5. DiskTypes' /\ OwnerTypes' /\ db' \in Sums
  BY <1>1 DEF Types, DiskTypes, OwnerTypes, disk
<1>. QED  BY <1>2, <1>3, <1>4, <1>5 DEF Types

(* A feed offers a package for every dependency. *)
LEMMA DependencyKnown ==
  ASSUME Types, NEW p \in Pkgs, NEW n \in Deps[p]
  PROVE  best_candidate(n) \in Pkgs /\ Name[best_candidate(n)] = n
<1>1. feed \in {FirstFeed, NextFeed}
  BY DEF Types, OwnerTypes
<1>2. n \in {Name[q] : q \in feed}
  BY <1>1, OpkgAssumption
<1>3. PICK q \in feed : Name[q] = n
  BY <1>2
<1>4. q \in Known
  BY <1>1, <1>3, Constants DEF Known
<1>. QED  BY <1>3, <1>4, BestFacts

LEMMA SatisfyMem ==
  ASSUME Types, satisfy_dependencies_for PROVE mem' \in Sums /\ mem'.st = mem.st /\ mem'.sum = mem.sum
<1>1. pc = "pkg"
  BY DEF satisfy_dependencies_for, At
<1>2. Top.pkg \in Pkgs
  BY <1>1, TopFacts
<1>3. /\ mem.st \in State /\ mem.sum \in [Pkgs -> SumMap]
      /\ mem.auto \subseteq Pkgs /\ mem.want \subseteq Pkgs
      /\ mem = [st |-> mem.st, sum |-> mem.sum, auto |-> mem.auto, want |-> mem.want]
  BY MemFacts
<1>4. PICK w : w = mem.want \cup {best_candidate(m) : m \in Missing}
  OBVIOUS
<1>5. w \subseteq Pkgs
  <2>1. \A m \in Missing : best_candidate(m) \in Pkgs
    BY <1>2, DependencyKnown DEF Missing
  <2>. QED  BY <1>3, <1>4, <2>1
<1>6. mem' = [mem EXCEPT !.want = w]
  BY <1>4 DEF satisfy_dependencies_for
<1>7. Has(mem', mem.st, mem.sum, mem.auto, w)
  BY <1>3, <1>6 DEF Has
<1>. QED  BY <1>3, <1>5, <1>7, HasFacts

LEMMA SatisfyTypes == ASSUME Types, satisfy_dependencies_for PROVE Types'
<1>1. /\ pc = "pkg" /\ Top.pc = "deps"
      /\ UNCHANGED <<disk, db, feed, owner, obs, changed, dirty, pc, history>>
  BY DEF satisfy_dependencies_for, At
<1>2. PICK n \in Missing : stack' = <<Frame(best_candidate(n), "prepare")>> \o stack
  BY DEF satisfy_dependencies_for
<1>3. /\ stack # <<>> /\ stack \in Seq(Call) /\ Top = stack[1] /\ Top \in Call /\ Len(stack) \in {1, 2}
      /\ Top.pkg \in Pkgs
  BY <1>1, TopFacts
<1>4. n \in Deps[Top.pkg]
  BY <1>2 DEF Missing
<1>5. best_candidate(n) \in Pkgs /\ Name[best_candidate(n)] = n
  BY <1>3, <1>4, DependencyKnown
<1>6. Len(stack) = 1
  <2>. SUFFICES ASSUME Len(stack) = 2 PROVE FALSE
    BY <1>3
  <2>1. Name[stack[1].pkg] \in Deps[stack[2].pkg] /\ 2 \in 1..Len(stack)
    BY DEF Types, Nested
  <2>2. stack[2] \in Call
    BY <1>3, <2>1, ElementOfSeq
  <2>3. stack[2].pkg \in Pkgs
    BY <2>2 DEF Call, CallRecord
  <2>. QED  BY <1>3, <1>4, <2>1, <2>3, Constants
<1>7. PICK x : x = Frame(best_candidate(n), "prepare")
  OBVIOUS
<1>8. x \in Call /\ x.pkg = best_candidate(n) /\ x.pc = "prepare"
  <2>1. fetch_installed_by_name(n) = None
    BY <1>2 DEF Missing
  <2>2. best_candidate(n) # fetch_installed_by_name(Name[best_candidate(n)])
    BY <1>5, <2>1, Constants
  <2>. QED  BY <1>5, <1>7, <2>2, FrameFacts
<1>9. Push(stack', stack, x)
  BY <1>2, <1>7 DEF Push
<1>10. stack' \in Seq(Call) /\ Len(stack') = 2 /\ stack'[1] = x /\ stack' # <<>> /\ stack'[2] = stack[1]
  <2>1. /\ stack' \in Seq(Call) /\ Len(stack) \in Nat /\ Len(stack') = Len(stack) + 1 /\ stack'[1] = x
        /\ stack' # <<>> /\ \A i \in 1..Len(stack) : stack'[i + 1] = stack[i]
    BY <1>3, <1>8, <1>9, PushFacts
  <2>2. \A i \in 1..1 : stack'[i + 1] = stack[i]
    BY <1>6, <2>1
  <2>. QED  BY <1>6, <2>1, <2>2
<1>11. CallTypes'
  BY <1>1, <1>10 DEF CallTypes, Types
<1>12. Nested'
  BY <1>1, <1>3, <1>4, <1>5, <1>8, <1>10 DEF Nested, InstallPcs
<1>13. Prepared'
  <2>1. ASSUME NEW i \in 1..Len(stack'), stack'[i].pc \in InstallPcs \ {"prepare"}, NEW f \in Files[stack'[i].pkg]
        PROVE  owner[f] \in Pkgs
    <3>1. i = 2
      BY <1>8, <1>10, <2>1
    <3>2. stack[1].pc \in InstallPcs \ {"prepare"} /\ f \in Files[stack[1].pkg] /\ 1 \in 1..Len(stack)
      BY <1>6, <1>10, <2>1, <3>1
    <3>. QED  BY <3>2 DEF Types, Prepared
  <2>. QED  BY <1>1, <2>1 DEF Prepared
<1>14. DiskTypes' /\ OwnerTypes' /\ HistTypes' /\ db' \in Sums
  BY <1>1 DEF Types, DiskTypes, OwnerTypes, HistTypes, disk, history
<1>. QED  BY <1>11, <1>12, <1>13, <1>14, SatisfyMem DEF Types

LEMMA OrphanFacts ==
  ASSUME Types, pc = "pkg" PROVE Orphans \subseteq Pkgs /\ \A p \in Orphans : Name[p] \in Names
<1>1. mem.auto \subseteq Pkgs
  BY MemFacts
<1>. QED  BY <1>1, Constants DEF Orphans

LEMMA EnterMem ==
  ASSUME Types, Enter
  PROVE  /\ mem' \in Sums /\ mem'.st = [p \in Pkgs |-> IF p \in Orphans THEN "not" ELSE mem.st[p]]
         /\ mem'.sum = mem.sum
<1>1. /\ mem.st \in State /\ mem.sum \in [Pkgs -> SumMap]
      /\ mem.auto \subseteq Pkgs /\ mem.want \subseteq Pkgs
      /\ mem = [st |-> mem.st, sum |-> mem.sum, auto |-> mem.auto, want |-> mem.want]
  BY MemFacts
<1>2. PICK s, w : s = [p \in Pkgs |-> IF p \in Orphans THEN "not" ELSE mem.st[p]] /\ w = mem.want \ Orphans
  OBVIOUS
<1>3. s \in State /\ w \subseteq Pkgs
  BY <1>1, <1>2 DEF State
<1>4. mem' = [mem EXCEPT !.st = s, !.want = w]
  BY <1>2 DEF Enter, pkg_remove_orphan_dependent
<1>5. Has(mem', s, mem.sum, mem.auto, w)
  BY <1>1, <1>4 DEF Has
<1>. QED  BY <1>1, <1>2, <1>3, <1>5, HasFacts

LEMMA EnterTypes == ASSUME Types, Enter PROVE Types'
<1>1. /\ pc = "pkg" /\ Top.pc = "deps" /\ dirty' = TRUE /\ Goto("preinst")
      /\ UNCHANGED <<backup, db, feed, owner, obs, pc, edits, cmds, faults, abandoned, torn, spoiled, litter, tried>>
  BY DEF Enter, At, pkg_remove_orphan_dependent
<1>2. Orphans \subseteq Pkgs /\ \A p \in Orphans : Name[p] \in Names
  BY <1>1, OrphanFacts
<1>3. DiskTypes'
  <2>1. PICK gone, names : /\ files' = [f \in File |-> IF f \in gone THEN None ELSE files[f]]
                           /\ list' = [n \in Names |-> IF n \in names THEN {} ELSE list[n]]
    BY DEF Enter, pkg_remove_orphan_dependent
  <2>2. files' \in [File -> Content] /\ list' \in [Names -> SUBSET File]
    BY <2>1 DEF Types, DiskTypes, Content
  <2>. QED  BY <1>1, <2>2 DEF Types, DiskTypes
<1>4. Top.pkg \in Pkgs
  BY <1>1, TopFacts
<1>5. changed' = changed \cup {Top.pkg} \cup Orphans /\ touched' = touched \cup {Name[p] : p \in Orphans}
  BY DEF Enter, pkg_remove_orphan_dependent
<1>6. OwnerTypes'
  BY <1>1, <1>2, <1>4, <1>5 DEF Types, OwnerTypes
<1>7. HistTypes'
  BY <1>1, <1>2, <1>5 DEF Types, HistTypes
<1>8. CallTypes' /\ Nested' /\ Prepared'
  BY <1>1, GoesOn DEF InstallPcs
<1>. QED  BY <1>1, <1>3, <1>6, <1>7, <1>8, EnterMem DEF Types

LEMMA PreinstTypes == ASSUME Types, preinst_configure PROVE Types'
<1>1. pc = "pkg" /\ Top.pc = "preinst" /\ Goto("backup") /\ UNCHANGED <<disk, db, feed, memory, pc, history>>
  BY DEF preinst_configure, At
<1>2. owner' = owner /\ pc' = pc
  BY <1>1 DEF memory
<1>3. CallTypes' /\ Nested' /\ Prepared'
  BY <1>1, <1>2, GoesOn DEF InstallPcs
<1>. QED  BY <1>1, <1>3 DEF Types, DiskTypes, OwnerTypes, HistTypes, disk, memory, history

LEMMA ConfFacts ==
  ASSUME Types, pc = "pkg" PROVE OldConf \subseteq ConfFile /\ NewConf \subseteq ConfFile
<1>1. Top.pkg \in Pkgs /\ Top.old \in Pkgs \cup {None} /\ mem \in Sums
  BY TopFacts DEF Types
<1>2. \A p \in Pkgs : DOMAIN mem.sum[p] \subseteq ConfFile
  BY <1>1, SumsFacts
<1>. QED  BY <1>1, <1>2 DEF OldConf, NewConf

LEMMA UnwindTypes ==
  ASSUME Types, NEW S, S \subseteq ConfFile, pc = "pkg", Unwind(S)
  PROVE  Types' /\ mem'.st = mem.st /\ mem'.sum = mem.sum
<1>1. /\ Fail /\ backup' = [f \in File |-> IF f \in S THEN None ELSE backup[f]]
      /\ torn' = torn \cup {f \in S : files[f] = None /\ backup[f] # None}
      /\ UNCHANGED <<files, list, db, feed, owner, obs, changed, dirty, edits, cmds, faults, touched,
                     spoiled, litter, tried>>
  BY DEF Unwind
<1>2. CallTypes' /\ Nested' /\ Prepared' /\ abandoned' \subseteq Names
  BY <1>1, FailTypes
<1>3. mem' \in Sums /\ mem'.st = mem.st /\ mem'.sum = mem.sum
  <2>1. Top.pkg \in Pkgs
    BY <1>1, TopFacts
  <2>2. /\ mem.st \in State /\ mem.sum \in [Pkgs -> SumMap]
        /\ mem.auto \subseteq Pkgs /\ mem.want \subseteq Pkgs
        /\ mem = [st |-> mem.st, sum |-> mem.sum, auto |-> mem.auto, want |-> mem.want]
    BY MemFacts
  <2>3. PICK a : a = IF Len(stack) > 1 THEN mem.auto \cup {Top.pkg} ELSE mem.auto
    OBVIOUS
  <2>4. a \subseteq Pkgs
    BY <2>1, <2>2, <2>3
  <2>5. mem' = [mem EXCEPT !.auto = a]
    BY <2>3 DEF Unwind
  <2>6. Has(mem', mem.st, mem.sum, a, mem.want)
    BY <2>2, <2>5 DEF Has
  <2>. QED  BY <2>2, <2>4, <2>6, HasFacts
<1>4. HistTypes'
  BY <1>1, <1>2 DEF Types, HistTypes
<1>5. DiskTypes'
  BY <1>1 DEF Types, DiskTypes, Content
<1>6. OwnerTypes' /\ db' \in Sums
  BY <1>1 DEF Types, OwnerTypes
<1>. QED  BY <1>2, <1>3, <1>4, <1>5, <1>6 DEF Types

LEMMA BackupTypes == ASSUME Types, backup_modified_conffiles PROVE Types'
<1>1. /\ pc = "pkg" /\ Top.pc = "backup" /\ Goto("clashes")
      /\ UNCHANGED <<files, list, db, feed, memory, pc, edits, cmds, faults, touched, abandoned, spoiled, litter, tried>>
      /\ backup' = [f \in File |-> IF f \in ToBackUp THEN files[f] ELSE backup[f]]
      /\ torn' = torn \cup {f \in NewConf \ OldConf : files[f] # None /\ backup[f] # None}
  BY DEF backup_modified_conffiles, At
<1>2. owner' = owner /\ pc' = pc
  BY <1>1 DEF memory
<1>3. CallTypes' /\ Nested' /\ Prepared'
  BY <1>1, <1>2, GoesOn DEF InstallPcs
<1>4. DiskTypes'
  BY <1>1 DEF Types, DiskTypes
<1>5. HistTypes'
  <2>1. NewConf \subseteq ConfFile
    BY <1>1, ConfFacts
  <2>. QED  BY <1>1, <2>1 DEF Types, HistTypes
<1>. QED  BY <1>1, <1>3, <1>4, <1>5 DEF Types, OwnerTypes, memory

(* check_data_file_clashes and Extract also note what they did. *)
LEMMA Marks ==
  ASSUME Types, pc = "pkg", pc' = pc, owner' = owner, NEW w \in InstallPcs, w # "prepare",
         Top.pc \in InstallPcs, Top.pc # "prepare", NEW S, S \subseteq Mishaps, NEW x,
         x = [Top EXCEPT !.pc = w, !.marks = S], Put(stack', stack, x)
  PROVE  CallTypes' /\ Nested' /\ Prepared' /\ Moves(x) /\ x.pc = w
<1>1. Top \in Call
  BY TopFacts
<1>2. x \in Call /\ x.pc = w /\ x.pkg = Top.pkg /\ x.old = Top.old
  BY <1>1 DEF Call, CallRecord
<1>3. Moves(x)
  BY <1>2 DEF Moves
<1>4. CallTypes' /\ Nested'
  BY <1>3, MoveFacts
<1>5. Prepared'
  BY <1>2, <1>3, MovePrepared
<1>. QED  BY <1>2, <1>3, <1>4, <1>5

LEMMA ClashesMoves ==
  ASSUME Types, check_data_file_clashes
  PROVE  CallTypes' /\ Nested' /\ Prepared' /\ \E x : Moves(x) /\ x.pc = "erase"
<1>1. pc = "pkg" /\ Top.pc = "clashes" /\ UNCHANGED <<disk, db, feed, memory, pc, history>>
  BY DEF check_data_file_clashes, At
<1>2. PICK S : S = {IF files[f] # None THEN "split" ELSE "claimed" :
                    f \in {f \in Files[Top.pkg] : Name[owner[f]] # Name[Top.pkg]}}
  OBVIOUS
<1>3. S \subseteq Mishaps
  BY <1>2 DEF Mishaps
<1>4. PICK x : x = [Top EXCEPT !.pc = "erase", !.marks = S]
  OBVIOUS
<1>5. Put(stack', stack, x)
  BY <1>2, <1>4 DEF check_data_file_clashes, Put
<1>6. owner' = owner /\ pc' = pc
  BY <1>1 DEF memory
<1>7. "erase" \in InstallPcs /\ Top.pc \in InstallPcs /\ Top.pc # "prepare" /\ "erase" # "prepare"
  BY <1>1 DEF InstallPcs
<1>8. CallTypes' /\ Nested' /\ Prepared' /\ Moves(x) /\ x.pc = "erase"
  BY <1>1, <1>3, <1>4, <1>5, <1>6, <1>7, Marks
<1>. QED  BY <1>8

LEMMA ClashesTypes == ASSUME Types, check_data_file_clashes PROVE Types'
<1>1. UNCHANGED <<disk, db, feed, memory, pc, history>>
  BY DEF check_data_file_clashes
<1>. QED  BY <1>1, ClashesMoves DEF Types, DiskTypes, OwnerTypes, HistTypes, disk, memory, history

LEMMA EraseTypes == ASSUME Types, remove_old_files PROVE Types'
<1>1. /\ pc = "pkg" /\ Top.pc = "erase" /\ Goto("unlist") /\ touched' = touched \cup {Name[Top.pkg]}
      /\ UNCHANGED <<backup, list, db, feed, memory, pc, edits, cmds, faults, abandoned, torn, spoiled, litter, tried>>
  BY DEF remove_old_files, At
<1>2. owner' = owner /\ pc' = pc
  BY <1>1 DEF memory
<1>3. CallTypes' /\ Nested' /\ Prepared'
  BY <1>1, <1>2, GoesOn DEF InstallPcs
<1>4. DiskTypes'
  <2>1. PICK S : files' = IF Top.old = None THEN files ELSE [f \in File |-> IF f \in S THEN None ELSE files[f]]
    BY DEF remove_old_files
  <2>2. files' \in [File -> Content]
    BY <2>1 DEF Types, DiskTypes, Content
  <2>. QED  BY <1>1, <2>2 DEF Types, DiskTypes
<1>5. HistTypes'
  <2>1. Name[Top.pkg] \in Names
    BY <1>1, TopFacts, Constants
  <2>. QED  BY <1>1, <2>1 DEF Types, HistTypes
<1>. QED  BY <1>1, <1>3, <1>4, <1>5 DEF Types, OwnerTypes, memory

LEMMA UnlistTypes == ASSUME Types, remove_old_list PROVE Types'
<1>1. /\ pc = "pkg" /\ Top.pc = "unlist" /\ Goto("extract") /\ UNCHANGED <<files, backup, db, feed, memory, pc, history>>
      /\ list' = IF Top.old = None THEN list ELSE [list EXCEPT ![Name[Top.old]] = {}]
  BY DEF remove_old_list, At
<1>2. owner' = owner /\ pc' = pc
  BY <1>1 DEF memory
<1>3. CallTypes' /\ Nested' /\ Prepared'
  BY <1>1, <1>2, GoesOn DEF InstallPcs
<1>4. DiskTypes'
  BY <1>1 DEF Types, DiskTypes, history
<1>. QED  BY <1>1, <1>3, <1>4 DEF Types, OwnerTypes, HistTypes, memory, history

LEMMA ExtractMoves ==
  ASSUME Types, NEW S, Extract(S)
  PROVE  /\ CallTypes' /\ Nested' /\ Prepared' /\ \E x : Moves(x) /\ x.pc \in {"list", "resolve"}
         /\ S # Files[Top.pkg] => "partial" \in stack'[1].marks
<1>1. /\ pc = "pkg" /\ Top.pc = "extract"
      /\ UNCHANGED <<backup, list, db, feed, memory, pc, edits, cmds, abandoned, torn, spoiled, tried>>
  BY DEF Extract, At
<1>2. Top.marks \subseteq Mishaps
  BY <1>1, TopFacts
<1>3. PICK w, M : /\ w = IF S = Files[Top.pkg] THEN "list" ELSE "resolve"
                  /\ M = IF S = Files[Top.pkg] THEN Top.marks ELSE Top.marks \cup {"partial"}
  OBVIOUS
<1>4. M \subseteq Mishaps /\ w \in {"list", "resolve"}
  BY <1>2, <1>3 DEF Mishaps
<1>5. PICK x : x = [Top EXCEPT !.pc = w, !.marks = M]
  OBVIOUS
<1>6. Put(stack', stack, x)
  BY <1>3, <1>5 DEF Extract, Put
<1>7. owner' = owner /\ pc' = pc
  BY <1>1 DEF memory
<1>8. w \in InstallPcs /\ Top.pc \in InstallPcs /\ Top.pc # "prepare" /\ w # "prepare"
  BY <1>1, <1>4 DEF InstallPcs
<1>9. CallTypes' /\ Nested' /\ Prepared' /\ Moves(x) /\ x.pc = w
  BY <1>1, <1>4, <1>5, <1>6, <1>7, <1>8, Marks
<1>10. S # Files[Top.pkg] => "partial" \in stack'[1].marks
  <2>1. Top \in CallRecord
    BY <1>1, TopFacts DEF Call
  <2>2. x.marks = M
    BY <1>5, <2>1 DEF CallRecord
  <2>3. stack'[1] = x
    BY <1>9, MoveFacts
  <2>. QED  BY <1>3, <2>2, <2>3
<1>. QED  BY <1>4, <1>9, <1>10

LEMMA ExtractTypes ==
  ASSUME Types, NEW S, S \subseteq Files[Top.pkg], Extract(S) PROVE Types'
<1>1. /\ pc = "pkg" /\ Top.pc = "extract" /\ touched' = touched \cup {Name[owner[f]] : f \in S}
      /\ S = Files[Top.pkg] \/ faults < MaxFaults
      /\ faults' = IF S = Files[Top.pkg] THEN faults ELSE faults + 1
      /\ files' = [f \in File |-> IF f \in S THEN Top.pkg ELSE files[f]]
      /\ UNCHANGED <<backup, list, db, feed, memory, pc, edits, cmds, abandoned, torn, spoiled, tried>>
  BY DEF Extract, At
<1>2. Top.pkg \in Pkgs /\ Top = stack[1] /\ Len(stack) \in {1, 2}
  BY <1>1, TopFacts
<1>3. ASSUME NEW f \in S PROVE Name[owner[f]] \in Names
  <2>1. f \in Files[stack[1].pkg] /\ stack[1].pc \in InstallPcs \ {"prepare"} /\ 1 \in 1..Len(stack)
    BY <1>1, <1>2 DEF InstallPcs
  <2>2. owner[f] \in Pkgs
    BY <2>1 DEF Types, Prepared
  <2>. QED  BY <2>2, Constants
<1>4. faults' \in 0..MaxFaults
  BY <1>1, Constants DEF Types, HistTypes
<1>5. litter' \subseteq File
  <2>1. Files[Top.pkg] \subseteq File
    BY <1>2, Constants
  <2>. QED  BY <2>1 DEF Extract, Types, HistTypes
<1>6. HistTypes'
  BY <1>1, <1>3, <1>4, <1>5 DEF Types, HistTypes
<1>7. DiskTypes'
  BY <1>1, <1>2 DEF Types, DiskTypes, Content
<1>. QED  BY <1>1, <1>6, <1>7, ExtractMoves DEF Types, OwnerTypes, memory

LEMMA ListTypes == ASSUME Types, pkg_write_filelist PROVE Types'
<1>1. /\ pc = "pkg" /\ Top.pc = "list" /\ Goto("resolve") /\ changed' = changed \ {Top.pkg}
      /\ list' = [list EXCEPT ![Name[Top.pkg]] = {f \in File : owner[f] = Top.pkg}]
      /\ UNCHANGED <<files, backup, db, feed, mem, owner, obs, dirty, pc, history>>
  BY DEF pkg_write_filelist, At
<1>2. CallTypes' /\ Nested' /\ Prepared'
  BY <1>1, GoesOn DEF InstallPcs
<1>3. DiskTypes'
  BY <1>1 DEF Types, DiskTypes, history
<1>. QED  BY <1>1, <1>2, <1>3 DEF Types, OwnerTypes, HistTypes, history

LEMMA ResolveMem ==
  ASSUME Types, NEW kept, resolve_conffiles(kept)
  PROVE  /\ mem' \in Sums /\ mem'.st = mem.st
         /\ mem'.sum = [mem.sum EXCEPT ![Top.pkg] =
                          [f \in NewConf |-> IF mem.sum[Top.pkg][f] = "null" THEN md5sum(files[f])
                                             ELSE mem.sum[Top.pkg][f]]]
<1>1. pc = "pkg"
  BY DEF resolve_conffiles, At
<1>2. Top.pkg \in Pkgs
  BY <1>1, TopFacts
<1>3. /\ mem.st \in State /\ mem.sum \in [Pkgs -> SumMap]
      /\ mem.auto \subseteq Pkgs /\ mem.want \subseteq Pkgs
      /\ mem = [st |-> mem.st, sum |-> mem.sum, auto |-> mem.auto, want |-> mem.want]
  BY MemFacts
<1>4. PICK v : v = [f \in NewConf |-> IF mem.sum[Top.pkg][f] = "null" THEN md5sum(files[f])
                                      ELSE mem.sum[Top.pkg][f]]
  OBVIOUS
<1>5. v \in SumMap
  <2>1. NewConf \subseteq ConfFile /\ \A f \in NewConf : mem.sum[Top.pkg][f] \in SumValue
    BY <1>2, SumsFacts DEF Types, NewConf
  <2>2. \A f \in NewConf : md5sum(files[f]) \in SumValue
    BY <2>1, Constants DEF Types, DiskTypes, md5sum, SumValue
  <2>3. v \in [NewConf -> SumValue]
    BY <1>4, <2>1, <2>2
  <2>. QED  BY <2>1, <2>3, SumMapOf
<1>6. PICK c : c = [mem.sum EXCEPT ![Top.pkg] = v]
  OBVIOUS
<1>7. c \in [Pkgs -> SumMap]
  BY <1>3, <1>5, <1>6
<1>8. mem' = [mem EXCEPT !.sum[Top.pkg] = v]
  BY <1>4 DEF resolve_conffiles
<1>9. Has(mem', mem.st, c, mem.auto, mem.want)
  BY <1>3, <1>6, <1>8 DEF Has
<1>10. mem' \in Sums /\ mem'.st = mem.st /\ mem'.sum = c
  BY <1>3, <1>7, <1>9, HasFacts
<1>. QED  BY <1>4, <1>6, <1>10

LEMMA ResolveTypes == ASSUME Types, NEW kept, resolve_conffiles(kept) PROVE Types'
<1>1. /\ pc = "pkg" /\ Top.pc = "resolve" /\ Goto("finish")
      /\ files' = [f \in File |-> IF f \in kept THEN backup[f] ELSE files[f]]
      /\ torn' = IF "partial" \in Top.marks THEN torn \cup Conf[Top.pkg] ELSE torn
      /\ UNCHANGED <<list, db, feed, owner, obs, changed, dirty, pc, cmds, faults, touched, abandoned,
                     spoiled, litter, tried>>
  BY DEF resolve_conffiles, At
<1>2. CallTypes' /\ Nested' /\ Prepared'
  BY <1>1, GoesOn DEF InstallPcs
<1>3. DiskTypes'
  <2>1. PICK here, gone : /\ backup' = [f \in File |-> IF f \in here THEN None ELSE backup[f]]
                          /\ edits' = [f \in ConfFile |-> IF f \in gone THEN None ELSE edits[f]]
    BY DEF resolve_conffiles
  <2>2. backup' \in [File -> Content] /\ edits' \in [ConfFile -> Edits \cup {None}]
    BY <2>1 DEF Types, DiskTypes, Content
  <2>. QED  BY <1>1, <2>2 DEF Types, DiskTypes
<1>4. HistTypes'
  <2>1. Conf[Top.pkg] \subseteq ConfFile
    BY <1>1, TopFacts, Constants
  <2>. QED  BY <1>1, <2>1 DEF Types, HistTypes
<1>. QED  BY <1>1, <1>2, <1>3, <1>4, ResolveMem DEF Types, OwnerTypes

LEMMA FinishMem ==
  ASSUME Types, Finish
  PROVE  /\ mem' \in Sums /\ mem'.sum = mem.sum
         /\ mem'.st = [p \in Pkgs |-> IF p = Top.pkg THEN "unpacked" ELSE IF p = Top.old THEN "not" ELSE mem.st[p]]
<1>1. pc = "pkg"
  BY DEF Finish, At
<1>2. Top.pkg \in Pkgs /\ Top.pkg # Top.old
  BY <1>1, TopFacts
<1>3. /\ mem.st \in State /\ mem.sum \in [Pkgs -> SumMap]
      /\ mem.auto \subseteq Pkgs /\ mem.want \subseteq Pkgs
      /\ mem = [st |-> mem.st, sum |-> mem.sum, auto |-> mem.auto, want |-> mem.want]
  BY MemFacts
<1>4. PICK s, a : /\ s = [p \in Pkgs |-> CASE p = Top.pkg -> "unpacked" [] p = Top.old -> "not" [] OTHER -> mem.st[p]]
                  /\ a = IF Len(stack) > 1 THEN mem.auto \cup {Top.pkg} ELSE mem.auto
  OBVIOUS
<1>5. s = [p \in Pkgs |-> IF p = Top.pkg THEN "unpacked" ELSE IF p = Top.old THEN "not" ELSE mem.st[p]]
  <2>1. \A p \in Pkgs : (CASE p = Top.pkg -> "unpacked" [] p = Top.old -> "not" [] OTHER -> mem.st[p])
           = IF p = Top.pkg THEN "unpacked" ELSE IF p = Top.old THEN "not" ELSE mem.st[p]
    BY <1>2
  <2>. QED  BY <1>4, <2>1
<1>6. s \in State /\ a \subseteq Pkgs
  BY <1>2, <1>3, <1>4, <1>5 DEF State
<1>7. mem' = [mem EXCEPT !.st = s, !.auto = a]
  BY <1>4 DEF Finish
<1>8. Has(mem', s, mem.sum, a, mem.want)
  BY <1>3, <1>7 DEF Has
<1>9. mem' \in Sums /\ mem'.sum = mem.sum /\ mem'.st = s
  BY <1>3, <1>6, <1>8, HasFacts
<1>. QED  BY <1>5, <1>9

(* The call at the top ends and the one that waits for it, if any, goes on. *)
LEMMA Pops ==
  ASSUME Types, pc = "pkg", stack' = Tail(stack), pc' = (IF Len(stack) = 1 THEN "configure" ELSE "pkg"),
         owner' = owner
  PROVE  CallTypes' /\ Nested' /\ Prepared'
<1>1. stack # <<>> /\ stack \in Seq(Call) /\ Len(stack) \in {1, 2}
  BY TopFacts
<1>2. /\ stack' \in Seq(Call) /\ Len(stack') = Len(stack) - 1
      /\ \A i \in 1..Len(stack') : stack'[i] = stack[i + 1]
  BY <1>1, TailFacts
<1>3. Len(stack') \in {0, 1} /\ (Len(stack') = 0 <=> Len(stack) = 1)
  BY <1>1, <1>2
<1>4. stack' = <<>> <=> Len(stack') = 0
  BY <1>2, EmptySeq
<1>5. CallTypes' /\ Nested'
  BY <1>1, <1>2, <1>3, <1>4 DEF CallTypes, Nested
<1>6. ASSUME NEW i \in 1..Len(stack'), stack'[i].pc \in InstallPcs \ {"prepare"}, NEW f \in Files[stack'[i].pkg]
      PROVE  owner[f] \in Pkgs
  <2>1. i + 1 \in 1..Len(stack)
    BY <1>1, <1>2
  <2>2. stack'[i] = stack[i + 1]
    BY <1>2
  <2>. QED  BY <1>6, <2>1, <2>2 DEF Types, Prepared
<1>. QED  BY <1>5, <1>6 DEF Prepared

LEMMA FinishTypes == ASSUME Types, Finish PROVE Types'
<1>1. /\ pc = "pkg" /\ stack' = Tail(stack) /\ pc' = (IF Len(stack) = 1 THEN "configure" ELSE "pkg")
      /\ spoiled' = {s \in spoiled : s[1] # Name[Top.pkg]} \cup ({Name[Top.pkg]} \X Top.marks)
      /\ UNCHANGED <<disk, db, feed, owner, obs, changed, dirty, edits, cmds, faults, touched, abandoned,
                     torn, litter, tried>>
  BY DEF Finish, At
<1>2. CallTypes' /\ Nested' /\ Prepared'
  BY <1>1, Pops
<1>3. HistTypes'
  <2>1. Name[Top.pkg] \in Names /\ Top.marks \subseteq Mishaps
    BY <1>1, TopFacts, Constants
  <2>2. spoiled' \subseteq Names \X Mishaps
    BY <1>1, <2>1 DEF Types, HistTypes
  <2>. QED  BY <1>1, <2>2 DEF Types, HistTypes
<1>4. DiskTypes' /\ OwnerTypes' /\ db' \in Sums
  BY <1>1 DEF Types, DiskTypes, OwnerTypes, disk
<1>. QED  BY <1>2, <1>3, <1>4, FinishMem DEF Types

LEMMA RemoveTypes ==
  ASSUME Types, NEW n \in Names, opkg_remove_cmd(n) PROVE Types' /\ mem'.st = mem.st /\ mem'.sum = mem.sum
<1>1. /\ pc = "idle" /\ cmds < MaxCmds /\ cmds' = cmds + 1 /\ pc' = "pkg" /\ dirty' = TRUE
      /\ UNCHANGED <<disk, db, feed, owner, obs, edits, faults, touched, abandoned, torn, spoiled, litter, tried>>
  BY DEF opkg_remove_cmd
<1>2. PICK p : p = fetch_installed_by_name(n)
  OBVIOUS
<1>3. /\ p # None /\ changed' = changed \cup {p}
      /\ stack' = <<[pkg |-> p, old |-> None, pc |-> "rm_files", marks |-> {}]>>
      /\ mem' = [mem EXCEPT !.want = @ \ {p}]
  BY <1>2 DEF opkg_remove_cmd
<1>4. p \in Pkgs
  BY <1>2, <1>3, FetchFacts
<1>5. PICK x : x = [pkg |-> p, old |-> None, pc |-> "rm_files", marks |-> {}]
  OBVIOUS
<1>6. x \in Call /\ x.pc \in {"prepare"} \cup RemovePcs
  BY <1>3, <1>4, <1>5 DEF Call, CallRecord, RemovePcs
<1>7. CallTypes' /\ Nested' /\ Prepared'
  BY <1>1, <1>3, <1>5, <1>6, BeginFacts
<1>8. mem' \in Sums /\ mem'.st = mem.st /\ mem'.sum = mem.sum
  <2>1. /\ mem.st \in State /\ mem.sum \in [Pkgs -> SumMap]
        /\ mem.auto \subseteq Pkgs /\ mem.want \subseteq Pkgs
        /\ mem = [st |-> mem.st, sum |-> mem.sum, auto |-> mem.auto, want |-> mem.want]
    BY MemFacts
  <2>2. PICK w : w = mem.want \ {p}
    OBVIOUS
  <2>3. w \subseteq Pkgs
    BY <2>1, <2>2
  <2>4. Has(mem', mem.st, mem.sum, mem.auto, w)
    BY <1>3, <2>1, <2>2 DEF Has
  <2>. QED  BY <2>1, <2>3, <2>4, HasFacts
<1>9. HistTypes'
  <2>1. cmds' \in 0..MaxCmds
    BY <1>1, Constants DEF Types, HistTypes
  <2>. QED  BY <1>1, <2>1 DEF Types, HistTypes
<1>10. DiskTypes' /\ OwnerTypes' /\ db' \in Sums
  BY <1>1, <1>3, <1>4 DEF Types, DiskTypes, OwnerTypes, disk
<1>. QED  BY <1>7, <1>8, <1>9, <1>10 DEF Types

LEMMA RemoveFilesTypes == ASSUME Types, remove_data_files PROVE Types'
<1>1. /\ pc = "pkg" /\ Top.pc = "rm_files" /\ Goto("rm_list") /\ touched' = touched \cup {Name[Top.pkg]}
      /\ UNCHANGED <<backup, list, db, feed, memory, pc, edits, cmds, faults, abandoned, torn, spoiled, litter, tried>>
  BY DEF remove_data_files, At
<1>2. owner' = owner /\ pc' = pc
  BY <1>1 DEF memory
<1>3. CallTypes' /\ Nested' /\ Prepared'
  BY <1>1, <1>2, GoesOn DEF InstallPcs, RemovePcs
<1>4. DiskTypes'
  <2>1. PICK S : files' = [f \in File |-> IF f \in S THEN None ELSE files[f]]
    BY DEF remove_data_files
  <2>2. files' \in [File -> Content]
    BY <2>1 DEF Types, DiskTypes, Content
  <2>. QED  BY <1>1, <2>2 DEF Types, DiskTypes
<1>5. HistTypes'
  <2>1. Name[Top.pkg] \in Names
    BY <1>1, TopFacts, Constants
  <2>. QED  BY <1>1, <2>1 DEF Types, HistTypes
<1>. QED  BY <1>1, <1>3, <1>4, <1>5 DEF Types, OwnerTypes, memory

LEMMA RemoveListTypes == ASSUME Types, remove_list PROVE Types'
<1>1. /\ pc = "pkg" /\ Top.pc = "rm_list" /\ Goto("rm_done") /\ UNCHANGED <<files, backup, db, feed, memory, pc, history>>
      /\ list' = [list EXCEPT ![Name[Top.pkg]] = {}]
  BY DEF remove_list, At
<1>2. owner' = owner /\ pc' = pc
  BY <1>1 DEF memory
<1>3. CallTypes' /\ Nested' /\ Prepared'
  BY <1>1, <1>2, GoesOn DEF InstallPcs, RemovePcs
<1>4. DiskTypes'
  BY <1>1 DEF Types, DiskTypes, history
<1>. QED  BY <1>1, <1>3, <1>4 DEF Types, OwnerTypes, HistTypes, memory, history

LEMMA RemovedTypes ==
  ASSUME Types, Removed PROVE Types' /\ mem'.st = [mem.st EXCEPT ![Top.pkg] = "not"] /\ mem'.sum = mem.sum
<1>1. /\ pc = "pkg" /\ stack' = <<>> /\ pc' = "status" /\ mem' = [mem EXCEPT !.st[Top.pkg] = "not"]
      /\ UNCHANGED <<disk, db, feed, owner, obs, changed, dirty, history>>
  BY DEF Removed, At
<1>2. CallTypes' /\ Nested' /\ Prepared'
  BY <1>1, ClearFacts
<1>3. mem' \in Sums /\ mem'.st = [mem.st EXCEPT ![Top.pkg] = "not"] /\ mem'.sum = mem.sum
  <2>1. /\ mem.st \in State /\ mem.sum \in [Pkgs -> SumMap]
        /\ mem.auto \subseteq Pkgs /\ mem.want \subseteq Pkgs
        /\ mem = [st |-> mem.st, sum |-> mem.sum, auto |-> mem.auto, want |-> mem.want]
    BY MemFacts
  <2>2. PICK s : s = [mem.st EXCEPT ![Top.pkg] = "not"]
    OBVIOUS
  <2>3. s \in State
    BY <2>1, <2>2 DEF State
  <2>4. Has(mem', s, mem.sum, mem.auto, mem.want)
    BY <1>1, <2>1, <2>2 DEF Has
  <2>5. mem' \in Sums /\ mem'.st = s /\ mem'.sum = mem.sum
    BY <2>1, <2>3, <2>4, HasFacts
  <2>. QED  BY <2>2, <2>5
<1>. QED  BY <1>1, <1>2, <1>3 DEF Types, DiskTypes, OwnerTypes, HistTypes, disk, history

LEMMA ConfigureMem ==
  ASSUME Types, NEW ok \in BOOLEAN, opkg_configure(ok)
  PROVE  /\ mem' \in Sums /\ mem'.sum = mem.sum /\ tried' \in Seq(Pkgs)
         /\ \E p \in Pkgs : /\ mem.st[p] = "unpacked"
                             /\ mem'.st \in {mem.st, [mem.st EXCEPT ![p] = "installed"]}
<1>1. Untried # {} /\ Untried \subseteq 1..Len(Order)
  BY DEF opkg_configure, Untried
<1>2. PICK i : i = CHOOSE k \in Untried : \A j \in Untried : k <= j
  OBVIOUS
<1>3. i \in Untried
  <2>1. Untried \subseteq Nat
    BY <1>1, OrderFacts
  <2>2. \E k \in Untried : \A j \in Untried : k <= j
    BY <1>1, <2>1, Least
  <2>. QED  BY <1>2, <2>2
<1>4. PICK p : p = Order[i]
  OBVIOUS
<1>5. p \in Pkgs /\ mem.st[p] = "unpacked"
  BY <1>1, <1>3, <1>4, OrderFacts DEF Untried
<1>6. tried' = Append(tried, p) /\ mem' = IF ok THEN [mem EXCEPT !.st[p] = "installed"] ELSE mem
  BY <1>2, <1>4 DEF opkg_configure
<1>7. tried' \in Seq(Pkgs)
  <2>1. tried \in Seq(Pkgs)
    BY DEF Types, HistTypes
  <2>. QED  BY <1>5, <1>6, <2>1, AppendProperties
<1>8. /\ mem \in Sums /\ mem.st \in State /\ mem.sum \in [Pkgs -> SumMap]
      /\ mem.auto \subseteq Pkgs /\ mem.want \subseteq Pkgs
      /\ mem = [st |-> mem.st, sum |-> mem.sum, auto |-> mem.auto, want |-> mem.want]
  BY MemFacts
<1>9. mem' \in Sums /\ mem'.sum = mem.sum /\ mem'.st \in {mem.st, [mem.st EXCEPT ![p] = "installed"]}
  <2>1. CASE ok
    <3>1. PICK s : s = [mem.st EXCEPT ![p] = "installed"]
      OBVIOUS
    <3>2. s \in State
      BY <1>8, <3>1 DEF State
    <3>3. mem' = [mem EXCEPT !.st[p] = "installed"]
      BY <1>6, <2>1
    <3>4. Has(mem', s, mem.sum, mem.auto, mem.want)
      BY <1>8, <3>1, <3>3 DEF Has
    <3>5. mem' \in Sums /\ mem'.sum = mem.sum /\ mem'.st = s
      BY <1>8, <3>2, <3>4, HasFacts
    <3>. QED  BY <3>1, <3>5
  <2>2. CASE ~ok
    BY <1>6, <1>8, <2>2
  <2>. QED  BY <2>1, <2>2
<1>. QED  BY <1>5, <1>7, <1>9

LEMMA ConfigureTypes == ASSUME Types, NEW ok \in BOOLEAN, opkg_configure(ok) PROVE Types'
<1>1. /\ dirty' = (dirty \/ ok)
      /\ UNCHANGED <<disk, db, feed, owner, obs, changed, pc, stack, edits, cmds, faults, touched, abandoned,
                     torn, spoiled, litter>>
  BY DEF opkg_configure
<1>2. mem' \in Sums /\ tried' \in Seq(Pkgs)
  BY ConfigureMem
<1>3. HistTypes'
  BY <1>1, <1>2 DEF Types, HistTypes
<1>. QED  BY <1>1, <1>2, <1>3 DEF Types, DiskTypes, OwnerTypes, CallTypes, Nested, Prepared, disk

LEMMA ConfigureDoneTypes == ASSUME Types, ConfigureDone PROVE Types'
BY DEF Types, DiskTypes, OwnerTypes, CallTypes, HistTypes, Nested, Prepared, ConfigureDone, disk, memory, history

LEMMA PersistentFacts ==
  ASSUME NEW m \in Sums, NEW n, n = Persistent(m) PROVE n \in Sums /\ n.st = m.st
<1>. DEFINE printed == {p \in Pkgs : m.st[p] # "not" \/ p \in m.want}
            Known5(p) == {f \in DOMAIN m.sum[p] : m.sum[p][f] \notin {"", "null"}}
            c == [p \in Pkgs |-> IF p \in printed THEN [f \in Known5(p) |-> m.sum[p][f]] ELSE NoSums]
            a == m.auto \cap printed
<1>1. /\ m.st \in State /\ m.auto \subseteq Pkgs /\ m.want \subseteq Pkgs
      /\ \A p \in Pkgs : DOMAIN m.sum[p] \subseteq ConfFile /\ \A f \in DOMAIN m.sum[p] : m.sum[p][f] \in SumValue
  BY SumsFacts
<1>2. c \in [Pkgs -> SumMap]
  <2>1. ASSUME NEW p \in Pkgs PROVE [f \in Known5(p) |-> m.sum[p][f]] \in SumMap
    <3>1. Known5(p) \subseteq ConfFile /\ [f \in Known5(p) |-> m.sum[p][f]] \in [Known5(p) -> SumValue]
      BY <1>1
    <3>. HIDE DEF Known5
    <3>. QED  BY <3>1, SumMapOf
  <2>2. NoSums \in SumMap
    BY EmptyTypes
  <2>. HIDE DEF Known5, printed
  <2>. QED  BY <2>1, <2>2
<1>3. n = [m EXCEPT !.auto = a, !.sum = c]
  BY DEF Persistent
<1>4. a \subseteq Pkgs
  BY <1>1
<1>. HIDE DEF c, a
<1>5. m = [st |-> m.st, sum |-> m.sum, auto |-> m.auto, want |-> m.want]
  BY SumsIs
<1>6. Has(n, m.st, c, a, m.want)
  BY <1>3, <1>5 DEF Has
<1>. QED  BY <1>1, <1>2, <1>4, <1>6, HasFacts

LEMMA StatusTypes == ASSUME Types, write_status_files PROVE Types' /\ db'.st = mem.st
<1>1. /\ pc = "status" /\ db' = Persistent(mem) /\ touched' = {} /\ pc' = "lists"
      /\ spoiled' = spoiled \cup (abandoned \X {"abandoned"})
      /\ UNCHANGED <<disk, feed, memory, stack, edits, cmds, faults, abandoned, torn, tried>>
  BY DEF write_status_files
<1>2. db' \in Sums /\ db'.st = mem.st
  BY <1>1, PersistentFacts DEF Types
<1>3. spoiled' \subseteq Names \X Mishaps
  BY <1>1 DEF Types, HistTypes, Mishaps
<1>4. litter' \subseteq File
  BY DEF write_status_files, Types, HistTypes, DiskTypes
<1>5. HistTypes'
  BY <1>1, <1>3, <1>4 DEF Types, HistTypes
<1>. QED  BY <1>1, <1>2, <1>5 DEF Types, DiskTypes, OwnerTypes, CallTypes, Nested, Prepared, disk, memory

LEMMA NothingTypes == ASSUME Types, nothing_to_be_done PROVE Types'
<1>1. /\ pc = "status" /\ preinstall_check(db, list) /\ pc' = "idle" /\ touched' = {} /\ abandoned' = {}
      /\ tried' = <<>> /\ UNCHANGED <<disk, db, feed, stack, edits, cmds, faults, torn, spoiled, litter>>
  BY DEF nothing_to_be_done
<1>2. mem' \in Sums /\ dirty' = FALSE /\ owner' \in [File -> Pkgs \cup {None}] /\ obs' \subseteq File
      /\ changed' \subseteq Pkgs
  BY <1>1, CheckTypes DEF Types
<1>3. stack' = <<>>
  BY <1>1 DEF Types, CallTypes
<1>4. CallTypes' /\ Nested' /\ Prepared'
  BY <1>1, <1>3, ClearFacts
<1>5. tried' \in Seq(Pkgs)
  BY <1>1, EmptySeq
<1>6. HistTypes'
  BY <1>1, <1>5 DEF Types, HistTypes
<1>. QED  BY <1>1, <1>2, <1>4, <1>6 DEF Types, DiskTypes, OwnerTypes, disk

LEMMA ChangedTypes == ASSUME Types, pkg_write_changed_filelists PROVE Types'
<1>1. /\ pc = "lists" /\ preinstall_check(db, list') /\ pc' = "idle" /\ touched' = {} /\ abandoned' = {}
      /\ tried' = <<>> /\ UNCHANGED <<files, backup, db, feed, stack, edits, cmds, faults, torn, spoiled, litter>>
  BY DEF pkg_write_changed_filelists
<1>2. mem' \in Sums /\ dirty' = FALSE /\ owner' \in [File -> Pkgs \cup {None}] /\ obs' \subseteq File
      /\ changed' \subseteq Pkgs
  BY <1>1, CheckTypes DEF Types
<1>3. stack' = <<>>
  BY <1>1 DEF Types, CallTypes
<1>4. CallTypes' /\ Nested' /\ Prepared'
  BY <1>1, <1>3, ClearFacts
<1>5. tried' \in Seq(Pkgs)
  BY <1>1, EmptySeq
<1>6. HistTypes'
  BY <1>1, <1>5 DEF Types, HistTypes
<1>7. list' \in [Names -> SUBSET File]
  BY DEF pkg_write_changed_filelists, Types, DiskTypes
<1>. QED  BY <1>1, <1>2, <1>4, <1>6, <1>7 DEF Types, DiskTypes, OwnerTypes

LEMMA SigintTypes == ASSUME Types, sigint_handler PROVE Types'
<1>1. /\ pc' = "status" /\ stack' = <<>> /\ abandoned' = abandoned \cup GivenUp(Range(stack))
      /\ spoiled' = spoiled \cup {<<Name[fr.pkg], "interrupted">> :
                                   fr \in {g \in Range(stack) : g.pc \in {"rm_list", "rm_done"}}}
      /\ UNCHANGED <<disk, db, feed, memory, edits, cmds, faults, touched, torn, litter, tried>>
  BY DEF sigint_handler
<1>2. CallTypes' /\ Nested' /\ Prepared'
  BY <1>1, ClearFacts
<1>3. abandoned' \subseteq Names
  BY <1>1, GivenUpFacts DEF Types, HistTypes
<1>4. ASSUME NEW fr \in Range(stack) PROVE Name[fr.pkg] \in Names
  <2>1. PICK i \in DOMAIN stack : fr = stack[i]
    BY DEF Range
  <2>2. stack \in Seq(Call)
    BY DEF Types, CallTypes
  <2>3. i \in 1..Len(stack)
    BY <2>1, <2>2, LenProperties
  <2>4. fr \in Call
    BY <2>1, <2>2, <2>3, ElementOfSeq
  <2>5. fr.pkg \in Pkgs
    BY <2>4 DEF Call, CallRecord
  <2>. QED  BY <2>5, Constants
<1>5. spoiled' \subseteq Names \X Mishaps
  BY <1>1, <1>4 DEF Types, HistTypes, Mishaps
<1>6. HistTypes'
  BY <1>1, <1>3, <1>5 DEF Types, HistTypes
<1>. QED  BY <1>1, <1>2, <1>6 DEF Types, DiskTypes, OwnerTypes, disk, memory

LEMMA CrashTypes == ASSUME Types, Crash PROVE Types'
<1>1. /\ faults < MaxFaults /\ faults' = faults + 1 /\ pc' = "idle" /\ stack' = <<>>
      /\ preinstall_check(db, list) /\ litter' \subseteq litter \cup File
      /\ spoiled' = spoiled \cup ((touched \cup {Name[p] : p \in changed'}) \X {"crash"})
      /\ touched' = {} /\ abandoned' = {} /\ tried' = <<>> /\ UNCHANGED <<disk, db, feed, edits, cmds>>
  BY DEF Crash
<1>2. mem' \in Sums /\ dirty' = FALSE /\ owner' \in [File -> Pkgs \cup {None}] /\ obs' \subseteq File
      /\ changed' \subseteq Pkgs
  BY <1>1, CheckTypes DEF Types
<1>3. CallTypes' /\ Nested' /\ Prepared'
  BY <1>1, ClearFacts
<1>4. tried' \in Seq(Pkgs)
  BY <1>1, EmptySeq
<1>5. torn' \subseteq ConfFile
  BY DEF Crash, Types, HistTypes
<1>6. faults' \in 0..MaxFaults
  BY <1>1, Constants DEF Types, HistTypes
<1>7. spoiled' \subseteq Names \X Mishaps
  BY <1>1, <1>2, Constants DEF Types, HistTypes, Mishaps
<1>8. HistTypes'
  BY <1>1, <1>4, <1>5, <1>6, <1>7 DEF Types, HistTypes
<1>. QED  BY <1>1, <1>2, <1>3, <1>8 DEF Types, DiskTypes, OwnerTypes, disk

LEMMA NextTypes == Types /\ [Next]_vars => Types'
<1>. SUFFICES ASSUME Types, [Next]_vars PROVE Types'
  OBVIOUS
<1>1. CASE UNCHANGED vars
  BY <1>1 DEF Types, DiskTypes, OwnerTypes, CallTypes, HistTypes, Nested, Prepared, vars
<1>2. CASE \E f \in ConfFile, e \in Edits : Edit(f, e)
  BY <1>2, EditTypes
<1>3. CASE opkg_update
  BY <1>3, UpdateTypes
<1>4. CASE \E n \in Names : opkg_install_cmd(n) \/ opkg_remove_cmd(n)
  BY <1>4, InstallTypes, RemoveTypes
<1>5. CASE Prepare \/ PrepareFails \/ satisfy_dependencies_for \/ Enter
  BY <1>5, PrepareTypes, PrepareFailsTypes, SatisfyTypes, EnterTypes
<1>6. CASE preinst_configure \/ backup_modified_conffiles \/ check_data_file_clashes
  BY <1>6, PreinstTypes, BackupTypes, ClashesTypes
<1>7. CASE preinst_fails \/ backup_fails \/ clash_found
  <2>1. pc = "pkg" /\ \E S \in {{}, OldConf \cup NewConf} : Unwind(S)
    BY <1>7 DEF preinst_fails, backup_fails, clash_found, At
  <2>2. {} \subseteq ConfFile /\ OldConf \cup NewConf \subseteq ConfFile
    BY <2>1, ConfFacts
  <2>. QED  BY <2>1, <2>2, UnwindTypes
<1>8. CASE remove_old_files \/ remove_old_list \/ pkg_write_filelist \/ Finish
  BY <1>8, EraseTypes, UnlistTypes, ListTypes, FinishTypes
<1>9. CASE \E S \in SUBSET Files[Top.pkg] : Extract(S)
  BY <1>9, ExtractTypes
<1>10. CASE \E kept \in SUBSET ConfFile : resolve_conffiles(kept)
  BY <1>10, ResolveTypes
<1>11. CASE remove_data_files \/ remove_list \/ Removed
  BY <1>11, RemoveFilesTypes, RemoveListTypes, RemovedTypes
<1>12. CASE \E ok \in BOOLEAN : opkg_configure(ok)
  BY <1>12, ConfigureTypes
<1>13. CASE ConfigureDone \/ write_status_files \/ nothing_to_be_done \/ pkg_write_changed_filelists
  BY <1>13, ConfigureDoneTypes, StatusTypes, NothingTypes, ChangedTypes
<1>14. CASE sigint_handler \/ Crash
  BY <1>14, SigintTypes, CrashTypes
<1>. QED  BY <1>1, <1>2, <1>3, <1>4, <1>5, <1>6, <1>7, <1>8, <1>9, <1>10, <1>11, <1>12, <1>13, <1>14 DEF Next

LEMMA AlwaysTypes == Spec => []Types
BY InitTypes, NextTypes, PTL DEF Spec

LEMMA TypesImply == Types => TypeOK
<1>. SUFFICES ASSUME Types PROVE TypeOK
  OBVIOUS
<1>1. \A fr \in Range(stack) : fr.pkg \in Pkgs /\ fr.old \in Pkgs \cup {None} /\ fr.marks \subseteq Mishaps
  <2>1. stack \in Seq(Call)
    BY DEF Types, CallTypes
  <2>2. DOMAIN stack = 1..Len(stack)
    BY <2>1, LenProperties
  <2>3. \A i \in 1..Len(stack) : stack[i] \in Call
    BY <2>1, ElementOfSeq
  <2>. QED  BY <2>2, <2>3 DEF Range, Call, CallRecord
<1>. QED  BY <1>1 DEF Types, DiskTypes, OwnerTypes, CallTypes, HistTypes, TypeOK

(* Every variable has its type in every reachable state, and the calls of        *)
(* opkg_install_pkg under way are never nested more than twice, whatever the     *)
(* packages, the failures and the crashes.                                       *)
THEOREM PackagesTyped == Spec => []TypeOK
BY AlwaysTypes, TypesImply, PTL

-----------------------------------------------------------------------------
(* One version.  While a package is being installed no other version of it is  *)
(* installed but the one the call took for the old one when it began: nothing  *)
(* that happens during the call, the installation of a dependency included,    *)
(* installs another.                                                           *)

Single(st) ==
  \A p, q \in Pkgs : Name[p] = Name[q] /\ st[p] # "not" /\ st[q] # "not" => p = q
Old(x, st) == \A q \in Pkgs : Name[q] = Name[x.pkg] /\ st[q] # "not" => q = x.old
Olds == \A i \in 1..Len(stack) : stack[i].pc \in InstallPcs => Old(stack[i], mem.st)

Versions == Types /\ Single(mem.st) /\ Single(db.st) /\ Olds

(* Nothing is installed in s that is not in t. *)
Fewer(s, t) == \A p \in Pkgs : s[p] # "not" => t[p] # "not"

LEMMA FewerFacts ==
  ASSUME NEW s, NEW t, Fewer(s, t)
  PROVE  /\ Single(t) => Single(s)
         /\ \A x : Old(x, t) => Old(x, s)
BY DEF Fewer, Single, Old

LEMMA InstalledIs ==
  ASSUME NEW m \in Sums, NEW p \in Pkgs PROVE Installed(p, m) <=> m.st[p] # "not"
<1>1. m.st \in State
  BY SumsFacts
<1>. QED  BY <1>1 DEF Installed, State

LEMMA InitVersions == Init => Versions
<1>. SUFFICES ASSUME Init PROVE Versions
  OBVIOUS
<1>1. Single(mem.st) /\ Single(db.st)
  BY DEF Init, Empty, Single
<1>2. Len(stack) = 0
  BY DEF Init
<1>. QED  BY <1>1, <1>2, InitTypes DEF Versions, Olds

(* Steps that install nothing and begin no call. *)
Quiet ==
  /\ Types /\ Types' /\ Fewer(mem'.st, mem.st) /\ Fewer(db'.st, db.st)
  /\ \/ stack' = stack \/ stack' = <<>> \/ \E x : Moves(x)

LEMMA QuietVersions == ASSUME Versions, Quiet PROVE Versions'
<1>1. Single(mem.st)' /\ Single(db.st)'
  BY FewerFacts DEF Versions, Quiet
<1>2. Olds'
  <2>1. CASE stack' = <<>>
    <3>1. Len(stack') = 0
      BY <2>1
    <3>. QED  BY <3>1 DEF Olds
  <2>2. CASE stack' = stack
    BY <2>2, FewerFacts DEF Versions, Quiet, Olds
  <2>3. ASSUME NEW x, Moves(x) PROVE Olds'
    <3>1. /\ Len(stack') = Len(stack) /\ stack'[1] = x /\ \A i \in 2..Len(stack) : stack'[i] = stack[i]
      BY <2>3, MoveFacts DEF Quiet
    <3>2. Top = stack[1] /\ Len(stack) \in {1, 2}
      BY <2>3, TopFacts DEF Quiet, Moves
    <3>3. ASSUME NEW i \in 1..Len(stack'), stack'[i].pc \in InstallPcs
          PROVE  stack[i].pc \in InstallPcs /\ stack'[i].pkg = stack[i].pkg /\ stack'[i].old = stack[i].old
      <4>1. CASE i = 1
        BY <2>3, <3>1, <3>2, <3>3, <4>1 DEF Moves
      <4>2. CASE i # 1
        <5>1. i \in 2..Len(stack)
          BY <3>1, <3>2, <4>2
        <5>. QED  BY <3>1, <3>3, <5>1
      <4>. QED  BY <4>1, <4>2
    <3>4. ASSUME NEW i \in 1..Len(stack'), stack'[i].pc \in InstallPcs PROVE Old(stack'[i], mem'.st)
      <4>1. Old(stack[i], mem.st)
        BY <3>1, <3>3, <3>4 DEF Versions, Olds
      <4>2. Old(stack[i], mem'.st)
        BY <4>1, FewerFacts DEF Quiet
      <4>3. stack'[i].pkg = stack[i].pkg /\ stack'[i].old = stack[i].old
        BY <3>3, <3>4
      <4>. QED  BY <4>2, <4>3 DEF Old
    <3>. QED  BY <3>4 DEF Olds
  <2>. QED  BY <2>1, <2>2, <2>3 DEF Quiet
<1>. QED  BY <1>1, <1>2 DEF Versions, Quiet

(* A call begins with the installed version, if there is one, as its old one. *)
LEMMA FrameOld ==
  ASSUME Types, Single(mem.st), NEW p \in Pkgs, NEW x, x.pkg = p, x.old = fetch_installed_by_name(Name[p])
  PROVE  Old(x, mem.st)
<1>1. mem \in Sums
  BY DEF Types
<1>2. PICK o : o = fetch_installed_by_name(Name[p])
  OBVIOUS
<1>3. /\ o # None => o \in Pkgs /\ Name[o] = Name[p] /\ Installed(o, mem)
      /\ o = None => ~\E q \in Pkgs : Name[q] = Name[p] /\ Installed(q, mem)
  BY <1>2, FetchFacts
<1>4. \A q \in Pkgs : Installed(q, mem) <=> mem.st[q] # "not"
  BY <1>1, InstalledIs
<1>5. \A q \in Pkgs : Name[q] = Name[p] /\ mem.st[q] # "not" => q = o
  BY <1>3, <1>4 DEF Single
<1>. QED  BY <1>2, <1>5 DEF Old

LEMMA SameState ==
  ASSUME NEW s, NEW t, s = t PROVE Fewer(s, t)
BY DEF Fewer

LEMMA InstallVersions == ASSUME Versions, NEW n \in Names, opkg_install_cmd(n) PROVE Versions'
<1>1. Types /\ Types' /\ Single(mem.st)
  BY InstallTypes DEF Versions
<1>2. pc = "idle" /\ mem' = mem /\ db' = db
  BY DEF opkg_install_cmd, memory
<1>3. CASE stack' = stack
  <2>1. Quiet
    BY <1>1, <1>2, <1>3, SameState DEF Quiet
  <2>. QED  BY <2>1, QuietVersions
<1>4. CASE stack' = <<Frame(best_candidate(n), "prepare")>> /\ pc' = "pkg"
  <2>1. best_candidate(n) \in Pkgs
    BY BestFacts DEF opkg_install_cmd
  <2>2. PICK x : x = Frame(best_candidate(n), "prepare")
    OBVIOUS
  <2>3. x.pkg = best_candidate(n) /\ x.old = fetch_installed_by_name(Name[best_candidate(n)])
    BY <2>2 DEF Frame
  <2>4. Old(x, mem.st)
    BY <1>1, <2>1, <2>3, FrameOld
  <2>5. Len(stack') = 1 /\ stack'[1] = x
    BY <1>4, <2>2
  <2>6. Olds'
    BY <1>2, <2>4, <2>5 DEF Olds
  <2>. QED  BY <1>1, <1>2, <2>6 DEF Versions
<1>. QED  BY <1>3, <1>4 DEF opkg_install_cmd

LEMMA SatisfyVersions == ASSUME Versions, satisfy_dependencies_for PROVE Versions'
<1>1. Types /\ Types' /\ Single(mem.st) /\ Olds
  BY SatisfyTypes DEF Versions
<1>2. pc = "pkg" /\ mem'.st = mem.st /\ db' = db
  BY <1>1, SatisfyMem DEF satisfy_dependencies_for, At
<1>3. PICK n \in Missing : stack' = <<Frame(best_candidate(n), "prepare")>> \o stack
  BY DEF satisfy_dependencies_for
<1>4. Top.pkg \in Pkgs /\ stack \in Seq(Call) /\ Len(stack) \in {1, 2}
  BY <1>1, <1>2, TopFacts
<1>5. best_candidate(n) \in Pkgs /\ Name[best_candidate(n)] = n
  BY <1>1, <1>3, <1>4, DependencyKnown DEF Missing
<1>6. PICK x : x = Frame(best_candidate(n), "prepare")
  OBVIOUS
<1>7. x.pkg = best_candidate(n) /\ x.old = fetch_installed_by_name(Name[best_candidate(n)])
  BY <1>6 DEF Frame
<1>8. Old(x, mem.st)
  BY <1>1, <1>5, <1>7, FrameOld
<1>9. x \in Call
  <2>1. best_candidate(n) # fetch_installed_by_name(Name[best_candidate(n)])
    BY <1>3, <1>5, Constants DEF Missing
  <2>. QED  BY <1>5, <1>6, <2>1, FrameFacts
<1>10. Push(stack', stack, x)
  BY <1>3, <1>6 DEF Push
<1>11. Len(stack) \in Nat /\ Len(stack') = Len(stack) + 1 /\ stack'[1] = x
       /\ \A i \in 1..Len(stack) : stack'[i + 1] = stack[i]
  BY <1>4, <1>9, <1>10, PushFacts
<1>12. ASSUME NEW i \in 1..Len(stack'), stack'[i].pc \in InstallPcs PROVE Old(stack'[i], mem.st)
  <2>1. CASE i = 1
    BY <1>8, <1>11, <2>1
  <2>2. CASE i # 1
    <3>1. i - 1 \in 1..Len(stack) /\ (i - 1) + 1 = i
      BY <1>11, <2>2
    <3>2. stack'[i] = stack[i - 1]
      BY <1>11, <3>1
    <3>. QED  BY <1>1, <1>12, <3>1, <3>2 DEF Olds
  <2>. QED  BY <2>1, <2>2
<1>13. Olds'
  BY <1>2, <1>12 DEF Olds
<1>. QED  BY <1>1, <1>2, <1>13 DEF Versions

LEMMA FinishVersions == ASSUME Versions, Finish PROVE Versions'
<1>1. Types /\ Types' /\ Single(mem.st) /\ Single(db.st) /\ Olds
  BY FinishTypes DEF Versions
<1>2. pc = "pkg" /\ Top.pc = "finish" /\ stack' = Tail(stack) /\ db' = db
  BY DEF Finish, At
<1>3. mem'.st = [p \in Pkgs |-> IF p = Top.pkg THEN "unpacked" ELSE IF p = Top.old THEN "not" ELSE mem.st[p]]
  BY <1>1, FinishMem
<1>4. stack # <<>> /\ stack \in Seq(Call) /\ Top = stack[1] /\ Len(stack) \in {1, 2} /\ Top.pkg \in Pkgs
  BY <1>1, <1>2, TopFacts
<1>5. Old(Top, mem.st)
  BY <1>1, <1>2, <1>4 DEF Olds, InstallPcs
<1>6. \A q \in Pkgs : mem'.st[q] # "not" => q = Top.pkg \/ (q # Top.old /\ mem.st[q] # "not")
  BY <1>3
<1>7. Single(mem'.st)
  BY <1>1, <1>4, <1>5, <1>6 DEF Single, Old
<1>8. Len(stack') = Len(stack) - 1 /\ \A i \in 1..Len(stack') : stack'[i] = stack[i + 1]
  BY <1>2, <1>4, TailFacts
<1>9. ASSUME NEW i \in 1..Len(stack'), stack'[i].pc \in InstallPcs PROVE Old(stack'[i], mem'.st)
  <2>1. i = 1 /\ Len(stack) = 2
    <3>1. CASE Len(stack) = 1
      <4>1. Len(stack') = 0
        BY <1>8, <3>1
      <4>. QED  BY <1>9, <4>1
    <3>2. CASE Len(stack) = 2
      <4>1. Len(stack') = 1
        BY <1>8, <3>2
      <4>2. i \in 1..1
        BY <4>1
      <4>. QED  BY <3>2, <4>2
    <3>. QED  BY <1>4, <3>1, <3>2
  <2>2. stack'[i] = stack[2] /\ 2 \in 1..Len(stack)
    BY <1>8, <2>1
  <2>3. Old(stack[2], mem.st)
    BY <1>1, <1>9, <2>2 DEF Olds
  <2>4. Name[Top.pkg] \in Deps[stack[2].pkg]
    BY <1>1, <1>4, <2>1 DEF Types, Nested
  <2>5. stack[2] \in Call
    BY <1>4, <2>2, ElementOfSeq
  <2>6. stack[2].pkg \in Pkgs
    BY <2>5 DEF Call, CallRecord
  <2>7. Deps[Top.pkg] = {}
    BY <1>4, <2>4, <2>6, Constants
  <2>8. Name[Top.pkg] # Name[stack[2].pkg]
    BY <2>4, <2>6, Constants
  <2>. QED  BY <1>6, <2>2, <2>3, <2>8 DEF Old
<1>10. Olds'
  BY <1>9 DEF Olds
<1>. QED  BY <1>1, <1>2, <1>7, <1>10 DEF Versions

(* A process ends and the next one reads the status file. *)
LEMMA ReadVersions == ASSUME Versions, Types', mem' = db, db' = db, stack' = <<>> PROVE Versions'
<1>1. Len(stack') = 0
  OBVIOUS
<1>. QED  BY <1>1 DEF Versions, Olds

LEMMA MovesQuiet ==
  ASSUME Types, Types', pc = "pkg", pc' = pc, Fewer(mem'.st, mem.st), db' = db,
         NEW w \in InstallPcs \cup RemovePcs, Goto(w), w \in InstallPcs <=> Top.pc \in InstallPcs
  PROVE  Quiet
<1>1. \E x : Moves(x)
  BY GotoFacts
<1>. QED  BY <1>1, SameState DEF Quiet

LEMMA StepsQuiet ==
  ASSUME Types,
         \/ Prepare \/ Enter \/ preinst_configure \/ backup_modified_conffiles \/ remove_old_files
         \/ remove_old_list \/ pkg_write_filelist \/ \E kept : resolve_conffiles(kept)
         \/ remove_data_files \/ remove_list
  PROVE  Quiet
<1>1. CASE Prepare
  <2>1. Types' /\ mem'.st = mem.st /\ pc = "pkg" /\ pc' = pc /\ db' = db /\ Goto("deps") /\ Top.pc = "prepare"
    BY <1>1, PrepareTypes, PrepareMem DEF Prepare, At
  <2>. QED  BY <2>1, SameState, MovesQuiet DEF InstallPcs
<1>2. CASE Enter
  <2>1. Types' /\ pc = "pkg" /\ pc' = pc /\ db' = db /\ Goto("preinst") /\ Top.pc = "deps"
    BY <1>2, EnterTypes DEF Enter, pkg_remove_orphan_dependent, At
  <2>2. Fewer(mem'.st, mem.st)
    BY <1>2, EnterMem DEF Fewer
  <2>. QED  BY <2>1, <2>2, MovesQuiet DEF InstallPcs
<1>3. CASE preinst_configure
  <2>1. Types' /\ mem' = mem /\ pc = "pkg" /\ pc' = pc /\ db' = db /\ Goto("backup") /\ Top.pc = "preinst"
    BY <1>3, PreinstTypes DEF preinst_configure, At, memory
  <2>. QED  BY <2>1, SameState, MovesQuiet DEF InstallPcs
<1>4. CASE backup_modified_conffiles
  <2>1. Types' /\ mem' = mem /\ pc = "pkg" /\ pc' = pc /\ db' = db /\ Goto("clashes") /\ Top.pc = "backup"
    BY <1>4, BackupTypes DEF backup_modified_conffiles, At, memory
  <2>. QED  BY <2>1, SameState, MovesQuiet DEF InstallPcs
<1>5. CASE remove_old_files
  <2>1. Types' /\ mem' = mem /\ pc = "pkg" /\ pc' = pc /\ db' = db /\ Goto("unlist") /\ Top.pc = "erase"
    BY <1>5, EraseTypes DEF remove_old_files, At, memory
  <2>. QED  BY <2>1, SameState, MovesQuiet DEF InstallPcs
<1>6. CASE remove_old_list
  <2>1. Types' /\ mem' = mem /\ pc = "pkg" /\ pc' = pc /\ db' = db /\ Goto("extract") /\ Top.pc = "unlist"
    BY <1>6, UnlistTypes DEF remove_old_list, At, memory
  <2>. QED  BY <2>1, SameState, MovesQuiet DEF InstallPcs
<1>7. CASE pkg_write_filelist
  <2>1. Types' /\ mem' = mem /\ pc = "pkg" /\ pc' = pc /\ db' = db /\ Goto("resolve") /\ Top.pc = "list"
    BY <1>7, ListTypes DEF pkg_write_filelist, At
  <2>. QED  BY <2>1, SameState, MovesQuiet DEF InstallPcs
<1>8. ASSUME NEW kept, resolve_conffiles(kept) PROVE Quiet
  <2>1. Types' /\ mem'.st = mem.st /\ pc = "pkg" /\ pc' = pc /\ db' = db /\ Goto("finish") /\ Top.pc = "resolve"
    BY <1>8, ResolveTypes, ResolveMem DEF resolve_conffiles, At
  <2>. QED  BY <2>1, SameState, MovesQuiet DEF InstallPcs
<1>9. CASE remove_data_files
  <2>1. Types' /\ mem' = mem /\ pc = "pkg" /\ pc' = pc /\ db' = db /\ Goto("rm_list") /\ Top.pc = "rm_files"
    BY <1>9, RemoveFilesTypes DEF remove_data_files, At, memory
  <2>. QED  BY <2>1, SameState, MovesQuiet DEF InstallPcs, RemovePcs
<1>10. CASE remove_list
  <2>1. Types' /\ mem' = mem /\ pc = "pkg" /\ pc' = pc /\ db' = db /\ Goto("rm_done") /\ Top.pc = "rm_list"
    BY <1>10, RemoveListTypes DEF remove_list, At, memory
  <2>. QED  BY <2>1, SameState, MovesQuiet DEF InstallPcs, RemovePcs
<1>. QED  BY <1>1, <1>2, <1>3, <1>4, <1>5, <1>6, <1>7, <1>8, <1>9, <1>10

LEMMA NextVersions == Versions /\ [Next]_vars => Versions'
<1>. SUFFICES ASSUME Versions, [Next]_vars PROVE Versions'
  OBVIOUS
<1>0. Types /\ Types'
  BY NextTypes DEF Versions
<1>1. CASE UNCHANGED vars
  BY <1>0, <1>1 DEF Versions, Olds, vars
<1>2. CASE (\E f \in ConfFile, e \in Edits : Edit(f, e)) \/ opkg_update \/ ConfigureDone
  <2>1. mem' = mem /\ db' = db /\ stack' = stack
    BY <1>2 DEF Edit, opkg_update, ConfigureDone, memory
  <2>2. Quiet
    BY <1>0, <2>1, SameState DEF Quiet
  <2>. QED  BY <2>2, QuietVersions
<1>3. ASSUME NEW n \in Names, opkg_install_cmd(n) PROVE Versions'
  BY <1>3, InstallVersions
<1>4. ASSUME NEW n \in Names, opkg_remove_cmd(n) PROVE Versions'
  <2>1. mem'.st = mem.st /\ db' = db
    BY <1>0, <1>4, RemoveTypes DEF opkg_remove_cmd
  <2>2. Olds'
    <3>1. PICK p : stack' = <<[pkg |-> p, old |-> None, pc |-> "rm_files", marks |-> {}]>>
      BY <1>4 DEF opkg_remove_cmd
    <3>2. PICK x : x = [pkg |-> p, old |-> None, pc |-> "rm_files", marks |-> {}]
      OBVIOUS
    <3>3. Len(stack') = 1 /\ stack'[1] = x
      BY <3>1, <3>2
    <3>4. x.pc \notin InstallPcs
      BY <3>2 DEF InstallPcs
    <3>. QED  BY <3>3, <3>4 DEF Olds
  <2>. QED  BY <1>0, <2>1, <2>2 DEF Versions
<1>5. CASE PrepareFails \/ preinst_fails \/ backup_fails \/ clash_found
  <2>1. mem'.st = mem.st /\ db' = db /\ stack' = <<>>
    <3>1. CASE PrepareFails
      BY <1>0, <3>1, PrepareFailsTypes DEF PrepareFails, Fail
    <3>2. ASSUME NEW S, S \subseteq ConfFile, pc = "pkg", Unwind(S)
          PROVE  mem'.st = mem.st /\ db' = db /\ stack' = <<>>
      BY <1>0, <3>2, UnwindTypes DEF Unwind, Fail
    <3>3. CASE preinst_fails \/ backup_fails \/ clash_found
      <4>1. pc = "pkg" /\ \E S \in {{}, OldConf \cup NewConf} : Unwind(S)
        BY <3>3 DEF preinst_fails, backup_fails, clash_found, At
      <4>2. {} \subseteq ConfFile /\ OldConf \cup NewConf \subseteq ConfFile
        BY <1>0, <4>1, ConfFacts
      <4>. QED  BY <3>2, <4>1, <4>2
    <3>. QED  BY <1>5, <3>1, <3>3
  <2>2. Quiet
    BY <1>0, <2>1, SameState DEF Quiet
  <2>. QED  BY <2>2, QuietVersions
<1>6. CASE satisfy_dependencies_for
  BY <1>6, SatisfyVersions
<1>7. CASE \/ Prepare \/ Enter \/ preinst_configure \/ backup_modified_conffiles \/ remove_old_files
           \/ remove_old_list \/ pkg_write_filelist \/ \E kept \in SUBSET ConfFile : resolve_conffiles(kept)
           \/ remove_data_files \/ remove_list
  <2>1. Quiet
    BY <1>0, <1>7, StepsQuiet
  <2>. QED  BY <2>1, QuietVersions
<1>8. CASE check_data_file_clashes \/ \E S \in SUBSET Files[Top.pkg] : Extract(S)
  <2>1. mem' = mem /\ db' = db
    BY <1>8 DEF check_data_file_clashes, Extract, memory
  <2>2. \E x : Moves(x)
    BY <1>0, <1>8, ClashesMoves, ExtractMoves
  <2>3. Quiet
    BY <1>0, <2>1, <2>2, SameState DEF Quiet
  <2>. QED  BY <2>3, QuietVersions
<1>9. CASE Finish
  BY <1>9, FinishVersions
<1>10. CASE Removed
  <2>1. mem'.st = [mem.st EXCEPT ![Top.pkg] = "not"] /\ mem.st \in State
    BY <1>0, <1>10, RemovedTypes, MemFacts
  <2>2. Fewer(mem'.st, mem.st)
    BY <2>1 DEF Fewer, State
  <2>3. Quiet
    BY <1>0, <1>10, <2>2, SameState DEF Quiet, Removed
  <2>. QED  BY <2>3, QuietVersions
<1>11. ASSUME NEW ok \in BOOLEAN, opkg_configure(ok) PROVE Versions'
  <2>1. PICK p \in Pkgs : mem.st[p] = "unpacked" /\ mem'.st \in {mem.st, [mem.st EXCEPT ![p] = "installed"]}
    BY <1>0, <1>11, ConfigureMem
  <2>2. mem.st \in State
    BY <1>0, MemFacts
  <2>3. Fewer(mem'.st, mem.st)
    BY <2>1, <2>2 DEF Fewer, State
  <2>4. Quiet
    BY <1>0, <1>11, <2>3, SameState DEF Quiet, opkg_configure
  <2>. QED  BY <2>4, QuietVersions
<1>12. CASE write_status_files
  <2>1. db'.st = mem.st /\ mem' = mem /\ stack' = stack
    BY <1>0, <1>12, StatusTypes DEF write_status_files, memory
  <2>. QED  BY <1>0, <2>1 DEF Versions, Olds
<1>13. CASE nothing_to_be_done \/ pkg_write_changed_filelists \/ Crash
  <2>1. mem' = db /\ db' = db
    BY <1>13 DEF nothing_to_be_done, pkg_write_changed_filelists, Crash, preinstall_check
  <2>2. stack' = <<>>
    BY <1>0, <1>13 DEF nothing_to_be_done, pkg_write_changed_filelists, Crash, Types, CallTypes
  <2>. QED  BY <1>0, <2>1, <2>2, ReadVersions
<1>14. CASE sigint_handler
  <2>1. mem' = mem /\ db' = db /\ stack' = <<>>
    BY <1>14 DEF sigint_handler, memory
  <2>2. Quiet
    BY <1>0, <2>1, SameState DEF Quiet
  <2>. QED  BY <2>2, QuietVersions
<1>. QED  BY <1>1, <1>2, <1>3, <1>4, <1>5, <1>6, <1>7, <1>8, <1>9, <1>10, <1>11, <1>12, <1>13, <1>14 DEF Next

LEMMA VersionsImply == Versions => OneVersion
<1>. SUFFICES ASSUME Versions PROVE OneVersion
  OBVIOUS
<1>1. \A p \in Pkgs : (Installed(p, mem) <=> mem.st[p] # "not") /\ (Installed(p, db) <=> db.st[p] # "not")
  BY InstalledIs DEF Versions, Types
<1>. QED  BY <1>1 DEF Versions, Single, OneVersion

(* No two versions of a package are ever installed at once, in memory or in the  *)
(* status file: opkg_install_pkg takes the installed version for the old one     *)
(* when it begins, and marks it as not installed when it marks the new one,      *)
(* however many dependencies were installed in between and wherever a crash      *)
(* throws the process back to what the status file says.                         *)
THEOREM VersionsSingle == Spec => []OneVersion
<1>1. Spec => []Versions
  BY InitVersions, NextVersions, PTL DEF Spec
<1>. QED  BY <1>1, VersionsImply, PTL

=============================================================================
