-------------------------- MODULE OpkgFilesProofs ---------------------------
(***************************************************************************)
(* The proofs that the package database and the file system agree between  *)
(* two commands of opkg (Opkg!DbMatches), and that no data file lies about *)
(* that no list names (Opkg!NoGhostFiles).  The first takes an invariant   *)
(* that relates the files, the lists, the owners in file_hash and the      *)
(* flags of the packages at every step of a command (FilesInv); the second *)
(* adds who vouches for each file (GhostsInv).                             *)
(***************************************************************************)
EXTENDS OpkgEditProofs, FiniteSetTheorems

In(p) == mem.st[p] # "not"
Clean(n) == \A m \in Mishaps : <<n, m>> \notin spoiled
Past == InstallPcs \ {"prepare"}

(* The calls under way: the top one, and the one that waits for it. *)
Waits == {stack[i] : i \in 2..Len(stack)}
Base == stack[Len(stack)]
Active == IF pc = "pkg" THEN {stack[1]} \cup Waits ELSE {}
Handled(n) == \E x \in Active : Name[x.pkg] = n /\ x.pc \notin {"prepare", "rm_files"}

(* What holds at each phase of a command. *)
Quiescent ==
  /\ pc = "idle" => mem = db /\ obs = {} /\ dirty = FALSE
  /\ pc \in {"idle", "pkg"} => abandoned = {}
  /\ dirty = FALSE \/ pc = "lists" => touched = {}
  /\ pc = "lists" => dirty = TRUE /\ \A n \in abandoned : <<n, "abandoned">> \in spoiled
Agreed == \A p \in Pkgs : Name[p] \notin touched => (mem.st[p] # "not" <=> db.st[p] # "not")
Changing == {"unlist", "extract", "list", "resolve", "finish", "rm_list", "rm_done"}
Touching == pc = "pkg" /\ stack[1].pc \in Changing => Name[stack[1].pkg] \in touched
DataBackups == \A f \in File \ ConfFile : backup[f] = None

(* Until the first call enters, a file belongs to nobody, to an installed      *)
(* package, or to one that is being installed.                                 *)
Claimed ==
  pc = "idle" \/ (pc = "pkg" /\ Base.pc \in {"prepare", "deps"}) =>
    \A f \in File : \/ owner[f] = None \/ In(owner[f])
                    \/ \E x \in Active : owner[f] = x.pkg /\ x.pc \in Past

(* A call before and after update_file_ownership. *)
Before(x) == \A f \in File : owner[f] # None /\ Name[owner[f]] = Name[x.pkg] => owner[f] = x.old
After(x) ==
  /\ \A f \in File : owner[f] # None /\ Name[owner[f]] = Name[x.pkg] => owner[f] \in {x.pkg, x.old}
  /\ \A f \in File : owner[f] = x.pkg => f \in Files[x.pkg]
  /\ \A f \in Files[x.pkg] : owner[f] # None /\ owner[f] # x.old
  /\ x.old # None /\ Clean(Name[x.old]) => \A f \in Files[x.old] : owner[f] \in {x.pkg, x.old}
  /\ x.old = None => \A q \in Pkgs : In(q) /\ ~ToWrite(q) => \A f \in list[Name[q]] : owner[f] # x.pkg
Takes == \A x \in Active : (x.pc = "prepare" => Before(x)) /\ (x.pc \in Past => After(x))

(* A file is obsolete only if the first call upgrades the package that owns it. *)
Obsolete == pc = "pkg" => \A f \in obs : Base.old # None /\ owner[f] = Base.old /\ Base.pc \in Past

(* A file in the list of an installed package is its own, or the list is going *)
(* to be written.                                                              *)
Own(f, q) == owner[f] # None /\ Name[owner[f]] = Name[q]
Listed ==
  \A q \in Pkgs : In(q) =>
    \A f \in list[Name[q]] : (Own(f, q) \/ q \in changed) /\ (owner[f] # None \/ ToWrite(q))

OwnersInv == Claimed /\ Takes /\ Obsolete /\ Listed

(* The top call from check_data_file_clashes on. *)
Cleared == {"erase", "unlist", "extract"}
Brought == {"list", "resolve", "finish"}
TopHolds(x) ==
  /\ x.pc \in Cleared \cup Brought /\ x.marks = {} =>
       \A f \in Files[x.pkg] : Name[owner[f]] = Name[x.pkg]
  /\ x.pc \in Cleared =>
       \A f \in Files[x.pkg] \ ConfFile : files[f] # None => f \in obs \/ Name[owner[f]] = Name[x.pkg]
  /\ x.pc \in Brought /\ "partial" \notin x.marks => \A f \in Files[x.pkg] \ ConfFile : files[f] = x.pkg
  /\ x.pc \in Late /\ "partial" \notin x.marks => list[Name[x.pkg]] = {f \in File : owner[f] = x.pkg}
  /\ x.pc \in Late /\ "partial" \in x.marks => x.pkg \in changed
  /\ x.pc \in Cleared \cup {"list"} => "partial" \notin x.marks
TopInv == pc = "pkg" => TopHolds(stack[1])

(* The list of q is going to be written whatever happens, a crash excepted. *)
Harmless(q) == ToWrite(q) /\ dirty = TRUE
Alone(p) == \A q \in Pkgs : In(q) /\ Name[q] # Name[p] => \A f \in Files[p] \cap list[Name[q]] : Harmless(q)
Exact(p) == \A f \in File : owner[f] = p <=> f \in Files[p]
Whole(p) == list[Name[p]] = Files[p] /\ \A f \in Files[p] \ ConfFile : files[f] = p
Untouched == \A p \in Pkgs : In(p) /\ Clean(Name[p]) /\ Name[p] \notin touched => Whole(p) /\ Alone(p)
Settled ==
  \A p \in Pkgs : In(p) /\ Clean(Name[p]) /\ ~Handled(Name[p]) /\ Name[p] \notin abandoned
                    => Whole(p) /\ Alone(p) /\ Exact(p)

FilesInv ==
  /\ EditInv /\ Quiescent /\ Agreed /\ Touching /\ DataBackups
  /\ OwnersInv /\ TopInv /\ Untouched /\ Settled

-----------------------------------------------------------------------------
(* The calls. *)

LEMMA CallShape ==
  ASSUME EditInv, pc = "pkg"
  PROVE  /\ Types /\ Top = stack[1] /\ Top \in Call /\ Active = {Top} \cup Waits
         /\ \/ Waits = {} /\ Base = Top /\ Len(stack) = 1
            \/ /\ Waits = {Base} /\ Waiting(Base) /\ Base.pkg \in Pkgs /\ Name[Top.pkg] \in Deps[Base.pkg]
               /\ Name[Base.pkg] # Name[Top.pkg] /\ Top.old = None /\ Top.pc \in InstallPcs /\ Len(stack) = 2
<1>1. Types /\ Fresh
  BY DEF EditInv, Versions
<1>2. Top = stack[1] /\ Top \in Call /\ Len(stack) \in {1, 2}
  BY <1>1, TopFacts
<1>3. Active = {Top} \cup Waits
  BY <1>2 DEF Active
<1>4. CASE Len(stack) = 1
  <2>1. 2..1 = {}
    OBVIOUS
  <2>2. Waits = {} /\ Base = Top
    BY <1>2, <1>4, <2>1 DEF Waits, Base
  <2>. QED  BY <1>1, <1>2, <1>3, <1>4, <2>2
<1>5. CASE Len(stack) = 2
  <2>1. 2..2 = {2}
    OBVIOUS
  <2>2. Waits = {stack[2]} /\ Base = stack[2]
    BY <1>5, <2>1 DEF Waits, Base
  <2>3. stack[1].pc \in InstallPcs
    BY <1>1, <1>5 DEF Types, Nested
  <2>. QED  BY <1>1, <1>2, <1>3, <1>5, <2>2, <2>3, SecondWaits DEF Fresh
<1>. QED  BY <1>2, <1>4, <1>5

(* What EditInv says of the calls. *)
LEMMA CallFacts ==
  ASSUME EditInv, pc = "pkg", NEW x \in Active
  PROVE  /\ x \in Call /\ x.pkg \in Pkgs /\ x.old \in Pkgs \cup {None} /\ x.pkg # x.old
         /\ x.pc \in InstallPcs => Old(x, mem.st)
         /\ x.pc \in InstallPcs /\ x.old # None => x.old \in Pkgs /\ Name[x.old] = Name[x.pkg] /\ In(x.old)
         /\ x.pc \in InstallPcs => ~In(x.pkg)
         /\ x.pc \in RemovePcs => In(x.pkg)
<1>1. /\ Types /\ Top = stack[1] /\ Top \in Call /\ Active = {Top} \cup Waits
      /\ \/ Waits = {} /\ Len(stack) = 1
         \/ Waits = {Base} /\ Waiting(Base) /\ Len(stack) = 2
  BY CallShape
<1>2. PICK i \in 1..Len(stack) : x = stack[i]
  <2>1. CASE x = Top
    BY <1>1, <2>1
  <2>2. CASE x = Base /\ Len(stack) = 2
    BY <2>2 DEF Base
  <2>. QED  BY <1>1, <2>1, <2>2
<1>3. x \in Call
  BY <1>1 DEF Waiting
<1>4. x.pkg \in Pkgs /\ x.old \in Pkgs \cup {None} /\ x.pkg # x.old
  BY <1>3 DEF Call, CallRecord
<1>5. CallOK(x, mem, changed, list, dirty, Trusted)
  BY <1>2 DEF EditInv, Calls
<1>6. x.pc \in InstallPcs => Old(x, mem.st)
  BY <1>2 DEF EditInv, Versions, Olds
<1>7. /\ x.pc \in InstallPcs /\ x.old # None => x.old \in Pkgs /\ Name[x.old] = Name[x.pkg] /\ In(x.old)
      /\ x.pc \in RemovePcs => In(x.pkg)
  BY <1>4, <1>5 DEF CallOK, In
<1>8. x.pc \in InstallPcs => ~In(x.pkg)
  BY <1>4, <1>6 DEF Old, In
<1>. QED  BY <1>3, <1>4, <1>6, <1>7, <1>8

LEMMA MoveShape ==
  ASSUME EditInv, NEW x, Moves(x)
  PROVE  /\ pc = "pkg" /\ pc' = "pkg" /\ stack'[1] = x /\ Waits' = Waits /\ Active' = {x} \cup Waits
         /\ x.pkg = Top.pkg /\ x.old = Top.old /\ Base'.pkg = Base.pkg /\ Base'.old = Base.old
         /\ Base' = IF Waits = {} THEN x ELSE Base
<1>1. /\ Types /\ Top = stack[1] /\ pc = "pkg" /\ pc' = "pkg" /\ x.pkg = Top.pkg /\ x.old = Top.old
      /\ \/ Waits = {} /\ Len(stack) = 1 /\ Base = Top
         \/ Waits = {Base} /\ Len(stack) = 2
  BY CallShape DEF Moves
<1>2. /\ Len(stack') = Len(stack) /\ stack'[1] = x /\ \A i \in 2..Len(stack) : stack'[i] = stack[i]
  BY <1>1, MoveFacts
<1>3. Waits' = Waits
  BY <1>2 DEF Waits
<1>4. Active' = {x} \cup Waits
  BY <1>1, <1>2, <1>3 DEF Active
<1>5. Base' = IF Waits = {} THEN x ELSE Base
  <2>1. CASE Waits = {} /\ Len(stack) = 1
    BY <1>2, <2>1 DEF Base
  <2>2. CASE Waits = {Base} /\ Len(stack) = 2
    <3>1. stack'[2] = stack[2]
      BY <1>2, <2>2
    <3>. QED  BY <1>2, <2>2, <3>1 DEF Base
  <2>. QED  BY <1>1, <2>1, <2>2
<1>. QED  BY <1>1, <1>2, <1>3, <1>4, <1>5

LEMMA CallFactsNow ==
  EditInv /\ pc = "pkg" =>
    \A x \in Active :
       /\ x \in Call /\ x.pkg \in Pkgs /\ x.old \in Pkgs \cup {None} /\ x.pkg # x.old
       /\ x.pc \in InstallPcs => Old(x, mem.st)
       /\ x.pc \in InstallPcs /\ x.old # None => x.old \in Pkgs /\ Name[x.old] = Name[x.pkg] /\ In(x.old)
       /\ x.pc \in InstallPcs => ~In(x.pkg)
       /\ x.pc \in RemovePcs => In(x.pkg)
BY CallFacts

LEMMA CallFactsNext ==
  EditInv' /\ pc' = "pkg" =>
    \A x \in Active' :
       /\ x \in Call /\ x.pkg \in Pkgs /\ x.old \in Pkgs \cup {None} /\ x.pkg # x.old
       /\ x.pc \in InstallPcs => Old(x, mem'.st)
       /\ x.pc \in InstallPcs /\ x.old # None => x.old \in Pkgs /\ Name[x.old] = Name[x.pkg] /\ In(x.old)'
       /\ x.pc \in InstallPcs => ~In(x.pkg)'
       /\ x.pc \in RemovePcs => In(x.pkg)'
<1>1. (EditInv /\ pc = "pkg" =>
    \A x \in Active :
       /\ x \in Call /\ x.pkg \in Pkgs /\ x.old \in Pkgs \cup {None} /\ x.pkg # x.old
       /\ x.pc \in InstallPcs => Old(x, mem.st)
       /\ x.pc \in InstallPcs /\ x.old # None => x.old \in Pkgs /\ Name[x.old] = Name[x.pkg] /\ In(x.old)
       /\ x.pc \in InstallPcs => ~In(x.pkg)
       /\ x.pc \in RemovePcs => In(x.pkg))'
  BY CallFactsNow, PTL
<1>. QED  BY <1>1

(* A call for a dependency begins. *)
LEMMA PushShape ==
  ASSUME EditInv, Types', satisfy_dependencies_for
  PROVE  /\ pc = "pkg" /\ pc' = "pkg" /\ Top = stack[1] /\ Top.pc = "deps" /\ Waits = {} /\ Base = Top
         /\ Active = {Top} /\ Waits' = {Top} /\ Base' = Top /\ Active' = {stack'[1], Top}
         /\ stack'[1] \in Call /\ stack'[1].pc = "prepare" /\ stack'[1].old = None
         /\ Name[stack'[1].pkg] \in Deps[Top.pkg] /\ Name[stack'[1].pkg] # Name[Top.pkg]
         /\ mem'.st = mem.st
         /\ UNCHANGED <<files, backup, list, db, owner, obs, changed, dirty, touched, abandoned, spoiled, litter>>
<1>1. pc = "pkg" /\ pc' = "pkg" /\ Top.pc = "deps" /\ Types
      /\ UNCHANGED <<files, backup, list, db, owner, obs, changed, dirty, touched, abandoned, spoiled, litter>>
  BY DEF EditInv, Versions, satisfy_dependencies_for, At, disk, history
<1>2. /\ Top = stack[1] /\ Active = {Top} \cup Waits
      /\ \/ Waits = {} /\ Base = Top /\ Len(stack) = 1
         \/ Len(stack) = 2
  BY <1>1, CallShape
<1>3. /\ Len(stack) = 1 /\ Len(stack') = 2 /\ stack'[2] = stack[1]
      /\ stack'[1].pc = "prepare" /\ stack'[1].old = None
  BY <1>1, SatisfyPush
<1>4. 2..2 = {2}
  OBVIOUS
<1>5. Waits' = {Top} /\ Base' = Top
  BY <1>2, <1>3, <1>4 DEF Waits, Base
<1>6. Active' = {stack'[1], Top}
  BY <1>1, <1>5 DEF Active
<1>7. /\ Name[stack'[1].pkg] \in Deps[stack'[2].pkg]
      /\ stack'[1] \in Call
  <2>1. stack' \in Seq(Call) /\ stack' # <<>> /\ Nested'
    BY <1>1 DEF Types, CallTypes
  <2>. QED  BY <1>3, <2>1, NonEmpty DEF Nested
<1>8. stack'[1].pkg \in Pkgs /\ Top.pkg \in Pkgs
  BY <1>1, <1>7, TopFacts DEF Call, CallRecord
<1>9. Name[stack'[1].pkg] # Name[Top.pkg]
  BY <1>2, <1>3, <1>7, <1>8, Constants
<1>10. mem'.st = mem.st
  BY <1>1, SatisfyMem
<1>. QED  BY <1>1, <1>2, <1>3, <1>5, <1>6, <1>7, <1>9, <1>10

(* A call ends with its package unpacked. *)
LEMMA PopShape ==
  ASSUME EditInv, Finish
  PROVE  /\ pc = "pkg" /\ Top = stack[1] /\ Top.pc = "finish" /\ Top.pkg \in Pkgs /\ Waits' = {}
         /\ Active = {Top} \cup Waits /\ Active' = Waits
         /\ \/ Waits = {} /\ Base = Top /\ pc' = "configure"
            \/ /\ Waits = {Base} /\ pc' = "pkg" /\ stack'[1] = Base /\ Base' = Base /\ Waiting(Base)
               /\ Base.pkg \in Pkgs /\ Name[Top.pkg] \in Deps[Base.pkg] /\ Name[Base.pkg] # Name[Top.pkg]
               /\ Top.old = None
         /\ mem'.st = [p \in Pkgs |-> IF p = Top.pkg THEN "unpacked" ELSE IF p = Top.old THEN "not" ELSE mem.st[p]]
         /\ spoiled' = {s \in spoiled : s[1] # Name[Top.pkg]} \cup ({Name[Top.pkg]} \X Top.marks)
         /\ UNCHANGED <<files, backup, list, db, owner, obs, changed, dirty, touched, abandoned, litter>>
<1>1. /\ pc = "pkg" /\ Top.pc = "finish" /\ stack' = Tail(stack)
      /\ pc' = (IF Len(stack) = 1 THEN "configure" ELSE "pkg")
      /\ spoiled' = {s \in spoiled : s[1] # Name[Top.pkg]} \cup ({Name[Top.pkg]} \X Top.marks)
      /\ UNCHANGED <<files, backup, list, db, owner, obs, changed, dirty, touched, abandoned, litter>>
  BY DEF Finish, At, disk
<1>2. /\ Types /\ Top = stack[1] /\ Active = {Top} \cup Waits
      /\ \/ Waits = {} /\ Base = Top /\ Len(stack) = 1
         \/ /\ Waits = {Base} /\ Waiting(Base) /\ Base.pkg \in Pkgs /\ Name[Top.pkg] \in Deps[Base.pkg]
            /\ Name[Base.pkg] # Name[Top.pkg] /\ Top.old = None /\ Len(stack) = 2
  BY <1>1, CallShape
<1>3. stack \in Seq(Call) /\ stack # <<>> /\ Top.pkg \in Pkgs
  BY <1>1, <1>2, TopFacts
<1>4. Len(stack') = Len(stack) - 1 /\ \A i \in 1..Len(stack') : stack'[i] = stack[i + 1]
  BY <1>1, <1>3, TailFacts
<1>5. mem'.st = [p \in Pkgs |-> IF p = Top.pkg THEN "unpacked" ELSE IF p = Top.old THEN "not" ELSE mem.st[p]]
  BY <1>2, FinishMem
<1>6. Waits' = {}
  <2>1. Len(stack') = 0 \/ Len(stack') = 1
    BY <1>2, <1>4
  <2>2. 2..0 = {} /\ 2..1 = {}
    OBVIOUS
  <2>. QED  BY <2>1, <2>2 DEF Waits
<1>7. CASE Len(stack) = 1
  <2>1. pc' = "configure" /\ Waits = {} /\ Base = Top
    BY <1>1, <1>2, <1>7
  <2>2. Active' = {}
    BY <2>1 DEF Active
  <2>. QED  BY <1>1, <1>2, <1>3, <1>5, <1>6, <2>1, <2>2
<1>8. CASE Len(stack) = 2
  <2>1. Len(stack') = 1 /\ stack'[1] = stack[2] /\ pc' = "pkg"
    BY <1>1, <1>4, <1>8
  <2>2. Base = stack[2] /\ Base' = stack[2] /\ Waits = {Base}
    BY <1>2, <1>8, <2>1 DEF Base
  <2>3. Active' = Waits
    BY <1>6, <2>1, <2>2 DEF Active
  <2>. QED  BY <1>1, <1>2, <1>3, <1>5, <1>6, <1>8, <2>1, <2>2, <2>3
<1>. QED  BY <1>2, <1>7, <1>8

(* A step of the top call that leaves the owners alone. *)
SameOwners == owner' = owner /\ obs' = obs /\ db' = db /\ abandoned' = abandoned /\ spoiled' = spoiled
Keeps(x) ==
  /\ Moves(x) /\ SameOwners
  /\ Top.pc # "prepare" /\ x.pc # "prepare"

(* Steps of opkg_install_pkg after update_file_ownership, and of opkg_remove_pkg. *)
Onward(v, w) == (v \in Past /\ w \in Past \ {"deps"}) \/ (v \in RemovePcs /\ w \in RemovePcs \ {"rm_files"})

LEMMA GotoKeeps ==
  ASSUME EditInv, NEW w, Goto(w), pc = "pkg", pc' = pc, Onward(Top.pc, w),
         SameOwners
  PROVE  \E x : Keeps(x) /\ x.pc = w /\ x.marks = Top.marks
<1>1. Types
  BY DEF EditInv, Versions
<1>2. RemovePcs \cap InstallPcs = {} /\ "prepare" \notin RemovePcs
  BY DEF RemovePcs, InstallPcs
<1>3. /\ w \in InstallPcs \cup RemovePcs /\ (w \in InstallPcs <=> Top.pc \in InstallPcs)
      /\ w # "prepare" /\ Top.pc # "prepare"
  BY <1>2 DEF Onward, Past
<1>4. PICK x : Moves(x) /\ x.pc = w /\ x.marks = Top.marks
  BY <1>1, <1>3, GotoFacts
<1>. QED  BY <1>3, <1>4 DEF Keeps

-----------------------------------------------------------------------------
(* What each step of a call does to the files, the lists and the flags. *)

LEMMA PreinstStep ==
  ASSUME EditInv, preinst_configure
  PROVE  \E x : /\ Keeps(x) /\ x.pc = "backup" /\ x.marks = Top.marks /\ Top.pc = "preinst"
                /\ UNCHANGED <<files, backup, list, mem, changed, dirty, touched, litter>>
<1>1. pc = "pkg" /\ pc' = pc /\ Top.pc = "preinst" /\ Goto("backup") /\ UNCHANGED <<disk, db, memory, history>>
  BY DEF preinst_configure, At
<1>2. Onward("preinst", "backup")
  BY DEF Onward, Past, InstallPcs
<1>3. SameOwners /\ UNCHANGED <<files, backup, list, mem, changed, dirty, touched, litter>>
  BY <1>1 DEF disk, memory, history, SameOwners
<1>4. PICK x : Keeps(x) /\ x.pc = "backup" /\ x.marks = Top.marks
  BY <1>1, <1>2, <1>3, GotoKeeps
<1>. QED  BY <1>1, <1>3, <1>4

LEMMA BackupStep ==
  ASSUME EditInv, backup_modified_conffiles
  PROVE  \E x : /\ Keeps(x) /\ x.pc = "clashes" /\ x.marks = Top.marks /\ Top.pc = "backup"
                /\ UNCHANGED <<files, list, mem, changed, dirty, touched, litter>>
                /\ \A f \in File \ ConfFile : backup'[f] = backup[f]
<1>1. /\ pc = "pkg" /\ pc' = pc /\ Top.pc = "backup" /\ Goto("clashes")
      /\ UNCHANGED <<files, list, db, memory, touched, abandoned, spoiled, litter>>
      /\ backup' = [f \in File |-> IF f \in ToBackUp THEN files[f] ELSE backup[f]]
  BY DEF backup_modified_conffiles, At
<1>2. Onward("backup", "clashes")
  BY DEF Onward, Past, InstallPcs
<1>3. SameOwners /\ UNCHANGED <<mem, changed, dirty>>
  BY <1>1 DEF memory, SameOwners
<1>4. PICK x : Keeps(x) /\ x.pc = "clashes" /\ x.marks = Top.marks
  BY <1>1, <1>2, <1>3, GotoKeeps
<1>5. ToBackUp \subseteq ConfFile
  <2>1. OldConf \subseteq ConfFile /\ NewConf \subseteq ConfFile
    BY <1>1, ConfFacts DEF EditInv, Versions
  <2>. QED  BY <2>1 DEF ToBackUp
<1>6. \A f \in File \ ConfFile : backup'[f] = backup[f]
  BY <1>1, <1>5
<1>. QED  BY <1>1, <1>3, <1>4, <1>6

LEMMA ClashesStep ==
  ASSUME EditInv, check_data_file_clashes
  PROVE  \E x : /\ Keeps(x) /\ x.pc = "erase" /\ Top.pc = "clashes"
                /\ x.marks = {IF files[f] # None THEN "split" ELSE "claimed" :
                                f \in {g \in Files[Top.pkg] : Name[owner[g]] # Name[Top.pkg]}}
                /\ UNCHANGED <<files, backup, list, mem, changed, dirty, touched, litter>>
                /\ \A f \in Files[Top.pkg] : ~Clash(f)
<1>0. Types
  BY DEF EditInv, Versions
<1>1. PICK S : S = {IF files[f] # None THEN "split" ELSE "claimed" :
                      f \in {g \in Files[Top.pkg] : Name[owner[g]] # Name[Top.pkg]}}
  OBVIOUS
<1>2. /\ pc = "pkg" /\ pc' = pc /\ Top.pc = "clashes" /\ UNCHANGED <<disk, db, memory, history>>
      /\ stack' = <<[Top EXCEPT !.pc = "erase", !.marks = S]>> \o Tail(stack)
      /\ \A f \in Files[Top.pkg] : ~Clash(f)
  BY <1>1 DEF check_data_file_clashes, At
<1>3. UNCHANGED <<files, backup, list, mem, changed, dirty, touched, litter, owner, obs, db, abandoned, spoiled>>
  BY <1>2 DEF disk, memory, history
<1>4. S \subseteq Mishaps
  BY <1>1 DEF Mishaps
<1>5. PICK x : x = [Top EXCEPT !.pc = "erase", !.marks = S]
  OBVIOUS
<1>6. Put(stack', stack, x)
  BY <1>2, <1>5 DEF Put
<1>7. "clashes" \in InstallPcs /\ "erase" \in InstallPcs /\ "clashes" # "prepare" /\ "erase" # "prepare"
  BY DEF InstallPcs
<1>8. Moves(x) /\ x.pc = "erase"
  BY <1>0, <1>2, <1>3, <1>4, <1>5, <1>6, <1>7, Marks
<1>9. x.marks = S
  <2>1. Top \in CallRecord
    BY <1>0, <1>2, TopFacts DEF Call
  <2>. QED  BY <1>5, <2>1 DEF CallRecord
<1>10. Keeps(x)
  BY <1>2, <1>3, <1>7, <1>8 DEF Keeps, SameOwners
<1>. QED  BY <1>1, <1>2, <1>3, <1>8, <1>9, <1>10

LEMMA KeptFacts == ASSUME Types, NEW p \in Pkgs PROVE Kept(p) \subseteq ConfFile
<1>1. \A q \in Pkgs : DOMAIN mem.sum[q] \subseteq ConfFile
  BY SumsFacts DEF Types
<1>. QED  BY <1>1 DEF Kept

LEMMA EraseStep ==
  ASSUME EditInv, remove_old_files
  PROVE  \E x : /\ Keeps(x) /\ x.pc = "unlist" /\ x.marks = Top.marks /\ Top.pc = "erase"
                /\ UNCHANGED <<backup, list, mem, changed, dirty, litter>>
                /\ touched' = touched \cup {Name[Top.pkg]}
                /\ \A f \in File : files'[f] \in {files[f], None}
                /\ Top.old = None => files' = files
                /\ Top.old # None => \A f \in File : /\ f \notin list[Name[Top.old]] => files'[f] = files[f]
                                                     /\ f \in list[Name[Top.old]] \ ConfFile => files'[f] = None
<1>1. /\ pc = "pkg" /\ pc' = pc /\ Top.pc = "erase" /\ Goto("unlist") /\ touched' = touched \cup {Name[Top.pkg]}
      /\ UNCHANGED <<backup, list, db, memory, abandoned, spoiled, litter>>
      /\ files' = IF Top.old = None THEN files
              ELSE [f \in File |-> IF f \in Obsolesced \cup (list[Name[Top.old]] \ Kept(Top.old))
                                   THEN None ELSE files[f]]
  BY DEF remove_old_files, At
<1>2. Onward("erase", "unlist")
  BY DEF Onward, Past, InstallPcs
<1>3. SameOwners /\ UNCHANGED <<mem, changed, dirty>>
  BY <1>1 DEF memory, SameOwners
<1>4. PICK x : Keeps(x) /\ x.pc = "unlist" /\ x.marks = Top.marks
  BY <1>1, <1>2, <1>3, GotoKeeps
<1>5. Obsolesced \subseteq list[Name[Top.old]]
  BY DEF Obsolesced
<1>6. Types /\ (Top.old # None => Top.old \in Pkgs)
  BY <1>1, TopFacts DEF EditInv, Versions
<1>7. Top.old # None => Kept(Top.old) \subseteq ConfFile
  BY <1>6, KeptFacts
<1>8. \A f \in File : files'[f] \in {files[f], None}
  BY <1>1
<1>9. ASSUME Top.old # None, NEW f \in File
      PROVE  /\ f \notin list[Name[Top.old]] => files'[f] = files[f]
             /\ f \in list[Name[Top.old]] \ ConfFile => files'[f] = None
  BY <1>1, <1>5, <1>7, <1>9
<1>. QED  BY <1>1, <1>3, <1>4, <1>8, <1>9

LEMMA UnlistStep ==
  ASSUME EditInv, remove_old_list
  PROVE  \E x : /\ Keeps(x) /\ x.pc = "extract" /\ x.marks = Top.marks /\ Top.pc = "unlist"
                /\ UNCHANGED <<files, backup, mem, changed, dirty, touched, litter>>
                /\ list' = IF Top.old = None THEN list ELSE [list EXCEPT ![Name[Top.old]] = {}]
<1>1. /\ pc = "pkg" /\ pc' = pc /\ Top.pc = "unlist" /\ Goto("extract")
      /\ UNCHANGED <<files, backup, db, memory, history>>
      /\ list' = IF Top.old = None THEN list ELSE [list EXCEPT ![Name[Top.old]] = {}]
  BY DEF remove_old_list, At
<1>2. Onward("unlist", "extract")
  BY DEF Onward, Past, InstallPcs
<1>3. SameOwners /\ UNCHANGED <<mem, changed, dirty, touched, litter>>
  BY <1>1 DEF memory, history, SameOwners
<1>4. PICK x : Keeps(x) /\ x.pc = "extract" /\ x.marks = Top.marks
  BY <1>1, <1>2, <1>3, GotoKeeps
<1>. QED  BY <1>1, <1>3, <1>4

LEMMA ExtractStep ==
  ASSUME EditInv, NEW S, S \subseteq Files[Top.pkg], Extract(S)
  PROVE  \E x : /\ Keeps(x) /\ Top.pc = "extract"
                /\ x.pc = IF S = Files[Top.pkg] THEN "list" ELSE "resolve"
                /\ x.marks = IF S = Files[Top.pkg] THEN Top.marks ELSE Top.marks \cup {"partial"}
                /\ UNCHANGED <<backup, list, mem, changed, dirty>>
                /\ files' = [f \in File |-> IF f \in S THEN Top.pkg ELSE files[f]]
                /\ touched' = touched \cup {Name[owner[f]] : f \in S}
                /\ litter' = (litter \ S) \cup {f \in S : owner[f] # Top.pkg /\ files[f] = None}
<1>0. Types
  BY DEF EditInv, Versions
<1>1. PICK w, M : /\ w = IF S = Files[Top.pkg] THEN "list" ELSE "resolve"
                  /\ M = IF S = Files[Top.pkg] THEN Top.marks ELSE Top.marks \cup {"partial"}
  OBVIOUS
<1>2. Top \in Call /\ Top.marks \subseteq Mishaps /\ pc = "pkg" /\ pc' = pc /\ Top.pc = "extract"
  BY <1>0, TopFacts DEF Extract, At
<1>3. /\ UNCHANGED <<backup, list, db, memory, abandoned, spoiled>>
      /\ files' = [f \in File |-> IF f \in S THEN Top.pkg ELSE files[f]]
      /\ touched' = touched \cup {Name[owner[f]] : f \in S}
      /\ litter' = (litter \ S) \cup {f \in S : owner[f] # Top.pkg /\ files[f] = None}
  BY DEF Extract
<1>4. UNCHANGED <<mem, changed, dirty, owner, obs>>
  BY <1>3 DEF memory
<1>5. PICK x : x = [Top EXCEPT !.pc = w, !.marks = M]
  OBVIOUS
<1>6. stack' = <<[Top EXCEPT !.pc = w, !.marks = M]>> \o Tail(stack)
  <2>1. CASE S = Files[Top.pkg]
    BY <1>1, <2>1 DEF Extract
  <2>2. CASE S # Files[Top.pkg]
    BY <1>1, <2>2 DEF Extract
  <2>. QED  BY <2>1, <2>2
<1>7. Put(stack', stack, x)
  BY <1>5, <1>6 DEF Put
<1>8. M \subseteq Mishaps
  BY <1>1, <1>2 DEF Mishaps
<1>9. w \in InstallPcs /\ "extract" \in InstallPcs /\ "extract" # "prepare" /\ w # "prepare"
  BY <1>1 DEF InstallPcs
<1>10. Moves(x) /\ x.pc = w
  BY <1>0, <1>2, <1>4, <1>5, <1>7, <1>8, <1>9, Marks
<1>11. x.marks = M
  BY <1>2, <1>5 DEF Call, CallRecord
<1>12. Keeps(x)
  BY <1>2, <1>3, <1>4, <1>9, <1>10 DEF Keeps, SameOwners
<1>. QED  BY <1>1, <1>2, <1>3, <1>4, <1>10, <1>11, <1>12

LEMMA ListStep ==
  ASSUME EditInv, pkg_write_filelist
  PROVE  \E x : /\ Keeps(x) /\ x.pc = "resolve" /\ x.marks = Top.marks /\ Top.pc = "list"
                /\ UNCHANGED <<files, backup, mem, dirty, touched, litter>>
                /\ list' = [list EXCEPT ![Name[Top.pkg]] = {f \in File : owner[f] = Top.pkg}]
                /\ changed' = changed \ {Top.pkg}
<1>1. /\ pc = "pkg" /\ pc' = pc /\ Top.pc = "list" /\ Goto("resolve")
      /\ UNCHANGED <<files, backup, db, mem, owner, obs, dirty, history>>
      /\ list' = [list EXCEPT ![Name[Top.pkg]] = {f \in File : owner[f] = Top.pkg}]
      /\ changed' = changed \ {Top.pkg}
  BY DEF pkg_write_filelist, At
<1>2. Onward("list", "resolve")
  BY DEF Onward, Past, InstallPcs
<1>3. SameOwners /\ UNCHANGED <<touched, litter>>
  BY <1>1 DEF history, SameOwners
<1>4. PICK x : Keeps(x) /\ x.pc = "resolve" /\ x.marks = Top.marks
  BY <1>1, <1>2, <1>3, GotoKeeps
<1>. QED  BY <1>1, <1>3, <1>4

LEMMA ResolveStep ==
  ASSUME EditInv, NEW kept, resolve_conffiles(kept)
  PROVE  \E x : /\ Keeps(x) /\ x.pc = "finish" /\ x.marks = Top.marks /\ Top.pc = "resolve"
                /\ UNCHANGED <<list, changed, dirty, touched, litter>> /\ mem'.st = mem.st
                /\ \A f \in File \ ConfFile : files'[f] = files[f] /\ (backup[f] = None => backup'[f] = None)
<1>1. /\ pc = "pkg" /\ pc' = pc /\ Top.pc = "resolve" /\ Goto("finish")
      /\ UNCHANGED <<list, db, owner, obs, changed, dirty, touched, abandoned, spoiled, litter>>
      /\ kept \subseteq NewConf
      /\ files' = [f \in File |-> IF f \in kept THEN backup[f] ELSE files[f]]
      /\ \A f \in File : backup'[f] \in {None, backup[f]}
  BY DEF resolve_conffiles, At
<1>2. Onward("resolve", "finish")
  BY DEF Onward, Past, InstallPcs
<1>3. SameOwners
  BY <1>1 DEF SameOwners
<1>4. PICK x : Keeps(x) /\ x.pc = "finish" /\ x.marks = Top.marks
  BY <1>1, <1>2, <1>3, GotoKeeps
<1>5. NewConf \subseteq ConfFile /\ mem'.st = mem.st
  BY <1>1, ConfFacts, ResolveMem DEF EditInv, Versions
<1>6. \A f \in File \ ConfFile : files'[f] = files[f] /\ (backup[f] = None => backup'[f] = None)
  BY <1>1, <1>5
<1>. QED  BY <1>1, <1>4, <1>5, <1>6

LEMMA RemoveFilesStep ==
  ASSUME EditInv, remove_data_files
  PROVE  \E x : /\ Keeps(x) /\ x.pc = "rm_list" /\ x.marks = Top.marks /\ Top.pc = "rm_files"
                /\ UNCHANGED <<backup, list, mem, changed, dirty, litter>>
                /\ touched' = touched \cup {Name[Top.pkg]}
                /\ \A f \in File : /\ files'[f] \in {files[f], None}
                                   /\ f \notin list[Name[Top.pkg]] => files'[f] = files[f]
                                   /\ f \in list[Name[Top.pkg]] \ ConfFile => files'[f] = None
<1>1. /\ pc = "pkg" /\ pc' = pc /\ Top.pc = "rm_files" /\ Goto("rm_list") /\ touched' = touched \cup {Name[Top.pkg]}
      /\ UNCHANGED <<backup, list, db, memory, abandoned, spoiled, litter>>
      /\ files' = [f \in File |-> IF f \in list[Name[Top.pkg]] \ Kept(Top.pkg) THEN None ELSE files[f]]
  BY DEF remove_data_files, At
<1>2. Onward("rm_files", "rm_list")
  BY DEF Onward, RemovePcs
<1>3. SameOwners /\ UNCHANGED <<mem, changed, dirty>>
  BY <1>1 DEF memory, SameOwners
<1>4. PICK x : Keeps(x) /\ x.pc = "rm_list" /\ x.marks = Top.marks
  BY <1>1, <1>2, <1>3, GotoKeeps
<1>5. Types /\ Top.pkg \in Pkgs
  BY <1>1, TopFacts DEF EditInv, Versions
<1>6. Kept(Top.pkg) \subseteq ConfFile
  BY <1>5, KeptFacts
<1>7. \A f \in File : /\ files'[f] \in {files[f], None}
                      /\ f \notin list[Name[Top.pkg]] => files'[f] = files[f]
                      /\ f \in list[Name[Top.pkg]] \ ConfFile => files'[f] = None
  BY <1>1, <1>6
<1>. QED  BY <1>1, <1>3, <1>4, <1>7

LEMMA RemoveListStep ==
  ASSUME EditInv, remove_list
  PROVE  \E x : /\ Keeps(x) /\ x.pc = "rm_done" /\ x.marks = Top.marks /\ Top.pc = "rm_list"
                /\ UNCHANGED <<files, backup, mem, changed, dirty, touched, litter>>
                /\ list' = [list EXCEPT ![Name[Top.pkg]] = {}]
<1>1. /\ pc = "pkg" /\ pc' = pc /\ Top.pc = "rm_list" /\ Goto("rm_done")
      /\ UNCHANGED <<files, backup, db, memory, history>> /\ list' = [list EXCEPT ![Name[Top.pkg]] = {}]
  BY DEF remove_list, At
<1>2. Onward("rm_list", "rm_done")
  BY DEF Onward, RemovePcs
<1>3. SameOwners /\ UNCHANGED <<mem, changed, dirty, touched, litter>>
  BY <1>1 DEF memory, history, SameOwners
<1>4. PICK x : Keeps(x) /\ x.pc = "rm_done" /\ x.marks = Top.marks
  BY <1>1, <1>2, <1>3, GotoKeeps
<1>. QED  BY <1>1, <1>3, <1>4

LEMMA EnterStep ==
  ASSUME EditInv, Enter
  PROVE  \E x : /\ Keeps(x) /\ x.pc = "preinst" /\ x.marks = Top.marks /\ Top.pc = "deps"
                /\ UNCHANGED <<backup, litter>> /\ dirty' = TRUE
                /\ touched' = touched \cup {Name[p] : p \in Orphans}
                /\ changed' = changed \cup {Top.pkg} \cup Orphans
                /\ mem'.st = [p \in Pkgs |-> IF p \in Orphans THEN "not" ELSE mem.st[p]]
                /\ list' = [n \in Names |-> IF n \in {Name[p] : p \in Orphans} THEN {} ELSE list[n]]
                /\ \A f \in File :
                     /\ files'[f] \in {files[f], None}
                     /\ (\A p \in Orphans : f \notin list[Name[p]]) => files'[f] = files[f]
                     /\ f \notin ConfFile /\ (\E p \in Orphans : f \in list[Name[p]]) => files'[f] = None
                /\ Waits # {} => Orphans = {}
                /\ Orphans \subseteq Pkgs
                /\ \A p \in Orphans : In(p) /\ Top.old # None /\ Name[p] \in Deps[Top.old] \ Deps[Top.pkg]
<1>1. /\ pc = "pkg" /\ pc' = pc /\ Top.pc = "deps" /\ Goto("preinst") /\ dirty' = TRUE
      /\ UNCHANGED <<backup, db, owner, obs, abandoned, spoiled, litter>>
      /\ touched' = touched \cup {Name[p] : p \in Orphans}
      /\ changed' = changed \cup {Top.pkg} \cup Orphans
      /\ list' = [n \in Names |-> IF n \in {Name[p] : p \in Orphans} THEN {} ELSE list[n]]
      /\ files' = [f \in File |-> IF f \in UNION {list[Name[p]] \ Kept(p) : p \in Orphans} THEN None ELSE files[f]]
  BY DEF Enter, At, pkg_remove_orphan_dependent
<1>2. Onward("deps", "preinst")
  BY DEF Onward, Past, InstallPcs
<1>3. SameOwners
  BY <1>1 DEF SameOwners
<1>4. PICK x : Keeps(x) /\ x.pc = "preinst" /\ x.marks = Top.marks
  BY <1>1, <1>2, <1>3, GotoKeeps
<1>5. Types
  BY DEF EditInv, Versions
<1>6. mem'.st = [p \in Pkgs |-> IF p \in Orphans THEN "not" ELSE mem.st[p]]
  BY <1>5, EnterMem
<1>7. Orphans \subseteq Pkgs
  BY <1>1, <1>5, OrphanFacts
<1>8. \A p \in Orphans : Kept(p) \subseteq ConfFile
  BY <1>5, <1>7, KeptFacts
<1>9. ASSUME NEW f \in File
      PROVE  /\ files'[f] \in {files[f], None}
             /\ (\A p \in Orphans : f \notin list[Name[p]]) => files'[f] = files[f]
             /\ f \notin ConfFile /\ (\E p \in Orphans : f \in list[Name[p]]) => files'[f] = None
  BY <1>1, <1>8
<1>10. Waits # {} => Orphans = {}
  <2>1. Waits # {} => Len(stack) = 2
    BY <1>1, CallShape
  <2>. QED  BY <1>1, <2>1, NotOrphans
<1>11. \A p \in Orphans : In(p) /\ Top.old # None /\ Name[p] \in Deps[Top.old] \ Deps[Top.pkg]
  <2>. SUFFICES ASSUME NEW p \in Orphans PROVE In(p) /\ Top.old # None /\ Name[p] \in Deps[Top.old] \ Deps[Top.pkg]
    OBVIOUS
  <2>1. Top.old # None
    BY DEF Orphans
  <2>2. Installed(p, mem) /\ Name[p] \in Deps[Top.old] \ Deps[Top.pkg]
    BY <2>1 DEF Orphans
  <2>. QED  BY <1>5, <1>7, <2>1, <2>2, InstalledIs DEF In, Types
<1>. QED  BY <1>1, <1>4, <1>6, <1>7, <1>9, <1>10, <1>11

LEMMA PrepareStep ==
  ASSUME EditInv, Prepare
  PROVE  \E x : /\ Moves(x) /\ x.pc = "deps" /\ x.marks = Top.marks /\ Top.pc = "prepare" /\ mem'.st = mem.st
                /\ UNCHANGED <<files, backup, list, db, dirty, touched, abandoned, spoiled, litter>>
                /\ owner' = [f \in File |-> IF f \in Files[Top.pkg] /\ owner[f] \in {None, Top.old} THEN Top.pkg ELSE owner[f]]
                /\ changed' = changed \/ changed' = changed \cup {Top.pkg, Top.old}
                /\ obs' = IF Top.old = None THEN obs ELSE obs \cup {f \in list[Name[Top.old]] : owner'[f] = Top.old}
<1>1. /\ pc = "pkg" /\ pc' = pc /\ Top.pc = "prepare" /\ Goto("deps")
      /\ UNCHANGED <<disk, db, dirty, history>> /\ update_file_ownership(Top.pkg, Top.old)
  BY DEF Prepare, At
<1>2. UNCHANGED <<files, backup, list, db, dirty, touched, abandoned, spoiled, litter>>
  BY <1>1 DEF disk, history
<1>3. Types
  BY DEF EditInv, Versions
<1>4. "deps" \in InstallPcs /\ "prepare" \in InstallPcs
  BY DEF InstallPcs
<1>5. PICK x : Moves(x) /\ x.pc = "deps" /\ x.marks = Top.marks
  BY <1>1, <1>3, <1>4, GotoFacts
<1>6. mem'.st = mem.st
  BY <1>3, PrepareMem
<1>7. /\ owner' = [f \in File |-> IF f \in {g \in Files[Top.pkg] : owner[g] \in {None, Top.old}} THEN Top.pkg ELSE owner[f]]
      /\ changed' = changed \/ changed' = changed \cup {Top.pkg, Top.old}
      /\ obs' = IF Top.old = None THEN obs ELSE obs \cup {f \in list[Name[Top.old]] : owner'[f] = Top.old}
  BY <1>1 DEF update_file_ownership
<1>8. owner' = [f \in File |-> IF f \in Files[Top.pkg] /\ owner[f] \in {None, Top.old} THEN Top.pkg ELSE owner[f]]
  BY <1>7
<1>. QED  BY <1>1, <1>2, <1>5, <1>6, <1>7, <1>8

-----------------------------------------------------------------------------
(* What the steps outside of the calls do. *)

LEMMA BeginStep ==
  ASSUME EditInv, NEW n \in Names, opkg_install_cmd(n) \/ opkg_remove_cmd(n)
  PROVE  /\ pc = "idle" /\ mem'.st = mem.st /\ changed \subseteq changed'
         /\ UNCHANGED <<files, backup, list, db, owner, obs, touched, abandoned, spoiled, litter>>
         /\ \/ pc' = "configure" /\ Active' = {} /\ changed' = changed /\ dirty' = dirty
            \/ \E x : /\ pc' = "pkg" /\ stack'[1] = x /\ Active' = {x} /\ Waits' = {} /\ Base' = x /\ x.marks = {}
                      /\ \/ x.pc = "prepare" /\ changed' = changed /\ dirty' = dirty
                         \/ x.pc = "rm_files" /\ x.old = None /\ changed' = changed \cup {x.pkg} /\ dirty' = TRUE
<1>0. Types
  BY DEF EditInv, Versions
<1>1. pc = "idle" /\ stack = <<>> /\ UNCHANGED <<files, backup, list, db, owner, obs, touched, abandoned, spoiled, litter>>
  BY <1>0 DEF opkg_install_cmd, opkg_remove_cmd, disk, memory, Types, CallTypes
<1>2. ASSUME NEW x, stack' = <<x>>, pc' = "pkg" PROVE stack'[1] = x /\ Active' = {x} /\ Waits' = {} /\ Base' = x
  <2>1. Len(stack') = 1 /\ stack'[1] = x
    BY <1>2
  <2>2. 2..1 = {}
    OBVIOUS
  <2>3. Waits' = {} /\ Base' = x
    BY <2>1, <2>2 DEF Waits, Base
  <2>. QED  BY <1>2, <2>1, <2>3 DEF Active
<1>3. CASE opkg_install_cmd(n)
  <2>1. mem' = mem /\ changed' = changed /\ dirty' = dirty
    BY <1>3 DEF opkg_install_cmd, memory
  <2>2. \/ pc' = "configure"
        \/ pc' = "pkg" /\ stack' = <<Frame(best_candidate(n), "prepare")>>
    BY <1>3 DEF opkg_install_cmd
  <2>3. CASE pc' = "configure"
    <3>1. Active' = {}
      BY <2>3 DEF Active
    <3>. QED  BY <1>1, <2>1, <2>3, <3>1
  <2>4. CASE pc' = "pkg" /\ stack' = <<Frame(best_candidate(n), "prepare")>>
    <3>1. PICK x : x = Frame(best_candidate(n), "prepare")
      OBVIOUS
    <3>2. x.pc = "prepare" /\ x.marks = {}
      BY <3>1 DEF Frame
    <3>3. stack'[1] = x /\ Active' = {x} /\ Waits' = {} /\ Base' = x
      BY <1>2, <2>4, <3>1
    <3>. QED  BY <1>1, <2>1, <2>4, <3>2, <3>3
  <2>. QED  BY <2>2, <2>3, <2>4
<1>4. CASE opkg_remove_cmd(n)
  <2>1. PICK x : x = [pkg |-> fetch_installed_by_name(n), old |-> None, pc |-> "rm_files", marks |-> {}]
    OBVIOUS
  <2>2. stack' = <<x>> /\ pc' = "pkg" /\ dirty' = TRUE /\ changed' = changed \cup {x.pkg}
    BY <1>4, <2>1 DEF opkg_remove_cmd
  <2>3. x.pc = "rm_files" /\ x.marks = {} /\ x.old = None
    BY <2>1
  <2>4. stack'[1] = x /\ Active' = {x} /\ Waits' = {} /\ Base' = x
    BY <1>2, <2>2
  <2>5. mem'.st = mem.st
    BY <1>0, <1>4, RemoveTypes
  <2>6. changed \subseteq changed'
    BY <2>2
  <2>. QED  BY <1>1, <2>2, <2>3, <2>4, <2>5, <2>6
<1>. QED  BY <1>3, <1>4

LEMMA ActiveStack == ASSUME EditInv PROVE Active \subseteq Range(stack)
<1>1. CASE pc = "pkg"
  <2>1. /\ Types /\ Top = stack[1] /\ Active = {Top} \cup Waits
        /\ \/ Waits = {} /\ Len(stack) = 1
           \/ Waits = {Base} /\ Len(stack) = 2
    BY <1>1, CallShape
  <2>2. DOMAIN stack = 1..Len(stack)
    BY <2>1, LenProperties DEF Types, CallTypes
  <2>3. \A x \in Active : \E i \in 1..Len(stack) : x = stack[i]
    <3>1. CASE Waits = {} /\ Len(stack) = 1
      BY <2>1, <3>1
    <3>2. CASE Waits = {Base} /\ Len(stack) = 2
      BY <2>1, <3>2 DEF Base
    <3>. QED  BY <2>1, <3>1, <3>2
  <2>. QED  BY <2>2, <2>3 DEF Range
<1>2. CASE pc # "pkg"
  BY <1>2 DEF Active
<1>. QED  BY <1>1, <1>2

(* The steps of a command that end its calls, and those that follow them. *)
Ends == Fails \/ Removed \/ (\E ok \in BOOLEAN : opkg_configure(ok)) \/ ConfigureDone \/ sigint_handler

LEMMA GivesUp ==
  ASSUME EditInv, abandoned' = abandoned \cup GivenUp(Range(stack)), NEW x \in Active, x.old # None, x.pc # "prepare"
  PROVE  Name[x.old] \in abandoned'
<1>1. x \in Range(stack)
  BY ActiveStack
<1>. QED  BY <1>1 DEF GivenUp

LEMMA FailsStep ==
  ASSUME EditInv, Fails
  PROVE  /\ pc = "pkg" /\ pc' = "configure" /\ mem'.st = mem.st /\ dirty' = dirty
         /\ abandoned' = abandoned \cup GivenUp(Range(stack)) /\ Top.pc \in InstallPcs
         /\ UNCHANGED <<files, list, db, owner, obs, changed, touched, litter, spoiled>>
         /\ \A f \in File : backup'[f] \in {backup[f], None}
<1>0. Types /\ backup \in [File -> Content]
  BY DEF EditInv, Versions, Types, DiskTypes
<1>1. CASE PrepareFails
  <2>1. /\ pc = "pkg" /\ Top.pc = "prepare" /\ Fail
        /\ UNCHANGED <<disk, db, owner, obs, changed, dirty, touched, litter, spoiled>>
    BY <1>1 DEF PrepareFails, At
  <2>2. mem'.st = mem.st
    BY <1>0, <1>1, PrepareFailsTypes
  <2>. QED  BY <1>0, <2>1, <2>2 DEF Fail, disk, InstallPcs
<1>2. ASSUME NEW S, Unwind(S), S \subseteq ConfFile, pc = "pkg", Top.pc \in {"preinst", "backup", "clashes"}
      PROVE  /\ pc' = "configure" /\ mem'.st = mem.st /\ dirty' = dirty
             /\ abandoned' = abandoned \cup GivenUp(Range(stack)) /\ Top.pc \in InstallPcs
             /\ UNCHANGED <<files, list, db, owner, obs, changed, touched, litter, spoiled>>
             /\ \A f \in File : backup'[f] \in {backup[f], None}
  <2>1. mem'.st = mem.st
    BY <1>0, <1>2, UnwindTypes
  <2>2. backup' = [f \in File |-> IF f \in S THEN None ELSE backup[f]]
    BY <1>2 DEF Unwind
  <2>. QED  BY <1>2, <2>1, <2>2 DEF Unwind, Fail, InstallPcs
<1>3. CASE preinst_fails
  BY <1>2, <1>3 DEF preinst_fails, At
<1>4. CASE backup_fails \/ clash_found
  <2>1. pc = "pkg" /\ Top.pc \in {"backup", "clashes"} /\ Unwind(OldConf \cup NewConf)
    BY <1>4 DEF backup_fails, clash_found, At
  <2>2. OldConf \cup NewConf \subseteq ConfFile
    BY <1>0, <2>1, ConfFacts
  <2>. QED  BY <1>2, <2>1, <2>2
<1>. QED  BY <1>1, <1>3, <1>4 DEF Fails

LEMMA EndStep ==
  ASSUME EditInv, Ends
  PROVE  /\ pc \in {"pkg", "configure"} /\ pc' \in {"configure", "status"} /\ Active' = {}
         /\ UNCHANGED <<files, list, db, owner, obs, changed, touched, litter>> /\ abandoned \subseteq abandoned'
         /\ dirty' \in {dirty, TRUE}
         /\ \A f \in File : backup'[f] \in {backup[f], None}
         /\ \A p \in Pkgs : In(p)' => In(p)
         /\ \A p \in Pkgs : In(p) => In(p)' \/ (pc = "pkg" /\ Top.pc = "rm_done" /\ p = Top.pkg)
         /\ spoiled \subseteq spoiled'
         /\ \A p \in Pkgs : In(p)' /\ Clean(Name[p])' /\ Name[p] \notin abandoned' => ~Handled(Name[p])
<1>0. Types /\ mem.st \in State /\ backup \in [File -> Content]
  BY MemFacts DEF EditInv, Versions, Types, DiskTypes
<1>1. pc' # "pkg" => Active' = {}
  BY DEF Active
<1>2. InstallPcs \cap RemovePcs = {} /\ "deps" \in InstallPcs
  BY DEF InstallPcs, RemovePcs
<1>3. ASSUME NEW p \in Pkgs, In(p), NEW x \in Active, Name[x.pkg] = Name[p]
      PROVE  /\ x.pc \in InstallPcs => x.old = p /\ p # None
             /\ x.pc \in RemovePcs => x = Top /\ x.pkg = p
  <2>0. pc = "pkg"
    BY <1>3 DEF Active
  <2>1. x.pc \in InstallPcs => x.old = p
    BY <1>3, <2>0, CallFacts DEF Old, In
  <2>2. p # None
    BY Constants
  <2>3. ASSUME x.pc \in RemovePcs PROVE x = Top /\ x.pkg = p
    <3>1. x = Top
      BY <1>2, <1>3, <2>0, <2>3, CallShape DEF Waiting
    <3>2. In(x.pkg) /\ x.pkg \in Pkgs
      BY <1>3, <2>0, <2>3, CallFacts
    <3>. QED  BY <1>3, <3>1, <3>2 DEF EditInv, Versions, Single, In
  <2>. QED  BY <2>1, <2>2, <2>3
<1>4. CASE Fails
  <2>1. /\ pc = "pkg" /\ pc' = "configure" /\ mem'.st = mem.st /\ dirty' = dirty
        /\ abandoned' = abandoned \cup GivenUp(Range(stack)) /\ Top.pc \in InstallPcs
        /\ UNCHANGED <<files, list, db, owner, obs, changed, touched, litter, spoiled>>
        /\ \A f \in File : backup'[f] \in {backup[f], None}
    BY <1>4, FailsStep
  <2>2. ASSUME NEW p \in Pkgs, In(p)', Name[p] \notin abandoned' PROVE ~Handled(Name[p])
    <3>. SUFFICES ASSUME NEW x \in Active, Name[x.pkg] = Name[p], x.pc \notin {"prepare", "rm_files"} PROVE FALSE
      BY DEF Handled
    <3>1. In(p)
      BY <2>1, <2>2 DEF In
    <3>2. x.pc \in InstallPcs
      <4>1. x.pc \in InstallPcs \cup RemovePcs
        BY <2>1, CallFacts DEF Call, CallRecord
      <4>. QED  BY <1>2, <1>3, <2>1, <3>1, <4>1
    <3>3. Name[x.old] \in abandoned'
      BY <1>3, <2>1, <3>1, <3>2, GivesUp
    <3>. QED  BY <1>3, <2>2, <3>1, <3>2, <3>3
  <2>. QED  BY <1>1, <2>1, <2>2 DEF In
<1>5. CASE Removed
  <2>1. /\ pc = "pkg" /\ pc' = "status" /\ Top.pc = "rm_done"
        /\ UNCHANGED <<disk, db, owner, obs, changed, dirty, history>>
    BY <1>5 DEF Removed, At
  <2>2. mem'.st = [mem.st EXCEPT ![Top.pkg] = "not"]
    BY <1>0, <1>5, RemovedTypes
  <2>3. Top.pkg \in Pkgs
    BY <1>0, <2>1, TopFacts
  <2>4. \A p \in Pkgs : (In(p)' => In(p) /\ p # Top.pkg) /\ (In(p) => In(p)' \/ p = Top.pkg)
    BY <1>0, <2>2, <2>3 DEF In, State
  <2>5. "rm_done" \in RemovePcs
    BY DEF RemovePcs
  <2>6. ASSUME NEW p \in Pkgs, In(p)' PROVE ~Handled(Name[p])
    <3>. SUFFICES ASSUME NEW x \in Active, Name[x.pkg] = Name[p] PROVE FALSE
      BY DEF Handled
    <3>1. x = Top
      BY <1>2, <2>1, <2>5, CallShape
    <3>2. x.pkg = p
      BY <1>3, <2>1, <2>4, <2>5, <2>6, <3>1
    <3>. QED  BY <2>4, <2>6, <3>1, <3>2
  <2>7. UNCHANGED <<files, backup, list, touched, litter, abandoned, spoiled>>
    BY <2>1 DEF disk, history
  <2>. QED  BY <1>0, <1>1, <2>1, <2>4, <2>6, <2>7
<1>6. ASSUME pc = "configure" PROVE Active = {} /\ \A n : ~Handled(n)
  BY <1>6 DEF Active, Handled
<1>7. ASSUME NEW ok \in BOOLEAN, opkg_configure(ok)
      PROVE  /\ pc = "configure" /\ pc' = pc /\ dirty' \in {dirty, TRUE}
             /\ UNCHANGED <<files, backup, list, db, owner, obs, changed, touched, abandoned, spoiled, litter>>
             /\ \A p \in Pkgs : In(p)' <=> In(p)
  <2>1. /\ pc = "configure" /\ pc' = pc /\ dirty' = (dirty \/ ok)
        /\ UNCHANGED <<files, backup, list, db, owner, obs, changed, touched, abandoned, spoiled, litter>>
    BY <1>7 DEF opkg_configure, disk
  <2>2. PICK p \in Pkgs : mem.st[p] = "unpacked" /\ mem'.st \in {mem.st, [mem.st EXCEPT ![p] = "installed"]}
    BY <1>0, <1>7, ConfigureMem
  <2>3. \A q \in Pkgs : In(q)' <=> In(q)
    BY <1>0, <2>2 DEF In, State
  <2>4. dirty \in BOOLEAN
    BY <1>0 DEF Types, OwnerTypes
  <2>5. dirty' \in {dirty, TRUE}
    BY <1>7, <2>1, <2>4
  <2>. QED  BY <2>1, <2>3, <2>5
<1>8. CASE ConfigureDone
  <2>1. /\ pc = "configure" /\ pc' = "status"
        /\ UNCHANGED <<files, backup, list, db, mem, owner, obs, changed, dirty, touched, abandoned,
                       spoiled, litter>>
    BY <1>8 DEF ConfigureDone, disk, memory, history
  <2>. QED  BY <1>0, <1>1, <1>6, <2>1 DEF In
<1>9. CASE sigint_handler
  <2>1. /\ pc \in {"pkg", "configure"} /\ pc' = "status" /\ abandoned' = abandoned \cup GivenUp(Range(stack))
        /\ spoiled' = spoiled \cup {<<Name[fr.pkg], "interrupted">> :
                                     fr \in {g \in Range(stack) : g.pc \in {"rm_list", "rm_done"}}}
        /\ UNCHANGED <<files, backup, list, db, mem, owner, obs, changed, dirty, touched, litter>>
    BY <1>9 DEF sigint_handler, disk, memory
  <2>2. ASSUME NEW p \in Pkgs, In(p)', Clean(Name[p])', Name[p] \notin abandoned' PROVE ~Handled(Name[p])
    <3>. SUFFICES ASSUME NEW x \in Active, Name[x.pkg] = Name[p], x.pc \notin {"prepare", "rm_files"} PROVE FALSE
      BY DEF Handled
    <3>1. In(p) /\ pc = "pkg"
      BY <2>1, <2>2 DEF In, Active
    <3>2. x.pc \in InstallPcs \cup RemovePcs
      BY <3>1, CallFacts DEF Call, CallRecord
    <3>3. CASE x.pc \in InstallPcs
      <4>1. Name[x.old] \in abandoned'
        BY <1>3, <2>1, <3>1, <3>3, GivesUp
      <4>. QED  BY <1>3, <2>2, <3>1, <3>3, <4>1
    <3>4. CASE x.pc \in RemovePcs
      <4>1. x.pc \in {"rm_list", "rm_done"} /\ x \in Range(stack)
        BY <3>4, ActiveStack DEF RemovePcs
      <4>2. <<Name[x.pkg], "interrupted">> \in spoiled'
        BY <2>1, <4>1
      <4>. QED  BY <2>2, <4>2 DEF Clean, Mishaps
    <3>. QED  BY <3>2, <3>3, <3>4
  <2>. QED  BY <1>0, <1>1, <2>1, <2>2 DEF In
<1>. QED  BY <1>1, <1>4, <1>5, <1>6, <1>7, <1>8, <1>9 DEF Ends

LEMMA Several ==
  ASSUME NEW n \in Nat, NEW C, C \subseteq 1..n, NEW i \in C, NEW j \in C, i # j PROVE Cardinality(C) > 1
<1>1. IsFiniteSet(1..n)
  BY FS_Interval
<1>2. IsFiniteSet(C)
  BY <1>1, FS_Subset
<1>3. Cardinality(C) \in Nat
  BY <1>2, FS_CardinalityType
<1>4. Cardinality(C) # 0
  BY <1>2, FS_EmptySet
<1>5. Cardinality(C) # 1
  BY <1>2, FS_Singleton
<1>. QED  BY <1>3, <1>4, <1>5

(* A process that has read the database: a file in a list has an owner, and    *)
(* two packages whose lists name the same file are flagged.                    *)
LEMMA ReadFacts ==
  ASSUME NEW d \in Sums, NEW l, preinstall_check(d, l)
  PROVE  /\ \A f \in File : owner'[f] # None =>
                owner'[f] \in Pkgs /\ d.st[owner'[f]] # "not" /\ f \in l[Name[owner'[f]]]
         /\ \A f \in File, p \in Pkgs : d.st[p] # "not" /\ f \in l[Name[p]] => owner'[f] # None
         /\ \A f \in File, p, q \in Pkgs :
                /\ d.st[p] # "not" /\ f \in l[Name[p]] /\ d.st[q] # "not" /\ f \in l[Name[q]] /\ p # q
                => p \in changed'
<1>. DEFINE Claims(g) == {i \in 1..Len(Order) : Installed(Order[i], d) /\ g \in l[Name[Order[i]]]}
<1>1. /\ owner' = [g \in File |-> IF Claims(g) = {} THEN None
                                  ELSE Order[CHOOSE i \in Claims(g) : \A j \in Claims(g) : j <= i]]
      /\ changed' = {Order[i] : i \in UNION {Claims(f) : f \in {g \in File : Cardinality(Claims(g)) > 1}}}
  BY DEF preinstall_check
<1>2. owner' \in [File -> Pkgs \cup {None}]
  BY CheckTypes
<1>3. \A f \in File : owner'[f] # None => owner'[f] \in Pkgs /\ d.st[owner'[f]] # "not" /\ f \in l[Name[owner'[f]]]
  BY <1>2, CheckOwner
<1>4. ASSUME NEW f \in File, NEW p \in Pkgs, d.st[p] # "not", f \in l[Name[p]]
      PROVE  \E i \in Claims(f) : Order[i] = p
  BY <1>4, OrderFacts, InstalledIs
<1>5. ASSUME NEW f \in File, NEW p \in Pkgs, d.st[p] # "not", f \in l[Name[p]] PROVE owner'[f] # None
  <2>1. Claims(f) # {} /\ Claims(f) \subseteq 1..Len(Order)
    BY <1>4, <1>5
  <2>2. owner'[f] = Order[CHOOSE i \in Claims(f) : \A j \in Claims(f) : j <= i]
    BY <1>1, <2>1
  <2>3. PICK C : C = Claims(f)
    OBVIOUS
  <2>. HIDE DEF Claims
  <2>4. \E i \in C : \A j \in C : j <= i
    BY <2>1, <2>3, OrderFacts, Greatest
  <2>5. (CHOOSE i \in C : \A j \in C : j <= i) \in C
    BY <2>4
  <2>6. owner'[f] \in Pkgs
    BY <2>1, <2>2, <2>3, <2>5, OrderFacts
  <2>. QED  BY <2>6, Constants
<1>6. ASSUME NEW f \in File, NEW p \in Pkgs, NEW q \in Pkgs, d.st[p] # "not", f \in l[Name[p]],
             d.st[q] # "not", f \in l[Name[q]], p # q
      PROVE  p \in changed'
  <2>1. PICK i \in Claims(f) : Order[i] = p
    BY <1>4, <1>6
  <2>2. PICK j \in Claims(f) : Order[j] = q
    BY <1>4, <1>6
  <2>3. Claims(f) \subseteq 1..Len(Order) /\ i # j
    BY <1>6, <2>1, <2>2
  <2>. HIDE DEF Claims
  <2>4. Cardinality(Claims(f)) > 1
    BY <2>3, OrderFacts, Several
  <2>5. i \in UNION {Claims(g) : g \in {h \in File : Cardinality(Claims(h)) > 1}}
    BY <2>4
  <2>. QED  BY <1>1, <2>1, <2>5
<1>. HIDE DEF Claims
<1>. QED  BY <1>3, <1>5, <1>6

LEMMA IdleStep ==
  ASSUME EditInv, opkg_update \/ \E f \in ConfFile, e \in Edits : Edit(f, e)
  PROVE  /\ pc = "idle" /\ pc' = "idle" /\ Active = {} /\ Active' = {}
         /\ UNCHANGED <<backup, list, db, mem, owner, obs, changed, dirty, touched, abandoned, spoiled, litter>>
         /\ \A f \in File \ ConfFile : files'[f] = files[f]
<1>1. files \in [File -> Content]
  BY DEF EditInv, Versions, Types, DiskTypes
<1>2. CASE opkg_update
  BY <1>2 DEF opkg_update, Active, disk, memory, history
<1>3. ASSUME NEW f \in ConfFile, NEW e \in Edits, Edit(f, e)
      PROVE  /\ pc = "idle" /\ pc' = "idle"
             /\ UNCHANGED <<backup, list, db, mem, owner, obs, changed, dirty, touched, abandoned, spoiled, litter>>
             /\ \A g \in File \ ConfFile : files'[g] = files[g]
  BY <1>1, <1>3 DEF Edit, memory
<1>. QED  BY <1>2, <1>3 DEF Active

LEMMA StatusStep ==
  ASSUME EditInv, write_status_files
  PROVE  /\ pc = "status" /\ pc' = "lists" /\ Active = {} /\ Active' = {} /\ dirty = TRUE
         /\ db'.st = mem.st /\ touched' = {} /\ spoiled' = spoiled \cup (abandoned \X {"abandoned"})
         /\ litter' = litter \cup UNION {list[n] : n \in abandoned}
         /\ UNCHANGED <<files, backup, list, mem, owner, obs, changed, dirty, abandoned>>
<1>1. Types /\ db'.st = mem.st
  BY StatusTypes DEF EditInv, Versions
<1>2. dirty \in BOOLEAN
  BY <1>1 DEF Types, OwnerTypes
<1>. QED  BY <1>1, <1>2 DEF write_status_files, Active, disk, memory

(* The steps after which the next process has read the database. *)
Reads == nothing_to_be_done \/ pkg_write_changed_filelists \/ Crash

LEMMA ReadStep ==
  ASSUME EditInv, Reads
  PROVE  /\ pc' = "idle" /\ Active' = {} /\ mem' = db /\ db' = db /\ db \in Sums /\ obs' = {} /\ dirty' = FALSE
         /\ touched' = {} /\ abandoned' = {} /\ preinstall_check(db, list')
         /\ UNCHANGED <<files, backup>> /\ spoiled \subseteq spoiled' /\ litter \subseteq litter'
<1>1. db \in Sums
  BY DEF EditInv, Versions, Types
<1>2. /\ pc' = "idle" /\ db' = db /\ touched' = {} /\ abandoned' = {} /\ preinstall_check(db, list')
      /\ UNCHANGED <<files, backup>> /\ spoiled \subseteq spoiled' /\ litter \subseteq litter'
  <2>1. CASE nothing_to_be_done
    BY <2>1 DEF nothing_to_be_done, disk
  <2>2. CASE pkg_write_changed_filelists
    BY <2>2 DEF pkg_write_changed_filelists
  <2>3. CASE Crash
    BY <2>3 DEF Crash, disk
  <2>. QED  BY <2>1, <2>2, <2>3 DEF Reads
<1>. QED  BY <1>1, <1>2 DEF preinstall_check, Active

LEMMA OutsideCases ==
  ASSUME Outside
  PROVE  \/ opkg_update \/ \E f \in ConfFile, e \in Edits : Edit(f, e)
         \/ Ends \/ write_status_files \/ Reads
BY DEF Outside, Ends, Reads

(* The steps that Keeps describes. *)
OnwardSteps == Steps \/ Enter \/ pkg_write_filelist \/ \E kept \in SUBSET ConfFile : resolve_conffiles(kept)

LEMMA StepCases ==
  ASSUME [Next]_vars
  PROVE  \/ UNCHANGED vars \/ opkg_update \/ \E f \in ConfFile, e \in Edits : Edit(f, e)
         \/ Ends \/ write_status_files \/ Reads
         \/ \E n \in Names : opkg_install_cmd(n) \/ opkg_remove_cmd(n)
         \/ Prepare \/ satisfy_dependencies_for \/ Finish \/ OnwardSteps
BY Actions, OutsideCases DEF OnwardSteps

(* All of them at once, as far as the flags and the lists go. *)
LEMMA OnwardFacts ==
  ASSUME EditInv, OnwardSteps
  PROVE  \E x : /\ Keeps(x) /\ Onward(Top.pc, x.pc)
                /\ dirty' \in {dirty, TRUE} /\ touched \subseteq touched'
                /\ \A f \in File \ ConfFile : backup[f] = None => backup'[f] = None
                /\ \A p \in Pkgs : In(p)' => In(p)
                /\ \A p \in Pkgs : In(p) => In(p)' \/ (Top.pc = "deps" /\ Waits = {} /\ Name[p] \in touched')
                /\ touched' = touched \/ dirty' = TRUE
                /\ x.pc \in Changing /\ Top.pc \notin Changing => touched' = touched \cup {Name[Top.pkg]}
                /\ \A p \in Pkgs : p \in changed => p \in changed' \/ (p = Top.pkg /\ ~In(p))
                /\ \A n \in Names :
                     \/ list'[n] \subseteq list[n]
                     \/ Top.pc = "list" /\ n = Name[Top.pkg] /\ list'[n] = {f \in File : owner[f] = Top.pkg}
<1>0. /\ Types /\ mem.st \in State /\ list \in [Names -> SUBSET File] /\ pc = "pkg" /\ Top.pkg \in Pkgs
      /\ Top.old \in Pkgs \cup {None}
  <2>1. Types
    BY DEF EditInv, Versions
  <2>2. pc = "pkg"
    BY DEF OnwardSteps, Steps, At, preinst_configure, backup_modified_conffiles, check_data_file_clashes,
       remove_old_files, remove_old_list, Extract, remove_data_files, remove_list, Enter, pkg_write_filelist,
       resolve_conffiles
  <2>. QED  BY <2>1, <2>2, MemFacts, TopFacts DEF Types, DiskTypes
<1>1. Top.pc \in Entered \cup Late \cup RemovePcs => dirty = TRUE
  <2>1. CallOK(Top, mem, changed, list, dirty, Trusted)
    BY <1>0, TopCall
  <2>. QED  BY <2>1 DEF CallOK
<1>2. Name[Top.pkg] \in Names /\ (Top.old # None => Name[Top.old] \in Names) /\ \A p \in Pkgs : Name[p] \in Names
  BY <1>0, Constants
<1>3. CASE preinst_configure
  <2>1. PICK x : /\ Keeps(x) /\ x.pc = "backup" /\ Top.pc = "preinst"
                 /\ UNCHANGED <<files, backup, list, mem, changed, dirty, touched, litter>>
    BY <1>3, PreinstStep
  <2>2. Onward("preinst", "backup") /\ "backup" \notin Changing
    BY DEF Onward, Past, InstallPcs, Changing
  <2>. QED  BY <1>0, <2>1, <2>2 DEF In
<1>4. CASE backup_modified_conffiles
  <2>1. PICK x : /\ Keeps(x) /\ x.pc = "clashes" /\ Top.pc = "backup"
                 /\ UNCHANGED <<files, list, mem, changed, dirty, touched, litter>>
                 /\ \A f \in File \ ConfFile : backup'[f] = backup[f]
    BY <1>4, BackupStep
  <2>2. Onward("backup", "clashes") /\ "clashes" \notin Changing
    BY DEF Onward, Past, InstallPcs, Changing
  <2>. QED  BY <1>0, <2>1, <2>2 DEF In
<1>5. CASE check_data_file_clashes
  <2>1. PICK x : /\ Keeps(x) /\ x.pc = "erase" /\ Top.pc = "clashes"
                 /\ UNCHANGED <<files, backup, list, mem, changed, dirty, touched, litter>>
    BY <1>5, ClashesStep
  <2>2. Onward("clashes", "erase") /\ "erase" \notin Changing
    BY DEF Onward, Past, InstallPcs, Changing
  <2>. QED  BY <1>0, <2>1, <2>2 DEF In
<1>6. CASE remove_old_files
  <2>1. PICK x : /\ Keeps(x) /\ x.pc = "unlist" /\ Top.pc = "erase"
                 /\ UNCHANGED <<backup, list, mem, changed, dirty, litter>> /\ touched' = touched \cup {Name[Top.pkg]}
    BY <1>6, EraseStep
  <2>2. Onward("erase", "unlist") /\ "erase" \in Entered
    BY DEF Onward, Past, InstallPcs, Entered
  <2>. QED  BY <1>0, <1>1, <2>1, <2>2 DEF In
<1>7. CASE remove_old_list
  <2>1. PICK x : /\ Keeps(x) /\ x.pc = "extract" /\ Top.pc = "unlist"
                 /\ UNCHANGED <<files, backup, mem, changed, dirty, touched, litter>>
                 /\ list' = IF Top.old = None THEN list ELSE [list EXCEPT ![Name[Top.old]] = {}]
    BY <1>7, UnlistStep
  <2>2. Onward("unlist", "extract") /\ "unlist" \in Changing
    BY DEF Onward, Past, InstallPcs, Changing
  <2>3. \A n \in Names : list'[n] \subseteq list[n]
    BY <1>0, <1>2, <2>1
  <2>. QED  BY <1>0, <2>1, <2>2, <2>3 DEF In
<1>8. ASSUME NEW S, S \subseteq Files[Top.pkg], Extract(S)
      PROVE  \E x : /\ Keeps(x) /\ Onward(Top.pc, x.pc)
                    /\ UNCHANGED <<backup, list, mem, changed, dirty>> /\ touched \subseteq touched'
                    /\ dirty = TRUE /\ Top.pc \in Changing
  <2>1. PICK x : /\ Keeps(x) /\ Top.pc = "extract"
                 /\ x.pc = IF S = Files[Top.pkg] THEN "list" ELSE "resolve"
                 /\ UNCHANGED <<backup, list, mem, changed, dirty>>
                 /\ touched' = touched \cup {Name[owner[f]] : f \in S}
    BY <1>8, ExtractStep
  <2>2. Onward("extract", "list") /\ Onward("extract", "resolve") /\ "extract" \in Entered /\ "extract" \in Changing
    BY DEF Onward, Past, InstallPcs, Entered, Changing
  <2>. QED  BY <1>1, <2>1, <2>2
<1>9. CASE \E S \in SUBSET Files[Top.pkg] : Extract(S)
  BY <1>0, <1>8, <1>9 DEF In
<1>10. CASE remove_data_files
  <2>1. PICK x : /\ Keeps(x) /\ x.pc = "rm_list" /\ Top.pc = "rm_files"
                 /\ UNCHANGED <<backup, list, mem, changed, dirty, litter>> /\ touched' = touched \cup {Name[Top.pkg]}
    BY <1>10, RemoveFilesStep
  <2>2. Onward("rm_files", "rm_list") /\ "rm_files" \in RemovePcs
    BY DEF Onward, RemovePcs
  <2>. QED  BY <1>0, <1>1, <2>1, <2>2 DEF In
<1>11. CASE remove_list
  <2>1. PICK x : /\ Keeps(x) /\ x.pc = "rm_done" /\ Top.pc = "rm_list"
                 /\ UNCHANGED <<files, backup, mem, changed, dirty, touched, litter>>
                 /\ list' = [list EXCEPT ![Name[Top.pkg]] = {}]
    BY <1>11, RemoveListStep
  <2>2. Onward("rm_list", "rm_done") /\ "rm_list" \in Changing
    BY DEF Onward, RemovePcs, Changing
  <2>3. \A n \in Names : list'[n] \subseteq list[n]
    BY <1>0, <1>2, <2>1
  <2>. QED  BY <1>0, <2>1, <2>2, <2>3 DEF In
<1>12. CASE Enter
  <2>1. PICK x : /\ Keeps(x) /\ x.pc = "preinst" /\ Top.pc = "deps"
                 /\ UNCHANGED <<backup, litter>> /\ dirty' = TRUE
                 /\ touched' = touched \cup {Name[p] : p \in Orphans}
                 /\ changed' = changed \cup {Top.pkg} \cup Orphans
                 /\ mem'.st = [p \in Pkgs |-> IF p \in Orphans THEN "not" ELSE mem.st[p]]
                 /\ list' = [n \in Names |-> IF n \in {Name[p] : p \in Orphans} THEN {} ELSE list[n]]
                 /\ Waits # {} => Orphans = {}
    BY <1>12, EnterStep
  <2>2. Onward("deps", "preinst") /\ "preinst" \notin Changing
    BY DEF Onward, Past, InstallPcs, Changing
  <2>3. \A p \in Pkgs : (In(p)' => In(p)) /\ (In(p) => In(p)' \/ (Waits = {} /\ Name[p] \in touched'))
    BY <2>1 DEF In
  <2>4. \A n \in Names : list'[n] \subseteq list[n]
    BY <2>1
  <2>. QED  BY <1>0, <2>1, <2>2, <2>3, <2>4
<1>13. CASE pkg_write_filelist
  <2>1. PICK x : /\ Keeps(x) /\ x.pc = "resolve" /\ Top.pc = "list"
                 /\ UNCHANGED <<files, backup, mem, dirty, touched, litter>>
                 /\ list' = [list EXCEPT ![Name[Top.pkg]] = {f \in File : owner[f] = Top.pkg}]
                 /\ changed' = changed \ {Top.pkg}
    BY <1>13, ListStep
  <2>2. Onward("list", "resolve") /\ "list" \in Changing /\ "list" \in InstallPcs
    BY DEF Onward, Past, InstallPcs, Changing
  <2>3. \A n \in Names : list'[n] = IF n = Name[Top.pkg] THEN {f \in File : owner[f] = Top.pkg} ELSE list[n]
    BY <1>0, <1>2, <2>1
  <2>4. ~In(Top.pkg)
    BY <1>0, <2>1, <2>2, CallFacts, CallShape
  <2>. QED  BY <1>0, <2>1, <2>2, <2>3, <2>4 DEF In
<1>14. ASSUME NEW kept, resolve_conffiles(kept)
       PROVE  \E x : /\ Keeps(x) /\ x.pc = "finish" /\ Top.pc = "resolve"
                     /\ UNCHANGED <<list, changed, dirty, touched, litter>> /\ mem'.st = mem.st
                     /\ \A f \in File \ ConfFile : files'[f] = files[f] /\ (backup[f] = None => backup'[f] = None)
  BY <1>14, ResolveStep
<1>15. CASE \E kept \in SUBSET ConfFile : resolve_conffiles(kept)
  <2>1. Onward("resolve", "finish") /\ "resolve" \in Changing
    BY DEF Onward, Past, InstallPcs, Changing
  <2>. QED  BY <1>0, <1>14, <1>15, <2>1 DEF In
<1>. QED  BY <1>3, <1>4, <1>5, <1>6, <1>7, <1>9, <1>10, <1>11, <1>12, <1>13, <1>15 DEF OnwardSteps, Steps

-----------------------------------------------------------------------------
(* The phases of a command. *)

PhasesInv == Quiescent /\ Agreed /\ Touching /\ DataBackups

LEMMA NextPhases == ASSUME EditInv, EditInv', PhasesInv, [Next]_vars PROVE PhasesInv'
<1>0. Quiescent /\ Agreed /\ Touching /\ DataBackups /\ Types' /\ dirty \in BOOLEAN
  BY DEF PhasesInv, EditInv, Versions, Types, OwnerTypes
<1>1. CASE UNCHANGED vars
  BY <1>0, <1>1 DEF PhasesInv, Quiescent, Agreed, Touching, DataBackups, vars
<1>2. CASE opkg_update \/ \E f \in ConfFile, e \in Edits : Edit(f, e)
  <2>1. /\ pc = "idle" /\ pc' = "idle"
        /\ UNCHANGED <<backup, list, db, mem, owner, obs, changed, dirty, touched, abandoned, spoiled, litter>>
    BY <1>2, IdleStep
  <2>. QED  BY <1>0, <2>1 DEF PhasesInv, Quiescent, Agreed, Touching, DataBackups
<1>3. CASE Ends
  <2>1. /\ pc \in {"pkg", "configure"} /\ pc' \in {"configure", "status"}
        /\ UNCHANGED <<db, touched>> /\ dirty' \in {dirty, TRUE}
        /\ \A f \in File : backup'[f] \in {backup[f], None}
        /\ \A p \in Pkgs : In(p)' => In(p)
        /\ \A p \in Pkgs : In(p) => In(p)' \/ (pc = "pkg" /\ Top.pc = "rm_done" /\ p = Top.pkg)
    BY <1>3, EndStep
  <2>2. pc = "pkg" /\ Top.pc = "rm_done" => Name[Top.pkg] \in touched
    <3>1. pc = "pkg" => Top = stack[1]
      BY CallShape
    <3>. QED  BY <1>0, <3>1 DEF Touching, Changing
  <2>3. Agreed'
    BY <1>0, <2>1, <2>2 DEF Agreed, In
  <2>. QED  BY <1>0, <2>1, <2>3 DEF PhasesInv, Quiescent, Touching, DataBackups
<1>4. CASE write_status_files
  <2>1. /\ pc = "status" /\ pc' = "lists" /\ dirty = TRUE
        /\ db'.st = mem.st /\ touched' = {} /\ spoiled' = spoiled \cup (abandoned \X {"abandoned"})
        /\ UNCHANGED <<files, backup, list, mem, owner, obs, changed, dirty, abandoned>>
    BY <1>4, StatusStep
  <2>. QED  BY <1>0, <2>1 DEF PhasesInv, Quiescent, Agreed, Touching, DataBackups
<1>5. CASE Reads
  <2>1. /\ pc' = "idle" /\ mem' = db /\ db' = db /\ obs' = {} /\ dirty' = FALSE
        /\ touched' = {} /\ abandoned' = {} /\ UNCHANGED <<files, backup>>
    BY <1>5, ReadStep
  <2>. QED  BY <1>0, <2>1 DEF PhasesInv, Quiescent, Agreed, Touching, DataBackups
<1>6. ASSUME NEW n \in Names, opkg_install_cmd(n) \/ opkg_remove_cmd(n) PROVE PhasesInv'
  <2>1. /\ pc = "idle" /\ mem'.st = mem.st
        /\ UNCHANGED <<files, backup, list, db, owner, obs, touched, abandoned, spoiled, litter>>
        /\ pc' = "configure" \/ (pc' = "pkg" /\ stack'[1].pc \in {"prepare", "rm_files"})
    BY <1>6, BeginStep
  <2>. QED  BY <1>0, <2>1 DEF PhasesInv, Quiescent, Agreed, Touching, DataBackups, Changing
<1>7. CASE Prepare
  <2>1. PICK x : /\ Moves(x) /\ x.pc = "deps" /\ mem'.st = mem.st
                 /\ UNCHANGED <<files, backup, list, db, dirty, touched, abandoned, spoiled, litter>>
    BY <1>7, PrepareStep
  <2>2. pc = "pkg" /\ pc' = "pkg" /\ stack'[1] = x
    BY <2>1, MoveShape
  <2>. QED  BY <1>0, <2>1, <2>2 DEF PhasesInv, Quiescent, Agreed, Touching, DataBackups, Changing
<1>8. CASE satisfy_dependencies_for
  <2>1. /\ pc = "pkg" /\ pc' = "pkg" /\ stack'[1].pc = "prepare" /\ mem'.st = mem.st
        /\ UNCHANGED <<files, backup, list, db, owner, obs, changed, dirty, touched, abandoned, spoiled, litter>>
    BY <1>0, <1>8, PushShape
  <2>. QED  BY <1>0, <2>1 DEF PhasesInv, Quiescent, Agreed, Touching, DataBackups, Changing
<1>9. CASE Finish
  <2>1. /\ pc = "pkg" /\ Top = stack[1] /\ Top.pc = "finish" /\ Top.pkg \in Pkgs
        /\ pc' = "configure" \/ (pc' = "pkg" /\ stack'[1] = Base /\ Waiting(Base))
        /\ mem'.st = [p \in Pkgs |-> IF p = Top.pkg THEN "unpacked" ELSE IF p = Top.old THEN "not" ELSE mem.st[p]]
        /\ UNCHANGED <<files, backup, list, db, owner, obs, changed, dirty, touched, abandoned, litter>>
    BY <1>9, PopShape
  <2>2. Name[Top.pkg] \in touched
    BY <1>0, <2>1 DEF Touching, Changing
  <2>3. Top.old # None => Name[Top.old] = Name[Top.pkg]
    BY <2>1, CallFacts, CallShape DEF InstallPcs
  <2>4. None \notin Pkgs
    BY Constants
  <2>5. Agreed'
    BY <1>0, <2>1, <2>2, <2>3, <2>4 DEF Agreed
  <2>. QED  BY <1>0, <2>1, <2>5 DEF PhasesInv, Quiescent, Touching, DataBackups, Changing, Waiting
<1>10. CASE OnwardSteps
  <2>1. PICK x : /\ Keeps(x) /\ dirty' \in {dirty, TRUE} /\ touched \subseteq touched'
                 /\ \A f \in File \ ConfFile : backup[f] = None => backup'[f] = None
                 /\ \A p \in Pkgs : In(p)' => In(p)
                 /\ \A p \in Pkgs : In(p) => In(p)' \/ Name[p] \in touched'
                 /\ touched' = touched \/ dirty' = TRUE
                 /\ x.pc \in Changing /\ Top.pc \notin Changing => touched' = touched \cup {Name[Top.pkg]}
    BY <1>10, OnwardFacts
  <2>2. /\ pc = "pkg" /\ pc' = "pkg" /\ stack'[1] = x /\ x.pkg = Top.pkg /\ Top = stack[1]
        /\ SameOwners
    BY <2>1, MoveShape, CallShape DEF Keeps
  <2>3. Touching'
    BY <1>0, <2>1, <2>2 DEF Touching
  <2>4. Agreed'
    BY <1>0, <2>1, <2>2 DEF Agreed, In, SameOwners
  <2>5. Quiescent'
    BY <1>0, <2>1, <2>2 DEF Quiescent, SameOwners
  <2>6. DataBackups'
    BY <1>0, <2>1 DEF DataBackups
  <2>. QED  BY <2>3, <2>4, <2>5, <2>6 DEF PhasesInv
<1>. QED  BY <1>1, <1>2, <1>3, <1>4, <1>5, <1>6, <1>7, <1>8, <1>9, <1>10, StepCases

-----------------------------------------------------------------------------
(* The owners. *)

LEMMA OnwardWrites ==
  ASSUME EditInv, OnwardSteps, NEW q \in Pkgs, In(q), ToWrite(q)
  PROVE  ToWrite(q)'
<1>1. PICK x : Keeps(x) /\ \A p \in Pkgs : p \in changed => p \in changed' \/ (p = Top.pkg /\ ~In(p))
  BY OnwardFacts
<1>2. pc = "pkg" /\ pc' = "pkg" /\ Base'.pkg = Base.pkg
  BY <1>1, MoveShape DEF Keeps
<1>. QED  BY <1>1, <1>2 DEF ToWrite, Base

LEMMA OnwardOwners ==
  ASSUME EditInv, OwnersInv, OnwardSteps
  PROVE  OwnersInv'
<1>0. Claimed /\ Takes /\ Obsolete /\ Listed
  BY DEF OwnersInv
<1>1. PICK x : /\ Keeps(x) /\ Onward(Top.pc, x.pc)
               /\ \A p \in Pkgs : In(p)' => In(p)
               /\ \A p \in Pkgs : In(p) => In(p)' \/ Waits = {}
               /\ \A p \in Pkgs : p \in changed => p \in changed' \/ ~In(p)
               /\ \A n \in Names :
                    \/ list'[n] \subseteq list[n]
                    \/ Top.pc = "list" /\ n = Name[Top.pkg] /\ list'[n] = {f \in File : owner[f] = Top.pkg}
  BY OnwardFacts
<1>2. /\ pc = "pkg" /\ pc' = "pkg" /\ stack'[1] = x /\ Active' = {x} \cup Waits
      /\ x.pkg = Top.pkg /\ x.old = Top.old /\ Base'.pkg = Base.pkg /\ Base'.old = Base.old
      /\ Base' = IF Waits = {} THEN x ELSE Base
      /\ owner' = owner /\ obs' = obs /\ spoiled' = spoiled
  BY <1>1, MoveShape DEF Keeps, SameOwners
<1>3. /\ Types /\ Active = {Top} \cup Waits /\ Top.pkg \in Pkgs
      /\ (Waits = {} /\ Base = Top) \/ (Waits = {Base} /\ Top.old = None /\ Base.pc = "deps")
  BY <1>2, CallShape, TopFacts DEF Waiting
<1>4. /\ RemovePcs \cap InstallPcs = {} /\ Past \subseteq InstallPcs
      /\ "deps" \in Past /\ "list" \in Past /\ "prepare" \notin Past
      /\ "prepare" \notin RemovePcs /\ "deps" \notin RemovePcs
  BY DEF RemovePcs, InstallPcs, Past
<1>5. x.pc \notin {"prepare", "deps"} /\ (x.pc \in Past <=> Top.pc \in Past)
  BY <1>1, <1>4 DEF Onward
<1>6. Claimed'
  <2>1. SUFFICES ASSUME Waits = {Base}, Base.pc = "deps", NEW f \in File
                 PROVE  \/ owner[f] = None \/ In(owner[f])'
                        \/ \E y \in Active' : owner[f] = y.pkg /\ y.pc \in Past
    BY <1>2, <1>3, <1>5 DEF Claimed
  <2>2. \/ owner[f] = None \/ In(owner[f])
        \/ \E y \in Active : owner[f] = y.pkg /\ y.pc \in Past
    BY <1>0, <1>2, <2>1 DEF Claimed
  <2>3. owner[f] \in Pkgs \cup {None}
    BY <1>3 DEF Types, OwnerTypes
  <2>. QED  BY <1>1, <1>2, <1>3, <1>5, <2>1, <2>2, <2>3
<1>7. \A q \in Pkgs : In(q)' => (ToWrite(q) => ToWrite(q)')
  BY <1>1, OnwardWrites
<1>8. Takes'
  <2>1. SUFFICES ASSUME NEW y \in Active', y.pc \in Past PROVE After(y)'
    BY <1>2, <1>3, <1>4, <1>5 DEF Takes
  <2>2. PICK z \in Active : z.pkg = y.pkg /\ z.old = y.old /\ z.pc \in Past
    BY <1>2, <1>3, <1>5, <2>1
  <2>3. After(z)
    BY <1>0, <2>2 DEF Takes
  <2>4. ASSUME y.old = None, NEW q \in Pkgs, In(q)', ~ToWrite(q)', NEW f \in list'[Name[q]]
        PROVE  owner'[f] # y.pkg
    <3>1. In(q) /\ ~ToWrite(q) /\ Name[q] \in Names /\ q # None
      BY <1>1, <1>7, <2>4, Constants
    <3>2. CASE f \in list[Name[q]]
      BY <1>2, <2>2, <2>3, <2>4, <3>1, <3>2 DEF After
    <3>3. CASE Top.pc = "list" /\ Name[q] = Name[Top.pkg]
      <4>1. Top.old = None
        BY <1>2, <1>3, <2>1, <2>2, <2>4
      <4>2. Old(Top, mem.st)
        BY <1>2, <1>3, <1>4, <3>3, CallFacts
      <4>. QED  BY <3>1, <3>3, <4>1, <4>2 DEF Old, In
    <3>. QED  BY <1>1, <2>4, <3>1, <3>2, <3>3
  <2>. QED  BY <1>2, <2>2, <2>3, <2>4 DEF After, Clean
<1>9. Obsolete'
  BY <1>0, <1>2, <1>3, <1>5 DEF Obsolete
<1>10. Listed'
  <2>1. SUFFICES ASSUME NEW q \in Pkgs, In(q)', NEW f \in list'[Name[q]]
                 PROVE  (Own(f, q) \/ q \in changed') /\ (owner[f] # None \/ ToWrite(q)')
    BY <1>2 DEF Listed, Own
  <2>2. In(q) /\ Name[q] \in Names /\ None \notin Pkgs
    BY <1>1, <2>1, Constants
  <2>3. CASE f \in list[Name[q]]
    BY <1>0, <1>1, <1>7, <2>1, <2>2, <2>3 DEF Listed
  <2>4. CASE Name[q] = Name[Top.pkg] /\ owner[f] = Top.pkg
    BY <1>3, <2>2, <2>4 DEF Own
  <2>. QED  BY <1>1, <2>1, <2>2, <2>3, <2>4
<1>. QED  BY <1>6, <1>8, <1>9, <1>10 DEF OwnersInv

LEMMA PrepareOwners ==
  ASSUME EditInv, OwnersInv, Quiescent, Settled, Prepare
  PROVE  OwnersInv'
<1>0. Claimed /\ Takes /\ Obsolete /\ Listed
  BY DEF OwnersInv
<1>1. PICK x : /\ Moves(x) /\ x.pc = "deps" /\ Top.pc = "prepare" /\ mem'.st = mem.st
               /\ UNCHANGED <<list, spoiled>>
               /\ owner' = [f \in File |-> IF f \in Files[Top.pkg] /\ owner[f] \in {None, Top.old} THEN Top.pkg ELSE owner[f]]
               /\ changed' = changed \/ changed' = changed \cup {Top.pkg, Top.old}
               /\ obs' = IF Top.old = None THEN obs ELSE obs \cup {f \in list[Name[Top.old]] : owner'[f] = Top.old}
  BY PrepareStep
<1>2. /\ pc = "pkg" /\ pc' = "pkg" /\ stack'[1] = x /\ Active' = {x} \cup Waits
      /\ x.pkg = Top.pkg /\ x.old = Top.old /\ Base'.pkg = Base.pkg /\ Base'.old = Base.old
      /\ Base' = IF Waits = {} THEN x ELSE Base
  BY <1>1, MoveShape
<1>3. /\ Types /\ Active = {Top} \cup Waits /\ Top.pkg \in Pkgs
      /\ \/ Waits = {} /\ Base = Top
         \/ Waits = {Base} /\ Top.old = None /\ Base.pc = "deps" /\ Name[Base.pkg] # Name[Top.pkg]
  BY <1>2, CallShape, TopFacts DEF Waiting
<1>4. "prepare" \in InstallPcs /\ "deps" \in Past /\ "prepare" \notin Past
  BY DEF InstallPcs, Past
<1>5. /\ Top.pkg # Top.old /\ Top.pkg # None /\ Top.old \in Pkgs \cup {None}
      /\ Top.old # None => Top.old \in Pkgs /\ Name[Top.old] = Name[Top.pkg] /\ In(Top.old)
  BY <1>1, <1>2, <1>3, <1>4, CallFacts, Constants
<1>6. owner \in [File -> Pkgs \cup {None}] /\ list \in [Names -> SUBSET File] /\ \A q \in Pkgs : Name[q] \in Names
  BY <1>3, Constants DEF Types, OwnerTypes, DiskTypes
<1>7. Before(Top)
  BY <1>0, <1>1, <1>3 DEF Takes
<1>8. \A q \in Pkgs : (ToWrite(q) => ToWrite(q)') /\ (In(q)' <=> In(q))
  BY <1>1, <1>2 DEF ToWrite, Base, In
<1>9. \A f \in File : owner[f] # Top.pkg
  BY <1>5, <1>7 DEF Before
<1>10. Claimed'
  <2>1. SUFFICES ASSUME NEW f \in File
                 PROVE  \/ owner'[f] = None \/ mem'.st[owner'[f]] # "not"
                        \/ \E y \in Active' : owner'[f] = y.pkg /\ y.pc \in Past
    BY DEF Claimed, In
  <2>2. \/ owner[f] = None \/ In(owner[f])
        \/ \E y \in Active : owner[f] = y.pkg /\ y.pc \in Past
    BY <1>0, <1>1, <1>2, <1>3 DEF Claimed
  <2>. QED  BY <1>1, <1>2, <1>3, <1>4, <1>6, <2>2 DEF In
<1>11. After(x)'
  <2>1. \A f \in File : owner'[f] # None /\ Name[owner'[f]] = Name[Top.pkg] => owner'[f] \in {Top.pkg, Top.old}
    BY <1>1, <1>7 DEF Before
  <2>2. \A f \in File : owner'[f] = Top.pkg => f \in Files[Top.pkg]
    BY <1>1, <1>9
  <2>3. \A f \in Files[Top.pkg] : owner'[f] # None /\ owner'[f] # Top.old
    <3>1. Files[Top.pkg] \subseteq File
      BY <1>3 DEF File
    <3>. QED  BY <1>1, <1>5, <3>1
  <2>4. ASSUME Top.old # None, Clean(Name[x.old])', NEW f \in Files[Top.old]
        PROVE  owner'[f] \in {Top.pkg, Top.old}
    <3>1. ~Handled(Name[Top.old]) /\ abandoned = {}
      BY <1>1, <1>2, <1>3, <1>5, <2>4 DEF Handled, Quiescent
    <3>2. Clean(Name[Top.old])
      BY <1>1, <1>2, <2>4 DEF Clean
    <3>3. Exact(Top.old)
      BY <1>5, <2>4, <3>1, <3>2 DEF Settled
    <3>4. f \in File
      BY <1>5, <2>4 DEF File
    <3>. QED  BY <1>1, <2>4, <3>3, <3>4 DEF Exact
  <2>5. ASSUME Top.old = None, NEW q \in Pkgs, In(q)', ~ToWrite(q)', NEW f \in list'[Name[q]]
        PROVE  owner'[f] # Top.pkg
    <3>1. In(q) /\ ~ToWrite(q) /\ f \in list[Name[q]] /\ f \in File
      BY <1>1, <1>6, <1>8, <2>5
    <3>2. owner[f] # None
      BY <1>0, <3>1 DEF Listed
    <3>. QED  BY <1>1, <1>9, <2>5, <3>1, <3>2
  <2>. QED  BY <1>2, <2>1, <2>2, <2>3, <2>4, <2>5 DEF After
<1>12. ASSUME NEW b, b = Base, Waits = {b}, b.pc = "deps", Name[b.pkg] # Name[Top.pkg], Top.old = None PROVE After(b)'
  <2>1. After(b) /\ b.pkg \in Pkgs
    BY <1>0, <1>2, <1>3, <1>4, <1>12, CallFacts DEF Takes
  <2>2. \A f \in File : owner[f] = None \/ owner'[f] = owner[f]
    BY <1>1, <1>12
  <2>3. \A f \in File : owner'[f] = owner[f] \/ owner'[f] = Top.pkg
    BY <1>1
  <2>4. Files[b.pkg] \subseteq File /\ (b.old # None => b.old \in Pkgs /\ Files[b.old] \subseteq File)
    <3>1. b.old # None => b.old \in Pkgs
      BY <1>2, <1>3, <1>12, CallFacts
    <3>. QED  BY <2>1, <3>1 DEF File
  <2>5. \A q \in Pkgs :
          In(q)' /\ ~ToWrite(q)' => In(q) /\ ~ToWrite(q) /\ list'[Name[q]] = list[Name[q]] /\ list[Name[q]] \subseteq File
    BY <1>1, <1>6, <1>8
  <2>6. \A f \in File : owner'[f] # None /\ Name[owner'[f]] = Name[b.pkg] => owner'[f] \in {b.pkg, b.old}
    BY <1>12, <2>1, <2>3 DEF After
  <2>7. \A f \in File : owner'[f] = b.pkg => f \in Files[b.pkg]
    BY <1>12, <2>1, <2>3 DEF After
  <2>8. \A f \in Files[b.pkg] : owner'[f] # None /\ owner'[f] # b.old
    BY <2>1, <2>2, <2>4 DEF After
  <2>9. b.old # None /\ Clean(Name[b.old])' => \A f \in Files[b.old] : owner'[f] \in {b.pkg, b.old}
    <3>1. Clean(Name[b.old])' => Clean(Name[b.old])
      BY <1>1 DEF Clean
    <3>2. b.pkg # None
      BY <2>1, Constants
    <3>. QED  BY <2>1, <2>2, <2>4, <3>1, <3>2 DEF After
  <2>10. b.old = None => \A q \in Pkgs : In(q)' /\ ~ToWrite(q)' => \A f \in list'[Name[q]] : owner'[f] # b.pkg
    BY <1>12, <2>1, <2>3, <2>5 DEF After
  <2>. QED  BY <2>6, <2>7, <2>8, <2>9, <2>10 DEF After
<1>13. Takes'
  BY <1>1, <1>2, <1>3, <1>11, <1>12 DEF Takes
<1>14. Obsolete'
  <2>1. SUFFICES ASSUME NEW f \in obs' PROVE Base'.old # None /\ owner'[f] = Base'.old /\ Base'.pc \in Past
    BY DEF Obsolete
  <2>2. f \in obs => Base.old # None /\ owner[f] = Base.old /\ Base.pc \in Past
    BY <1>0, <1>2 DEF Obsolete
  <2>3. obs \subseteq File
    BY <1>3 DEF Types, OwnerTypes
  <2>4. CASE Waits = {} /\ Base = Top
    BY <1>1, <1>2, <1>4, <2>1, <2>2, <2>4
  <2>5. CASE Waits = {Base} /\ Top.old = None
    BY <1>1, <1>2, <1>4, <2>1, <2>2, <2>3, <2>5
  <2>. QED  BY <1>3, <2>4, <2>5
<1>15. Listed'
  <2>1. SUFFICES ASSUME NEW q \in Pkgs, In(q)', NEW f \in list'[Name[q]]
                 PROVE  (Own(f, q)' \/ q \in changed') /\ (owner'[f] # None \/ ToWrite(q)')
    BY DEF Listed
  <2>2. In(q) /\ f \in list[Name[q]] /\ f \in File
    BY <1>1, <1>6, <1>8, <2>1
  <2>3. (Own(f, q) \/ q \in changed) /\ (owner[f] # None \/ ToWrite(q))
    BY <1>0, <2>2 DEF Listed
  <2>4. owner[f] # None => owner'[f] # None /\ Name[owner'[f]] = Name[owner[f]]
    BY <1>1, <1>5, <2>2
  <2>5. Own(f, q) => Own(f, q)'
    BY <2>4 DEF Own
  <2>. QED  BY <1>1, <1>8, <2>3, <2>4, <2>5
<1>. QED  BY <1>10, <1>13, <1>14, <1>15 DEF OwnersInv

LEMMA SatisfyOwners ==
  ASSUME EditInv, EditInv', OwnersInv, satisfy_dependencies_for
  PROVE  OwnersInv'
<1>0. Claimed /\ Takes /\ Obsolete /\ Listed /\ Types'
  BY DEF OwnersInv, EditInv, Versions
<1>1. /\ pc = "pkg" /\ pc' = "pkg" /\ Top.pc = "deps" /\ Base = Top
      /\ Active = {Top} /\ Base' = Top /\ Active' = {stack'[1], Top}
      /\ stack'[1].pc = "prepare" /\ stack'[1].old = None
      /\ Name[stack'[1].pkg] # Name[Top.pkg] /\ mem'.st = mem.st
      /\ UNCHANGED <<list, owner, obs, changed, spoiled>>
  BY <1>0, PushShape
<1>2. PICK y : y = stack'[1]
  OBVIOUS
<1>3. "prepare" \in InstallPcs /\ "deps" \in Past /\ "prepare" \notin Past
  BY DEF InstallPcs, Past
<1>4. Old(y, mem'.st) /\ y.pkg \in Pkgs
  BY <1>1, <1>2, <1>3, CallFactsNext
<1>5. owner \in [File -> Pkgs \cup {None}]
  BY DEF EditInv, Versions, Types, OwnerTypes
<1>6. \A q \in Pkgs : ToWrite(q)' <=> ToWrite(q)
  BY <1>1 DEF ToWrite, Base
<1>7. Claimed'
  BY <1>0, <1>1 DEF Claimed, In
<1>8. Before(y)'
  <2>1. SUFFICES ASSUME NEW f \in File, owner[f] # None, Name[owner[f]] = Name[y.pkg] PROVE owner[f] = y.old
    BY <1>1 DEF Before
  <2>2. In(owner[f]) \/ owner[f] = Top.pkg
    BY <1>0, <1>1, <2>1 DEF Claimed
  <2>3. mem'.st[owner[f]] # "not" /\ owner[f] \in Pkgs
    BY <1>1, <1>2, <1>5, <2>1, <2>2 DEF In
  <2>. QED  BY <1>4, <2>1, <2>3 DEF Old
<1>9. ASSUME NEW t, t = Top PROVE After(t)'
  <2>1. After(t)
    BY <1>0, <1>1, <1>3, <1>9 DEF Takes
  <2>. QED  BY <1>1, <1>6, <2>1 DEF After, Clean, In
<1>10. Takes'
  BY <1>1, <1>2, <1>3, <1>8, <1>9 DEF Takes
<1>11. Obsolete' /\ Listed'
  BY <1>0, <1>1, <1>6 DEF Obsolete, Listed, Own, In
<1>. QED  BY <1>7, <1>10, <1>11 DEF OwnersInv

LEMMA BeginOwners ==
  ASSUME EditInv, EditInv', OwnersInv, Quiescent, NEW n \in Names, opkg_install_cmd(n) \/ opkg_remove_cmd(n)
  PROVE  OwnersInv'
<1>0. Claimed /\ Takes /\ Obsolete /\ Listed
  BY DEF OwnersInv
<1>1. /\ pc = "idle" /\ mem'.st = mem.st /\ changed \subseteq changed'
      /\ UNCHANGED <<list, owner, obs, spoiled>>
      /\ \/ pc' = "configure" /\ Active' = {}
         \/ \E x : /\ pc' = "pkg" /\ Active' = {x} /\ Base' = x /\ x.pc \in {"prepare", "rm_files"}
  BY BeginStep
<1>2. owner \in [File -> Pkgs \cup {None}] /\ obs = {} /\ Active = {}
  BY <1>1 DEF EditInv, Versions, Types, OwnerTypes, Quiescent, Active
<1>3. "prepare" \in InstallPcs /\ "prepare" \notin Past /\ "rm_files" \notin Past
  BY DEF InstallPcs, Past
<1>4. \A f \in File : owner[f] = None \/ In(owner[f])
  BY <1>0, <1>1, <1>2 DEF Claimed
<1>5. Listed'
  BY <1>0, <1>1 DEF Listed, Own, In, ToWrite
<1>6. Claimed' /\ Obsolete'
  BY <1>1, <1>2, <1>4 DEF Claimed, Obsolete, In
<1>7. Takes'
  <2>1. SUFFICES ASSUME NEW x \in Active', x.pc = "prepare", pc' = "pkg" PROVE Before(x)'
    BY <1>1, <1>3 DEF Takes
  <2>2. Old(x, mem'.st)
    BY <1>3, <2>1, CallFactsNext
  <2>. QED  BY <1>1, <1>2, <1>4, <2>2 DEF Before, Old, In
<1>. QED  BY <1>5, <1>6, <1>7 DEF OwnersInv

LEMMA FinishOwners ==
  ASSUME EditInv, OwnersInv, TopInv, Finish
  PROVE  OwnersInv'
<1>0. Claimed /\ Takes /\ Obsolete /\ Listed
  BY DEF OwnersInv
<1>1. /\ pc = "pkg" /\ Top = stack[1] /\ Top.pc = "finish" /\ Top.pkg \in Pkgs
      /\ Active = {Top} \cup Waits /\ Active' = Waits
      /\ \/ Waits = {} /\ Base = Top /\ pc' = "configure"
         \/ /\ Waits = {Base} /\ pc' = "pkg" /\ Base' = Base /\ Base.pc = "deps"
            /\ Base.pkg \in Pkgs /\ Name[Top.pkg] \in Deps[Base.pkg] /\ Name[Base.pkg] # Name[Top.pkg]
            /\ Top.old = None
      /\ mem'.st = [p \in Pkgs |-> IF p = Top.pkg THEN "unpacked" ELSE IF p = Top.old THEN "not" ELSE mem.st[p]]
      /\ spoiled' = {s \in spoiled : s[1] # Name[Top.pkg]} \cup ({Name[Top.pkg]} \X Top.marks)
      /\ UNCHANGED <<files, backup, list, db, owner, obs, changed, dirty, touched, abandoned, litter>>
  BY PopShape DEF Waiting
<1>2. /\ owner \in [File -> Pkgs \cup {None}] /\ list \in [Names -> SUBSET File]
      /\ None \notin Pkgs /\ \A q \in Pkgs : Name[q] \in Names
  BY Constants DEF EditInv, Versions, Types, OwnerTypes, DiskTypes
<1>3. TopHolds(Top) /\ "finish" \in Late
  BY <1>1 DEF TopInv, Late
<1>4. \A q \in Pkgs : In(q)' => q = Top.pkg \/ In(q)
  BY <1>1 DEF In
<1>5. \A q \in Pkgs : (ToWrite(q) => ToWrite(q)') /\ (Waits = {Base} => (ToWrite(q)' <=> ToWrite(q)))
  BY <1>1 DEF ToWrite, Base
<1>6. PICK p : p = Top.pkg
  OBVIOUS
<1>7. /\ "partial" \notin Top.marks => \A f \in list[Name[p]] : owner[f] = p
      /\ "partial" \in Top.marks => p \in changed /\ ToWrite(p)'
  <2>1. /\ "partial" \notin Top.marks => \A f \in list[Name[p]] : owner[f] = p
        /\ "partial" \in Top.marks => p \in changed
    BY <1>1, <1>3, <1>6 DEF TopHolds
  <2>2. p \in changed => ToWrite(p)'
    BY <1>1, <1>6 DEF ToWrite, Base
  <2>. QED  BY <2>1, <2>2
<1>8. Listed'
  <2>1. SUFFICES ASSUME NEW q \in Pkgs, In(q)', NEW f \in list[Name[q]]
                 PROVE  (Own(f, q) \/ q \in changed) /\ (owner[f] # None \/ ToWrite(q)')
    BY <1>1 DEF Listed, Own
  <2>2. CASE In(q)
    BY <1>0, <1>5, <2>1, <2>2 DEF Listed
  <2>3. CASE q = Top.pkg
    BY <1>1, <1>2, <1>6, <1>7, <2>1, <2>3 DEF Own
  <2>. QED  BY <1>4, <2>1, <2>2, <2>3
<1>9. CASE pc' = "configure" /\ Waits = {}
  BY <1>1, <1>8, <1>9 DEF OwnersInv, Claimed, Takes, Obsolete
<1>10. CASE pc' = "pkg" /\ Waits = {Base}
  <2>0. PICK b : b = Base
    OBVIOUS
  <2>1. /\ Base' = b /\ Active' = {b} /\ b.pc = "deps" /\ b \in Active /\ b.pkg \in Pkgs
        /\ Name[Top.pkg] \in Deps[b.pkg] /\ Name[b.pkg] # Name[Top.pkg] /\ Top.old = None /\ Active = {Top, b}
    BY <1>1, <1>10, <2>0
  <2>2. "deps" \in Past /\ "deps" \in InstallPcs
    BY DEF Past, InstallPcs
  <2>3. After(b) /\ (b.old # None => Name[b.old] = Name[b.pkg])
    BY <1>0, <1>1, <2>1, <2>2, CallFacts DEF Takes
  <2>4. \A q \in Pkgs : In(q) => In(q)'
    BY <1>1, <1>2, <2>1 DEF In
  <2>5. Claimed'
    <3>1. SUFFICES ASSUME NEW f \in File
                   PROVE  \/ owner[f] = None \/ In(owner[f])' \/ owner[f] = b.pkg
      BY <1>1, <2>1, <2>2 DEF Claimed
    <3>2. owner[f] = None \/ In(owner[f]) \/ owner[f] \in {Top.pkg, b.pkg}
      BY <1>0, <1>1, <2>0, <2>1 DEF Claimed
    <3>. QED  BY <1>1, <1>2, <2>4, <3>2 DEF In
  <2>6. After(b)'
    <3>1. ASSUME b.old = None, NEW q \in Pkgs, In(q)', ~ToWrite(q)', NEW f \in list[Name[q]] PROVE owner[f] # b.pkg
      <4>1. CASE In(q)
        BY <1>5, <2>3, <3>1, <4>1 DEF After
      <4>2. CASE q = Top.pkg
        BY <1>6, <1>7, <2>1, <3>1, <4>2
      <4>. QED  BY <1>4, <3>1, <4>1, <4>2
    <3>2. b.old # None => (Clean(Name[b.old])' => Clean(Name[b.old]))
      BY <1>1, <2>1, <2>3 DEF Clean
    <3>. QED  BY <1>1, <2>3, <3>1, <3>2 DEF After
  <2>7. Takes'
    BY <2>1, <2>6 DEF Takes
  <2>8. Obsolete'
    BY <1>0, <1>1, <1>10, <2>0, <2>1 DEF Obsolete
  <2>. QED  BY <1>8, <2>5, <2>7, <2>8 DEF OwnersInv
<1>. QED  BY <1>1, <1>9, <1>10

LEMMA OutsideOwners ==
  ASSUME EditInv, EditInv', OwnersInv,
         opkg_update \/ (\E f \in ConfFile, e \in Edits : Edit(f, e)) \/ Ends \/ write_status_files \/ Reads
  PROVE  OwnersInv'
<1>0. Claimed /\ Takes /\ Obsolete /\ Listed
  BY DEF OwnersInv
<1>1. CASE opkg_update \/ (\E f \in ConfFile, e \in Edits : Edit(f, e))
  <2>1. /\ pc = "idle" /\ pc' = "idle" /\ Active = {} /\ Active' = {}
        /\ UNCHANGED <<list, mem, owner, obs, changed, spoiled>>
    BY <1>1, IdleStep
  <2>. QED  BY <1>0, <2>1 DEF OwnersInv, Claimed, Takes, Obsolete, Listed, Own, In, ToWrite
<1>2. CASE Ends \/ write_status_files
  <2>1. /\ pc' \in {"configure", "status", "lists"} /\ Active' = {} /\ UNCHANGED <<list, owner, changed>>
        /\ \A p \in Pkgs : In(p)' => In(p)
    <3>1. CASE Ends
      BY <3>1, EndStep
    <3>2. CASE write_status_files
      BY <3>2, StatusStep DEF In
    <3>. QED  BY <1>2, <3>1, <3>2
  <2>2. Claimed' /\ Takes' /\ Obsolete'
    BY <2>1 DEF Claimed, Takes, Obsolete
  <2>. QED  BY <1>0, <2>1, <2>2 DEF OwnersInv, Listed, Own, ToWrite
<1>3. CASE Reads
  <2>1. /\ pc' = "idle" /\ Active' = {} /\ mem' = db /\ db \in Sums /\ preinstall_check(db, list')
    BY <1>3, ReadStep
  <2>3. /\ \A f \in File : owner'[f] # None =>
                owner'[f] \in Pkgs /\ db.st[owner'[f]] # "not" /\ f \in list'[Name[owner'[f]]]
        /\ \A f \in File, p \in Pkgs : db.st[p] # "not" /\ f \in list'[Name[p]] => owner'[f] # None
        /\ \A f \in File, p, q \in Pkgs :
                /\ db.st[p] # "not" /\ f \in list'[Name[p]] /\ db.st[q] # "not" /\ f \in list'[Name[q]] /\ p # q
                => p \in changed'
    BY <2>1, ReadFacts
  <2>4. Claimed' /\ Takes' /\ Obsolete'
    BY <2>1, <2>3 DEF Claimed, Takes, Obsolete, In
  <2>5. list' \in [Names -> SUBSET File] /\ \A q \in Pkgs : Name[q] \in Names
    BY Constants DEF EditInv, Versions, Types, DiskTypes
  <2>6. ASSUME NEW q \in Pkgs, db.st[q] # "not", NEW f \in list'[Name[q]]
        PROVE  (Own(f, q)' \/ q \in changed') /\ owner'[f] # None
    <3>1. f \in File
      BY <2>5, <2>6
    <3>2. owner'[f] # None
      BY <2>3, <2>6, <3>1
    <3>3. PICK r \in Pkgs : r = owner'[f] /\ db.st[r] # "not" /\ f \in list'[Name[r]]
      BY <2>3, <3>1, <3>2
    <3>4. r # q => q \in changed'
      BY <2>3, <2>6, <3>1, <3>3
    <3>. QED  BY <3>2, <3>3, <3>4 DEF Own
  <2>. QED  BY <2>1, <2>4, <2>6 DEF OwnersInv, Listed, In
<1>. QED  BY <1>1, <1>2, <1>3

LEMMA NextOwnersInv ==
  ASSUME EditInv, EditInv', OwnersInv, Quiescent, TopInv, Settled, [Next]_vars
  PROVE  OwnersInv'
<1>1. CASE UNCHANGED vars
  BY <1>1 DEF vars, OwnersInv, Claimed, Takes, Obsolete, Listed, Active, Waits, Base, In, Before, After, Own,
     ToWrite, Clean
<1>. QED  BY <1>1, StepCases, OnwardOwners, PrepareOwners, SatisfyOwners, BeginOwners, FinishOwners, OutsideOwners

-----------------------------------------------------------------------------
(* The top call. *)

LEMMA TopPcs ==
  /\ Cleared = {"erase", "unlist", "extract"} /\ Brought = {"list", "resolve", "finish"} /\ Late = {"resolve", "finish"}
  /\ RemovePcs = {"rm_files", "rm_list", "rm_done"}
BY DEF Cleared, Brought, Late, RemovePcs

LEMMA TopVacuous ==
  ASSUME NEW x, x.pc \notin Cleared \cup Brought PROVE TopHolds(x)'
BY TopPcs DEF TopHolds

LEMMA ClashesTop ==
  ASSUME EditInv, DataBackups, check_data_file_clashes
  PROVE  TopInv'
<1>1. PICK x : /\ Keeps(x) /\ x.pc = "erase" /\ Top.pc = "clashes"
               /\ x.marks = {IF files[f] # None THEN "split" ELSE "claimed" :
                               f \in {g \in Files[Top.pkg] : Name[owner[g]] # Name[Top.pkg]}}
               /\ UNCHANGED <<files, backup, list, mem, changed, dirty, touched, litter>>
               /\ \A f \in Files[Top.pkg] : ~Clash(f)
  BY ClashesStep
<1>2. stack'[1] = x /\ x.pkg = Top.pkg /\ owner' = owner /\ obs' = obs /\ Top.pkg \in Pkgs
  BY <1>1, MoveShape, TopCall DEF Keeps, SameOwners
<1>3. ASSUME x.marks = {}, NEW f \in Files[x.pkg] PROVE Name[owner[f]] = Name[x.pkg]
  BY <1>1, <1>2, <1>3
<1>4. ASSUME NEW f \in Files[x.pkg] \ ConfFile, files[f] # None PROVE f \in obs \/ Name[owner[f]] = Name[x.pkg]
  <2>1. f \in File
    BY <1>2, <1>4, Constants
  <2>2. backup[f] = None
    BY <1>4, <2>1 DEF DataBackups
  <2>. QED  BY <1>1, <1>2, <1>4, <2>2 DEF Clash
<1>5. "partial" \notin x.marks
  BY <1>1
<1>6. TopHolds(x)'
  BY <1>1, <1>2, <1>3, <1>4, <1>5, TopPcs DEF TopHolds
<1>. QED  BY <1>2, <1>6 DEF TopInv

LEMMA ExtractTop ==
  ASSUME EditInv, TopInv, NEW S, S \subseteq Files[Top.pkg], Extract(S)
  PROVE  TopInv'
<1>1. PICK x : /\ Keeps(x) /\ Top.pc = "extract"
               /\ x.pc = IF S = Files[Top.pkg] THEN "list" ELSE "resolve"
               /\ x.marks = IF S = Files[Top.pkg] THEN Top.marks ELSE Top.marks \cup {"partial"}
               /\ UNCHANGED <<backup, list, mem, changed, dirty>>
               /\ files' = [f \in File |-> IF f \in S THEN Top.pkg ELSE files[f]]
  BY ExtractStep
<1>2. /\ stack'[1] = x /\ x.pkg = Top.pkg /\ owner' = owner /\ obs' = obs /\ Top.pkg \in Pkgs /\ pc = "pkg"
      /\ Top = stack[1] /\ Top.pkg \in changed
  BY <1>1, MoveShape, TopCall DEF Keeps, SameOwners, CallOK, Entered
<1>3. TopHolds(Top)
  BY <1>2 DEF TopInv
<1>4. Files[Top.pkg] \subseteq File
  BY <1>2, Constants
<1>5. CASE S = Files[Top.pkg]
  <2>1. x.pc = "list" /\ x.marks = Top.marks /\ \A f \in Files[x.pkg] : files'[f] = x.pkg
    BY <1>1, <1>2, <1>4, <1>5
  <2>2. TopHolds(x)'
    BY <1>1, <1>2, <1>3, <2>1, TopPcs DEF TopHolds
  <2>. QED  BY <1>2, <2>2 DEF TopInv
<1>6. CASE S # Files[Top.pkg]
  <2>1. x.pc = "resolve" /\ "partial" \in x.marks
    BY <1>1, <1>6
  <2>2. TopHolds(x)'
    BY <1>1, <1>2, <2>1, TopPcs DEF TopHolds
  <2>. QED  BY <1>2, <2>2 DEF TopInv
<1>. QED  BY <1>5, <1>6

LEMMA ListTop ==
  ASSUME EditInv, TopInv, pkg_write_filelist
  PROVE  TopInv'
<1>1. PICK x : /\ Keeps(x) /\ x.pc = "resolve" /\ x.marks = Top.marks /\ Top.pc = "list"
               /\ UNCHANGED <<files, backup, mem, dirty, touched, litter>>
               /\ list' = [list EXCEPT ![Name[Top.pkg]] = {f \in File : owner[f] = Top.pkg}]
  BY ListStep
<1>2. /\ stack'[1] = x /\ x.pkg = Top.pkg /\ owner' = owner /\ obs' = obs /\ Top.pkg \in Pkgs /\ pc = "pkg"
      /\ Top = stack[1] /\ list \in [Names -> SUBSET File] /\ Name[Top.pkg] \in Names
  BY <1>1, MoveShape, TopCall, Constants DEF Keeps, SameOwners, Types, DiskTypes
<1>3. TopHolds(Top)
  BY <1>2 DEF TopInv
<1>4. list'[Name[x.pkg]] = {f \in File : owner[f] = x.pkg}
  BY <1>1, <1>2
<1>5. TopHolds(x)'
  BY <1>1, <1>2, <1>3, <1>4, TopPcs DEF TopHolds
<1>. QED  BY <1>2, <1>5 DEF TopInv

LEMMA OnwardTop ==
  ASSUME EditInv, DataBackups, TopInv, OnwardSteps
  PROVE  TopInv'
<1>0. ASSUME NEW x, Keeps(x)
      PROVE  /\ stack'[1] = x /\ x.pkg = Top.pkg /\ owner' = owner /\ obs' = obs /\ Top.pkg \in Pkgs /\ pc = "pkg"
             /\ Files[Top.pkg] \subseteq File /\ TopHolds(Top)
  <2>1. /\ stack'[1] = x /\ x.pkg = Top.pkg /\ owner' = owner /\ obs' = obs /\ Top.pkg \in Pkgs /\ pc = "pkg"
        /\ Files[Top.pkg] \subseteq File /\ Top = stack[1]
    BY <1>0, MoveShape, TopCall, Constants DEF Keeps, SameOwners
  <2>. QED  BY <2>1 DEF TopInv
<1>1. ASSUME NEW x, Keeps(x), x.pc \in {"backup", "clashes", "preinst", "rm_list", "rm_done"} PROVE TopInv'
  <2>1. x.pc \notin Cleared \cup Brought
    BY <1>1, TopPcs
  <2>2. TopHolds(x)'
    BY <2>1, TopVacuous
  <2>. QED  BY <1>0, <1>1, <2>2 DEF TopInv
<1>2. CASE preinst_configure
  BY <1>1, <1>2, PreinstStep
<1>3. CASE backup_modified_conffiles
  BY <1>1, <1>3, BackupStep
<1>4. CASE Enter
  BY <1>1, <1>4, EnterStep
<1>5. CASE remove_data_files
  BY <1>1, <1>5, RemoveFilesStep
<1>6. CASE remove_list
  BY <1>1, <1>6, RemoveListStep
<1>7. CASE remove_old_files
  <2>1. PICK x : /\ Keeps(x) /\ x.pc = "unlist" /\ x.marks = Top.marks /\ Top.pc = "erase"
                 /\ \A f \in File : files'[f] \in {files[f], None}
    BY <1>7, EraseStep
  <2>2. TopHolds(x)'
    BY <1>0, <2>1, TopPcs DEF TopHolds
  <2>. QED  BY <1>0, <2>1, <2>2 DEF TopInv
<1>8. CASE remove_old_list
  <2>1. PICK x : /\ Keeps(x) /\ x.pc = "extract" /\ x.marks = Top.marks /\ Top.pc = "unlist" /\ files' = files
    BY <1>8, UnlistStep
  <2>2. TopHolds(x)'
    BY <1>0, <2>1, TopPcs DEF TopHolds
  <2>. QED  BY <1>0, <2>1, <2>2 DEF TopInv
<1>9. CASE \E kept \in SUBSET ConfFile : resolve_conffiles(kept)
  <2>1. PICK x : /\ Keeps(x) /\ x.pc = "finish" /\ x.marks = Top.marks /\ Top.pc = "resolve"
                 /\ UNCHANGED <<list, changed>> /\ \A f \in File \ ConfFile : files'[f] = files[f]
    BY <1>9, ResolveStep
  <2>2. TopHolds(x)'
    BY <1>0, <2>1, TopPcs DEF TopHolds
  <2>. QED  BY <1>0, <2>1, <2>2 DEF TopInv
<1>10. CASE \E S \in SUBSET Files[Top.pkg] : Extract(S)
  BY <1>10, ExtractTop
<1>. QED  BY <1>2, <1>3, <1>4, <1>5, <1>6, <1>7, <1>8, <1>9, <1>10, ClashesTop, ListTop DEF OnwardSteps, Steps

LEMMA NextTop ==
  ASSUME EditInv, EditInv', DataBackups, TopInv, [Next]_vars
  PROVE  TopInv'
<1>0. {"prepare", "deps", "rm_files"} \cap (Cleared \cup Brought) = {} /\ Types'
  BY TopPcs DEF EditInv, Versions
<1>1. CASE pc' # "pkg"
  BY <1>1 DEF TopInv
<1>2. CASE pc' = "pkg" /\ stack'[1].pc \in {"prepare", "deps", "rm_files"}
  <2>1. PICK x : x = stack'[1]
    OBVIOUS
  <2>2. TopHolds(x)'
    BY <1>0, <1>2, <2>1, TopVacuous
  <2>. QED  BY <2>1, <2>2 DEF TopInv
<1>3. CASE UNCHANGED vars
  BY <1>3 DEF vars, TopInv, TopHolds
<1>4. CASE opkg_update \/ \E f \in ConfFile, e \in Edits : Edit(f, e)
  BY <1>1, <1>4, IdleStep
<1>5. CASE Ends
  BY <1>1, <1>5, EndStep
<1>6. CASE write_status_files
  BY <1>1, <1>6, StatusStep
<1>7. CASE Reads
  BY <1>1, <1>7, ReadStep
<1>8. CASE \E n \in Names : opkg_install_cmd(n) \/ opkg_remove_cmd(n)
  <2>1. pc' = "configure" \/ (pc' = "pkg" /\ stack'[1].pc \in {"prepare", "rm_files"})
    BY <1>8, BeginStep
  <2>. QED  BY <1>1, <1>2, <2>1
<1>9. CASE Prepare
  <2>1. PICK x : Moves(x) /\ x.pc = "deps"
    BY <1>9, PrepareStep
  <2>2. pc' = "pkg" /\ stack'[1].pc = "deps"
    BY <2>1, MoveShape
  <2>. QED  BY <1>2, <2>2
<1>10. CASE satisfy_dependencies_for
  <2>1. pc' = "pkg" /\ stack'[1].pc = "prepare"
    BY <1>0, <1>10, PushShape
  <2>. QED  BY <1>2, <2>1
<1>11. CASE Finish
  <2>1. pc' = "configure" \/ (pc' = "pkg" /\ stack'[1].pc = "deps")
    BY <1>11, PopShape DEF Waiting
  <2>. QED  BY <1>1, <1>2, <2>1
<1>. QED  BY <1>3, <1>4, <1>5, <1>6, <1>7, <1>8, <1>9, <1>10, <1>11, OnwardTop, StepCases

-----------------------------------------------------------------------------
(* The files and the lists of the packages. *)

(* A call that has entered, or is past its first step, handles its name for good. *)
LEMMA OnwardHandled ==
  ASSUME EditInv, NEW x, Keeps(x), Onward(Top.pc, x.pc), NEW n, ~Handled(n)'
  PROVE  ~Handled(n) /\ n # Name[Top.pkg]
<1>1. pc = "pkg" /\ Active' = {x} \cup Waits /\ x.pkg = Top.pkg /\ Active = {Top} \cup Waits
  BY MoveShape, CallShape DEF Keeps
<1>2. x.pc \notin {"prepare", "rm_files"}
  BY DEF Onward, Past, InstallPcs, RemovePcs
<1>. QED  BY <1>1, <1>2 DEF Handled

(* A package that is not the one at hand is at the bottom of the stack. *)
LEMMA HandledBase ==
  ASSUME EditInv, OwnersInv, pc = "pkg", NEW p \in Pkgs, In(p), Handled(Name[p]), Name[p] # Name[Top.pkg], Clean(Name[p])
  PROVE  /\ Waits = {Base} /\ p = Base.old /\ Top.old = None /\ Name[Base.pkg] # Name[Top.pkg]
         /\ \A f \in Files[p] : Name[owner[f]] = Name[p]
<1>1. /\ Active = {Top} \cup Waits
      /\ \/ Waits = {}
         \/ Waits = {Base} /\ Base.pc = "deps" /\ Base.pkg \in Pkgs /\ Top.old = None /\ Name[Base.pkg] # Name[Top.pkg]
  BY CallShape DEF Waiting
<1>2. /\ Waits = {Base} /\ Base \in Active /\ Name[Base.pkg] = Name[p] /\ Base.pc = "deps" /\ Base.pkg \in Pkgs
      /\ Top.old = None /\ Name[Base.pkg] # Name[Top.pkg]
  BY <1>1 DEF Handled
<1>3. "deps" \in InstallPcs /\ "deps" \in Past
  BY DEF InstallPcs, Past
<1>4. p = Base.old /\ p # None
  BY <1>2, <1>3, CallFacts, Constants DEF Old, In
<1>5. After(Base)
  BY <1>2, <1>3 DEF OwnersInv, Takes
<1>. QED  BY <1>2, <1>4, <1>5 DEF After

LEMMA OnwardAlone ==
  ASSUME EditInv, OwnersInv, OnwardSteps, NEW p \in Pkgs, In(p), Clean(Name[p]), Alone(p),
         Top.pc = "list" => Exact(p) \/ Handled(Name[p])
  PROVE  Alone(p)'
<1>1. PICK x : /\ Keeps(x) /\ dirty' \in {dirty, TRUE}
               /\ \A q \in Pkgs : In(q)' => In(q)
               /\ \A n \in Names :
                    \/ list'[n] \subseteq list[n]
                    \/ Top.pc = "list" /\ n = Name[Top.pkg] /\ list'[n] = {f \in File : owner[f] = Top.pkg}
  BY OnwardFacts
<1>2. SUFFICES ASSUME NEW q \in Pkgs, In(q), Name[q] # Name[p], NEW f \in Files[p] \cap list'[Name[q]]
               PROVE  Harmless(q)'
  BY <1>1 DEF Alone
<1>3. Name[q] \in Names /\ q # None
  BY Constants
<1>4. CASE f \in list[Name[q]]
  <2>1. Harmless(q)
    BY <1>2, <1>4 DEF Alone
  <2>2. ToWrite(q)'
    BY <1>2, <2>1, OnwardWrites DEF Harmless
  <2>. QED  BY <1>1, <2>1, <2>2 DEF Harmless
<1>5. CASE Top.pc = "list" /\ Name[q] = Name[Top.pkg] /\ f \in File /\ owner[f] = Top.pkg
  <2>1. pc = "pkg" /\ Top.pkg \in Pkgs
    BY <1>1, MoveShape, TopCall DEF Keeps
  <2>2. Old(Top, mem.st) /\ ~In(Top.pkg)
    BY <1>5, <2>1, CallFacts, CallShape DEF InstallPcs
  <2>3. q = Top.old
    BY <1>2, <1>5, <2>2 DEF Old, In
  <2>4. ~Exact(p)
    BY <1>2, <1>5, <2>2 DEF Exact
  <2>. QED  BY <1>2, <1>3, <1>5, <2>1, <2>3, <2>4, HandledBase
<1>. QED  BY <1>1, <1>2, <1>3, <1>4, <1>5

(* What opkg removes belongs to no other package, unless the list that named *)
(* it is going to be written.                                                *)
LEMMA EnterWhole ==
  ASSUME EditInv, Enter, NEW p \in Pkgs, In(p)', Whole(p), Alone(p)
  PROVE  Whole(p)'
<1>1. /\ pc = "pkg" /\ mem'.st = [q \in Pkgs |-> IF q \in Orphans THEN "not" ELSE mem.st[q]]
      /\ list' = [n \in Names |-> IF n \in {Name[q] : q \in Orphans} THEN {} ELSE list[n]]
      /\ \A f \in File : (\A q \in Orphans : f \notin list[Name[q]]) => files'[f] = files[f]
      /\ Waits # {} => Orphans = {}
      /\ \A q \in Orphans : q \in Pkgs /\ In(q) /\ Name[q] \notin Deps[Top.pkg]
  BY EnterStep, MoveShape DEF Keeps
<1>2. p \notin Orphans /\ In(p) /\ Single(mem.st) /\ Name[p] \in Names /\ Files[p] \subseteq File
  BY <1>1, Constants DEF In, EditInv, Versions
<1>3. \A q \in Orphans : Name[q] # Name[p]
  BY <1>1, <1>2 DEF Single, In
<1>4. list'[Name[p]] = list[Name[p]]
  BY <1>1, <1>2, <1>3
<1>5. ASSUME NEW f \in Files[p], NEW q \in Orphans, f \in list[Name[q]] PROVE FALSE
  <2>1. ToWrite(q)
    BY <1>1, <1>3, <1>5 DEF Alone, Harmless
  <2>2. Base = Top
    BY <1>1, <1>5, CallShape
  <2>. QED  BY <1>1, <1>5, <2>1, <2>2 DEF ToWrite, Base
<1>. QED  BY <1>1, <1>2, <1>4, <1>5 DEF Whole

LEMMA EraseWhole ==
  ASSUME EditInv, remove_old_files, NEW p \in Pkgs, Name[p] # Name[Top.pkg], Whole(p), Alone(p)
  PROVE  Whole(p)'
<1>1. /\ pc = "pkg" /\ list' = list /\ Top.pc = "erase" /\ (Top.old = None => files' = files)
      /\ Top.old # None => \A f \in File : f \notin list[Name[Top.old]] => files'[f] = files[f]
  BY EraseStep, MoveShape DEF Keeps
<1>2. Files[p] \subseteq File
  BY Constants
<1>3. ASSUME Top.old # None, NEW f \in Files[p], f \in list[Name[Top.old]] PROVE FALSE
  <2>1. Top \in Active /\ Top.pc \in InstallPcs /\ Base = Top /\ Top.pkg \in Pkgs
    BY <1>1, <1>3, CallShape, TopCall DEF InstallPcs
  <2>2. Top.old \in Pkgs /\ Name[Top.old] = Name[Top.pkg] /\ In(Top.old)
    BY <1>1, <1>3, <2>1, CallFacts
  <2>3. Name[Top.old] \in Deps[Top.pkg]
    BY <1>1, <1>3, <2>1, <2>2 DEF Alone, Harmless, ToWrite, Base
  <2>. QED  BY <2>1, <2>2, <2>3, Constants
<1>. QED  BY <1>1, <1>2, <1>3 DEF Whole

LEMMA RemoveFilesWhole ==
  ASSUME EditInv, remove_data_files, NEW p \in Pkgs, Name[p] # Name[Top.pkg], Whole(p), Alone(p)
  PROVE  Whole(p)'
<1>1. /\ pc = "pkg" /\ list' = list /\ Top.pc = "rm_files"
      /\ \A f \in File : f \notin list[Name[Top.pkg]] => files'[f] = files[f]
  BY RemoveFilesStep, MoveShape DEF Keeps
<1>2. Files[p] \subseteq File
  BY Constants
<1>3. ASSUME NEW f \in Files[p], f \in list[Name[Top.pkg]] PROVE FALSE
  <2>1. Top \in Active /\ Top.pc \in RemovePcs /\ Base = Top /\ Top.pkg \in Pkgs
    BY <1>1, CallShape, TopCall DEF InstallPcs, RemovePcs
  <2>2. In(Top.pkg)
    BY <1>1, <2>1, CallFacts
  <2>3. Name[Top.pkg] \in Deps[Top.pkg]
    BY <1>1, <1>3, <2>1, <2>2 DEF Alone, Harmless, ToWrite, Base
  <2>. QED  BY <2>1, <2>3, Constants
<1>. QED  BY <1>1, <1>2, <1>3 DEF Whole

(* What opkg extracts is nobody's, or its owner's name is among those whose   *)
(* files have changed.                                                        *)
LEMMA ExtractWhole ==
  ASSUME EditInv, OwnersInv, TopInv, NEW S, S \subseteq Files[Top.pkg], Extract(S),
         NEW p \in Pkgs, In(p), Clean(Name[p]), Name[p] # Name[Top.pkg], Whole(p),
         IF Handled(Name[p]) THEN Name[p] \notin touched' ELSE Exact(p)
  PROVE  Whole(p)'
<1>1. /\ pc = "pkg" /\ list' = list /\ Top.pc = "extract"
      /\ files' = [f \in File |-> IF f \in S THEN Top.pkg ELSE files[f]]
      /\ touched' = touched \cup {Name[owner[f]] : f \in S}
  BY ExtractStep, MoveShape DEF Keeps
<1>2. Files[p] \subseteq File /\ p # None
  BY Constants
<1>3. ASSUME NEW f \in Files[p] \ ConfFile, f \in S PROVE FALSE
  <2>1. CASE Handled(Name[p])
    BY <1>1, <1>3, <2>1, HandledBase
  <2>2. CASE ~Handled(Name[p])
    <3>1. owner[f] = p /\ files[f] # None
      BY <1>2, <1>3, <2>2 DEF Exact, Whole
    <3>2. TopHolds(Top)
      BY <1>1, TopCall DEF TopInv
    <3>3. f \in obs
      BY <1>1, <1>3, <3>1, <3>2 DEF TopHolds, Cleared
    <3>4. p = Base.old /\ Base.pc \in Past /\ Base.old # None
      BY <1>1, <3>1, <3>3 DEF OwnersInv, Obsolete
    <3>5. Base \in Active
      BY <1>1, CallShape
    <3>6. Base.pc \in InstallPcs /\ Base.pc \notin {"prepare", "rm_files"}
      BY <3>4 DEF Past, InstallPcs
    <3>7. Name[p] = Name[Base.pkg]
      BY <1>1, <3>4, <3>5, <3>6, CallFacts
    <3>. QED  BY <2>2, <3>5, <3>6, <3>7 DEF Handled
  <2>. QED  BY <2>1, <2>2
<1>. QED  BY <1>1, <1>2, <1>3 DEF Whole

LEMMA OnwardWhole ==
  ASSUME EditInv, OwnersInv, TopInv, Touching, OnwardSteps,
         NEW p \in Pkgs, In(p), In(p)', Clean(Name[p]), Whole(p), Alone(p),
         ~Handled(Name[p])' \/ Name[p] \notin touched',
         IF Handled(Name[p]) THEN Name[p] \notin touched' ELSE Exact(p)
  PROVE  Whole(p)'
<1>1. PICK x : /\ Keeps(x) /\ Onward(Top.pc, x.pc) /\ touched \subseteq touched'
               /\ x.pc \in Changing /\ Top.pc \notin Changing => touched' = touched \cup {Name[Top.pkg]}
  BY OnwardFacts
<1>2. pc = "pkg" /\ Top = stack[1] /\ Top.pkg \in Pkgs /\ Top.old \in Pkgs \cup {None} /\ stack'[1] = x
  BY <1>1, MoveShape, TopCall DEF Keeps
<1>3. Top.pc \in Changing \/ x.pc \in Changing => Name[p] # Name[Top.pkg]
  BY <1>1, <1>2, OnwardHandled DEF Touching
<1>4. /\ list \in [Names -> SUBSET File] /\ Name[Top.pkg] \in Names /\ Name[p] \in Names /\ Files[p] \subseteq File
  BY <1>2, Constants DEF EditInv, Versions, Types, DiskTypes
<1>5. CASE preinst_configure \/ backup_modified_conffiles \/ check_data_file_clashes
  <2>1. UNCHANGED <<files, list>>
    BY <1>5, PreinstStep, BackupStep, ClashesStep
  <2>. QED  BY <2>1 DEF Whole
<1>6. CASE remove_old_files
  <2>1. PICK y : Keeps(y) /\ y.pc = "unlist"
    BY <1>6, EraseStep
  <2>2. x.pc \in Changing
    BY <1>2, <2>1, MoveShape DEF Keeps, Changing
  <2>. QED  BY <1>3, <1>6, <2>2, EraseWhole
<1>7. CASE remove_data_files
  <2>1. PICK y : Keeps(y) /\ y.pc = "rm_list"
    BY <1>7, RemoveFilesStep
  <2>2. x.pc \in Changing
    BY <1>2, <2>1, MoveShape DEF Keeps, Changing
  <2>. QED  BY <1>3, <1>7, <2>2, RemoveFilesWhole
<1>8. CASE remove_old_list \/ remove_list
  <2>1. /\ files' = files /\ Top.pc \in Changing
        /\ list' = list \/ \E q \in Pkgs : Name[q] = Name[Top.pkg] /\ list' = [list EXCEPT ![Name[q]] = {}]
    <3>1. CASE remove_old_list
      <4>1. /\ files' = files /\ Top.pc = "unlist"
            /\ list' = IF Top.old = None THEN list ELSE [list EXCEPT ![Name[Top.old]] = {}]
        BY <3>1, UnlistStep
      <4>2. Top.old # None => Top.old \in Pkgs /\ Name[Top.old] = Name[Top.pkg]
        BY <1>2, <4>1, CallFacts, CallShape DEF InstallPcs
      <4>. QED  BY <4>1, <4>2 DEF Changing
    <3>2. CASE remove_list
      BY <1>2, <3>2, RemoveListStep DEF Changing
    <3>. QED  BY <1>8, <3>1, <3>2
  <2>. QED  BY <1>3, <1>4, <2>1 DEF Whole
<1>9. CASE pkg_write_filelist
  <2>1. /\ files' = files /\ Top.pc \in Changing
        /\ list' = [list EXCEPT ![Name[Top.pkg]] = {f \in File : owner[f] = Top.pkg}]
    BY <1>9, ListStep DEF Changing
  <2>. QED  BY <1>3, <1>4, <2>1 DEF Whole
<1>10. CASE \E S \in SUBSET Files[Top.pkg] : Extract(S)
  <2>1. Top.pc \in Changing
    BY <1>10, ExtractStep DEF Changing
  <2>. QED  BY <1>3, <1>10, <2>1, ExtractWhole
<1>11. CASE \E kept \in SUBSET ConfFile : resolve_conffiles(kept)
  <2>1. list' = list /\ \A f \in File \ ConfFile : files'[f] = files[f]
    BY <1>11, ResolveStep
  <2>. QED  BY <1>4, <2>1 DEF Whole
<1>. QED  BY <1>5, <1>6, <1>7, <1>8, <1>9, <1>10, <1>11, EnterWhole DEF OnwardSteps, Steps

PackagesInv == Untouched /\ Settled

LEMMA OnwardPackages ==
  ASSUME EditInv, PhasesInv, OwnersInv, TopInv, PackagesInv, OnwardSteps
  PROVE  PackagesInv'
<1>0. Quiescent /\ Touching /\ Untouched /\ Settled
  BY DEF PhasesInv, PackagesInv
<1>1. PICK x : /\ Keeps(x) /\ Onward(Top.pc, x.pc) /\ touched \subseteq touched' /\ \A p \in Pkgs : In(p)' => In(p)
  BY OnwardFacts
<1>2. pc = "pkg" /\ abandoned = {} /\ spoiled' = spoiled /\ owner' = owner
  BY <1>0, <1>1, MoveShape DEF Keeps, SameOwners, Quiescent
<1>3. ASSUME NEW p \in Pkgs, In(p)', Clean(Name[p])', ~Handled(Name[p])' \/ Name[p] \notin touched'
      PROVE  Whole(p)' /\ Alone(p)' /\ (~Handled(Name[p])' => Exact(p)')
  <2>1. In(p) /\ Clean(Name[p])
    BY <1>1, <1>2, <1>3 DEF Clean
  <2>2. ~Handled(Name[p])' => ~Handled(Name[p])
    BY <1>1, OnwardHandled
  <2>3. ~Handled(Name[p]) => Whole(p) /\ Alone(p) /\ Exact(p)
    BY <1>0, <1>2, <2>1 DEF Settled
  <2>4. Handled(Name[p]) => Whole(p) /\ Alone(p) /\ Name[p] \notin touched'
    BY <1>0, <1>1, <1>3, <2>1, <2>2 DEF Untouched
  <2>5. Whole(p)'
    BY <1>0, <1>3, <2>1, <2>3, <2>4, OnwardWhole
  <2>6. Alone(p)'
    BY <2>1, <2>3, <2>4, OnwardAlone
  <2>7. Exact(p) => Exact(p)'
    BY <1>2 DEF Exact
  <2>. QED  BY <2>2, <2>3, <2>5, <2>6, <2>7
<1>. QED  BY <1>3 DEF PackagesInv, Untouched, Settled

LEMMA PreparePackages ==
  ASSUME EditInv, PackagesInv, Prepare
  PROVE  PackagesInv'
<1>0. Untouched /\ Settled
  BY DEF PackagesInv
<1>1. PICK x : /\ Moves(x) /\ x.pc = "deps" /\ Top.pc = "prepare" /\ mem'.st = mem.st
               /\ UNCHANGED <<files, list, dirty, touched, abandoned, spoiled>> /\ changed \subseteq changed'
               /\ owner' = [f \in File |-> IF f \in Files[Top.pkg] /\ owner[f] \in {None, Top.old} THEN Top.pkg ELSE owner[f]]
  BY PrepareStep
<1>2. /\ pc = "pkg" /\ pc' = "pkg" /\ Active' = {x} \cup Waits /\ x.pkg = Top.pkg /\ Active = {Top} \cup Waits
      /\ Base'.pkg = Base.pkg
  BY <1>1, MoveShape, CallShape
<1>3. Top.old # None => Name[Top.old] = Name[Top.pkg]
  BY <1>1, <1>2, CallFacts DEF InstallPcs
<1>4. \A q \in Pkgs : Harmless(q) => Harmless(q)'
  BY <1>1, <1>2 DEF Harmless, ToWrite, Base
<1>5. \A p \in Pkgs : (In(p)' <=> In(p)) /\ (Clean(Name[p])' <=> Clean(Name[p])) /\ (Whole(p) => Whole(p)')
  BY <1>1 DEF In, Clean, Whole
<1>6. \A p \in Pkgs : Alone(p) => Alone(p)'
  BY <1>1, <1>4, <1>5 DEF Alone
<1>7. \A n : ~Handled(n)' => ~Handled(n) /\ n # Name[Top.pkg]
  BY <1>1, <1>2 DEF Handled
<1>8. \A p \in Pkgs : Exact(p) /\ Name[p] # Name[Top.pkg] => Exact(p)'
  <2>1. None \notin Pkgs
    BY Constants
  <2>. QED  BY <1>1, <1>3, <2>1 DEF Exact
<1>. QED  BY <1>0, <1>1, <1>5, <1>6, <1>7, <1>8 DEF PackagesInv, Untouched, Settled

LEMMA SatisfyPackages ==
  ASSUME EditInv, EditInv', PackagesInv, satisfy_dependencies_for
  PROVE  PackagesInv'
<1>0. Untouched /\ Settled /\ Types'
  BY DEF PackagesInv, EditInv, Versions
<1>1. /\ pc = "pkg" /\ pc' = "pkg" /\ Top.pc = "deps" /\ Base = Top /\ Active = {Top} /\ Base' = Top
      /\ Active' = {stack'[1], Top} /\ mem'.st = mem.st
      /\ UNCHANGED <<files, list, owner, changed, dirty, touched, abandoned, spoiled>>
  BY <1>0, PushShape
<1>2. \A n : Handled(n) => Handled(n)'
  BY <1>1 DEF Handled
<1>3. \A q \in Pkgs : Harmless(q)' <=> Harmless(q)
  BY <1>1 DEF Harmless, ToWrite, Base
<1>4. \A p \in Pkgs : /\ (In(p)' <=> In(p)) /\ (Clean(Name[p])' <=> Clean(Name[p]))
                      /\ (Whole(p) => Whole(p)') /\ (Exact(p) => Exact(p)')
  BY <1>1 DEF In, Clean, Whole, Exact
<1>5. \A p \in Pkgs : Alone(p) => Alone(p)'
  BY <1>1, <1>3, <1>4 DEF Alone
<1>. QED  BY <1>0, <1>1, <1>2, <1>4, <1>5 DEF PackagesInv, Untouched, Settled

LEMMA BeginPackages ==
  ASSUME EditInv, PackagesInv, NEW n \in Names, opkg_install_cmd(n) \/ opkg_remove_cmd(n)
  PROVE  PackagesInv'
<1>0. Untouched /\ Settled
  BY DEF PackagesInv
<1>1. /\ pc = "idle" /\ mem'.st = mem.st /\ UNCHANGED <<files, list, owner, touched, abandoned, spoiled>>
  BY BeginStep
<1>2. \A m : ~Handled(m)
  BY <1>1 DEF Handled, Active
<1>3. \A q \in Pkgs : ~Harmless(q)
  BY <1>1 DEF Harmless, ToWrite
<1>4. \A p \in Pkgs : /\ (In(p)' <=> In(p)) /\ (Clean(Name[p])' <=> Clean(Name[p]))
                      /\ (Whole(p) => Whole(p)') /\ (Exact(p) => Exact(p)')
  BY <1>1 DEF In, Clean, Whole, Exact
<1>5. \A p \in Pkgs : Alone(p) => Alone(p)'
  BY <1>1, <1>3, <1>4 DEF Alone
<1>. QED  BY <1>0, <1>1, <1>2, <1>4, <1>5 DEF PackagesInv, Untouched, Settled

LEMMA FinishPackages ==
  ASSUME EditInv, PhasesInv, OwnersInv, TopInv, PackagesInv, Finish
  PROVE  PackagesInv'
<1>0. Untouched /\ Settled /\ Quiescent /\ Touching /\ Takes /\ Listed
  BY DEF PackagesInv, PhasesInv, OwnersInv
<1>1. /\ pc = "pkg" /\ Top = stack[1] /\ Top.pc = "finish" /\ Top.pkg \in Pkgs
      /\ Active = {Top} \cup Waits /\ Active' = Waits
      /\ \/ Waits = {} /\ Base = Top /\ pc' = "configure"
         \/ /\ Waits = {Base} /\ pc' = "pkg" /\ Base' = Base /\ Name[Top.pkg] \in Deps[Base.pkg]
            /\ Name[Base.pkg] # Name[Top.pkg] /\ Top.old = None
      /\ mem'.st = [p \in Pkgs |-> IF p = Top.pkg THEN "unpacked" ELSE IF p = Top.old THEN "not" ELSE mem.st[p]]
      /\ spoiled' = {s \in spoiled : s[1] # Name[Top.pkg]} \cup ({Name[Top.pkg]} \X Top.marks)
      /\ UNCHANGED <<files, backup, list, db, owner, obs, changed, dirty, touched, abandoned, litter>>
  BY PopShape
<1>2. PICK t : t = Top.pkg
  OBVIOUS
<1>3. /\ dirty = TRUE /\ abandoned = {} /\ Name[t] \in touched /\ "finish" \in Late /\ "finish" \in Brought
      /\ "finish" \in InstallPcs /\ "finish" \in Past /\ Top.marks \subseteq Mishaps /\ None \notin Pkgs
      /\ Files[t] \subseteq File /\ t \in Pkgs
  <2>1. CallOK(Top, mem, changed, list, dirty, Trusted) /\ Top.marks \subseteq Mishaps
    BY <1>1, TopCall, TopFacts
  <2>. QED  BY <1>0, <1>1, <1>2, <2>1, Constants DEF CallOK, Quiescent, Touching, Changing, Late, Brought, InstallPcs, Past
<1>4. Top \in Active /\ Old(Top, mem.st) /\ (Top.old # None => Name[Top.old] = Name[t])
  BY <1>1, <1>2, <1>3, CallFacts
<1>5. TopHolds(Top) /\ After(Top)
  BY <1>0, <1>1, <1>3, <1>4 DEF TopInv, Takes
<1>6. \A q \in Pkgs : ToWrite(q) => ToWrite(q)'
  BY <1>1 DEF ToWrite, Base
<1>7. ASSUME NEW p \in Pkgs, In(p)', p # t PROVE In(p) /\ Name[p] # Name[t]
  BY <1>1, <1>2, <1>4, <1>7 DEF In, Old
<1>8. ASSUME Clean(Name[t])' PROVE Whole(t)' /\ Alone(t)' /\ Exact(t)'
  <2>1. Top.marks = {}
    <3>1. \A m \in Mishaps : m \notin Top.marks
      BY <1>1, <1>2, <1>8 DEF Clean
    <3>. QED  BY <1>3, <3>1
  <2>2. ASSUME NEW f \in Files[t] PROVE owner[f] = t
    <3>1. Name[owner[f]] = Name[Top.pkg] /\ owner[f] # None /\ owner[f] # Top.old /\ f \in File
      BY <1>1, <1>2, <1>3, <1>5, <2>1, <2>2 DEF TopHolds, After
    <3>. QED  BY <1>2, <1>5, <3>1 DEF After
  <2>3. Exact(t)
    BY <1>2, <1>5, <2>2 DEF Exact, After
  <2>4. list[Name[t]] = {f \in File : owner[f] = t} /\ \A f \in Files[t] \ ConfFile : files[f] = t
    BY <1>1, <1>2, <1>3, <1>5, <2>1 DEF TopHolds
  <2>5. Whole(t)
    BY <1>3, <2>3, <2>4 DEF Whole, Exact
  <2>6. ASSUME NEW q \in Pkgs, In(q)', Name[q] # Name[t], NEW f \in Files[t] \cap list[Name[q]] PROVE ToWrite(q)'
    <3>1. In(q)
      BY <1>7, <2>6
    <3>2. owner[f] = t
      BY <2>2, <2>6
    <3>3. q \in changed
      BY <1>0, <2>6, <3>1, <3>2 DEF Listed, Own
    <3>4. CASE pc' = "configure"
      BY <1>1, <3>3, <3>4 DEF ToWrite
    <3>5. CASE Top.old = None
      <4>1. ToWrite(q)
        BY <1>2, <1>5, <2>6, <3>1, <3>2, <3>5 DEF After
      <4>. QED  BY <1>6, <4>1
    <3>. QED  BY <1>1, <3>4, <3>5
  <2>7. Alone(t)'
    BY <1>1, <1>3, <2>6 DEF Alone, Harmless
  <2>. QED  BY <1>1, <2>3, <2>5, <2>7 DEF Whole, Exact
<1>9. ASSUME NEW p \in Pkgs, In(p)', p # t, Clean(Name[p])', Name[p] \notin touched \/ ~Handled(Name[p])'
      PROVE  Whole(p)' /\ Alone(p)' /\ (~Handled(Name[p])' => Exact(p)')
  <2>1. In(p) /\ Name[p] # Name[t]
    BY <1>7, <1>9
  <2>2. Clean(Name[p])
    BY <1>1, <1>2, <1>9, <2>1 DEF Clean
  <2>3. ~Handled(Name[p])' => ~Handled(Name[p])
    BY <1>1, <1>2, <2>1 DEF Handled
  <2>4. ~Handled(Name[p]) => Whole(p) /\ Alone(p) /\ Exact(p)
    BY <1>0, <1>3, <2>1, <2>2 DEF Settled
  <2>5. Whole(p) /\ Alone(p)
    BY <1>0, <1>9, <2>1, <2>2, <2>3, <2>4 DEF Untouched
  <2>6. ASSUME NEW f \in Files[p] \cap list[Name[t]] PROVE ToWrite(t)'
    <3>1. CASE "partial" \in Top.marks
      <4>1. t \in changed
        BY <1>1, <1>2, <1>3, <1>5, <3>1 DEF TopHolds
      <4>. QED  BY <1>1, <1>2, <4>1 DEF ToWrite, Base
    <3>2. CASE "partial" \notin Top.marks
      <4>1. owner[f] = t /\ f \in File
        BY <1>1, <1>2, <1>3, <1>5, <2>6, <3>2 DEF TopHolds
      <4>2. t # p
        BY <1>9
      <4>3. Handled(Name[p])
        BY <2>4, <2>6, <4>1, <4>2 DEF Exact
      <4>. QED  BY <1>1, <1>2, <2>1, <2>2, <2>6, <4>1, <4>3, HandledBase
    <3>. QED  BY <3>1, <3>2
  <2>7. Alone(p)'
    <3>1. SUFFICES ASSUME NEW q \in Pkgs, In(q)', Name[q] # Name[p], NEW f \in Files[p] \cap list[Name[q]]
                   PROVE  ToWrite(q)'
      BY <1>1, <1>3 DEF Alone, Harmless
    <3>2. CASE q = t
      BY <2>6, <3>1, <3>2
    <3>3. CASE q # t
      <4>1. In(q)
        BY <1>7, <3>1, <3>3
      <4>. QED  BY <1>6, <2>5, <3>1, <4>1 DEF Alone, Harmless
    <3>. QED  BY <3>2, <3>3
  <2>. QED  BY <1>1, <2>3, <2>4, <2>5, <2>7 DEF Whole, Exact
<1>. QED  BY <1>1, <1>3, <1>8, <1>9 DEF PackagesInv, Untouched, Settled

LEMMA EndPackages ==
  ASSUME EditInv, PackagesInv, Ends
  PROVE  PackagesInv'
<1>0. Untouched /\ Settled
  BY DEF PackagesInv
<1>1. /\ pc' \in {"configure", "status"}
      /\ UNCHANGED <<files, list, owner, changed, touched>> /\ abandoned \subseteq abandoned'
      /\ dirty' \in {dirty, TRUE} /\ \A p \in Pkgs : In(p)' => In(p)
      /\ spoiled \subseteq spoiled'
      /\ \A p \in Pkgs : In(p)' /\ Clean(Name[p])' /\ Name[p] \notin abandoned' => ~Handled(Name[p])
  BY EndStep
<1>2. \A q \in Pkgs : Harmless(q) => Harmless(q)'
  BY <1>1 DEF Harmless, ToWrite
<1>3. \A p \in Pkgs : /\ (Clean(Name[p])' => Clean(Name[p]))
                      /\ (Whole(p) => Whole(p)') /\ (Exact(p) => Exact(p)')
  BY <1>1 DEF Clean, Whole, Exact
<1>4. \A p \in Pkgs : Alone(p) => Alone(p)'
  BY <1>1, <1>2 DEF Alone
<1>. QED  BY <1>0, <1>1, <1>3, <1>4 DEF PackagesInv, Untouched, Settled

LEMMA StatusPackages ==
  ASSUME EditInv, PackagesInv, write_status_files
  PROVE  PackagesInv'
<1>0. Untouched /\ Settled
  BY DEF PackagesInv
<1>1. /\ pc = "status" /\ pc' = "lists" /\ Active = {}
      /\ touched' = {} /\ spoiled' = spoiled \cup (abandoned \X {"abandoned"})
      /\ UNCHANGED <<files, list, mem, owner, changed, dirty, abandoned>>
  BY StatusStep
<1>2. \A q \in Pkgs : Harmless(q) => Harmless(q)'
  BY <1>1 DEF Harmless, ToWrite
<1>3. \A p \in Pkgs : /\ (Clean(Name[p])' => Clean(Name[p]) /\ Name[p] \notin abandoned) /\ (In(p)' => In(p))
                      /\ (Whole(p) => Whole(p)') /\ (Exact(p) => Exact(p)')
  BY <1>1 DEF Clean, Whole, Exact, In, Mishaps
<1>4. \A p \in Pkgs : Alone(p) => Alone(p)'
  BY <1>1, <1>2, <1>3 DEF Alone
<1>5. \A n : ~Handled(n)
  BY <1>1 DEF Handled
<1>. QED  BY <1>0, <1>1, <1>3, <1>4, <1>5 DEF PackagesInv, Untouched, Settled

LEMMA IdlePackages ==
  ASSUME EditInv, PackagesInv, opkg_update \/ \E f \in ConfFile, e \in Edits : Edit(f, e)
  PROVE  PackagesInv'
<1>0. Untouched /\ Settled
  BY DEF PackagesInv
<1>1. /\ pc = "idle" /\ pc' = "idle" /\ Active = {} /\ Active' = {}
      /\ UNCHANGED <<list, mem, owner, changed, dirty, touched, abandoned, spoiled>>
      /\ \A f \in File \ ConfFile : files'[f] = files[f]
  BY IdleStep
<1>2. \A p \in Pkgs : Files[p] \subseteq File
  BY Constants
<1>3. \A p \in Pkgs : /\ (Clean(Name[p])' <=> Clean(Name[p])) /\ (In(p)' <=> In(p))
                      /\ (Whole(p) => Whole(p)') /\ (Exact(p) => Exact(p)')
  BY <1>1, <1>2 DEF Clean, Whole, Exact, In
<1>4. \A p \in Pkgs : Alone(p) => Alone(p)'
  BY <1>1, <1>3 DEF Alone, Harmless, ToWrite
<1>5. \A n : Handled(n)' <=> Handled(n)
  BY <1>1 DEF Handled
<1>. QED  BY <1>0, <1>1, <1>3, <1>4, <1>5 DEF PackagesInv, Untouched, Settled

(* No file of p is in the list of another package the status file calls installed. *)
Unshared(p) == \A q \in Pkgs : db.st[q] # "not" /\ Name[q] # Name[p] => Files[p] \cap list[Name[q]] = {}

(* The next process reads the owners of a package's files as it should. *)
LEMMA ReadPackages ==
  ASSUME EditInv, EditInv', Reads,
         \A p \in Pkgs : db.st[p] # "not" /\ Clean(Name[p])' => Whole(p)' /\ Unshared(p)'
  PROVE  PackagesInv'
<1>1. /\ mem' = db /\ db' = db /\ db \in Sums /\ preinstall_check(db, list')
  BY ReadStep
<1>2. /\ \A f \in File : owner'[f] # None =>
              owner'[f] \in Pkgs /\ db.st[owner'[f]] # "not" /\ f \in list'[Name[owner'[f]]]
      /\ \A f \in File, p \in Pkgs : db.st[p] # "not" /\ f \in list'[Name[p]] => owner'[f] # None
  BY <1>1, ReadFacts
<1>3. Single(db.st) /\ None \notin Pkgs /\ \A p \in Pkgs : Files[p] \subseteq File
  BY Constants DEF EditInv, Versions
<1>4. ASSUME NEW p \in Pkgs, In(p)', Clean(Name[p])' PROVE Whole(p)' /\ Alone(p)' /\ Exact(p)'
  <2>1. db.st[p] # "not"
    BY <1>1, <1>4 DEF In
  <2>2. Whole(p)' /\ Unshared(p)'
    BY <1>4, <2>1
  <2>3. Alone(p)'
    BY <1>1, <2>2 DEF Unshared, Alone, In
  <2>4. ASSUME NEW f \in Files[p] PROVE owner'[f] = p
    <3>1. f \in File /\ f \in list'[Name[p]]
      BY <1>3, <2>2, <2>4 DEF Whole
    <3>2. PICK r \in Pkgs : r = owner'[f] /\ db.st[r] # "not" /\ f \in list'[Name[r]]
      BY <1>2, <2>1, <3>1
    <3>3. Name[r] = Name[p]
      BY <1>1, <2>2, <2>4, <3>2 DEF Unshared
    <3>. QED  BY <1>3, <2>1, <3>2, <3>3 DEF Single
  <2>5. ASSUME NEW f \in File, owner'[f] = p PROVE f \in Files[p]
    BY <1>2, <1>3, <2>2, <2>5 DEF Whole
  <2>. QED  BY <2>2, <2>3, <2>4, <2>5 DEF Exact
<1>. QED  BY <1>4 DEF PackagesInv, Untouched, Settled

LEMMA NothingPackages ==
  ASSUME EditInv, EditInv', PhasesInv, PackagesInv, nothing_to_be_done
  PROVE  PackagesInv'
<1>1. dirty = FALSE /\ UNCHANGED <<files, list, spoiled, db>>
  BY DEF nothing_to_be_done, disk, EditInv, Versions, Types, OwnerTypes
<1>2. touched = {} /\ Agreed /\ Untouched
  BY <1>1 DEF PhasesInv, PackagesInv, Quiescent
<1>3. \A p \in Pkgs : db.st[p] # "not" <=> In(p)
  BY <1>2 DEF Agreed, In
<1>4. \A q \in Pkgs : ~Harmless(q)
  BY <1>1 DEF Harmless
<1>5. ASSUME NEW p \in Pkgs, db.st[p] # "not", Clean(Name[p])' PROVE Whole(p)' /\ Unshared(p)'
  <2>1. Whole(p) /\ Alone(p)
    BY <1>1, <1>2, <1>3, <1>5 DEF Untouched, Clean
  <2>. QED  BY <1>1, <1>3, <1>4, <2>1 DEF Whole, Alone, Unshared
<1>. QED  BY <1>5, ReadPackages DEF Reads

LEMMA CrashPackages ==
  ASSUME EditInv, EditInv', PhasesInv, PackagesInv, Crash
  PROVE  PackagesInv'
<1>1. /\ UNCHANGED <<files, list, db>>
      /\ spoiled' = spoiled \cup ((touched \cup {Name[p] : p \in changed'}) \X {"crash"})
  BY DEF Crash, disk
<1>2. Agreed /\ Untouched
  BY DEF PhasesInv, PackagesInv
<1>3. db \in Sums /\ preinstall_check(db, list')
  BY ReadStep DEF Reads
<1>4. \A f \in File, p, q \in Pkgs :
         db.st[p] # "not" /\ f \in list'[Name[p]] /\ db.st[q] # "not" /\ f \in list'[Name[q]] /\ p # q => p \in changed'
  BY <1>3, ReadFacts
<1>5. ASSUME NEW p \in Pkgs, db.st[p] # "not", Clean(Name[p])' PROVE Whole(p)' /\ Unshared(p)'
  <2>1. Clean(Name[p]) /\ Name[p] \notin touched /\ p \notin changed'
    BY <1>1, <1>5 DEF Clean, Mishaps
  <2>2. Whole(p)
    BY <1>2, <1>5, <2>1 DEF Agreed, Untouched, In
  <2>3. Files[p] \subseteq File
    BY Constants
  <2>. QED  BY <1>1, <1>4, <1>5, <2>1, <2>2, <2>3 DEF Whole, Unshared
<1>. QED  BY <1>5, ReadPackages DEF Reads

LEMMA WritePackages ==
  ASSUME EditInv, EditInv', PhasesInv, PackagesInv, pkg_write_changed_filelists
  PROVE  PackagesInv'
<1>1. /\ pc = "lists" /\ UNCHANGED <<files, spoiled, db>>
      /\ list' = [n \in Names |-> IF {p \in changed : Name[p] = n /\ Installed(p, mem)} = {} THEN list[n]
                                  ELSE {f \in File : owner[f] \in {p \in changed : Name[p] = n /\ Installed(p, mem)}}]
  BY DEF pkg_write_changed_filelists
<1>2. /\ Settled /\ db.st = mem.st /\ Single(mem.st) /\ Types
      /\ \A n \in abandoned : <<n, "abandoned">> \in spoiled
  BY <1>1 DEF PhasesInv, PackagesInv, Quiescent, EditInv, DbLists, Versions
<1>3. \A n : ~Handled(n)
  BY <1>1 DEF Handled, Active
<1>4. \A p \in Pkgs :
        (Installed(p, mem) <=> In(p)) /\ (db.st[p] # "not" <=> In(p)) /\ Name[p] \in Names /\ Files[p] \subseteq File
  BY <1>2, InstalledIs, Constants DEF In, Types
<1>5. ASSUME NEW p \in Pkgs, In(p)
      PROVE  list'[Name[p]] = IF p \in changed THEN {f \in File : owner[f] = p} ELSE list[Name[p]]
  <2>1. changed \subseteq Pkgs
    BY <1>2 DEF Types, OwnerTypes
  <2>2. {q \in changed : Name[q] = Name[p] /\ Installed(q, mem)} = IF p \in changed THEN {p} ELSE {}
    BY <1>2, <1>4, <1>5, <2>1 DEF Single, In
  <2>. QED  BY <1>1, <1>4, <2>2
<1>6. ASSUME NEW p \in Pkgs, db.st[p] # "not", Clean(Name[p])' PROVE Whole(p)' /\ Unshared(p)'
  <2>1. In(p) /\ Clean(Name[p]) /\ Name[p] \notin abandoned
    BY <1>1, <1>2, <1>4, <1>6 DEF Clean, Mishaps
  <2>2. Whole(p) /\ Alone(p) /\ Exact(p)
    BY <1>2, <1>3, <2>1 DEF Settled
  <2>3. {f \in File : owner[f] = p} = Files[p]
    BY <1>4, <2>2 DEF Exact
  <2>4. Whole(p)'
    BY <1>1, <1>5, <2>1, <2>2, <2>3 DEF Whole
  <2>5. ASSUME NEW q \in Pkgs, db.st[q] # "not", Name[q] # Name[p], NEW f \in Files[p] \cap list'[Name[q]] PROVE FALSE
    <3>1. In(q)
      BY <1>4, <2>5
    <3>2. owner[f] = p /\ q # p
      BY <1>4, <2>2, <2>5 DEF Exact
    <3>3. f \in list[Name[q]] /\ q \notin changed
      BY <1>5, <2>5, <3>1, <3>2
    <3>. QED  BY <2>2, <2>5, <3>1, <3>3 DEF Alone, Harmless, ToWrite
  <2>6. Unshared(p)'
    BY <1>1, <2>5 DEF Unshared
  <2>. QED  BY <2>4, <2>6
<1>. QED  BY <1>6, ReadPackages DEF Reads

LEMMA NextPackages ==
  ASSUME EditInv, EditInv', PhasesInv, OwnersInv, TopInv, PackagesInv, [Next]_vars
  PROVE  PackagesInv'
<1>1. CASE UNCHANGED vars
  BY <1>1 DEF vars, PackagesInv, Untouched, Settled, Handled, Active, Waits, In, Clean, Whole, Alone, Exact, Harmless,
     ToWrite
<1>2. CASE Reads
  BY <1>2, NothingPackages, WritePackages, CrashPackages DEF Reads
<1>. QED  BY <1>1, <1>2, StepCases, IdlePackages, EndPackages, StatusPackages, BeginPackages, PreparePackages,
             SatisfyPackages, FinishPackages, OnwardPackages

LEMMA FilesInvIs ==
  FilesInv <=> EditInv /\ PhasesInv /\ OwnersInv /\ TopInv /\ PackagesInv
BY DEF FilesInv, PhasesInv, PackagesInv

LEMMA InitFiles == Init => FilesInv
<1>. SUFFICES ASSUME Init PROVE FilesInv
  OBVIOUS
<1>2. /\ pc = "idle" /\ mem = Empty /\ db = Empty /\ obs = {} /\ dirty = FALSE /\ abandoned = {} /\ touched = {}
      /\ owner = [f \in File |-> None] /\ backup = [f \in File |-> None]
  BY DEF Init
<1>3. EditInv
  BY InitEdits
<1>4. PhasesInv
  BY <1>2 DEF PhasesInv, Quiescent, Agreed, Touching, DataBackups
<1>5. \A p \in Pkgs : ~In(p)
  BY <1>2 DEF In, Empty
<1>6. Active = {}
  BY <1>2 DEF Active
<1>7. OwnersInv
  BY <1>2, <1>5, <1>6 DEF OwnersInv, Claimed, Takes, Obsolete, Listed
<1>8. TopInv /\ PackagesInv
  BY <1>2, <1>5 DEF TopInv, PackagesInv, Untouched, Settled
<1>. QED  BY <1>3, <1>4, <1>7, <1>8, FilesInvIs

LEMMA NextFilesInv == FilesInv /\ [Next]_vars => FilesInv'
<1>. SUFFICES ASSUME FilesInv, [Next]_vars PROVE FilesInv'
  OBVIOUS
<1>2. EditInv /\ PhasesInv /\ OwnersInv /\ TopInv /\ PackagesInv
  BY FilesInvIs
<1>3. Quiescent /\ DataBackups /\ Settled
  BY <1>2 DEF PhasesInv, PackagesInv
<1>4. EditInv'
  BY <1>2, NextEditInv
<1>5. PhasesInv' /\ OwnersInv' /\ TopInv' /\ PackagesInv'
  BY <1>2, <1>3, <1>4, NextPhases, NextOwnersInv, NextTop, NextPackages
<1>. QED  BY <1>4, <1>5 DEF FilesInv, PhasesInv, PackagesInv

(* Between two commands the files and the list of an installed package are as *)
(* the status file says, unless a mishap befell it (Opkg!DbMatches).          *)
THEOREM DatabaseMatches == Spec => []DbMatches
<1>1. FilesInv => DbMatches
  <2>. SUFFICES ASSUME FilesInv, pc = "idle", NEW p \in Pkgs, Installed(p, db), ({Name[p]} \X Mishaps) \cap spoiled = {}
                 PROVE  Matches(p)
    BY DEF DbMatches, Rest
  <2>2. mem = db /\ abandoned = {} /\ Settled /\ db \in Sums /\ Active = {}
    BY DEF FilesInv, Quiescent, EditInv, Versions, Types, Active
  <2>3. In(p)
    BY <2>2, InstalledIs DEF In
  <2>4. Clean(Name[p])
    BY DEF Clean
  <2>5. Whole(p)
    BY <2>2, <2>3, <2>4 DEF Settled, Handled
  <2>6. Files[p] \cap ConfFile \subseteq Conf[p]
    BY ConfConstants
  <2>. QED  BY <2>5, <2>6 DEF Whole, Matches
<1>. QED  BY <1>1, InitFiles, NextFilesInv, PTL DEF Spec

-----------------------------------------------------------------------------
(* Files without an owner. *)

Held(q) == \E x \in Active : x.old = q /\ x.pc \in Past
Promised(q) == Harmless(q) /\ (Name[q] \in touched \/ pc = "lists")
Anchors(q, f) ==
  \/ owner[f] = q /\ (f \in list[Name[q]] \/ Promised(q))
  \/ f \in list[Name[q]] /\ Own(f, q) /\ (Held(q) \/ (Name[q] \in abandoned /\ pc # "lists"))
Anchored(f) == \E q \in Pkgs : In(q) /\ Anchors(q, f)
InHand(f) == pc = "pkg" /\ stack[1].pc \in Brought /\ owner[f] = stack[1].pkg
Ghosts == \A f \in File \ ConfFile : files[f] # None /\ f \notin litter => Anchored(f) \/ InHand(f)

(* What the top call leaves of the list of the package that goes. *)
TopLeaves(x) ==
  /\ x.pc = "unlist" /\ x.old # None => \A f \in list[Name[x.old]] \ ConfFile : files[f] = None
  /\ x.pc \in {"extract", "list"} /\ x.old # None => list[Name[x.old]] = {}
  /\ x.pc \in Late /\ "partial" \in x.marks /\ x.old # None => list[Name[x.old]] = {}
  /\ x.pc = "rm_list" => \A f \in list[Name[x.pkg]] \ ConfFile : files[f] = None
  /\ x.pc = "rm_done" => list[Name[x.pkg]] = {}
Leaves == pc = "pkg" => TopLeaves(stack[1])

(* What the first call made obsolete stays listed while it waits. *)
Shelved == pc = "pkg" /\ Base.pc = "deps" => \A f \in obs : f \in list[Name[Base.old]]

LEMMA LeavesVacuous ==
  ASSUME NEW x, x.pc \notin {"unlist", "extract", "list", "rm_list", "rm_done"} \cup Late PROVE TopLeaves(x)'
BY DEF TopLeaves

LEMMA OnwardLeaves ==
  ASSUME EditInv, TopInv, Leaves, OnwardSteps
  PROVE  Leaves'
<1>0. ASSUME NEW x, Keeps(x)
      PROVE  /\ stack'[1] = x /\ x.pkg = Top.pkg /\ x.old = Top.old /\ owner' = owner /\ Top.pkg \in Pkgs /\ pc = "pkg"
             /\ TopHolds(Top) /\ TopLeaves(Top) /\ list \in [Names -> SUBSET File] /\ Name[Top.pkg] \in Names
             /\ Top.pc \in InstallPcs /\ Top.old # None => Name[Top.old] = Name[Top.pkg]
  <2>1. /\ stack'[1] = x /\ x.pkg = Top.pkg /\ x.old = Top.old /\ owner' = owner /\ Top.pkg \in Pkgs /\ pc = "pkg"
        /\ Top = stack[1] /\ list \in [Names -> SUBSET File] /\ Name[Top.pkg] \in Names
    BY <1>0, MoveShape, TopCall, Constants DEF Keeps, SameOwners, Types, DiskTypes
  <2>2. Top.pc \in InstallPcs /\ Top.old # None => Name[Top.old] = Name[Top.pkg]
    BY <2>1, CallFacts, CallShape
  <2>. QED  BY <2>1, <2>2 DEF TopInv, Leaves
<1>1. ASSUME NEW x, Keeps(x), x.pc \in {"backup", "clashes", "preinst", "erase"} PROVE Leaves'
  <2>1. x.pc \notin {"unlist", "extract", "list", "rm_list", "rm_done"} \cup Late
    BY <1>1 DEF Late
  <2>2. TopLeaves(x)'
    BY <2>1, LeavesVacuous
  <2>. QED  BY <1>0, <1>1, <2>2 DEF Leaves
<1>2. CASE preinst_configure
  BY <1>1, <1>2, PreinstStep
<1>3. CASE backup_modified_conffiles
  BY <1>1, <1>3, BackupStep
<1>4. CASE check_data_file_clashes
  BY <1>1, <1>4, ClashesStep
<1>5. CASE Enter
  BY <1>1, <1>5, EnterStep
<1>6. CASE remove_old_files
  <2>1. PICK x : /\ Keeps(x) /\ x.pc = "unlist" /\ list' = list /\ Top.pc = "erase"
                 /\ Top.old # None => \A f \in File : f \in list[Name[Top.old]] \ ConfFile => files'[f] = None
    BY <1>6, EraseStep
  <2>2. x.old # None => Name[x.old] = Name[x.pkg]
    BY <1>0, <2>1 DEF InstallPcs
  <2>3. TopLeaves(x)'
    BY <1>0, <2>1, <2>2 DEF TopLeaves, Late
  <2>. QED  BY <1>0, <2>1, <2>3 DEF Leaves
<1>7. CASE remove_old_list
  <2>1. PICK x : /\ Keeps(x) /\ x.pc = "extract" /\ Top.pc = "unlist"
                 /\ list' = IF Top.old = None THEN list ELSE [list EXCEPT ![Name[Top.old]] = {}]
    BY <1>7, UnlistStep
  <2>2. Top.old # None => Name[Top.old] \in Names
    BY <1>0, <2>1 DEF InstallPcs
  <2>3. TopLeaves(x)'
    BY <1>0, <2>1, <2>2 DEF TopLeaves, Late
  <2>. QED  BY <1>0, <2>1, <2>3 DEF Leaves
<1>8. CASE \E S \in SUBSET Files[Top.pkg] : Extract(S)
  <2>1. PICK x : /\ Keeps(x) /\ Top.pc = "extract" /\ x.pc \in {"list", "resolve"} /\ list' = list
    BY <1>8, ExtractStep
  <2>2. TopLeaves(x)'
    BY <1>0, <2>1 DEF TopLeaves, Late
  <2>. QED  BY <1>0, <2>1, <2>2 DEF Leaves
<1>9. CASE pkg_write_filelist
  <2>1. PICK x : Keeps(x) /\ x.pc = "resolve" /\ x.marks = Top.marks /\ Top.pc = "list"
    BY <1>9, ListStep
  <2>2. "partial" \notin x.marks
    BY <1>0, <2>1 DEF TopHolds
  <2>3. TopLeaves(x)'
    BY <2>1, <2>2 DEF TopLeaves, Late
  <2>. QED  BY <1>0, <2>1, <2>3 DEF Leaves
<1>10. CASE \E kept \in SUBSET ConfFile : resolve_conffiles(kept)
  <2>1. PICK x : Keeps(x) /\ x.pc = "finish" /\ x.marks = Top.marks /\ Top.pc = "resolve" /\ list' = list
    BY <1>10, ResolveStep
  <2>2. TopLeaves(x)'
    BY <1>0, <2>1 DEF TopLeaves, Late
  <2>. QED  BY <1>0, <2>1, <2>2 DEF Leaves
<1>11. CASE remove_data_files
  <2>1. PICK x : /\ Keeps(x) /\ x.pc = "rm_list" /\ list' = list
                 /\ \A f \in File : f \in list[Name[Top.pkg]] \ ConfFile => files'[f] = None
    BY <1>11, RemoveFilesStep
  <2>2. TopLeaves(x)'
    BY <1>0, <2>1 DEF TopLeaves, Late
  <2>. QED  BY <1>0, <2>1, <2>2 DEF Leaves
<1>12. CASE remove_list
  <2>1. PICK x : /\ Keeps(x) /\ x.pc = "rm_done" /\ list' = [list EXCEPT ![Name[Top.pkg]] = {}]
    BY <1>12, RemoveListStep
  <2>2. TopLeaves(x)'
    BY <1>0, <2>1 DEF TopLeaves, Late
  <2>. QED  BY <1>0, <2>1, <2>2 DEF Leaves
<1>. QED  BY <1>2, <1>3, <1>4, <1>5, <1>6, <1>7, <1>8, <1>9, <1>10, <1>11, <1>12 DEF OnwardSteps, Steps

LEMMA OnwardShelved ==
  ASSUME EditInv, Obsolete, Shelved, OnwardSteps
  PROVE  Shelved'
<1>1. PICK x : /\ Keeps(x) /\ Onward(Top.pc, x.pc)
  BY OnwardFacts
<1>2. /\ pc = "pkg" /\ Base' = (IF Waits = {} THEN x ELSE Base) /\ obs' = obs
      /\ Top \in Active /\ Top.pkg \in Pkgs
  BY <1>1, MoveShape, CallShape, TopCall DEF Keeps, SameOwners
<1>3. x.pc # "deps"
  BY <1>1 DEF Onward, RemovePcs
<1>4. SUFFICES ASSUME Waits # {}, NEW f \in obs PROVE f \in list'[Name[Base.old]]
  BY <1>2, <1>3 DEF Shelved
<1>5. /\ Waits = {Base} /\ Base.pc = "deps" /\ Base \in Active /\ Base.pkg \in Pkgs /\ Top.old = None
      /\ Name[Base.pkg] # Name[Top.pkg] /\ Top.pc \in InstallPcs
  BY <1>2, <1>4, CallShape DEF Waiting
<1>6. f \in list[Name[Base.old]] /\ Base.old # None
  BY <1>2, <1>4, <1>5 DEF Shelved, Obsolete
<1>7. Base.old \in Pkgs /\ Name[Base.old] = Name[Base.pkg]
  BY <1>2, <1>5, <1>6, CallFacts DEF InstallPcs
<1>8. list \in [Names -> SUBSET File] /\ \A q \in Pkgs : Name[q] \in Names
  BY Constants DEF EditInv, Versions, Types, DiskTypes
<1>9. CASE UNCHANGED list
  BY <1>6, <1>9
<1>10. CASE Enter
  <2>1. list' = [n \in Names |-> IF n \in {Name[p] : p \in Orphans} THEN {} ELSE list[n]] /\ Orphans = {}
    BY <1>4, <1>10, EnterStep
  <2>. QED  BY <1>6, <1>7, <1>8, <2>1
<1>11. CASE remove_old_list
  <2>1. list' = list
    BY <1>5, <1>11, UnlistStep
  <2>. QED  BY <1>9, <2>1
<1>12. CASE pkg_write_filelist
  <2>1. list' = [list EXCEPT ![Name[Top.pkg]] = {g \in File : owner[g] = Top.pkg}]
    BY <1>12, ListStep
  <2>. QED  BY <1>2, <1>5, <1>6, <1>7, <1>8, <2>1
<1>13. CASE remove_list
  <2>1. Top.pc = "rm_list"
    BY <1>13, RemoveListStep
  <2>. QED  BY <1>5, <2>1 DEF InstallPcs
<1>. QED  BY <1>9, <1>10, <1>11, <1>12, <1>13, PreinstStep, BackupStep, ClashesStep, EraseStep, ExtractStep, ResolveStep,
             RemoveFilesStep DEF OnwardSteps, Steps

Extracts == \E S \in SUBSET Files[Top.pkg] : Extract(S)

(* Only the extraction brings data files. *)
LEMMA OnwardFiles ==
  ASSUME EditInv, OnwardSteps, ~Extracts
  PROVE  litter' = litter /\ \A f \in File \ ConfFile : files'[f] \in {files[f], None}
<1>1. CASE UNCHANGED <<files, litter>>
  BY <1>1
<1>2. CASE litter' = litter /\ \A f \in File : files'[f] \in {files[f], None}
  BY <1>2
<1>3. CASE \E kept \in SUBSET ConfFile : resolve_conffiles(kept)
  BY <1>3, ResolveStep
<1>4. CASE preinst_configure \/ backup_modified_conffiles \/ check_data_file_clashes
  BY <1>1, <1>4, PreinstStep, BackupStep, ClashesStep
<1>5. CASE remove_old_list \/ pkg_write_filelist \/ remove_list
  BY <1>1, <1>5, UnlistStep, ListStep, RemoveListStep
<1>6. CASE remove_old_files \/ remove_data_files \/ Enter
  BY <1>2, <1>6, EraseStep, RemoveFilesStep, EnterStep
<1>. QED  BY <1>3, <1>4, <1>5, <1>6 DEF OnwardSteps, Steps, Extracts

(* A list that loses a name loses it of a file that is gone. *)
LEMMA OnwardList ==
  ASSUME EditInv, Leaves, OnwardSteps, NEW q \in Pkgs, In(q), NEW f \in File \ ConfFile, files[f] # None, files'[f] # None,
         f \in list[Name[q]]
  PROVE  f \in list'[Name[q]]
<1>1. PICK x : Keeps(x)
  BY OnwardFacts
<1>2. /\ pc = "pkg" /\ TopLeaves(Top) /\ Top.pkg \in Pkgs /\ Top \in Active /\ Top.old \in Pkgs \cup {None}
      /\ list \in [Names -> SUBSET File] /\ Name[q] \in Names /\ Name[Top.pkg] \in Names /\ q # None /\ Single(mem.st)
  <2>1. pc = "pkg"
    BY <1>1, MoveShape DEF Keeps
  <2>2. Top = stack[1] /\ Top.pkg \in Pkgs /\ Top \in Active /\ Top.old \in Pkgs \cup {None}
    BY <2>1, CallShape, TopCall
  <2>. QED  BY <2>1, <2>2, Constants DEF Leaves, EditInv, Versions, Types, DiskTypes
<1>3. Top.pc \in InstallPcs /\ Name[q] = Name[Top.pkg] => q = Top.old
  BY <1>2, CallFacts DEF Old, In
<1>4. CASE UNCHANGED list
  BY <1>4
<1>5. CASE preinst_configure \/ backup_modified_conffiles \/ check_data_file_clashes \/ remove_old_files
             \/ remove_data_files
  BY <1>4, <1>5, PreinstStep, BackupStep, ClashesStep, EraseStep, RemoveFilesStep
<1>6. CASE Extracts \/ \E kept \in SUBSET ConfFile : resolve_conffiles(kept)
  BY <1>4, <1>6, ExtractStep, ResolveStep DEF Extracts
<1>7. CASE remove_old_list
  <2>1. /\ list' = (IF Top.old = None THEN list ELSE [list EXCEPT ![Name[Top.old]] = {}]) /\ Top.pc = "unlist"
    BY <1>7, UnlistStep
  <2>2. Top.old # None => f \notin list[Name[Top.old]]
    BY <1>2, <2>1 DEF TopLeaves
  <2>. QED  BY <1>2, <2>1, <2>2
<1>8. CASE remove_list
  <2>1. /\ list' = [list EXCEPT ![Name[Top.pkg]] = {}] /\ Top.pc = "rm_list"
    BY <1>8, RemoveListStep
  <2>2. f \notin list[Name[Top.pkg]]
    BY <1>2, <2>1 DEF TopLeaves
  <2>. QED  BY <1>2, <2>1, <2>2
<1>9. CASE pkg_write_filelist
  <2>1. /\ list' = [list EXCEPT ![Name[Top.pkg]] = {g \in File : owner[g] = Top.pkg}] /\ Top.pc = "list"
    BY <1>9, ListStep
  <2>2. Top.old # None => list[Name[Top.old]] = {}
    BY <1>2, <2>1 DEF TopLeaves
  <2>3. Name[q] # Name[Top.pkg]
    BY <1>2, <1>3, <2>1, <2>2 DEF InstallPcs
  <2>. QED  BY <1>2, <2>1, <2>3
<1>10. CASE Enter
  <2>1. /\ list' = [n \in Names |-> IF n \in {Name[p] : p \in Orphans} THEN {} ELSE list[n]]
        /\ ((\E p \in Orphans : f \in list[Name[p]]) => files'[f] = None)
    BY <1>10, EnterStep
  <2>. QED  BY <1>2, <2>1
<1>. QED  BY <1>5, <1>6, <1>7, <1>8, <1>9, <1>10 DEF OnwardSteps, Steps, Extracts

(* A package that vouches for a file stays installed. *)
LEMMA OnwardIn ==
  ASSUME EditInv, OnwardSteps, NEW q \in Pkgs, In(q), NEW f \in File \ ConfFile, files'[f] # None, Anchors(q, f)
  PROVE  In(q)'
<1>1. CASE Enter
  <2>1. /\ pc = "pkg" /\ mem'.st = [p \in Pkgs |-> IF p \in Orphans THEN "not" ELSE mem.st[p]]
        /\ ((\E p \in Orphans : f \in list[Name[p]]) => files'[f] = None)
        /\ (Waits # {} => Orphans = {})
        /\ \A p \in Orphans : Name[p] \notin Deps[Top.pkg]
    BY <1>1, EnterStep, MoveShape DEF Keeps
  <2>2. ASSUME q \in Orphans PROVE FALSE
    <3>1. f \notin list[Name[q]]
      BY <2>1, <2>2
    <3>2. ToWrite(q)
      BY <3>1 DEF Anchors, Promised, Harmless
    <3>3. Base = Top
      BY <2>1, <2>2, CallShape
    <3>. QED  BY <2>1, <2>2, <3>2, <3>3 DEF ToWrite, Base
  <2>. QED  BY <2>1, <2>2 DEF In
<1>2. CASE mem'.st = mem.st
  BY <1>2 DEF In
<1>3. CASE preinst_configure \/ backup_modified_conffiles \/ check_data_file_clashes \/ remove_old_files
             \/ remove_data_files \/ remove_list
  BY <1>2, <1>3, PreinstStep, BackupStep, ClashesStep, EraseStep, RemoveFilesStep, RemoveListStep
<1>4. CASE remove_old_list \/ pkg_write_filelist \/ Extracts \/ \E kept \in SUBSET ConfFile : resolve_conffiles(kept)
  BY <1>2, <1>4, UnlistStep, ListStep, ExtractStep, ResolveStep DEF Extracts
<1>. QED  BY <1>1, <1>3, <1>4 DEF OnwardSteps, Steps, Extracts

LEMMA OnwardAnchors ==
  ASSUME EditInv, OnwardSteps, NEW q \in Pkgs, In(q), NEW f \in File, Anchors(q, f),
         f \in list[Name[q]] => f \in list'[Name[q]]
  PROVE  Anchors(q, f)'
<1>1. PICK x : /\ Keeps(x) /\ Onward(Top.pc, x.pc) /\ dirty' \in {dirty, TRUE} /\ touched \subseteq touched'
  BY OnwardFacts
<1>2. /\ pc = "pkg" /\ pc' = "pkg" /\ owner' = owner /\ abandoned' = abandoned
      /\ Active = {Top} \cup Waits /\ Active' = {x} \cup Waits /\ x.old = Top.old
  BY <1>1, MoveShape, CallShape DEF Keeps, SameOwners
<1>3. Top.pc \in Past => x.pc \in Past
  BY <1>1 DEF Onward, Past, InstallPcs, RemovePcs
<1>4. Held(q) => Held(q)'
  BY <1>2, <1>3 DEF Held
<1>5. ToWrite(q) => ToWrite(q)'
  BY OnwardWrites
<1>6. Promised(q) => Promised(q)'
  BY <1>1, <1>2, <1>5 DEF Promised, Harmless
<1>. QED  BY <1>2, <1>4, <1>6 DEF Anchors, Own

LEMMA ExtractGhosts ==
  ASSUME EditInv, OwnersInv, TopInv, Shelved, Leaves, Ghosts, NEW S, S \subseteq Files[Top.pkg], Extract(S)
  PROVE  Ghosts'
<1>1. PICK x : /\ Keeps(x) /\ Top.pc = "extract" /\ x.pc \in {"list", "resolve"} /\ UNCHANGED <<list, mem>>
               /\ files' = [f \in File |-> IF f \in S THEN Top.pkg ELSE files[f]]
               /\ litter' = (litter \ S) \cup {f \in S : owner[f] # Top.pkg /\ files[f] = None}
  BY ExtractStep
<1>2. /\ pc = "pkg" /\ pc' = "pkg" /\ stack'[1] = x /\ x.pkg = Top.pkg /\ owner' = owner /\ Top = stack[1]
      /\ Top \in Active /\ Top.pkg \in Pkgs
  BY <1>1, MoveShape, CallShape, TopCall DEF Keeps, SameOwners
<1>3. OnwardSteps
  BY DEF OnwardSteps, Steps
<1>4. SUFFICES ASSUME NEW f \in File \ ConfFile, files'[f] # None, f \notin litter' PROVE Anchored(f)' \/ InHand(f)'
  BY DEF Ghosts
<1>5. CASE f \notin S
  <2>1. files[f] # None /\ f \notin litter
    BY <1>1, <1>4, <1>5
  <2>2. ~InHand(f)
    BY <1>1, <1>2 DEF InHand, Brought
  <2>3. PICK q \in Pkgs : In(q) /\ Anchors(q, f)
    BY <1>4, <2>1, <2>2 DEF Ghosts, Anchored
  <2>4. In(q)' /\ Anchors(q, f)'
    BY <1>1, <1>3, <2>3, OnwardAnchors DEF In
  <2>. QED  BY <2>4 DEF Anchored
<1>6. CASE f \in S /\ owner[f] = Top.pkg
  BY <1>1, <1>2, <1>6 DEF InHand, Brought
<1>7. CASE f \in S /\ owner[f] # Top.pkg
  <2>1. files[f] # None /\ f \in Files[Top.pkg] \ ConfFile
    BY <1>1, <1>4, <1>7
  <2>2. TopHolds(Top) /\ After(Top)
    BY <1>1, <1>2 DEF TopInv, OwnersInv, Takes, Past, InstallPcs
  <2>3. owner[f] # None /\ owner[f] # Top.old /\ (f \in obs \/ Name[owner[f]] = Name[Top.pkg])
    BY <1>1, <2>1, <2>2 DEF TopHolds, After, Cleared
  <2>4. f \in obs
    BY <1>4, <1>7, <2>2, <2>3 DEF After
  <2>5. Base.old # None /\ owner[f] = Base.old /\ Base.pc \in Past
    BY <1>2, <2>4 DEF OwnersInv, Obsolete
  <2>6. Base \in Active /\ Base.pc = "deps"
    BY <1>2, <2>3, <2>5, CallShape DEF Waiting
  <2>7. Base.old \in Pkgs /\ In(Base.old)
    BY <1>2, <2>5, <2>6, CallFacts DEF InstallPcs
  <2>8. f \in list[Name[Base.old]]
    BY <1>2, <2>4, <2>6 DEF Shelved
  <2>9. PICK q \in Pkgs : q = Base.old
    BY <2>7
  <2>10. In(q)' /\ Anchors(q, f)'
    BY <1>1, <1>2, <2>5, <2>7, <2>8, <2>9 DEF In, Anchors
  <2>. QED  BY <2>10 DEF Anchored
<1>. QED  BY <1>5, <1>6, <1>7

LEMMA OnwardGhosts ==
  ASSUME EditInv, OwnersInv, TopInv, Shelved, Leaves, Ghosts, OnwardSteps
  PROVE  Ghosts'
<1>1. CASE Extracts
  BY <1>1, ExtractGhosts DEF Extracts
<1>2. CASE ~Extracts
  <2>1. SUFFICES ASSUME NEW f \in File \ ConfFile, files'[f] # None, f \notin litter' PROVE Anchored(f)' \/ InHand(f)'
    BY DEF Ghosts
  <2>2. files[f] # None /\ f \notin litter
    BY <1>2, <2>1, OnwardFiles
  <2>3. CASE Anchored(f)
    <3>1. PICK q \in Pkgs : In(q) /\ Anchors(q, f)
      BY <2>3 DEF Anchored
    <3>2. f \in list[Name[q]] => f \in list'[Name[q]]
      BY <2>1, <2>2, <3>1, OnwardList
    <3>3. In(q)' /\ Anchors(q, f)'
      BY <2>1, <3>1, <3>2, OnwardIn, OnwardAnchors
    <3>. QED  BY <3>3 DEF Anchored
  <2>4. CASE InHand(f)
    <3>1. PICK x : Keeps(x) /\ Onward(Top.pc, x.pc)
      BY OnwardFacts
    <3>2. pc' = "pkg" /\ stack'[1] = x /\ x.pkg = Top.pkg /\ owner' = owner /\ Top = stack[1]
      BY <3>1, MoveShape, CallShape DEF Keeps, SameOwners
    <3>3. x.pc \in Brought
      <4>1. CASE pkg_write_filelist
        BY <3>2, <4>1, ListStep, MoveShape DEF Keeps, Brought
      <4>2. CASE \E kept \in SUBSET ConfFile : resolve_conffiles(kept)
        BY <3>2, <4>2, ResolveStep, MoveShape DEF Keeps, Brought
      <4>3. Top.pc \in Brought
        BY <2>4, <3>2 DEF InHand
      <4>4. ~preinst_configure /\ ~backup_modified_conffiles /\ ~check_data_file_clashes /\ ~remove_old_files
             /\ ~remove_data_files /\ ~remove_list /\ ~remove_old_list /\ ~Enter
        BY <4>3 DEF Brought, preinst_configure, backup_modified_conffiles, check_data_file_clashes, remove_old_files,
           remove_data_files, remove_list, remove_old_list, Enter, At
      <4>. QED  BY <1>2, <4>1, <4>2, <4>4 DEF OnwardSteps, Steps, Extracts
    <3>. QED  BY <2>4, <3>2, <3>3 DEF InHand
  <2>. QED  BY <2>1, <2>2, <2>3, <2>4 DEF Ghosts
<1>. QED  BY <1>1, <1>2

GhostsInv == Shelved /\ Leaves /\ Ghosts

LEMMA PrepareGhosts ==
  ASSUME EditInv, Obsolete, Quiescent, GhostsInv, Prepare
  PROVE  GhostsInv'
<1>0. Shelved /\ Leaves /\ Ghosts
  BY DEF GhostsInv
<1>1. PICK x : /\ Moves(x) /\ x.pc = "deps" /\ Top.pc = "prepare" /\ mem'.st = mem.st
               /\ UNCHANGED <<files, backup, list, db, dirty, touched, abandoned, spoiled, litter>>
               /\ changed \subseteq changed'
               /\ owner' = [f \in File |-> IF f \in Files[Top.pkg] /\ owner[f] \in {None, Top.old} THEN Top.pkg ELSE owner[f]]
               /\ obs' = IF Top.old = None THEN obs ELSE obs \cup {f \in list[Name[Top.old]] : owner'[f] = Top.old}
  BY PrepareStep
<1>2. /\ pc = "pkg" /\ pc' = "pkg" /\ stack'[1] = x /\ Active' = {x} \cup Waits /\ x.pkg = Top.pkg /\ x.old = Top.old
      /\ Active = {Top} \cup Waits /\ Base'.pkg = Base.pkg /\ Base' = IF Waits = {} THEN x ELSE Base
  BY <1>1, MoveShape, CallShape
<1>3. /\ Top = stack[1] /\ Top.pkg \in Pkgs
      /\ (Waits = {} /\ Base = Top) \/ (Waits = {Base} /\ Top.old = None)
  BY <1>2, CallShape, TopCall
<1>4. Top.old # None => Top.old \in Pkgs /\ Name[Top.old] = Name[Top.pkg] /\ In(Top.old)
  BY <1>1, <1>2, CallFacts DEF InstallPcs
<1>5. x.pc \in Past /\ "prepare" \notin Past /\ abandoned = {} /\ None \notin Pkgs /\ Single(mem.st)
      /\ owner \in [File -> Pkgs \cup {None}]
  BY <1>0, <1>1, <1>2, Constants DEF Past, InstallPcs, Quiescent, EditInv, Versions, Types, OwnerTypes
<1>6. Shelved'
  <2>1. SUFFICES ASSUME Base'.pc = "deps", NEW f \in obs' PROVE f \in list[Name[Base'.old]]
    BY <1>1, <1>2 DEF Shelved
  <2>2. f \in obs => Base.pc \in Past
    BY <1>2 DEF Obsolete
  <2>. QED  BY <1>0, <1>1, <1>2, <1>3, <1>5, <2>1, <2>2 DEF Shelved
<1>7. Leaves'
  <2>1. x.pc \notin {"unlist", "extract", "list", "rm_list", "rm_done"} \cup Late
    BY <1>1 DEF Late
  <2>. QED  BY <1>2, <2>1, LeavesVacuous DEF Leaves
<1>8. Ghosts'
  <2>1. SUFFICES ASSUME NEW f \in File \ ConfFile, files[f] # None, f \notin litter PROVE Anchored(f)'
    BY <1>1 DEF Ghosts
  <2>2. ~InHand(f)
    BY <1>1, <1>3 DEF InHand, Brought
  <2>3. PICK q \in Pkgs : In(q) /\ Anchors(q, f)
    BY <1>0, <2>1, <2>2 DEF Ghosts, Anchored
  <2>4. In(q)' /\ (Held(q) => Held(q)')
    BY <1>1, <1>2, <1>5, <2>3 DEF In, Held
  <2>5. Promised(q) => Promised(q)'
    BY <1>1, <1>2 DEF Promised, Harmless, ToWrite, Base
  <2>6. CASE owner'[f] = owner[f]
    <3>1. Anchors(q, f)'
      BY <1>1, <1>5, <2>3, <2>4, <2>5, <2>6 DEF Anchors, Own
    <3>. QED  BY <2>4, <3>1 DEF Anchored
  <2>7. CASE owner'[f] # owner[f]
    <3>1. owner[f] \in {None, Top.old} /\ owner'[f] = Top.pkg
      BY <1>1, <2>1, <2>7
    <3>2. owner[f] # None /\ Name[owner[f]] = Name[q]
      BY <1>5, <2>3 DEF Anchors, Own
    <3>3. q = Top.old
      BY <1>4, <1>5, <2>3, <3>1, <3>2 DEF Single, In
    <3>4. Base = Top
      BY <1>3, <1>5, <3>3
    <3>5. ~Promised(q)
      <4>1. Promised(q) => Name[q] \in Deps[Top.pkg]
        BY <1>2, <3>4 DEF Promised, Harmless, ToWrite, Base
      <4>. QED  BY <1>3, <1>4, <1>5, <3>3, <4>1, Constants
    <3>6. f \in list[Name[q]]
      BY <2>3, <3>5 DEF Anchors
    <3>7. Own(f, q)'
      BY <1>3, <1>4, <1>5, <3>1, <3>3 DEF Own
    <3>8. Held(q)'
      BY <1>2, <1>5, <3>3 DEF Held
    <3>9. Anchors(q, f)'
      BY <1>1, <3>6, <3>7, <3>8 DEF Anchors
    <3>. QED  BY <2>4, <3>9 DEF Anchored
  <2>. QED  BY <2>6, <2>7
<1>. QED  BY <1>6, <1>7, <1>8 DEF GhostsInv

LEMMA SatisfyGhosts ==
  ASSUME EditInv, EditInv', GhostsInv, satisfy_dependencies_for
  PROVE  GhostsInv'
<1>0. Shelved /\ Leaves /\ Ghosts /\ Types'
  BY DEF GhostsInv, EditInv, Versions
<1>1. /\ pc = "pkg" /\ pc' = "pkg" /\ Top = stack[1] /\ Top.pc = "deps" /\ Base = Top /\ Active = {Top} /\ Base' = Top
      /\ Active' = {stack'[1], Top} /\ stack'[1].pc = "prepare" /\ mem'.st = mem.st
      /\ UNCHANGED <<files, list, owner, obs, changed, dirty, touched, abandoned, litter>>
  BY <1>0, PushShape
<1>2. Shelved'
  BY <1>0, <1>1 DEF Shelved
<1>3. Leaves'
  <2>1. PICK y : y = stack'[1]
    OBVIOUS
  <2>2. TopLeaves(y)'
    BY <1>1, <2>1, LeavesVacuous DEF Late
  <2>. QED  BY <2>1, <2>2 DEF Leaves
<1>4. Ghosts'
  <2>1. \A q \in Pkgs : (Held(q) => Held(q)') /\ (Promised(q) => Promised(q)') /\ (In(q) => In(q)')
    BY <1>1 DEF Held, Promised, Harmless, ToWrite, Base, In
  <2>2. ASSUME NEW f \in File \ ConfFile, files[f] # None, f \notin litter PROVE Anchored(f)'
    <3>1. ~InHand(f)
      BY <1>1 DEF InHand, Brought
    <3>2. PICK q \in Pkgs : In(q) /\ Anchors(q, f)
      BY <1>0, <2>2, <3>1 DEF Ghosts, Anchored
    <3>3. Anchors(q, f)'
      BY <1>1, <2>1, <3>2 DEF Anchors, Own
    <3>. QED  BY <2>1, <3>2, <3>3 DEF Anchored
  <2>. QED  BY <1>1, <2>2 DEF Ghosts
<1>. QED  BY <1>2, <1>3, <1>4 DEF GhostsInv

LEMMA BeginGhosts ==
  ASSUME EditInv, Quiescent, GhostsInv, NEW n \in Names, opkg_install_cmd(n) \/ opkg_remove_cmd(n)
  PROVE  GhostsInv'
<1>0. Shelved /\ Leaves /\ Ghosts
  BY DEF GhostsInv
<1>1. /\ pc = "idle" /\ mem'.st = mem.st
      /\ UNCHANGED <<files, list, owner, obs, litter>>
      /\ \/ pc' = "configure"
         \/ pc' = "pkg" /\ stack'[1].pc \in {"prepare", "rm_files"}
  BY BeginStep
<1>2. obs = {} /\ abandoned = {} /\ Active = {}
  BY <1>1 DEF Quiescent, Active
<1>3. Shelved'
  BY <1>1, <1>2 DEF Shelved
<1>4. Leaves'
  <2>1. PICK y : y = stack'[1]
    OBVIOUS
  <2>2. pc' = "pkg" => TopLeaves(y)'
    BY <1>1, <2>1, LeavesVacuous DEF Late
  <2>. QED  BY <2>1, <2>2 DEF Leaves
<1>5. ASSUME NEW f \in File \ ConfFile, files[f] # None, f \notin litter PROVE Anchored(f)'
  <2>1. PICK q \in Pkgs : In(q) /\ Anchors(q, f)
    BY <1>0, <1>1, <1>5 DEF Ghosts, Anchored, InHand
  <2>2. owner[f] = q /\ f \in list[Name[q]]
    BY <1>1, <1>2, <2>1 DEF Anchors, Promised, Harmless, ToWrite, Held
  <2>. QED  BY <1>1, <2>1, <2>2 DEF Anchored, Anchors, In
<1>6. Ghosts'
  BY <1>1, <1>5 DEF Ghosts
<1>. QED  BY <1>3, <1>4, <1>6 DEF GhostsInv

LEMMA FinishGhosts ==
  ASSUME EditInv, Touching, TopInv, GhostsInv, Finish
  PROVE  GhostsInv'
<1>0. Shelved /\ Leaves /\ Ghosts
  BY DEF GhostsInv
<1>1. /\ pc = "pkg" /\ Top = stack[1] /\ Top.pc = "finish" /\ Top.pkg \in Pkgs
      /\ Active = {Top} \cup Waits /\ Active' = Waits
      /\ \/ Waits = {} /\ Base = Top /\ pc' = "configure"
         \/ /\ Waits = {Base} /\ pc' = "pkg" /\ stack'[1] = Base /\ Base' = Base /\ Name[Top.pkg] \in Deps[Base.pkg]
            /\ Top.old = None /\ Base.pc = "deps"
      /\ mem'.st = [p \in Pkgs |-> IF p = Top.pkg THEN "unpacked" ELSE IF p = Top.old THEN "not" ELSE mem.st[p]]
      /\ UNCHANGED <<files, backup, list, db, owner, obs, changed, dirty, touched, abandoned, litter>>
  BY PopShape DEF Waiting
<1>2. PICK t : t = Top.pkg
  OBVIOUS
<1>3. /\ dirty = TRUE /\ Name[t] \in touched /\ "finish" \in Late /\ "finish" \in InstallPcs /\ t \in Pkgs
      /\ None \notin Pkgs /\ TopHolds(Top) /\ TopLeaves(Top)
  <2>1. CallOK(Top, mem, changed, list, dirty, Trusted)
    BY <1>1, TopCall
  <2>. QED  BY <1>0, <1>1, <1>2, <2>1, Constants DEF CallOK, Touching, Changing, Late, InstallPcs, TopInv, Leaves
<1>4. Top \in Active /\ (Top.old # None => Top.old \in Pkgs /\ Name[Top.old] = Name[t])
  BY <1>1, <1>2, <1>3, CallFacts
<1>5. Shelved'
  BY <1>0, <1>1 DEF Shelved
<1>6. Leaves'
  <2>1. PICK y : y = stack'[1]
    OBVIOUS
  <2>2. pc' = "pkg" => TopLeaves(y)'
    BY <1>1, <2>1, LeavesVacuous DEF Late
  <2>. QED  BY <2>1, <2>2 DEF Leaves
<1>7. \A q \in Pkgs : Promised(q) => Promised(q)'
  BY <1>1 DEF Promised, Harmless, ToWrite, Base
<1>8. In(t)'
  BY <1>1, <1>2 DEF In
<1>9. /\ "partial" \notin Top.marks => list[Name[t]] = {f \in File : owner[f] = t}
      /\ "partial" \in Top.marks => t \in changed /\ (Top.old # None => list[Name[Top.old]] = {})
  BY <1>1, <1>2, <1>3 DEF TopHolds, TopLeaves
<1>10. "partial" \in Top.marks => Promised(t)'
  BY <1>1, <1>2, <1>3, <1>9 DEF Promised, Harmless, ToWrite, Base
<1>11. ASSUME NEW f \in File \ ConfFile, owner[f] = t PROVE Anchored(f)'
  <2>1. f \in list[Name[t]] \/ Promised(t)'
    BY <1>9, <1>10, <1>11
  <2>2. Anchors(t, f)'
    BY <1>1, <1>11, <2>1 DEF Anchors
  <2>. QED  BY <1>3, <1>8, <2>2 DEF Anchored
<1>12. ASSUME NEW f \in File \ ConfFile, NEW q \in Pkgs, In(q), Anchors(q, f) PROVE Anchored(f)'
  <2>1. CASE q # Top.old
    <3>1. In(q)' /\ (Held(q) => Held(q)')
      BY <1>1, <1>12, <2>1 DEF In, Held
    <3>2. Name[q] \in abandoned => pc' # "lists"
      BY <1>1
    <3>3. Anchors(q, f)'
      BY <1>1, <1>7, <1>12, <3>1, <3>2 DEF Anchors, Own
    <3>. QED  BY <3>1, <3>3 DEF Anchored
  <2>2. CASE q = Top.old
    <3>1. Base = Top /\ Name[q] = Name[t]
      BY <1>1, <1>3, <1>4, <2>2
    <3>2. ~Promised(q)
      <4>1. Promised(q) => Name[q] \in Deps[t]
        BY <1>1, <1>2, <3>1 DEF Promised, Harmless, ToWrite, Base
      <4>. QED  BY <1>3, <3>1, <4>1, Constants
    <3>3. f \in list[Name[q]]
      BY <1>12, <3>2 DEF Anchors
    <3>4. owner[f] = t
      BY <1>3, <1>9, <2>2, <3>1, <3>3
    <3>. QED  BY <1>11, <1>12, <3>4
  <2>. QED  BY <2>1, <2>2
<1>13. Ghosts'
  <2>1. ASSUME NEW f \in File \ ConfFile, files[f] # None, f \notin litter PROVE Anchored(f)'
    BY <1>0, <1>1, <1>2, <1>11, <1>12, <2>1 DEF Ghosts, Anchored, InHand
  <2>. QED  BY <1>1, <2>1 DEF Ghosts
<1>. QED  BY <1>5, <1>6, <1>13 DEF GhostsInv

LEMMA EndHeld ==
  ASSUME EditInv, Ends
  PROVE  /\ pc = "pkg" => Top.pc \notin Brought
         /\ \A q \in Pkgs : Held(q) => Name[q] \in abandoned'
<1>0. "prepare" \notin Past /\ None \notin Pkgs /\ "rm_done" \notin Past
  BY Constants DEF Past, InstallPcs
<1>1. ASSUME abandoned' = abandoned \cup GivenUp(Range(stack)), NEW q \in Pkgs, Held(q) PROVE Name[q] \in abandoned'
  <2>1. PICK x \in Active : x.old = q /\ x.pc \in Past
    BY <1>1 DEF Held
  <2>. QED  BY <1>0, <1>1, <2>1, GivesUp
<1>2. CASE Fails
  <2>1. abandoned' = abandoned \cup GivenUp(Range(stack))
    BY <1>2, FailsStep
  <2>2. Top.pc \notin Brought
    BY <1>2 DEF Fails, PrepareFails, preinst_fails, backup_fails, clash_found, At, Brought
  <2>. QED  BY <1>1, <2>1, <2>2
<1>3. CASE sigint_handler
  <2>1. abandoned' = abandoned \cup GivenUp(Range(stack)) /\ (pc = "pkg" => Top.pc \notin Brought)
    BY <1>3 DEF sigint_handler, Brought
  <2>. QED  BY <1>1, <2>1
<1>4. CASE Removed
  <2>1. pc = "pkg" /\ Top.pc = "rm_done"
    BY <1>4 DEF Removed, At
  <2>2. Active = {Top}
    BY <2>1, CallShape DEF InstallPcs
  <2>. QED  BY <1>0, <2>1, <2>2 DEF Held, Brought
<1>5. CASE pc = "configure"
  BY <1>5 DEF Held, Active
<1>. QED  BY <1>2, <1>3, <1>4, <1>5 DEF Ends, opkg_configure, ConfigureDone

LEMMA EndGhosts ==
  ASSUME EditInv, GhostsInv, Ends
  PROVE  GhostsInv'
<1>0. Shelved /\ Leaves /\ Ghosts
  BY DEF GhostsInv
<1>1. /\ pc \in {"pkg", "configure"} /\ pc' \in {"configure", "status"}
      /\ UNCHANGED <<files, list, owner, changed, touched, litter>> /\ abandoned \subseteq abandoned'
      /\ dirty' \in {dirty, TRUE}
      /\ \A p \in Pkgs : In(p) => In(p)' \/ (pc = "pkg" /\ Top.pc = "rm_done" /\ p = Top.pkg)
  BY EndStep
<1>2. /\ pc = "pkg" => Top.pc \notin Brought
      /\ \A q \in Pkgs : Held(q) => Name[q] \in abandoned'
  BY EndHeld
<1>3. \A q \in Pkgs : Promised(q) => Promised(q)'
  BY <1>1 DEF Promised, Harmless, ToWrite
<1>4. ASSUME NEW f \in File \ ConfFile, NEW q \in Pkgs, In(q), Anchors(q, f) PROVE In(q)'
  <2>1. SUFFICES ASSUME pc = "pkg", Top.pc = "rm_done", q = Top.pkg PROVE FALSE
    BY <1>1, <1>4
  <2>2. Top = stack[1] /\ Base = Top
    BY <2>1, CallShape DEF InstallPcs
  <2>3. list[Name[q]] = {}
    BY <1>0, <2>1, <2>2 DEF Leaves, TopLeaves
  <2>4. Promised(q)
    BY <1>4, <2>3 DEF Anchors
  <2>5. Name[q] \in Deps[q]
    BY <2>1, <2>2, <2>4 DEF Promised, Harmless, ToWrite, Base
  <2>. QED  BY <2>5, Constants
<1>5. ASSUME NEW f \in File \ ConfFile, files[f] # None, f \notin litter PROVE Anchored(f)'
  <2>1. ~InHand(f)
    <3>1. pc = "pkg" => Top = stack[1]
      BY CallShape
    <3>. QED  BY <1>2, <3>1 DEF InHand
  <2>2. PICK q \in Pkgs : In(q) /\ Anchors(q, f)
    BY <1>0, <1>5, <2>1 DEF Ghosts, Anchored
  <2>3. In(q)'
    BY <1>4, <1>5, <2>2
  <2>4. Anchors(q, f)'
    BY <1>1, <1>2, <1>3, <2>2 DEF Anchors, Own
  <2>. QED  BY <2>3, <2>4 DEF Anchored
<1>6. Ghosts'
  BY <1>1, <1>5 DEF Ghosts
<1>. QED  BY <1>1, <1>6 DEF GhostsInv, Shelved, Leaves

LEMMA StatusGhosts ==
  ASSUME EditInv, GhostsInv, write_status_files
  PROVE  GhostsInv'
<1>0. Ghosts
  BY DEF GhostsInv
<1>1. /\ pc = "status" /\ pc' = "lists" /\ Active = {} /\ dirty = TRUE
      /\ litter' = litter \cup UNION {list[n] : n \in abandoned}
      /\ UNCHANGED <<files, list, mem, owner, changed, dirty, abandoned>>
  BY StatusStep
<1>2. ASSUME NEW f \in File \ ConfFile, files[f] # None, f \notin litter' PROVE Anchored(f)'
  <2>1. PICK q \in Pkgs : In(q) /\ Anchors(q, f)
    BY <1>0, <1>1, <1>2 DEF Ghosts, Anchored, InHand
  <2>2. ~Held(q) /\ (f \in list[Name[q]] => Name[q] \notin abandoned)
    BY <1>1, <1>2 DEF Held
  <2>3. owner[f] = q /\ (f \in list[Name[q]] \/ Promised(q))
    BY <2>1, <2>2 DEF Anchors
  <2>4. Promised(q) => Promised(q)'
    BY <1>1 DEF Promised, Harmless, ToWrite
  <2>. QED  BY <1>1, <2>1, <2>3, <2>4 DEF Anchored, Anchors, In
<1>. QED  BY <1>1, <1>2 DEF GhostsInv, Ghosts, Shelved, Leaves

LEMMA IdleGhosts ==
  ASSUME EditInv, GhostsInv, opkg_update \/ \E f \in ConfFile, e \in Edits : Edit(f, e)
  PROVE  GhostsInv'
<1>1. /\ pc = "idle" /\ pc' = "idle" /\ Active = {} /\ Active' = {}
      /\ UNCHANGED <<list, mem, owner, changed, dirty, touched, abandoned, litter>>
      /\ \A f \in File \ ConfFile : files'[f] = files[f]
  BY IdleStep
<1>2. \A q \in Pkgs, f \in File : Anchors(q, f) => Anchors(q, f)'
  BY <1>1 DEF Anchors, Promised, Harmless, ToWrite, Held, Own
<1>3. \A f \in File : Anchored(f) => Anchored(f)'
  BY <1>1, <1>2 DEF Anchored, In
<1>4. \A f \in File : ~InHand(f)
  BY <1>1 DEF InHand
<1>. QED  BY <1>1, <1>3, <1>4 DEF GhostsInv, Ghosts, Shelved, Leaves

(* The next process finds an owner for each file that an installed package lists. *)
LEMMA ReadGhosts ==
  ASSUME EditInv, Reads,
         \A f \in File \ ConfFile : files'[f] # None /\ f \notin litter' =>
            \E q \in Pkgs : db.st[q] # "not" /\ f \in list'[Name[q]]
  PROVE  GhostsInv'
<1>1. /\ pc' = "idle" /\ mem' = db /\ db \in Sums /\ preinstall_check(db, list')
  BY ReadStep
<1>2. /\ \A f \in File : owner'[f] # None =>
              owner'[f] \in Pkgs /\ db.st[owner'[f]] # "not" /\ f \in list'[Name[owner'[f]]]
      /\ \A f \in File, p \in Pkgs : db.st[p] # "not" /\ f \in list'[Name[p]] => owner'[f] # None
  BY <1>1, ReadFacts
<1>3. ASSUME NEW f \in File \ ConfFile, files'[f] # None, f \notin litter' PROVE Anchored(f)'
  <2>1. PICK r \in Pkgs : r = owner'[f] /\ db.st[r] # "not" /\ f \in list'[Name[r]]
    BY <1>2, <1>3
  <2>2. In(r)' /\ Anchors(r, f)'
    BY <1>1, <2>1 DEF In, Anchors
  <2>. QED  BY <2>2 DEF Anchored
<1>. QED  BY <1>1, <1>3 DEF GhostsInv, Ghosts, Shelved, Leaves

LEMMA NothingGhosts ==
  ASSUME EditInv, PhasesInv, GhostsInv, nothing_to_be_done
  PROVE  GhostsInv'
<1>1. pc = "status" /\ dirty = FALSE /\ UNCHANGED <<files, list, litter>>
  BY DEF nothing_to_be_done, disk, EditInv, Versions, Types, OwnerTypes
<1>2. touched = {} /\ Agreed /\ Ghosts
  BY <1>1 DEF PhasesInv, GhostsInv, Quiescent
<1>3. ASSUME NEW f \in File \ ConfFile, files'[f] # None, f \notin litter'
      PROVE  \E q \in Pkgs : db.st[q] # "not" /\ f \in list'[Name[q]]
  <2>1. PICK q \in Pkgs : In(q) /\ Anchors(q, f)
    BY <1>1, <1>2, <1>3 DEF Ghosts, Anchored, InHand
  <2>2. f \in list[Name[q]]
    BY <1>1, <2>1 DEF Anchors, Promised, Harmless
  <2>. QED  BY <1>1, <1>2, <2>1, <2>2 DEF Agreed, In
<1>. QED  BY <1>3, ReadGhosts DEF Reads

LEMMA CrashGhosts ==
  ASSUME EditInv, PhasesInv, GhostsInv, Crash
  PROVE  GhostsInv'
<1>1. /\ UNCHANGED <<files, list>>
      /\ litter' = litter \cup {f \in File : owner[f] # None /\ Name[owner[f]] \in touched \cup Unlisted}
  BY DEF Crash, disk
<1>2. Agreed /\ Touching /\ Ghosts /\ None \notin Pkgs
  BY Constants DEF PhasesInv, GhostsInv
<1>3. ASSUME NEW f \in File \ ConfFile, files'[f] # None, f \notin litter'
      PROVE  \E q \in Pkgs : db.st[q] # "not" /\ f \in list'[Name[q]]
  <2>1. files[f] # None /\ f \notin litter /\ (owner[f] # None => Name[owner[f]] \notin touched \cup Unlisted)
    BY <1>1, <1>3
  <2>2. ~InHand(f)
    <3>1. SUFFICES ASSUME InHand(f) PROVE FALSE
      OBVIOUS
    <3>2. pc = "pkg" /\ stack[1].pc \in Changing /\ owner[f] = stack[1].pkg
      BY <3>1 DEF InHand, Brought, Changing
    <3>3. stack[1].pkg \in Pkgs
      BY <3>2, TopCall
    <3>. QED  BY <1>2, <2>1, <3>2, <3>3 DEF Touching
  <2>3. PICK q \in Pkgs : In(q) /\ Anchors(q, f)
    BY <1>2, <1>3, <2>1, <2>2 DEF Ghosts, Anchored
  <2>4. Name[q] \notin touched /\ Name[q] \notin Unlisted
    BY <1>2, <2>1, <2>3 DEF Anchors, Own
  <2>5. ~Promised(q)
    BY <2>4 DEF Promised, Harmless, ToWrite, Unlisted
  <2>6. f \in list[Name[q]]
    BY <2>3, <2>5 DEF Anchors
  <2>. QED  BY <1>1, <1>2, <2>3, <2>4, <2>6 DEF Agreed, In
<1>. QED  BY <1>3, ReadGhosts DEF Reads

LEMMA WriteGhosts ==
  ASSUME EditInv, GhostsInv, pkg_write_changed_filelists
  PROVE  GhostsInv'
<1>1. /\ pc = "lists" /\ UNCHANGED <<files, litter>>
      /\ list' = [n \in Names |-> IF {p \in changed : Name[p] = n /\ Installed(p, mem)} = {} THEN list[n]
                                  ELSE {f \in File : owner[f] \in {p \in changed : Name[p] = n /\ Installed(p, mem)}}]
  BY DEF pkg_write_changed_filelists
<1>2. Ghosts /\ db.st = mem.st /\ Single(mem.st) /\ Types /\ changed \subseteq Pkgs
  BY <1>1 DEF GhostsInv, EditInv, DbLists, Versions, Types, OwnerTypes
<1>3. \A p \in Pkgs : (Installed(p, mem) <=> In(p)) /\ Name[p] \in Names
  BY <1>2, InstalledIs, Constants DEF In, Types
<1>4. ASSUME NEW f \in File \ ConfFile, files'[f] # None, f \notin litter'
      PROVE  \E q \in Pkgs : db.st[q] # "not" /\ f \in list'[Name[q]]
  <2>1. PICK q \in Pkgs : In(q) /\ Anchors(q, f)
    BY <1>1, <1>2, <1>4 DEF Ghosts, Anchored, InHand
  <2>2. owner[f] = q /\ (f \in list[Name[q]] \/ q \in changed)
    BY <1>1, <2>1 DEF Anchors, Held, Active, Promised, Harmless, ToWrite
  <2>3. {p \in changed : Name[p] = Name[q] /\ Installed(p, mem)} = IF q \in changed THEN {q} ELSE {}
    BY <1>2, <1>3, <2>1 DEF Single, In
  <2>4. f \in list'[Name[q]]
    BY <1>1, <1>3, <2>2, <2>3
  <2>. QED  BY <1>2, <2>1, <2>4 DEF In
<1>. QED  BY <1>4, ReadGhosts DEF Reads

LEMMA NextGhosts ==
  ASSUME EditInv, EditInv', PhasesInv, OwnersInv, TopInv, GhostsInv, [Next]_vars
  PROVE  GhostsInv'
<1>0. Quiescent /\ Touching /\ Obsolete /\ Shelved /\ Leaves /\ Ghosts
  BY DEF PhasesInv, OwnersInv, GhostsInv
<1>1. CASE UNCHANGED vars
  BY <1>1 DEF vars, GhostsInv, Shelved, Leaves, TopLeaves, Ghosts, Anchored, InHand, Anchors, Promised, Harmless, Held,
     ToWrite, Own, Active, Waits, Base, In
<1>2. CASE Reads
  BY <1>2, NothingGhosts, WriteGhosts, CrashGhosts DEF Reads
<1>3. CASE OnwardSteps
  BY <1>0, <1>3, OnwardShelved, OnwardLeaves, OnwardGhosts DEF GhostsInv
<1>. QED  BY <1>0, <1>1, <1>2, <1>3, StepCases, IdleGhosts, EndGhosts, StatusGhosts, BeginGhosts, PrepareGhosts,
             SatisfyGhosts, FinishGhosts

(* A data file that lies on the disk between two commands is in the list of an *)
(* installed package, or a mishap left it there (Opkg!NoGhostFiles).           *)
THEOREM NoGhosts == Spec => []NoGhostFiles
<1>1. Init => FilesInv /\ GhostsInv
  <2>. SUFFICES ASSUME Init PROVE GhostsInv
    BY InitFiles
  <2>1. pc = "idle" /\ files = [f \in File |-> None]
    BY DEF Init
  <2>. QED  BY <2>1 DEF GhostsInv, Shelved, Leaves, Ghosts
<1>2. FilesInv /\ GhostsInv /\ [Next]_vars => FilesInv' /\ GhostsInv'
  <2>. SUFFICES ASSUME FilesInv, GhostsInv, [Next]_vars PROVE FilesInv' /\ GhostsInv'
    OBVIOUS
  <2>1. EditInv /\ PhasesInv /\ OwnersInv /\ TopInv
    BY FilesInvIs
  <2>2. FilesInv' /\ EditInv'
    BY <2>1, NextFilesInv, NextEditInv
  <2>. QED  BY <2>1, <2>2, NextGhosts
<1>3. FilesInv /\ GhostsInv => NoGhostFiles
  <2>. SUFFICES ASSUME FilesInv, GhostsInv, pc = "idle", NEW f \in File \ ConfFile, files[f] # None, f \notin litter
                PROVE  \E p \in Pkgs : Installed(p, db) /\ f \in list[Name[p]]
    BY DEF NoGhostFiles, Rest
  <2>1. mem = db /\ abandoned = {} /\ db \in Sums
    BY DEF FilesInv, Quiescent, EditInv, Versions, Types
  <2>2. PICK q \in Pkgs : In(q) /\ Anchors(q, f)
    BY DEF GhostsInv, Ghosts, Anchored, InHand
  <2>3. f \in list[Name[q]]
    BY <2>2 DEF Anchors, Promised, Harmless, ToWrite
  <2>. QED  BY <2>1, <2>2, <2>3, InstalledIs DEF In
<1>. QED  BY <1>1, <1>2, <1>3, PTL DEF Spec

=============================================================================
